---------------------------- MODULE PrimaryGateway ----------------------------
(***************************************************************************)
(* What the gateway informer promises to one VPC, its tunnels and its      *)
(* peers, without its queue, its caches and its half-done handlers, and    *)
(* what the VpcNatTunnel reconciler promises to the informer, without its  *)
(* commands and its writes: the contract between the two.                  *)
(*                                                                         *)
(* The VPC has at most one primary gateway.  Only an endpoint a gateway    *)
(* has really been up with is ever announced, no gateway loses the         *)
(* primary role unless it was lost, and peers hear of a new primary        *)
(* after the routes lead to it.  Nothing is promised about when.           *)
(***************************************************************************)
CONSTANTS Gateway, IP, Tunnel, None

VARIABLES
    been,     \* endpoints gateways have been up with
    lost,     \* gateways that have failed or been deleted at some time
    route,    \* the gateway the static routes lead to
    primary,  \* the endpoint announced
    tun       \* the endpoint each tunnel is asked to use

vars == <<been, lost, route, primary, tun>>

Endpoint == [gw : Gateway, ip : IP]

Init ==
    /\ been \in SUBSET Endpoint /\ lost = {}
    /\ route \in Gateway \cup {None}
    /\ primary \in been \cup {None} /\ tun = [t \in Tunnel |-> None]

-------------------------------------------------------------------------------
(* The gateways *)

ComesUp(e) == been' = been \cup {e} /\ UNCHANGED <<lost, route, primary, tun>>

IsLost(g) == lost' = lost \cup {g} /\ UNCHANGED <<been, route, primary, tun>>

-------------------------------------------------------------------------------
(* The primary *)

Announce(e) ==
    /\ primary = None /\ e \in been
    /\ primary' = e
    /\ UNCHANGED <<been, lost, route, tun>>

\* The primary has come back with another address.
Readdress(e) ==
    /\ primary # None /\ e \in been /\ e.gw = primary.gw
    /\ primary' = e
    /\ UNCHANGED <<been, lost, route, tun>>

TakeOver(e) ==
    /\ primary # None /\ primary.gw \in lost /\ e \in been
    /\ route \in {None, e.gw}
    /\ primary' = e
    /\ UNCHANGED <<been, lost, route, tun>>

Withdraw ==
    /\ primary # None /\ primary.gw \in lost
    /\ primary' = None
    /\ UNCHANGED <<been, lost, route, tun>>

\* The first half of a take-over; the second half may never come.
Reroute(e) ==
    /\ route # None /\ lost # {} /\ e \in been
    /\ route' = e.gw
    /\ UNCHANGED <<been, lost, primary, tun>>

-------------------------------------------------------------------------------
(* The tunnels *)

\* A tunnel has been built on a gateway that was the primary one when it began.
Label(t, e) ==
    /\ tun[t] = None /\ e \in been
    /\ tun' = [tun EXCEPT ![t] = e]
    /\ UNCHANGED <<been, lost, route, primary>>

\* It follows a take-over, or only the new address of its gateway.
Follow(t, g) ==
    /\ tun[t] # None /\ primary # None /\ g \in {tun[t].gw, primary.gw}
    /\ tun' = [tun EXCEPT ![t] = [gw |-> g, ip |-> primary.ip]]
    /\ UNCHANGED <<been, lost, route, primary>>

\* A tunnel is taken down and its object released.
Gone(t) ==
    /\ tun[t] # None
    /\ tun' = [tun EXCEPT ![t] = None]
    /\ UNCHANGED <<been, lost, route, primary>>

Next ==
    \/ Withdraw
    \/ \E e \in Endpoint :
          ComesUp(e) \/ Announce(e) \/ Readdress(e) \/ TakeOver(e) \/ Reroute(e)
    \/ \E g \in Gateway : IsLost(g)
    \/ \E t \in Tunnel :
          \/ Gone(t)
          \/ \E e \in Endpoint : Label(t, e)
          \/ \E g \in Gateway : Follow(t, g)

Spec == Init /\ [][Next]_vars
===============================================================================
