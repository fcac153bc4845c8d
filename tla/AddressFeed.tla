----------------------------- MODULE AddressFeed ------------------------------
(***************************************************************************)
(* What the exchange of GatewayExIps promises to the tunnels of a cluster, *)
(* without broker, copies and caches: every peer announces one address     *)
(* after the other, and the remote end of a tunnel walks along the         *)
(* announcements of its peer.  It may be late and may leave some out, but  *)
(* it never goes back, and what others write to the tunnel is not undone.  *)
(* Only a tunnel that has just got another peer is still at the old one's. *)
(***************************************************************************)
EXTENDS Naturals, Sequences

CONSTANTS Peer, IP, Tunnel, None

VARIABLES
    log,  \* addresses each peer has announced, the present one last
    tun   \* peer of each tunnel, announcement its address is from, last edit by others

vars == <<log, tun>>

Object == [peer : Peer, from : Peer, ver : Nat, edit : Nat]

Init == log = [p \in Peer |-> <<>>] /\ tun = [t \in Tunnel |-> None]

Announce(p, i) == log' = [log EXCEPT ![p] = Append(@, i)] /\ UNCHANGED tun

\* A tunnel gets its peer, and an address that one has announced.
Attach(t) ==
    /\ tun[t] = None /\ tun'[t] \in Object
    /\ tun'[t].from = tun'[t].peer /\ tun'[t].ver \in 1..Len(log[tun'[t].peer])

\* Others write anything but the address, also another peer.
Edit(t) ==
    /\ tun[t] # None /\ tun'[t] \in Object
    /\ tun'[t] = [tun[t] EXCEPT !.peer = tun'[t].peer, !.edit = tun'[t].edit]
    /\ tun[t].edit < tun'[t].edit

Remove(t) == tun'[t] = None

Forward(t) ==
    /\ tun[t] # None /\ tun'[t] \in Object
    /\ tun'[t] = [tun[t] EXCEPT !.from = tun[t].peer, !.ver = tun'[t].ver]
    /\ tun'[t].ver \in 1..Len(log[tun[t].peer])
    /\ tun[t].from = tun[t].peer => tun[t].ver < tun'[t].ver

Change(t) ==
    /\ Attach(t) \/ Edit(t) \/ Remove(t) \/ Forward(t)
    /\ tun' = [tun EXCEPT ![t] = tun'[t]] /\ UNCHANGED log

Next == (\E p \in Peer, i \in IP : Announce(p, i)) \/ \E t \in Tunnel : Change(t)

Spec == Init /\ [][Next]_vars
===============================================================================
