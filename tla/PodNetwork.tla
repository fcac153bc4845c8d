------------------------------ MODULE PodNetwork ------------------------------
(***************************************************************************)
(* The network namespace of one VPC NAT gateway pod, and what the shell    *)
(* commands the operator executes in it do to it.                          *)
(*                                                                         *)
(* Every command line the operator sends is a list of commands joined with *)
(* ";": the shell runs all of them, and execCommandInPod reports an error  *)
(* as soon as one of them has written to stderr.  So each command line has *)
(* two operators here: what it leaves behind (also when it fails part way) *)
(* and whether it is reported as a success.                                *)
(***************************************************************************)
EXTENDS Naturals

CONSTANTS
    Tunnel,   \* names of VpcNatTunnel objects; also the names of the devices
    CIDR,     \* globalnet CIDRs of the remote clusters
    VidPort,  \* [Tunnel -> the vxlan id and UDP port its labels ask for]
    None      \* absent value

(***************************************************************************)
(* link:   the tunnel devices, by name                                     *)
(* inflow: next hop of the route for the local globalnet CIDR.  The route  *)
(*         has the same destination for every tunnel of the gateway        *)
(* out:    the device the route for a remote globalnet CIDR points to      *)
(* snat:   how many (identical) SNAT rules exist for a remote CIDR         *)
(***************************************************************************)
EmptyNet ==
    [link   |-> [t \in Tunnel |-> None],
     inflow |-> None,
     out    |-> [c \in CIDR |-> None],
     snat   |-> [c \in CIDR |-> 0]]

\* CreateTunnelOperation: anything that is not "vxlan" is built as gre.
Kind(type) == IF type = "vxlan" THEN "vxlan" ELSE "gre"

\* The kernel refuses a second gre device with the same end points, and a
\* second vxlan device with the same id and port.
KeyInUse(n, t, o) ==
    \E u \in Tunnel \ {t} :
        /\ n.link[u] # None
        /\ n.link[u].kind = Kind(o.spec.type)
        /\ IF Kind(o.spec.type) = "vxlan"
             THEN VidPort[u] = VidPort[t]
             ELSE /\ n.link[u].remote = o.status.remoteIP
                  /\ n.link[u].local = o.status.internalIP

NewLink(o) ==
    [kind   |-> Kind(o.spec.type),
     remote |-> o.status.remoteIP,
     local  |-> o.status.internalIP,
     addrs  |-> {o.status.interfaceAddr}]

\* "ip tunnel add / ip link add; ip link set up; ip addr add".  If the device
\* is already there the first command fails and the last still adds its address.
CreateTunnelOk(n, t, o) == n.link[t] = None /\ ~KeyInUse(n, t, o)

CreateTunnel(n, t, o) ==
    CASE CreateTunnelOk(n, t, o) -> [n EXCEPT !.link[t] = NewLink(o)]
      [] n.link[t] # None        ->
            [n EXCEPT !.link[t].addrs = @ \cup {o.status.interfaceAddr}]
      [] OTHER                   -> n

\* Mutant: the two delete commands are swapped.
DeleteTunnelSwapped(n, t, o) ==
    /\ n.link[t] # None
    /\ Kind(o.spec.type) = "vxlan" => n.link[t].kind = "gre"
    /\ Kind(o.spec.type) = "gre" => n.link[t].kind = "vxlan"

\* "ip tunnel del" removes only gre devices, "ip link del" any device.  The
\* routes through the device go with it.
DeleteTunnelOk(n, t, o) ==
    /\ n.link[t] # None
    /\ Kind(o.spec.type) = "gre" => n.link[t].kind = "gre"

DeleteTunnel(n, t, o) ==
    IF DeleteTunnelOk(n, t, o)
      THEN [n EXCEPT !.link[t] = None,
                     !.out = [c \in CIDR |-> IF n.out[c] = t THEN None ELSE n.out[c]]]
      ELSE n

\* Mutant: an error of the commands goes unnoticed.
AddRouteNoError(n, t, o, lan) == TRUE

\* Mutant: the SNAT rule is left out.
AddRouteNoSnat(n, t, o, lan) ==
    [n EXCEPT
       !.inflow = IF @ = None /\ o.status.ovnGwIP = lan THEN lan ELSE @,
       !.out[o.status.remoteCIDR] = IF @ = None /\ n.link[t] # None THEN t ELSE @]

\* Mutant: "ip route replace" instead of "ip route add".
AddRouteReplaces(n, t, o, lan) ==
    [n EXCEPT
       !.inflow = IF o.status.ovnGwIP = lan THEN lan ELSE @,
       !.out[o.status.remoteCIDR] = IF n.link[t] # None THEN t ELSE @,
       !.snat[o.status.remoteCIDR] = @ + 1]

\* genGlobalnetRoute: "ip route add local globalnet via ovn gateway; ip route
\* add remote globalnet dev tunnel; iptables -A".  lan is the gateway address of
\* the subnet the pod is in: a next hop outside that subnet is refused.
AddRouteOk(n, t, o, lan) ==
    /\ n.inflow = None /\ o.status.ovnGwIP = lan
    /\ n.out[o.status.remoteCIDR] = None /\ n.link[t] # None

AddRoute(n, t, o, lan) ==
    [n EXCEPT
       !.inflow = IF @ = None /\ o.status.ovnGwIP = lan THEN lan ELSE @,
       !.out[o.status.remoteCIDR] = IF @ = None /\ n.link[t] # None THEN t ELSE @,
       !.snat[o.status.remoteCIDR] = @ + 1]

\* genDelGlobalnetRoute: "ip route del; ip route del; iptables -D".
DelRouteOk(n, t, o) ==
    /\ n.inflow = o.status.ovnGwIP
    /\ n.out[o.status.remoteCIDR] = t
    /\ n.snat[o.status.remoteCIDR] > 0

DelRoute(n, t, o) ==
    [n EXCEPT
       !.inflow = IF @ = o.status.ovnGwIP THEN None ELSE @,
       !.out[o.status.remoteCIDR] = IF @ = t THEN None ELSE @,
       !.snat[o.status.remoteCIDR] = IF @ > 0 THEN @ - 1 ELSE 0]

\* The pod forwards the traffic of tunnel t the way status s says.
Carries(n, t, s) ==
    /\ n.link[t] # None
    /\ n.link[t].kind = Kind(s.type)
    /\ n.link[t].remote = s.remoteIP
    /\ n.link[t].local = s.internalIP
    /\ s.interfaceAddr \in n.link[t].addrs
    /\ n.out[s.remoteCIDR] = t
    /\ n.inflow = s.ovnGwIP
    /\ n.snat[s.remoteCIDR] > 0
===============================================================================
