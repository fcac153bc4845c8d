---------------------------- MODULE MCVpcNatTunnel ----------------------------
(* Instances of VpcNatTunnel for TLC.                                      *)
EXTENDS VpcNatTunnel

CONSTANTS g1, g2, t1, t2, p1, p2, c1, c2, lan1, lan2, r1, r2, i1, i2, i3

\* Gateway g_n starts with address i_n.
MCInitIP == [g \in Gateway |-> IF g = g1 THEN i1 ELSE i2]

\* All gateways in one subnet, or each in its own.
OneSubnet  == [g \in Gateway |-> lan1]
TwoSubnets == [g \in Gateway |-> IF g = g1 THEN lan1 ELSE lan2]

\* The peers' clusters: one globalnet CIDR each, or all in one cluster.
TwoClusters == [p \in Peer |-> IF p = p1 THEN c1 ELSE c2]
OneCluster  == [p \in Peer |-> c1]

\* No tunnel carries the labels "vid" and "vx-port".
DefaultVid == [t \in Tunnel |-> "100/4789"]

\* Every tunnel has an id and a port of its own.
OwnVid == [t \in Tunnel |-> IF t = t1 THEN "100/4789" ELSE "101/4790"]
===============================================================================
