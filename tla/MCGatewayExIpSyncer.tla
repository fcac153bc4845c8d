------------------------- MODULE MCGatewayExIpSyncer --------------------------
(* Instances of GatewayExIpSyncer for TLC.                                 *)
EXTENDS GatewayExIpSyncer

CONSTANTS va, vb, c2, i1, i2, t1, t2

\* Two VPCs of another cluster.
TwoPeers == {[vpc |-> <<v>>, cluster |-> c2] : v \in {va, vb}}

OnePeer == {[vpc |-> <<va>>, cluster |-> c2]}

\* A VPC whose name has a dot.
DottedPeer == {[vpc |-> <<va, vb>>, cluster |-> c2]}

AllLabels == {va, vb, c2}
===============================================================================
