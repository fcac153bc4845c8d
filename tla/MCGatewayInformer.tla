-------------------------- MODULE MCGatewayInformer ---------------------------
(* Instances of GatewayInformer for TLC.                                   *)
EXTENDS GatewayInformer

CONSTANTS g1, g2, g3, t1, t2, i1, i2, i3, i4
\* Gateway g_n starts with address i_n.
MCInitIP == [g \in Gateway |-> CASE g = g1 -> i1 [] g = g2 -> i2 [] OTHER -> i3]
===============================================================================
