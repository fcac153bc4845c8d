--------------------------- MODULE MCVpcDnsForward ----------------------------
(* Instances of VpcDnsForward for TLC.                                     *)
EXTENDS VpcDnsForward

CONSTANTS f1, f2, v1, v2
===============================================================================
