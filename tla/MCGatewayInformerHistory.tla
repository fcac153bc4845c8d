----------------------- MODULE MCGatewayInformerHistory -----------------------
(* The instances of GatewayInformer with its history variables.            *)
EXTENDS MCGatewayInformer, GatewayInformerHistory
===============================================================================
