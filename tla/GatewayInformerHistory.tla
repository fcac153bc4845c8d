------------------------ MODULE GatewayInformerHistory ------------------------
(***************************************************************************)
(* The gateway informer with two history variables, which record what the  *)
(* gateways have been through; they are what PrimaryGateway speaks of, and *)
(* no step of the informer depends on them.                                *)
(***************************************************************************)
EXTENDS GatewayInformer

VARIABLES
    been,  \* endpoints gateways have been up with
    lost   \* gateways that have failed or been deleted at some time

hvars == <<vars, been, lost>>

UpNow(view) == {[gw |-> g, ip |-> view[g].ip] : g \in {g \in Gateway : Available(view, g)}}

LostNow == {g \in Gateway : sts'[g].st # sts[g].st /\ sts[g].st # "absent"
                                                   /\ sts'[g].st # "up"}

HInit == Init /\ been = UpNow(sts) /\ lost = {}

HNext == Next /\ been' = been \cup UpNow(sts') /\ lost' = lost \cup LostNow

HSpec == HInit /\ [][HNext]_hvars

PG == INSTANCE PrimaryGateway WITH primary <- exip

\* The informer implements the primary gateway of PrimaryGateway, whatever it reads
\* from old caches and wherever its handlers break off: it announces, routes to and
\* builds on real endpoints only, and it takes the primary role off a gateway, or
\* withdraws the GatewayExIp without a look at its resourceVersion, only when the
\* gateway it names at that moment has been lost.
KeepsPrimary == PG!Spec
===============================================================================
