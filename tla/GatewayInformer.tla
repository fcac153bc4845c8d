---------------------------- MODULE GatewayInformer ----------------------------
(***************************************************************************)
(* The gateway informer: it watches the StatefulSets of the VPC NAT        *)
(* gateways and keeps one of them the primary gateway of its VPC.  The     *)
(* primary is the one the VPC's static routes lead to, the GatewayExIp     *)
(* names, and the VpcNatTunnels of the VPC are built on.                   *)
(*                                                                         *)
(* The handlers run one after the other, once per event; one that meets an *)
(* error returns, and its event is never seen again.  The events come from *)
(* a watch of the informer's own, but what the handlers read comes from    *)
(* the manager's cache, which follows the API server kind by kind.  So a   *)
(* handler may see an old gateway, an old GatewayExIp or old tunnels, and  *)
(* an update it makes of an old copy is refused by the API server.         *)
(*                                                                         *)
(* One VPC is modelled: handlers touch only gateways with the same         *)
(* logical_router, and GatewayExIps and tunnels of that VPC.               *)
(***************************************************************************)
EXTENDS Naturals, Sequences, FiniteSets

CONSTANTS
    Gateway,     \* names of VPC NAT gateways, and the LanIP of each
    IP,          \* addresses in ovn-vpc-external-network
    InitIP,      \* [Gateway -> IP], the addresses at the start
    Tunnel,      \* VpcNatTunnels of the VPC
    None,        \* absent value
    StaleReads,  \* a handler may begin before the cache has caught up
    Overlap,     \* gateways fail, go and are built upon while others are down, and
                 \* tunnels are deleted while a handler runs
    MaxFaults,   \* bound: failed calls, lost answers and restarts of the operator
    MaxOutages,  \* bound: gateways that become unavailable
    MaxEvents    \* bound: gateways created and deleted

VARIABLES
    sts,         \* StatefulSet of each gateway, and the address of its pod
    route,       \* next hop of the VPC's static routes, None if it has none
    exip,        \* the GatewayExIp: label localGateway and ExternalIP
    tun,         \* LocalGw and InternalIP of the tunnels that have their labels
    build,       \* what a first build that is not yet labelled started from
    seenSts, seenRoute, seenExIp, seenTun,  \* the manager's cache of these
    queue,       \* events not yet handled
    pc,          \* next call of the running handler, "idle" if none
    job,         \* local variables of the running handler
    faults, outages, events

api   == <<sts, route, exip, tun, build>>
seen  == <<seenSts, seenRoute, seenExIp, seenTun>>
count == <<outages, events>>
vars  == <<api, seen, queue, pc, job, faults, count>>

-------------------------------------------------------------------------------
Endpoint == [gw : Gateway, ip : IP]

StatefulSets == [Gateway -> [st : {"absent", "down", "up"}, ip : IP]]

\* A cached object; fresh: nobody has written it since.
Cached(S) == [val : S, fresh : BOOLEAN]

\* AddFunc with AvailableReplicas 1 and 0, UpdateFunc from 1 to 0 and from 0 to 1,
\* DeleteFunc.
Notice == [kind : {"addedUp", "added", "failed", "restarted", "deleted"}, gw : Gateway]

\* next, ip: the gateway to become (or stay) primary and its address; route, exip,
\* fresh: the copies of the Vpc, the GatewayExIp and the tunnels that nobody has
\* written since; todo: the tunnels still to be patched.
Job == [kind : {"addedUp", "failed", "restarted", "deleted"}, gw : Gateway,
        next : Gateway, ip : IP, route : BOOLEAN, exip : BOOLEAN,
        todo : SUBSET Tunnel, fresh : SUBSET Tunnel]

NoJob == None

Calls == {"create", "delete", "updateVpc", "updateExIp", "list", "patch"}

Available(view, g) == view[g].st = "up"

\* The informer lists the gateways there are, in some order.
Relisted(view) ==
    LET there == {g \in Gateway : view[g].st # "absent"} IN
    {[i \in 1..Cardinality(there) |->
        [kind |-> IF Available(view, f[i]) THEN "addedUp" ELSE "added", gw |-> f[i]]] :
     f \in {f \in [1..Cardinality(there) -> there] :
              \A i, j \in 1..Cardinality(there) : f[i] = f[j] => i = j}}

ASSUME ConstantsOK ==
    /\ IsFiniteSet(Gateway) /\ InitIP \in [Gateway -> IP]
    /\ None \notin Gateway \cup Endpoint \cup Job
    /\ MaxFaults \in Nat /\ MaxOutages \in Nat /\ MaxEvents \in Nat

Init ==
    /\ sts \in StatefulSets /\ \A g \in Gateway : sts[g].ip = InitIP[g]
    /\ route \in Gateway \cup {None}
    /\ exip = None
    /\ tun = [t \in Tunnel |-> None] /\ build = [t \in Tunnel |-> None]
    /\ seenSts = sts
    /\ seenRoute = [val |-> route, fresh |-> TRUE]
    /\ seenExIp = [val |-> exip, fresh |-> TRUE]
    /\ seenTun = [t \in Tunnel |-> [val |-> None, fresh |-> TRUE]]
    /\ queue \in Relisted(sts)
    /\ pc = "idle" /\ job = NoJob
    /\ faults = 0 /\ outages = 0 /\ events = 0

-------------------------------------------------------------------------------
(* How a call of the running handler ends *)

\* The handler returns, with an error or without.
Stop == pc' = "idle" /\ job' = NoJob

Fault == faults < MaxFaults /\ faults' = faults + 1

\* The call was carried out; its answer arrives, or is lost.
Answer(next, j) ==
    \/ /\ IF next = "idle" THEN Stop ELSE pc' = next /\ job' = j
       /\ UNCHANGED faults
    \/ Stop /\ Fault

Refused == Stop /\ UNCHANGED <<api, seen, faults>>

-------------------------------------------------------------------------------
(* The handlers: what they read *)

CaughtUp ==
    /\ seenSts = sts /\ seenRoute.fresh /\ seenExIp.fresh
    /\ \A t \in Tunnel : seenTun[t].fresh

Takes(kind, g) ==
    /\ pc = "idle" /\ queue # <<>>
    /\ StaleReads \/ CaughtUp
    /\ Head(queue) = [kind |-> kind, gw |-> g]
    /\ queue' = Tail(queue)

Local == UNCHANGED <<api, seen, faults, count>>

Ignored == UNCHANGED <<pc, job>>

\* The handler found its GatewayExIp by the label localGateway.
IsPrimary(g) == seenExIp.val # None /\ seenExIp.val.gw = g

Labelled == {t \in Tunnel : seenTun[t].val # None}

Begin(kind, g, next, call) ==
    /\ pc' = call
    /\ job' = [kind |-> kind, gw |-> g, next |-> next, ip |-> seenSts[next].ip,
               route |-> seenRoute.fresh, exip |-> seenExIp.fresh,
               todo |-> IF kind = "failed" THEN Labelled ELSE {},
               fresh |-> {t \in Tunnel : seenTun[t].fresh}]

\* AddFunc: the first gateway of a VPC whose routes lead to it.
HandleAddedUp(g) ==
    /\ Takes("addedUp", g)
    /\ IF seenExIp.val = None /\ seenRoute.val \in {None, g} /\ seenSts[g].st # "absent"
         THEN Begin("addedUp", g, g, "create")
         ELSE Ignored
    /\ Local

HandleAdded(g) == Takes("added", g) /\ Ignored /\ Local

\* Mutant: a standby need not be available.
StandbyAny(g) == {h \in Gateway \ {g} : seenSts[h].st # "absent"}

Standby(g) == {h \in Gateway \ {g} : Available(seenSts, h)}

\* Mutant: the GatewayExIp is written before the Vpc.
FirstCallExIp == "updateExIp"

FirstCall == "updateVpc"

\* UpdateFunc, from 1 to 0: a standby takes over from the primary.
HandleFailed(g) ==
    /\ Takes("failed", g)
    /\ \/ IsPrimary(g) /\ \E h \in Standby(g) : Begin("failed", g, h, FirstCall)
       \/ ~(IsPrimary(g) /\ Standby(g) # {}) /\ Ignored
    /\ Local

\* UpdateFunc, from 0 to 1: the primary is back.  A pod that is not yet seen
\* Running may be an error.
HandleRestarted(g) ==
    /\ Takes("restarted", g)
    /\ \/ /\ IsPrimary(g) /\ seenSts[g].st # "absent"
          /\ Begin("restarted", g, g, "updateExIp")
       \/ ~(IsPrimary(g) /\ seenSts[g].st = "up") /\ Ignored
    /\ Local

\* DeleteFunc: as after a failure, but the name of the gateway is not excluded, and
\* without a standby the GatewayExIp goes too.
HandleDeleted(g) ==
    /\ Takes("deleted", g)
    /\ IF ~IsPrimary(g) THEN Ignored
         ELSE LET able == {h \in Gateway : Available(seenSts, h)} IN
              IF able = {} THEN Begin("deleted", g, g, "delete")
                ELSE \E h \in able : Begin("deleted", g, h, FirstCall)
    /\ Local

-------------------------------------------------------------------------------
(* The handlers: what they write *)

CreateExIp ==
    /\ pc = "create"
    /\ \/ /\ exip = None
          /\ exip' = [gw |-> job.next, ip |-> job.ip]
          /\ seenExIp' = [seenExIp EXCEPT !.fresh = FALSE]
          /\ Answer("idle", job)
          /\ UNCHANGED <<sts, route, tun, build, seenSts, seenRoute, seenTun>>
       \/ exip # None /\ Refused
    /\ UNCHANGED <<queue, count>>

\* Delete carries no resourceVersion.
DeleteExIp ==
    /\ pc = "delete"
    /\ exip' = None
    /\ seenExIp' = [seenExIp EXCEPT !.fresh = @ /\ exip = None]
    /\ Answer("idle", job)
    /\ UNCHANGED <<sts, route, tun, build, seenSts, seenRoute, seenTun, queue, count>>

\* The next hop of every static route the Vpc has.
UpdateVpc ==
    /\ pc = "updateVpc"
    /\ \/ /\ job.route
          /\ route' = IF route = None THEN None ELSE job.next
          /\ seenRoute' = [seenRoute EXCEPT !.fresh = @ /\ route' = route]
          /\ Answer("updateExIp", job)
          /\ UNCHANGED <<sts, exip, tun, build, seenSts, seenExIp, seenTun>>
       \/ ~job.route /\ Refused
    /\ UNCHANGED <<queue, count>>

AfterList(todo) == IF todo = {} THEN "idle" ELSE "patch"

AfterExIp == IF job.kind = "failed" THEN AfterList(job.todo) ELSE "list"

\* Mutant: the update does not look at the resourceVersion.
ExIpAccepted == TRUE

ExIpCurrent == job.exip

\* Mutant: an update that was refused goes unnoticed.
ExIpRefusedUnnoticed ==
    /\ IF AfterExIp = "idle" THEN Stop ELSE pc' = AfterExIp /\ job' = job
    /\ UNCHANGED <<api, seen, faults>>

ExIpRefused == Refused

UpdateExIp ==
    /\ pc = "updateExIp"
    /\ \/ /\ ExIpCurrent
          /\ exip' = [gw |-> job.next, ip |-> job.ip]
          /\ seenExIp' = [seenExIp EXCEPT !.fresh = @ /\ exip' = exip]
          /\ Answer(AfterExIp, job)
          /\ UNCHANGED <<sts, route, tun, build, seenSts, seenRoute, seenTun>>
       \/ ~ExIpCurrent /\ ExIpRefused
    /\ UNCHANGED <<queue, count>>

\* After a restart and a deletion the tunnels are listed only now.
ListTunnels ==
    /\ pc = "list"
    /\ IF Labelled = {} THEN Stop
         ELSE /\ pc' = "patch"
              /\ job' = [job EXCEPT !.todo = Labelled,
                                    !.fresh = {t \in Tunnel : seenTun[t].fresh}]
    /\ UNCHANGED <<queue, api, seen, faults, count>>

\* Mutant: only the name of the gateway is patched.
PatchedNoIP(t) == [tun[t] EXCEPT !.gw = job.next]

\* Mutant: the two fields are swapped.
PatchedSwapped(t) == [gw |-> job.ip, ip |-> job.next]

\* A restart leaves LocalGw alone.
Patched(t) ==
    IF job.kind = "restarted" THEN [tun[t] EXCEPT !.ip = job.ip]
      ELSE [gw |-> job.next, ip |-> job.ip]

PatchTunnel(t) ==
    /\ pc = "patch" /\ t \in job.todo
    /\ \/ /\ t \in job.fresh
          /\ tun' = [tun EXCEPT ![t] = Patched(t)]
          /\ seenTun' = [seenTun EXCEPT ![t].fresh = @ /\ tun' = tun]
          /\ Answer(AfterList(job.todo \ {t}), [job EXCEPT !.todo = @ \ {t}])
          /\ UNCHANGED <<sts, route, exip, build, seenSts, seenRoute, seenExIp>>
       \/ t \notin job.fresh /\ Refused
    /\ UNCHANGED <<queue, count>>

-------------------------------------------------------------------------------
(* Failures of the operator *)

\* Any call of the handler returns an error without having been carried out.
CallFails ==
    /\ pc # "idle" /\ Stop /\ Fault
    /\ UNCHANGED <<queue, api, seen, count>>

\* So does one of the reads a handler begins with.
ReadFails ==
    /\ pc = "idle" /\ queue # <<>> /\ Fault
    /\ queue' = Tail(queue)
    /\ UNCHANGED <<pc, job, api, seen, count>>

\* A restart: what happened meanwhile is lost, the gateways there are come as added.
Restart ==
    /\ Stop /\ Fault
    /\ queue' \in Relisted(sts)
    /\ seenSts' = sts
    /\ seenRoute' = [val |-> route, fresh |-> TRUE]
    /\ seenExIp' = [val |-> exip, fresh |-> TRUE]
    /\ seenTun' = [t \in Tunnel |-> [val |-> tun[t], fresh |-> TRUE]]
    /\ UNCHANGED <<api, count>>

Synced == UNCHANGED <<api, queue, pc, job, faults, count>>

SyncSts ==
    /\ seenSts # sts /\ seenSts' = sts
    /\ UNCHANGED <<seenRoute, seenExIp, seenTun>> /\ Synced

SyncRoute ==
    /\ ~seenRoute.fresh /\ seenRoute' = [val |-> route, fresh |-> TRUE]
    /\ UNCHANGED <<seenSts, seenExIp, seenTun>> /\ Synced

SyncExIp ==
    /\ ~seenExIp.fresh /\ seenExIp' = [val |-> exip, fresh |-> TRUE]
    /\ UNCHANGED <<seenSts, seenRoute, seenTun>> /\ Synced

SyncTunnel(t) ==
    /\ ~seenTun[t].fresh
    /\ seenTun' = [seenTun EXCEPT ![t] = [val |-> tun[t], fresh |-> TRUE]]
    /\ UNCHANGED <<seenSts, seenRoute, seenExIp>> /\ Synced

-------------------------------------------------------------------------------
(* Gateways *)

Quiet == pc = "idle" /\ queue = <<>>

AllUp == \A g \in Gateway : sts[g].st # "down"

Outage == outages < MaxOutages /\ outages' = outages + 1 /\ UNCHANGED events
Event  == events < MaxEvents /\ events' = events + 1 /\ UNCHANGED outages

Becomes(g, st, kind) ==
    /\ sts' = [sts EXCEPT ![g].st = st]
    /\ queue' = Append(queue, [kind |-> kind, gw |-> g])
    /\ UNCHANGED <<route, exip, tun, build, seen, pc, job, faults>>

NotBuilding == \A t \in Tunnel : build[t] = None

May == Overlap \/ (AllUp /\ NotBuilding)

\* The StatefulSet is created before its pod runs.
GatewayCreated(g) ==
    /\ sts[g].st = "absent" /\ May /\ Event
    /\ Becomes(g, "down", "added")

GatewayFails(g) ==
    /\ Available(sts, g) /\ May /\ Outage
    /\ Becomes(g, "down", "failed")

\* The same pod or a new one, perhaps with another address.
GatewayReturns(g, i) ==
    /\ sts[g].st = "down" /\ \A h \in Gateway \ {g} : sts[h].ip # i
    /\ sts' = [sts EXCEPT ![g] = [st |-> "up", ip |-> i]]
    /\ queue' = Append(queue, [kind |-> "restarted", gw |-> g])
    /\ UNCHANGED <<route, exip, tun, build, seen, pc, job, faults, count>>

GatewayDeleted(g) ==
    /\ sts[g].st # "absent" /\ May /\ Event
    /\ Becomes(g, "absent", "deleted")

-------------------------------------------------------------------------------
(* The VpcNatTunnel reconciler: a first build, from GatewayExIp to labels, *)
(* and the end of a tunnel                                                *)

TunnelBuilds(t) ==
    /\ tun[t] = None /\ build[t] = None /\ seenExIp.val # None
    /\ Overlap \/ (Quiet /\ AllUp /\ CaughtUp)
    /\ LET g == seenExIp.val.gw IN
       build' = [build EXCEPT ![t] = [gw |-> g, ip |-> seenSts[g].ip]]
    /\ UNCHANGED <<sts, route, exip, tun, seen, queue, pc, job, faults, count>>

TunnelLabelled(t) ==
    /\ build[t] # None
    /\ tun' = [tun EXCEPT ![t] = build[t]]
    /\ build' = [build EXCEPT ![t] = None]
    /\ seenTun' = [seenTun EXCEPT ![t].fresh = FALSE]
    /\ job' = IF pc = "idle" THEN job ELSE [job EXCEPT !.fresh = @ \ {t}]
    /\ UNCHANGED <<sts, route, exip, seenSts, seenRoute, seenExIp, queue, pc, faults, count>>

\* A tunnel is deleted, built or not: an update of it is refused from now on.
TunnelReleased(t) ==
    /\ tun[t] # None \/ build[t] # None
    /\ Overlap \/ pc = "idle"
    /\ tun' = [tun EXCEPT ![t] = None]
    /\ build' = [build EXCEPT ![t] = None]
    /\ seenTun' = [seenTun EXCEPT ![t].fresh = @ /\ tun' = tun]
    /\ job' = IF pc = "idle" THEN job ELSE [job EXCEPT !.fresh = @ \ {t}]
    /\ UNCHANGED <<sts, route, exip, seenSts, seenRoute, seenExIp, queue, pc, faults, count>>

-------------------------------------------------------------------------------
Handler ==
    \/ \E g \in Gateway :
          \/ HandleAddedUp(g) \/ HandleAdded(g) \/ HandleFailed(g)
          \/ HandleRestarted(g) \/ HandleDeleted(g)
    \/ CreateExIp \/ DeleteExIp \/ UpdateVpc \/ UpdateExIp \/ ListTunnels
    \/ \E t \in Tunnel : PatchTunnel(t)

Sync == SyncSts \/ SyncRoute \/ SyncExIp \/ \E t \in Tunnel : SyncTunnel(t)

Failure == CallFails \/ ReadFails \/ Restart

Cluster ==
    \/ \E g \in Gateway : GatewayCreated(g) \/ GatewayFails(g) \/ GatewayDeleted(g)
    \/ \E g \in Gateway, i \in IP : GatewayReturns(g, i)
    \/ \E t \in Tunnel : TunnelBuilds(t) \/ TunnelLabelled(t) \/ TunnelReleased(t)

Next == Handler \/ Sync \/ Failure \/ Cluster

Spec == Init /\ [][Next]_vars

-------------------------------------------------------------------------------
(* Properties *)

JobOK ==
    /\ pc \in Calls \cup {"idle"}
    /\ pc = "idle" => job = NoJob
    /\ pc # "idle" => job \in Job

TypeOK ==
    /\ sts \in StatefulSets /\ route \in Gateway \cup {None}
    /\ exip \in Endpoint \cup {None}
    /\ tun \in [Tunnel -> Endpoint \cup {None}]
    /\ build \in [Tunnel -> Endpoint \cup {None}]
    /\ seenSts \in StatefulSets
    /\ seenRoute \in Cached(Gateway \cup {None})
    /\ seenExIp \in Cached(Endpoint \cup {None})
    /\ seenTun \in [Tunnel -> Cached(Endpoint \cup {None})]
    /\ queue \in Seq(Notice)
    /\ JobOK
    /\ faults \in Nat /\ outages \in Nat /\ events \in Nat

\* Peers are told of a new primary (through the GatewayExIp) only when the VPC's
\* own routes already lead to it.
RoutedFirst ==
    [][exip # None /\ exip' # None /\ exip'.gw # exip.gw
         => route \in {None, exip'.gw}]_vars

\* A tunnel is pointed only to the gateway and the address that the GatewayExIp
\* announces to the peers at that moment, whatever update failed before.
PatchedAsNamed ==
    [][\A t \in Tunnel :
         tun[t] # None /\ tun'[t] \notin {None, tun[t]}
         => /\ exip # None /\ tun'[t].ip = exip.ip
            /\ tun'[t].gw # tun[t].gw => tun'[t].gw = exip.gw]_vars

\* The GatewayExIp passes from one gateway to another only while the handler of a
\* failure or a deletion of that very gateway runs, however old the copy was the
\* handler found it in.
TakenFromFailed ==
    [][exip # None /\ exip' # None /\ exip'.gw # exip.gw => job.gw = exip.gw]_vars

\* Until a call fails or the operator restarts, and once all events are handled, a VPC
\* with an available gateway is served by one: the GatewayExIp, if there is one, has
\* the address of an available gateway, and the static routes lead to it.
Served ==
    faults = 0 /\ Quiet /\ exip # None /\ (\E g \in Gateway : Available(sts, g))
      => /\ Available(sts, exip.gw) /\ exip.ip = sts[exip.gw].ip
         /\ route \in {None, exip.gw}

\* Until a call fails or the operator restarts, and once all events are handled, every
\* tunnel of the VPC is asked to be where the GatewayExIp says.
TunnelsFollow ==
    faults = 0 /\ Quiet /\ exip # None => \A t \in Tunnel : tun[t] \in {None, exip}

\* A gateway that is alone in its VPC and available is announced.
LoneGatewayNamed ==
    Quiet => \A g \in Gateway :
        /\ Available(sts, g) /\ route \in {None, g}
        /\ \A h \in Gateway \ {g} : sts[h].st = "absent"
        => exip # None
===============================================================================
