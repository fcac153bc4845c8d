----------------------------- MODULE VpcNatTunnel -----------------------------
(***************************************************************************)
(* The VpcNatTunnel reconciler: the controller that turns VpcNatTunnel     *)
(* objects into tunnel devices, routes and SNAT rules inside the VPC NAT   *)
(* gateway pods.                                                           *)
(*                                                                         *)
(* One worker runs Reconcile for one object at a time.  It reads the       *)
(* object from a cache that lags behind the API server, and then makes a   *)
(* sequence of API writes and commands executed in a pod.  Each of these   *)
(* is a step of its own here: users, the gateway informer, the broker      *)
(* syncer and the gateways act between them, each call can fail, and the   *)
(* operator can be restarted.  A write carries the resourceVersion of the  *)
(* copy the worker holds: the API server rejects it if anybody else has    *)
(* written the object since that copy was current ("fresh").               *)
(*                                                                         *)
(* A reconcile may begin at any time: after an event, after an error (the  *)
(* key is queued again) or at the cache's periodic resync.                 *)
(* The gateway informer is here what PrimaryGateway says of it, through    *)
(* the instance PG: the actions of the gateways and of the GatewayExIp are *)
(* PrimaryGateway's own.                                                   *)
(***************************************************************************)
EXTENDS PodNetwork

CONSTANTS
    Gateway,      \* VPC NAT gateways of the local VPC
    GwIP,         \* addresses a gateway pod can have on the external network
    InitIP,       \* [Gateway -> GwIP], the addresses at the start
    OvnGw,        \* [Gateway -> address of the OVN gateway of the pod's subnet]
    Peer,         \* "RemoteVpc.RemoteCluster": names of the remote GatewayExIps
    CidrOf,       \* [Peer -> CIDR], the globalnet CIDR of the peer's cluster
    RemoteIP,     \* addresses of remote gateways
    Addr,         \* interface addresses
    Type,         \* tunnel types a user may write
    Concurrent,   \* others may act while a reconcile runs
    StaleReads,   \* a reconcile may begin before the cache has caught up
    MaxFaults,    \* bound: failed calls, lost replies and crashes
    MaxEvents,    \* bound: user edits and changes of a remote GatewayExIp
    MaxOutages    \* bound: pods and nodes lost, gateways deleted

VARIABLES
    obj,          \* the VpcNatTunnel objects in the API server
    cache,        \* the worker's view of them, and whether it is up to date
    pc,           \* next step of the running reconcile, "idle" if none
    job,          \* local variables of the running reconcile
    net,          \* network namespace of each gateway pod
    up,           \* the gateway pod is Running and reachable
    podIP,        \* ovn-vpc-external-network address of the gateway pod
    localExIp,    \* GatewayExIp of the local VPC: label localGateway, ExternalIP
    been,         \* addresses gateways have been up with
    lost,         \* gateways whose pod or node has been lost at some time
    remoteExIp,   \* GatewayExIps synced from the broker: ExternalIP
    egressReady,  \* ClusterGlobalEgressIP has allocated addresses
    faults, events, outages

world == <<net, up, podIP, localExIp, been, lost, remoteExIp, egressReady>>
count == <<events, outages>>
vars  == <<obj, cache, pc, job, world, faults, count>>

-------------------------------------------------------------------------------
(* Objects *)

SpecFields ==
    [peer : Peer, interfaceAddr : Addr, type : Type,
     remoteIP : RemoteIP \cup {None}, internalIP : GwIP \cup {None},
     localGw : Gateway \cup {None}]

OvnGwIPs == {OvnGw[g] : g \in Gateway}

StatusRecord ==
    [initialized : BOOLEAN, localGw : Gateway \cup {None},
     remoteIP : RemoteIP \cup {None}, internalIP : GwIP \cup {None},
     interfaceAddr : Addr \cup {None}, type : Type \cup {None},
     remoteCIDR : CIDR \cup {None}, ovnGwIP : OvnGwIPs \cup {None},
     egress : BOOLEAN]

StatusFields == {s \in StatusRecord : s.initialized => s.type # None}

\* label stands for the labels remoteVpc/remoteCluster/localVpc, set together.
Object ==
    [spec : SpecFields, status : StatusFields, finalizer : BOOLEAN,
     deleting : BOOLEAN, label : Peer \cup {None}]

EmptyStatus ==
    [initialized |-> FALSE, localGw |-> None, remoteIP |-> None,
     internalIP |-> None, interfaceAddr |-> None, type |-> None,
     remoteCIDR |-> None, ovnGwIP |-> None, egress |-> FALSE]

NewObject(p, a, ty) ==
    [spec |-> [peer |-> p, interfaceAddr |-> a, type |-> ty, remoteIP |-> None,
               internalIP |-> None, localGw |-> None],
     status |-> EmptyStatus, finalizer |-> FALSE, deleting |-> FALSE,
     label |-> None]

NoJob == None

Steps == {"finalize", "decide", "revertType", "getPod", "create", "addRoute",
          "delRoute", "delTunnel", "writeStatus", "writeSpec", "release"}

\* The steps that execute commands in a pod.
InPod == {"create", "addRoute", "delRoute", "delTunnel"}

Modes == {"none", "build", "rebuild", "move", "delete"}

\* obj: the copy being worked on; fresh: nobody else has written the object
\* since that copy; gw: the gateway whose pod was looked up; intact: that pod
\* has not been replaced since.
Job == [t : Tunnel, obj : Object, fresh : BOOLEAN, mode : Modes,
        gw : Gateway \cup {None}, intact : BOOLEAN]

Link ==
    [kind : {"gre", "vxlan"}, remote : RemoteIP \cup {None},
     local : GwIP \cup {None}, addrs : SUBSET (Addr \cup {None})]

Netns ==
    [link : [Tunnel -> Link \cup {None}], inflow : OvnGwIPs \cup {None},
     out : [CIDR -> Tunnel \cup {None}], snat : [CIDR -> Nat]]

ASSUME ConstantsOK ==
    /\ InitIP \in [Gateway -> GwIP]
    /\ CidrOf \in [Peer -> CIDR]
    /\ None \notin Object \cup [gw : Gateway, ip : GwIP] /\ None \notin Type /\ None \notin Peer
    /\ None \notin Link /\ None \notin Tunnel /\ None \notin OvnGwIPs
    /\ MaxFaults \in Nat /\ MaxEvents \in Nat /\ MaxOutages \in Nat

Init ==
    /\ obj = [t \in Tunnel |-> None]
    /\ cache = [t \in Tunnel |-> [obj |-> None, fresh |-> TRUE]]
    /\ pc = "idle" /\ job = NoJob
    /\ net = [g \in Gateway |-> EmptyNet]
    /\ up = [g \in Gateway |-> TRUE]
    /\ podIP = InitIP
    /\ been = {[gw |-> g, ip |-> InitIP[g]] : g \in Gateway} /\ lost = {}
    /\ localExIp \in been \cup {None}
    /\ remoteExIp \in [Peer -> RemoteIP \cup {None}]
    /\ egressReady \in BOOLEAN
    /\ faults = 0 /\ events = 0 /\ outages = 0

-------------------------------------------------------------------------------
(* How a step of the running reconcile ends *)

\* Return, with an error or without: the key is reconciled again later.
Stop == pc' = "idle" /\ job' = NoJob

Fault == faults < MaxFaults /\ faults' = faults + 1

\* The call was carried out; its answer arrives, or is lost.
Answer(next, j) ==
    \/ /\ IF next = "idle" THEN Stop ELSE pc' = next /\ job' = j
       /\ UNCHANGED faults
    \/ Stop /\ Fault

Put(t, o) ==
    /\ obj' = [obj EXCEPT ![t] = o]
    /\ cache' = [cache EXCEPT ![t].fresh = FALSE]

\* Mutant: a write that does not look at the resourceVersion.
UpdateAnyway(o, next) ==
    /\ Put(job.t, o) /\ Answer(next, [job EXCEPT !.obj = o])
    /\ UNCHANGED <<world, count>>

\* r.Update and r.Status().Update: refused if the copy is out of date.
Update(o, next) ==
    /\ \/ job.fresh /\ Put(job.t, o) /\ Answer(next, [job EXCEPT !.obj = o])
       \/ ~job.fresh /\ Stop /\ UNCHANGED <<obj, cache, faults>>
    /\ UNCHANGED <<world, count>>

\* execCommandInPod: n is what the commands make of the namespace, ok whether
\* they wrote nothing to stderr.
Exec(n, ok, next, j) ==
    /\ \/ /\ up[job.gw]
          /\ net' = [net EXCEPT ![job.gw] = n]
          /\ \/ ok /\ Answer(next, j)
             \/ ~ok /\ Stop /\ UNCHANGED faults
       \/ ~up[job.gw] /\ Stop /\ UNCHANGED <<net, faults>>
    /\ UNCHANGED <<obj, cache, up, podIP, localExIp, been, lost, remoteExIp, egressReady, count>>

Local == UNCHANGED <<obj, cache, world, faults, count>>

-------------------------------------------------------------------------------
(* Reconcile *)

\* Mutant: the finalizer is not waited for.
FirstStepUnowned(o) == IF o.deleting THEN "getPod" ELSE "decide"

FirstStep(o) ==
    CASE o.deleting   -> "getPod"
      [] ~o.finalizer -> "finalize"
      [] OTHER        -> "decide"

Begin(t) ==
    LET o == cache[t].obj IN
    /\ pc = "idle" /\ o # None
    /\ StaleReads \/ cache[t].fresh
    /\ o.deleting => o.finalizer
    /\ pc' = FirstStep(o)
    /\ job' = [t |-> t, obj |-> o, fresh |-> cache[t].fresh,
               mode |-> IF o.deleting THEN "delete" ELSE "none",
               gw |-> None, intact |-> FALSE]
    /\ Local

\* Mutant: the labels are set together with the finalizer.
AddFinalizerAndLabels ==
    /\ pc = "finalize"
    /\ Update([job.obj EXCEPT !.finalizer = TRUE, !.label = job.obj.spec.peer],
              "decide")

AddFinalizer ==
    /\ pc = "finalize"
    /\ Update([job.obj EXCEPT !.finalizer = TRUE], "decide")

(* handleCreateOrUpdate: which branch to take *)

PeerKnown(o) == remoteExIp[o.spec.peer] # None

Differs(o) ==
    \/ o.status.remoteIP # o.spec.remoteIP
    \/ o.status.internalIP # o.spec.internalIP
    \/ o.status.interfaceAddr # o.spec.interfaceAddr
    \/ o.status.localGw # o.spec.localGw
    \/ o.status.remoteCIDR # CidrOf[o.spec.peer]
    \/ o.status.type # o.spec.type

\* Mutant: the type may be edited.
TypeNeverChecked(o) == FALSE

TypeChanged(o) == o.status.type # o.spec.type

Unpatched(o) ==
    o.spec.localGw = None /\ o.spec.remoteIP = None /\ o.spec.internalIP = None

\* Mutant: a move is taken for a rebuild.
SameGatewayAlways(o) == TRUE

SameGateway(o) ==
    o.status.localGw = o.spec.localGw /\ o.status.internalIP = o.spec.internalIP

MayBuild(o)  == PeerKnown(o) /\ ~o.status.initialized /\ localExIp # None
MayRevert(o) == PeerKnown(o) /\ o.status.initialized /\ TypeChanged(o)
MayUpdate(o) ==
    /\ PeerKnown(o) /\ o.status.initialized /\ Differs(o)
    /\ ~TypeChanged(o) /\ ~Unpatched(o)

DecideBuild ==
    /\ pc = "decide" /\ MayBuild(job.obj)
    /\ pc' = "getPod"
    /\ job' = [job EXCEPT
         !.mode = "build",
         !.obj.status = [@ EXCEPT
             !.initialized = TRUE,
             !.localGw = localExIp.gw,
             !.remoteIP = remoteExIp[job.obj.spec.peer],
             !.remoteCIDR = CidrOf[job.obj.spec.peer],
             !.interfaceAddr = job.obj.spec.interfaceAddr,
             !.type = job.obj.spec.type]]
    /\ Local

DecideRevert ==
    /\ pc = "decide" /\ MayRevert(job.obj)
    /\ pc' = "revertType" /\ UNCHANGED job /\ Local

DecideUpdate ==
    /\ pc = "decide" /\ MayUpdate(job.obj)
    /\ pc' = "getPod"
    /\ job' = IF SameGateway(job.obj)
                THEN [job EXCEPT !.mode = "rebuild"]
                ELSE [job EXCEPT !.mode = "move",
                                 !.obj.status.localGw = job.obj.spec.localGw]
    /\ Local

DecideNothing ==
    /\ pc = "decide"
    /\ ~MayBuild(job.obj) /\ ~MayRevert(job.obj) /\ ~MayUpdate(job.obj)
    /\ Stop /\ Local

RevertType ==
    /\ pc = "revertType"
    /\ Update([job.obj EXCEPT !.spec.type = job.obj.status.type], "idle")

\* Mutant: the two addresses are swapped.
FromSpecSwapped(o) ==
    [o.status EXCEPT !.remoteIP = o.spec.internalIP,
                     !.remoteCIDR = CidrOf[o.spec.peer],
                     !.internalIP = o.spec.remoteIP,
                     !.interfaceAddr = o.spec.interfaceAddr]

\* Mutant: the remote address is forgotten.
FromSpecNoRemote(o) ==
    [o.status EXCEPT !.remoteCIDR = CidrOf[o.spec.peer],
                     !.internalIP = o.spec.internalIP,
                     !.interfaceAddr = o.spec.interfaceAddr]

\* The status the tunnel is to have once rebuilt.
FromSpec(o) ==
    [o.status EXCEPT !.remoteIP = o.spec.remoteIP,
                     !.remoteCIDR = CidrOf[o.spec.peer],
                     !.internalIP = o.spec.internalIP,
                     !.interfaceAddr = o.spec.interfaceAddr]

FromPod(o, g) ==
    [o.status EXCEPT !.ovnGwIP = OvnGw[g], !.internalIP = podIP[g],
                     !.egress = egressReady]

\* getNatGwPod of Status.LocalGw, and what a first build reads besides.
GetNatGwPod ==
    LET o == job.obj
        g == o.status.localGw
    IN
    /\ pc = "getPod"
    /\ \/ /\ g # None /\ up[g]
          /\ pc' = IF job.mode \in {"rebuild", "delete"} THEN "delRoute" ELSE "create"
          /\ job' = [job EXCEPT
                !.gw = g, !.intact = TRUE,
                !.obj.status = CASE job.mode = "build" -> FromPod(o, g)
                                 [] job.mode = "move"  -> FromSpec(o)
                                 [] OTHER              -> @]
       \/ ~(g # None /\ up[g]) /\ Stop
    /\ Local

(* Commands in the pod *)

\* Mutant: an error of the command goes unnoticed.
ExecCreateTunnelUnchecked ==
    /\ pc = "create"
    /\ Exec(CreateTunnel(net[job.gw], job.t, job.obj), TRUE, "addRoute", job)

ExecCreateTunnel ==
    /\ pc = "create"
    /\ Exec(CreateTunnel(net[job.gw], job.t, job.obj),
            CreateTunnelOk(net[job.gw], job.t, job.obj), "addRoute", job)

\* Mutant: nobody looks whether there is an egress address.
ExecAddRouteUnguarded ==
    /\ pc = "addRoute"
    /\ Exec(AddRoute(net[job.gw], job.t, job.obj, OvnGw[job.gw]),
            AddRouteOk(net[job.gw], job.t, job.obj, OvnGw[job.gw]),
            "writeStatus", job)

ExecAddRoute ==
    /\ pc = "addRoute" /\ job.obj.status.egress
    /\ Exec(AddRoute(net[job.gw], job.t, job.obj, OvnGw[job.gw]),
            AddRouteOk(net[job.gw], job.t, job.obj, OvnGw[job.gw]),
            "writeStatus", job)

\* Mutant: once its routes are gone a deleted tunnel is released.
ExecDelRouteOnly ==
    /\ pc = "delRoute" /\ job.obj.status.egress
    /\ Exec(DelRoute(net[job.gw], job.t, job.obj),
            DelRouteOk(net[job.gw], job.t, job.obj),
            IF job.mode = "delete" THEN "release" ELSE "delTunnel", job)

ExecDelRoute ==
    /\ pc = "delRoute" /\ job.obj.status.egress
    /\ Exec(DelRoute(net[job.gw], job.t, job.obj),
            DelRouteOk(net[job.gw], job.t, job.obj), "delTunnel", job)

ExecDeleteTunnel ==
    /\ pc = "delTunnel"
    /\ Exec(DeleteTunnel(net[job.gw], job.t, job.obj),
            DeleteTunnelOk(net[job.gw], job.t, job.obj),
            IF job.mode = "delete" THEN "release" ELSE "create",
            IF job.mode = "delete" THEN job
              ELSE [job EXCEPT !.obj.status = FromSpec(job.obj)])

(* Writes after the commands *)

\* Mutant: a first build does not set the labels.
AfterStatusOfUpdate ==
    IF job.mode # "build" /\ job.obj.label # job.obj.spec.peer
      THEN "writeSpec" ELSE "idle"

\* Mutant: the labels are set by the first build only.
AfterStatusOfBuild == IF job.mode = "build" THEN "writeSpec" ELSE "idle"

AfterStatus ==
    IF job.mode = "build" \/ job.obj.label # job.obj.spec.peer
      THEN "writeSpec" ELSE "idle"

WriteStatus ==
    /\ pc = "writeStatus"
    /\ Update(job.obj, AfterStatus)

\* Mutant: the labels are set, and the addresses left for the informer.
WriteSpecLabels ==
    /\ pc = "writeSpec"
    /\ Update([job.obj EXCEPT !.label = job.obj.spec.peer], "idle")

WriteSpec ==
    LET o == job.obj IN
    /\ pc = "writeSpec"
    /\ Update(IF job.mode = "build"
                THEN [o EXCEPT !.label = o.spec.peer,
                               !.spec.internalIP = o.status.internalIP,
                               !.spec.localGw = o.status.localGw,
                               !.spec.remoteIP = o.status.remoteIP]
                ELSE [o EXCEPT !.label = o.spec.peer],
              "idle")

\* handleDelete: with the last finalizer gone the API server drops the object.
Release ==
    /\ pc = "release"
    /\ Update(None, "idle")

-------------------------------------------------------------------------------
(* Failures of the operator *)

\* Any call of the reconcile returns an error without having been carried out.
CallFails ==
    /\ pc # "idle" /\ Stop /\ Fault
    /\ UNCHANGED <<obj, cache, world, count>>

Restart ==
    /\ Stop
    /\ cache' = [t \in Tunnel |-> [obj |-> obj[t], fresh |-> TRUE]]
    /\ UNCHANGED <<obj, world, count>>

Crash == Restart /\ Fault

\* genGlobalnetRoute and genDelGlobalnetRoute index GlobalEgressIP[0].
Panic ==
    /\ pc \in {"addRoute", "delRoute"} /\ ~job.obj.status.egress
    /\ Restart /\ UNCHANGED faults

SyncCache(t) ==
    /\ ~cache[t].fresh
    /\ cache' = [cache EXCEPT ![t] = [obj |-> obj[t], fresh |-> TRUE]]
    /\ UNCHANGED <<obj, pc, job, world, faults, count>>

-------------------------------------------------------------------------------
(* The others *)

May   == Concurrent \/ pc = "idle"
Event  == events < MaxEvents /\ events' = events + 1 /\ UNCHANGED outages
Outage == outages < MaxOutages /\ outages' = outages + 1 /\ UNCHANGED events

\* A write by somebody else takes the worker's copy out of date.
PutOther(t, o) ==
    /\ May
    /\ Put(t, o)
    /\ job' = IF pc # "idle" /\ job.t = t THEN [job EXCEPT !.fresh = FALSE] ELSE job
    /\ UNCHANGED <<pc, world, faults>>

UserCreates(t, p, a, ty) ==
    /\ obj[t] = None /\ Event
    /\ PutOther(t, NewObject(p, a, ty))

UserEdits(t, p, a, ty) ==
    /\ obj[t] # None /\ Event
    /\ LET o == obj[t]
           edited == [o EXCEPT !.spec.peer = p, !.spec.interfaceAddr = a,
                               !.spec.type = ty]
       IN edited # o /\ PutOther(t, edited)

UserDeletes(t) ==
    /\ obj[t] # None /\ ~obj[t].deleting /\ Event
    /\ LET o == obj[t] IN
       PutOther(t, IF o.finalizer THEN [o EXCEPT !.deleting = TRUE] ELSE None)

\* onRemoteGatewayExIpSynced, one tunnel: found by its labels.
SyncerPatches(t) ==
    /\ obj[t] # None /\ obj[t].label # None
    /\ remoteExIp[obj[t].label] \notin {None, obj[t].spec.remoteIP}
    /\ LET o == obj[t] IN
       PutOther(t, [o EXCEPT !.spec.remoteIP = remoteExIp[o.label]])
    /\ UNCHANGED count

\* The gateway informer, one tunnel of the VPC, found by its labels: after a
\* failover, and after a restart of the gateway, when LocalGw is left alone.
InformerPatches(t) ==
    /\ obj[t] # None /\ obj[t].label # None /\ localExIp # None
    /\ LET o == obj[t]
           restarted == [o EXCEPT !.spec.internalIP = localExIp.ip]
           movedOver == [restarted EXCEPT !.spec.localGw = localExIp.gw]
       IN \E p \in {restarted, movedOver} : p # o /\ PutOther(t, p)
    /\ UNCHANGED count

\* Where the tunnels with labels are asked to be.
Asked ==
    [t \in Tunnel |->
       IF obj[t] = None \/ obj[t].label = None THEN None
         ELSE [gw |-> obj[t].spec.localGw, ip |-> obj[t].spec.internalIP]]

\* The Vpc's routes are the informer's own business: there are none here.  (TLC cannot
\* evaluate UNCHANGED of a constant, but of an expression.)
PG == INSTANCE PrimaryGateway
        WITH IP <- GwIP, primary <- localExIp, route <- <<None>>[1], tun <- Asked

Calm == UNCHANGED <<obj, cache, pc, faults>> /\ May

RemoteExIpSynced(p, i) ==
    /\ remoteExIp[p] # i /\ Event /\ Calm
    /\ remoteExIp' = [remoteExIp EXCEPT ![p] = i]
    /\ UNCHANGED <<job, net, up, podIP, localExIp, been, lost, egressReady>>

\* The gateway informer writes the GatewayExIp: what PrimaryGateway promises of it,
\* and no more.  The address may be one its gateway no longer has.
LocalExIpMoves(e) ==
    /\ Calm /\ e # localExIp
    /\ PG!Announce(e) \/ PG!Readdress(e) \/ PG!TakeOver(e)
    /\ UNCHANGED <<job, net, up, podIP, remoteExIp, egressReady, count>>

\* A gateway of the VPC is deleted and no other is left.
LocalExIpDeleted ==
    /\ Calm /\ PG!Withdraw
    /\ UNCHANGED <<job, net, up, podIP, remoteExIp, egressReady, count>>

EgressAllocated ==
    /\ ~egressReady /\ Calm
    /\ egressReady' = TRUE
    /\ UNCHANGED <<job, net, up, podIP, localExIp, been, lost, remoteExIp, count>>

\* The pod is gone, and its namespace with it.
PodLost(g) ==
    /\ Outage /\ Calm /\ PG!IsLost(g)
    /\ up' = [up EXCEPT ![g] = FALSE]
    /\ net' = [net EXCEPT ![g] = EmptyNet]
    /\ job' = IF pc # "idle" /\ job.gw = g THEN [job EXCEPT !.intact = FALSE] ELSE job
    /\ UNCHANGED <<podIP, remoteExIp, egressReady>>

\* The node is cut off: the pod and its namespace survive.
NodeLost(g) ==
    /\ up[g] /\ Outage /\ Calm /\ PG!IsLost(g)
    /\ up' = [up EXCEPT ![g] = FALSE]
    /\ UNCHANGED <<job, net, podIP, remoteExIp, egressReady>>

PodStarts(g, i) ==
    /\ ~up[g] /\ Calm
    /\ i = podIP[g] \/ (net[g] = EmptyNet /\ \A h \in Gateway : podIP[h] # i)
    /\ up' = [up EXCEPT ![g] = TRUE]
    /\ podIP' = [podIP EXCEPT ![g] = i]
    /\ PG!ComesUp([gw |-> g, ip |-> i])
    /\ UNCHANGED <<job, net, remoteExIp, egressReady, count>>

-------------------------------------------------------------------------------
(* Specification *)

WorkerStep ==
    \/ AddFinalizer \/ DecideBuild \/ DecideRevert \/ DecideUpdate \/ DecideNothing
    \/ RevertType \/ GetNatGwPod
    \/ ExecCreateTunnel \/ ExecAddRoute \/ ExecDelRoute \/ ExecDeleteTunnel
    \/ WriteStatus \/ WriteSpec \/ Release \/ Panic

User ==
    \E t \in Tunnel :
        \/ UserDeletes(t)
        \/ \E p \in Peer, a \in Addr, ty \in Type :
              UserCreates(t, p, a, ty) \/ UserEdits(t, p, a, ty)

Cluster ==
    \/ \E t \in Tunnel : SyncerPatches(t) \/ InformerPatches(t)
    \/ \E p \in Peer, i \in RemoteIP : RemoteExIpSynced(p, i)
    \/ \E e \in PG!Endpoint : LocalExIpMoves(e)
    \/ \E g \in Gateway : PodLost(g) \/ NodeLost(g)
    \/ \E g \in Gateway, i \in GwIP : PodStarts(g, i)
    \/ EgressAllocated \/ LocalExIpDeleted

Next ==
    \/ \E t \in Tunnel : Begin(t) \/ SyncCache(t)
    \/ WorkerStep \/ CallFails \/ Crash
    \/ User \/ Cluster

Spec == Init /\ [][Next]_vars

\* The work queue serves every key in turn, the cache follows the API server,
\* a reconcile that runs goes on until it returns, and the broker's syncer
\* delivers every GatewayExIp again at its resync.  The gateway informer gets no
\* fairness: its handlers run once per event and are never retried.
Fairness ==
    /\ WF_vars(WorkerStep)
    /\ \A t \in Tunnel :
          /\ SF_vars(Begin(t)) /\ WF_vars(SyncCache(t))
          /\ SF_vars(SyncerPatches(t))

FairSpec == Spec /\ Fairness
-------------------------------------------------------------------------------
(* Properties *)

JobOK ==
    /\ pc \in Steps \cup {"idle"}
    /\ pc = "idle" => job = NoJob
    /\ pc # "idle" => job \in Job
    /\ pc \in InPod => job.gw # None
    /\ pc = "revertType" => job.obj.status.initialized

TypeOK ==
    /\ obj \in [Tunnel -> Object \cup {None}]
    /\ cache \in [Tunnel -> [obj : Object \cup {None}, fresh : BOOLEAN]]
    /\ JobOK
    /\ net \in [Gateway -> Netns]
    /\ up \in [Gateway -> BOOLEAN] /\ podIP \in [Gateway -> GwIP]
    /\ localExIp \in PG!Endpoint \cup {None}
    /\ been \in SUBSET PG!Endpoint /\ lost \in SUBSET Gateway
    /\ remoteExIp \in [Peer -> RemoteIP \cup {None}]
    /\ egressReady \in BOOLEAN
    /\ faults \in Nat /\ events \in Nat /\ outages \in Nat

Built(t)   == obj[t] # None /\ obj[t].status.initialized
Doomed(t)  == obj[t] = None \/ obj[t].deleting

\* A Status is written only when the pod does what it says: every command of
\* the build or rebuild has succeeded in the pod that is still the one in
\* Status.LocalGw.  (Commands and status are steps far apart: a failure in
\* between must not let the status through.)
StatusTruthful ==
    [][\A t \in Tunnel :
         /\ obj[t] # None /\ obj'[t] # None
         /\ obj'[t].status # obj[t].status
         /\ job.intact
         => Carries(net[obj'[t].status.localGw], t, obj'[t].status)]_vars

\* The device on the gateway in Status.LocalGw is of the type in Status: the
\* type cannot change under a device, although the commands take it from the
\* Spec, which a user may edit at any time.
DeviceHasStatusType ==
    \A t \in Tunnel : \A g \in Gateway :
        Built(t) /\ obj[t].status.localGw = g /\ net[g].link[t] # None
        => net[g].link[t].kind = Kind(obj[t].status.type)

\* The finalizer's purpose: an object disappears only when its device is gone
\* from the gateway it was last built on.
ReleasedClean ==
    [][\A t \in Tunnel :
         Built(t) /\ obj'[t] = None
         => net[obj[t].status.localGw].link[t] = None]_vars

\* A pod that carries a tunnel goes on carrying it, through every build, rebuild, move and
\* failed retry of others that share its routes, until the pod is lost or a reconcile takes
\* routes down there.
CutOnlyByDelRoute ==
    [][\A g \in Gateway, t \in Tunnel :
         /\ Built(t)
         /\ Carries(net[g], t, obj[t].status) /\ ~Carries(net'[g], t, obj[t].status)
         => ~up'[g] \/ (pc = "delRoute" /\ job.gw = g)]_vars

\* Nothing is left behind in a gateway: a device exists only while an object with
\* the finalizer owns it, however stale the cache, whatever fails and whenever
\* the operator restarts.  handleDelete visits one gateway only, so this is a
\* promise the code can keep only where the VPC has one.
NothingLeftBehind ==
    \A g \in Gateway, t \in Tunnel :
        net[g].link[t] # None => obj[t] # None /\ obj[t].finalizer

\* Informer and syncer find a tunnel by its labels and write its Spec: they
\* reach only objects whose first build is recorded, and nobody else fills in
\* the addresses, so the first build starts from an empty Spec.
PatchedOnlyIfBuilt ==
    \A t \in Tunnel : obj[t] # None =>
        /\ obj[t].label # None => obj[t].status.initialized
        /\ obj[t].label = None => Unpatched(obj[t])

\* The reconciler never undoes what a user, the informer or the syncer wrote
\* while it was working from an older copy.
NoLostUpdate ==
    [][\A t \in Tunnel :
         /\ pc' # pc
         /\ obj[t] # None /\ obj'[t] # None
         => LET o == obj[t]
                p == obj'[t]
            IN
            /\ p.spec.peer = o.spec.peer
            /\ p.spec.interfaceAddr = o.spec.interfaceAddr
            /\ p.deleting = o.deleting
            /\ p.spec.type \in {o.spec.type, o.status.type}
            /\ o.label # None =>
                 /\ p.spec.remoteIP = o.spec.remoteIP
                 /\ p.spec.localGw = o.spec.localGw
                 /\ p.spec.internalIP = o.spec.internalIP]_vars

\* The reconciler keeps its half of the contract with the gateway informer: a tunnel
\* gets its labels, by which the informer finds it, together with an address a
\* gateway has really had, keeps both until it is released, and is moved by the
\* informer only, however long ago the reconcile that writes has read the GatewayExIp.
KeepsContract == PG!Spec

AsksFor(s) ==
    [type |-> s.type,
     ends |-> [addr |-> s.interfaceAddr, cidr |-> CidrOf[s.peer]],
     place |-> IF s.localGw = None /\ s.remoteIP = None /\ s.internalIP = None THEN None
                 ELSE [gw |-> s.localGw, ip |-> s.internalIP, remote |-> s.remoteIP]]

Records(s) ==
    [type |-> s.type,
     ends |-> [addr |-> s.interfaceAddr, cidr |-> s.remoteCIDR],
     place |-> [gw |-> s.localGw, ip |-> s.internalIP, remote |-> s.remoteIP]]

StageOf(o) ==
    IF o.label # None THEN "labelled"
      ELSE IF o.status.initialized THEN "built"
      ELSE IF o.finalizer THEN "owned" ELSE "new"

LifeOf(o) ==
    IF o = None
      THEN [stage |-> "absent", deleting |-> FALSE, asked |-> None, recorded |-> None]
      ELSE [stage |-> StageOf(o), deleting |-> o.deleting, asked |-> AsksFor(o.spec),
            recorded |-> IF o.status.initialized THEN Records(o.status) ELSE None]

Lives == [t \in Tunnel |-> LifeOf(obj[t])]

TL == INSTANCE TunnelLife
        WITH Ends <- [addr : Addr, cidr : CIDR], life <- Lives,
             Place <- [gw : Gateway, ip : GwIP, remote : RemoteIP]

\* No step, of whomever, takes an object back in its life: finalizer, record of the
\* build, labels, deletion and release come in this order, each from a copy that may be
\* older than any of them.  What is recorded next is, as a whole, what the Spec asks for
\* at that moment, however many calls ago it was read, and of the same type.
LivesInOrder == TL!Spec

\* In a VPC with any number of gateways a device is put only where an object with
\* the finalizer owns it, however stale the copy that is being built.
BuiltOnlyOwned ==
    [][\A g \in Gateway, t \in Tunnel :
         net[g].link[t] = None /\ net'[g].link[t] # None
         => obj[t] # None /\ obj[t].finalizer]_vars

\* An object whose build is recorded has egress addresses, so deleting it or
\* rebuilding it never indexes an empty list.
EgressRecorded ==
    \A t \in Tunnel : Built(t) => obj[t].status.egress

(* Liveness, while everything a tunnel needs is there *)

Ready ==
    /\ egressReady /\ localExIp # None
    /\ \A p \in Peer : remoteExIp[p] # None
    /\ \A g \in Gateway : up[g]

\* No gateway has been lost, and everything is there in the end.
Undisturbed == outages = 0 /\ Ready

\* Every tunnel somebody creates is built, and labelled so that the informer and
\* the syncer can find it.
EventuallyBuilt ==
    []Ready => \A t \in Tunnel :
        obj[t] # None ~> Doomed(t) \/ (Built(t) /\ obj[t].label # None)

\* What the Spec asks for (edited by a user, or patched by the informer or the
\* syncer) reaches the gateway and the Status.
EventuallyFollowed ==
    <>[]Undisturbed => \A t \in Tunnel :
        Built(t) /\ Differs(obj[t]) ~> Doomed(t) \/ ~Differs(obj[t])

\* A tunnel that the informer has pointed to another gateway gets there.
Moving(t) == Built(t) /\ obj[t].spec.localGw # obj[t].status.localGw

EventuallyMoved ==
    <>[]Ready => \A t \in Tunnel :
        Moving(t) /\ obj[t].label # None ~> Doomed(t) \/ ~Moving(t)

\* A tunnel ends at the address the broker has for its peer, whichever peer a
\* user has chosen meanwhile.
EventuallyAtPeer ==
    <>[]Undisturbed => \A t \in Tunnel :
        Built(t) ~> \/ Doomed(t)
                    \/ obj[t].status.remoteIP = remoteExIp[obj[t].spec.peer]

\* A tunnel that is built carries traffic again once its gateways are back.
EventuallyCarries ==
    <>[]Undisturbed => \A t \in Tunnel :
        Built(t) ~> \/ Doomed(t)
                    \/ Built(t) /\ Carries(net[obj[t].status.localGw], t, obj[t].status)

\* A deleted tunnel that had been built is taken down and released.
EventuallyReleased ==
    <>[]Undisturbed => \A t \in Tunnel :
        Built(t) /\ obj[t].deleting ~> obj[t] = None
===============================================================================
