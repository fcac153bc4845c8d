------------------------- MODULE VpcNatTunnel_proofs -------------------------
(***************************************************************************)
(* Theorems about the VpcNatTunnel reconciler, for any set of gateways,    *)
(* tunnels, peers and addresses and any bound on faults and events.        *)
(***************************************************************************)
EXTENDS VpcNatTunnel, TLAPS

-------------------------------------------------------------------------------
(* The helpers keep their types *)

LEMMA FromSpecTyped ==
    ASSUME NEW o \in Object
    PROVE  FromSpec(o) \in StatusFields
<1>1. CidrOf[o.spec.peer] \in CIDR
    BY ConstantsOK DEF Object, SpecFields
<1> QED
    BY <1>1 DEF FromSpec, Object, SpecFields, StatusFields, StatusRecord

LEMMA FromPodTyped ==
    ASSUME NEW o \in Object, NEW g \in Gateway,
           podIP \in [Gateway -> GwIP], egressReady \in BOOLEAN
    PROVE  FromPod(o, g) \in StatusFields
    BY DEF FromPod, Object, StatusFields, StatusRecord, OvnGwIPs

LEMMA NewLinkTyped ==
    ASSUME NEW o \in Object
    PROVE  NewLink(o) \in Link
    BY DEF NewLink, Link, Kind, Object, StatusFields, StatusRecord

LEMMA CreateTunnelTyped ==
    ASSUME NEW n \in Netns, NEW t \in Tunnel, NEW o \in Object
    PROVE  CreateTunnel(n, t, o) \in Netns
<1>1. CASE CreateTunnelOk(n, t, o)
    <2>1. NewLink(o) \in Link
        BY NewLinkTyped
    <2>2. CreateTunnel(n, t, o) = [n EXCEPT !.link[t] = NewLink(o)]
        BY <1>1 DEF CreateTunnel, CreateTunnelOk
    <2> QED
        BY <2>1, <2>2 DEF Netns
<1>2. CASE ~CreateTunnelOk(n, t, o) /\ n.link[t] # None
    <2>1. n.link[t] \in Link
        BY <1>2 DEF Netns
    <2>2. o.status.interfaceAddr \in Addr \cup {None}
        BY DEF Object, StatusFields, StatusRecord
    <2>3. [n.link[t] EXCEPT !.addrs = @ \cup {o.status.interfaceAddr}] \in Link
        BY <2>1, <2>2 DEF Link
    <2>4. CreateTunnel(n, t, o) =
            [n EXCEPT !.link[t].addrs = @ \cup {o.status.interfaceAddr}]
        BY <1>2 DEF CreateTunnel
    <2> QED
        BY <2>3, <2>4 DEF Netns
<1>3. CASE ~CreateTunnelOk(n, t, o) /\ n.link[t] = None
    BY <1>3 DEF CreateTunnel
<1> QED
    BY <1>1, <1>2, <1>3

LEMMA DeleteTunnelTyped ==
    ASSUME NEW n \in Netns, NEW t \in Tunnel, NEW o \in Object
    PROVE  DeleteTunnel(n, t, o) \in Netns
    BY DEF DeleteTunnel, Netns

LEMMA CountTyped ==
    ASSUME NEW f \in [CIDR -> Nat], NEW c, NEW v, c \in CIDR => v \in Nat
    PROVE  [f EXCEPT ![c] = v] \in [CIDR -> Nat]
    OBVIOUS

LEMMA AddRouteTyped ==
    ASSUME NEW n \in Netns, NEW t \in Tunnel, NEW o \in Object,
           NEW lan \in OvnGwIPs
    PROVE  AddRoute(n, t, o, lan) \in Netns
<1> DEFINE c == o.status.remoteCIDR
           inflow == IF n.inflow = None /\ o.status.ovnGwIP = lan THEN lan ELSE n.inflow
           out == [n.out EXCEPT ![c] = IF @ = None /\ n.link[t] # None THEN t ELSE @]
           snat == [n.snat EXCEPT ![c] = @ + 1]
<1>1. inflow \in OvnGwIPs \cup {None}
    BY DEF Netns
<1>2. out \in [CIDR -> Tunnel \cup {None}]
    BY DEF Netns
<1>3. snat \in [CIDR -> Nat]
    <2>1. n.snat \in [CIDR -> Nat]
        BY DEF Netns
    <2>2. c \in CIDR => n.snat[c] + 1 \in Nat
        BY <2>1
    <2> QED
        BY <2>1, <2>2, CountTyped
<1>4. AddRoute(n, t, o, lan) = [n EXCEPT !.inflow = inflow, !.out = out, !.snat = snat]
    BY DEF AddRoute
<1> HIDE DEF inflow, out, snat
<1> QED
    BY <1>1, <1>2, <1>3, <1>4 DEF Netns

LEMMA DelRouteTyped ==
    ASSUME NEW n \in Netns, NEW t \in Tunnel, NEW o \in Object
    PROVE  DelRoute(n, t, o) \in Netns
<1> DEFINE c == o.status.remoteCIDR
           inflow == IF n.inflow = o.status.ovnGwIP THEN None ELSE n.inflow
           out == [n.out EXCEPT ![c] = IF @ = t THEN None ELSE @]
           snat == [n.snat EXCEPT ![c] = IF @ > 0 THEN @ - 1 ELSE 0]
<1>1. inflow \in OvnGwIPs \cup {None}
    BY DEF Netns
<1>2. out \in [CIDR -> Tunnel \cup {None}]
    BY DEF Netns
<1>3. snat \in [CIDR -> Nat]
    <2>1. n.snat \in [CIDR -> Nat]
        BY DEF Netns
    <2>2. c \in CIDR => (IF n.snat[c] > 0 THEN n.snat[c] - 1 ELSE 0) \in Nat
        BY <2>1
    <2> QED
        BY <2>1, <2>2, CountTyped
<1>4. DelRoute(n, t, o) = [n EXCEPT !.inflow = inflow, !.out = out, !.snat = snat]
    BY DEF DelRoute
<1> HIDE DEF inflow, out, snat
<1> QED
    BY <1>1, <1>2, <1>3, <1>4 DEF Netns

LEMMA EmptyNetTyped == EmptyNet \in Netns
    BY DEF EmptyNet, Netns

-------------------------------------------------------------------------------
(* Type correctness *)

LEMMA InitTyped == Init => TypeOK
<1> SUFFICES ASSUME Init PROVE TypeOK
    OBVIOUS
<1>1. net \in [Gateway -> Netns]
    BY EmptyNetTyped DEF Init
<1>2. been \in SUBSET PG!Endpoint /\ localExIp \in PG!Endpoint \cup {None}
    BY ConstantsOK DEF Init, PG!Endpoint
<1> QED
    BY <1>1, <1>2, ConstantsOK DEF Init, TypeOK, JobOK, InPod

\* The steps of the reconcile that only decide.
LEMMA LocalTyped ==
    ASSUME TypeOK, Local,
           \/ Stop
           \/ /\ pc' \in Steps /\ job' \in Job
              /\ pc' \in InPod => job'.gw # None
              /\ pc' = "revertType" => job'.obj.status.initialized
    PROVE  TypeOK'
<1>1. UNCHANGED <<obj, cache, net, up, podIP, localExIp, been, lost, remoteExIp,
                  egressReady, faults, events, outages>>
    BY DEF Local, world, count
<1>2. JobOK'
    BY DEF Stop, Steps, InPod, JobOK
<1> QED
    BY <1>1, <1>2 DEF TypeOK, JobOK

LEMMA AnswerTyped ==
    ASSUME NEW next \in Steps \cup {"idle"}, next # "revertType",
           NEW j, faults \in Nat, Answer(next, j),
           next # "idle" => j \in Job /\ (next \in InPod => j.gw # None)
    PROVE  JobOK' /\ faults' \in Nat
    BY DEF Answer, Stop, Fault, Steps, InPod, JobOK

LEMMA PutTyped ==
    ASSUME TypeOK, NEW t \in Tunnel, NEW o \in Object \cup {None}, Put(t, o)
    PROVE  /\ obj' \in [Tunnel -> Object \cup {None}]
           /\ cache' \in [Tunnel -> [obj : Object \cup {None}, fresh : BOOLEAN]]
    BY DEF TypeOK, JobOK, Put

\* A write to the API server ends in a step outside the pods.
LEMMA UpdateTyped ==
    ASSUME TypeOK, pc # "idle", NEW next \in {"idle", "decide", "writeSpec"},
           NEW o \in Object \cup {None}, next # "idle" => o \in Object,
           Update(o, next)
    PROVE  TypeOK'
<1> DEFINE j == [job EXCEPT !.obj = o]
<1>1. job \in Job
    BY DEF TypeOK, JobOK
<1>2. job.t \in Tunnel /\ (next # "idle" => j \in Job)
    BY <1>1 DEF Job
<1>3. JobOK' /\ faults' \in Nat
    <2>1. CASE Answer(next, j)
        <3>1. next \in Steps \cup {"idle"} /\ next \notin InPod /\ next # "revertType"
            BY DEF Steps, InPod
        <3>2. faults \in Nat
            BY DEF TypeOK, JobOK
        <3> HIDE DEF j
        <3> QED
            BY <2>1, <3>1, <3>2, <1>2, AnswerTyped
    <2>2. CASE Stop /\ UNCHANGED faults
        BY <2>2 DEF Stop, TypeOK, InPod, Steps, JobOK
    <2> QED
        BY <2>1, <2>2 DEF Update
<1>4. /\ obj' \in [Tunnel -> Object \cup {None}]
      /\ cache' \in [Tunnel -> [obj : Object \cup {None}, fresh : BOOLEAN]]
    <2>1. CASE Put(job.t, o)
        BY <2>1, <1>2, PutTyped
    <2>2. CASE UNCHANGED <<obj, cache>>
        BY <2>2 DEF TypeOK, JobOK
    <2> QED
        BY <2>1, <2>2 DEF Update
<1>5. UNCHANGED <<net, up, podIP, localExIp, been, lost, remoteExIp, egressReady,
                  events, outages>>
    BY DEF Update, world, count
<1> QED
    BY <1>3, <1>4, <1>5 DEF TypeOK, JobOK

LEMMA ExecTyped ==
    ASSUME TypeOK, pc # "idle", job.gw \in Gateway, NEW n \in Netns, NEW ok,
           NEW next \in Steps, next # "revertType", NEW j \in Job, next \in InPod => j.gw # None,
           Exec(n, ok, next, j)
    PROVE  TypeOK'
<1>1. JobOK' /\ faults' \in Nat
    <2>1. CASE Answer(next, j)
        BY <2>1, AnswerTyped DEF TypeOK, JobOK
    <2>2. CASE Stop /\ UNCHANGED faults
        BY <2>2 DEF Stop, TypeOK, InPod, Steps, JobOK
    <2> QED
        BY <2>1, <2>2 DEF Exec
<1>2. net' \in [Gateway -> Netns]
    BY DEF Exec, TypeOK, JobOK
<1>3. UNCHANGED <<obj, cache, up, podIP, localExIp, been, lost, remoteExIp, egressReady,
                  events, outages>>
    BY DEF Exec, count
<1> QED
    BY <1>1, <1>2, <1>3 DEF TypeOK, JobOK

LEMMA BeginTyped ==
    ASSUME TypeOK, NEW t \in Tunnel, Begin(t)
    PROVE  TypeOK'
<1> DEFINE o == cache[t].obj
<1>1. o \in Object /\ cache[t].fresh \in BOOLEAN
    BY DEF TypeOK, JobOK, Begin
<1>2. job' \in Job
    BY <1>1 DEF Begin, Job, Modes
<1>3. pc' \in Steps /\ pc' \notin InPod /\ pc' # "revertType"
    BY DEF Begin, FirstStep, Steps, InPod
<1>4. Local
    BY DEF Begin
<1> QED
    BY <1>2, <1>3, <1>4, LocalTyped

LEMMA DecideTyped ==
    ASSUME TypeOK,
           DecideBuild \/ DecideRevert \/ DecideUpdate \/ DecideNothing
    PROVE  TypeOK'
<1>1. job \in Job /\ job.obj \in Object
    BY DEF TypeOK, JobOK, Job, DecideBuild, DecideRevert, DecideUpdate, DecideNothing
<1>2. CASE DecideBuild
    <2> DEFINE st == [job.obj.status EXCEPT
                        !.initialized = TRUE,
                        !.localGw = localExIp.gw,
                        !.remoteIP = remoteExIp[job.obj.spec.peer],
                        !.remoteCIDR = CidrOf[job.obj.spec.peer],
                        !.interfaceAddr = job.obj.spec.interfaceAddr,
                        !.type = job.obj.spec.type]
    <2>1. job.obj.spec \in SpecFields /\ job.obj.status \in StatusFields
        BY <1>1 DEF Object
    <2>2. /\ localExIp.gw \in Gateway
          /\ remoteExIp[job.obj.spec.peer] \in RemoteIP \cup {None}
          /\ CidrOf[job.obj.spec.peer] \in CIDR
        BY <1>2, <2>1, ConstantsOK DEF DecideBuild, MayBuild, TypeOK, JobOK, SpecFields,
                                    PG!Endpoint
    <2>3. job.obj.spec.type \in Type /\ job.obj.spec.interfaceAddr \in Addr
        BY <2>1 DEF SpecFields
    <2>4. st \in StatusRecord
        BY <2>1, <2>2, <2>3 DEF StatusFields, StatusRecord
    <2>5. st.type = job.obj.spec.type
        BY <2>1 DEF StatusFields, StatusRecord
    <2>6. st \in StatusFields
        BY <2>3, <2>4, <2>5, ConstantsOK DEF StatusFields
    <2>7. job' = [job EXCEPT !.mode = "build", !.obj.status = st]
        BY <1>2 DEF DecideBuild
    <2> HIDE DEF st
    <2>8. job' \in Job
        BY <1>1, <2>6, <2>7 DEF Job, Object, Modes
    <2> QED
        BY <1>2, <2>8, LocalTyped DEF DecideBuild, Steps, InPod
<1>3. CASE DecideRevert
    BY <1>1, <1>3, LocalTyped DEF DecideRevert, MayRevert, Steps, InPod
<1>4. CASE DecideUpdate
    <2>1. [job EXCEPT !.mode = "rebuild"] \in Job
        BY <1>1 DEF Job, Modes
    <2>2. job.obj.spec.localGw \in Gateway \cup {None}
        BY <1>1 DEF Object, SpecFields
    <2>3. [job EXCEPT !.mode = "move",
                      !.obj.status.localGw = job.obj.spec.localGw] \in Job
        BY <1>1, <2>2 DEF Job, Modes, Object, StatusFields, StatusRecord
    <2>4. job' \in Job
        BY <1>4, <2>1, <2>3 DEF DecideUpdate
    <2> QED
        BY <1>4, <2>4, LocalTyped DEF DecideUpdate, Steps, InPod
<1>5. CASE DecideNothing
    BY <1>5, LocalTyped DEF DecideNothing
<1> QED
    BY <1>2, <1>3, <1>4, <1>5

LEMMA GetNatGwPodTyped ==
    ASSUME TypeOK, GetNatGwPod
    PROVE  TypeOK'
<1> DEFINE g == job.obj.status.localGw
<1>1. job \in Job /\ job.obj \in Object
    BY DEF TypeOK, JobOK, Job, GetNatGwPod
<1>2. CASE g # None /\ up[g] /\ ~Stop
    <2>1. g \in Gateway
        BY <1>1, <1>2 DEF Object, StatusFields, StatusRecord
    <2>2. FromPod(job.obj, g) \in StatusFields /\ FromSpec(job.obj) \in StatusFields
        BY <1>1, <2>1, FromPodTyped, FromSpecTyped DEF TypeOK, JobOK
    <2>3. PICK st \in StatusFields :
            job' = [job EXCEPT !.gw = g, !.intact = TRUE, !.obj.status = st]
        <3>1. CASE job.mode = "build"
            BY <1>2, <2>2, <3>1 DEF GetNatGwPod
        <3>2. CASE job.mode = "move"
            BY <1>2, <2>2, <3>2 DEF GetNatGwPod
        <3>3. CASE job.mode \notin {"build", "move"}
            BY <1>1, <1>2, <3>3 DEF GetNatGwPod, Object
        <3> QED
            BY <3>1, <3>2, <3>3
    <2>4. job' \in Job /\ job'.gw # None
        BY <1>1, <1>2, <2>1, <2>3 DEF Job, Object
    <2>5. pc' \in Steps
        BY <1>2 DEF GetNatGwPod, Steps
    <2> QED
        BY <2>4, <2>5, LocalTyped DEF GetNatGwPod
<1>3. CASE Stop
    BY <1>3, LocalTyped DEF GetNatGwPod
<1> QED
    BY <1>2, <1>3 DEF GetNatGwPod

LEMMA ExecStepsTyped ==
    ASSUME TypeOK,
           ExecCreateTunnel \/ ExecAddRoute \/ ExecDelRoute \/ ExecDeleteTunnel
    PROVE  TypeOK'
<1>1. pc # "idle" /\ pc \in InPod
    BY DEF ExecCreateTunnel, ExecAddRoute, ExecDelRoute, ExecDeleteTunnel, InPod
<1>2. /\ job \in Job /\ job.obj \in Object /\ job.t \in Tunnel
      /\ job.gw \in Gateway /\ job.gw # None
    BY <1>1 DEF TypeOK, JobOK, Job
<1>3. net[job.gw] \in Netns /\ OvnGw[job.gw] \in OvnGwIPs
    BY <1>2 DEF TypeOK, JobOK, OvnGwIPs
<1>4. CASE ExecCreateTunnel
    <2>1. CreateTunnel(net[job.gw], job.t, job.obj) \in Netns
        BY <1>2, <1>3, CreateTunnelTyped
    <2> QED
        BY <1>1, <1>2, <1>4, <2>1, ExecTyped DEF ExecCreateTunnel, Steps
<1>5. CASE ExecAddRoute
    <2>1. AddRoute(net[job.gw], job.t, job.obj, OvnGw[job.gw]) \in Netns
        BY <1>2, <1>3, AddRouteTyped
    <2> QED
        BY <1>1, <1>2, <1>5, <2>1, ExecTyped DEF ExecAddRoute, Steps
<1>6. CASE ExecDelRoute
    <2>1. DelRoute(net[job.gw], job.t, job.obj) \in Netns
        BY <1>2, <1>3, DelRouteTyped
    <2> QED
        BY <1>1, <1>2, <1>6, <2>1, ExecTyped DEF ExecDelRoute, Steps
<1>7. CASE ExecDeleteTunnel
    <2> DEFINE next == IF job.mode = "delete" THEN "release" ELSE "create"
               j == IF job.mode = "delete" THEN job
                      ELSE [job EXCEPT !.obj.status = FromSpec(job.obj)]
    <2>1. DeleteTunnel(net[job.gw], job.t, job.obj) \in Netns
        BY <1>2, <1>3, DeleteTunnelTyped
    <2>2. FromSpec(job.obj) \in StatusFields
        BY <1>2, FromSpecTyped
    <2>3. j \in Job /\ j.gw # None
        BY <1>1, <1>2, <2>2 DEF Job, Object, TypeOK, JobOK
    <2>4. next \in Steps /\ next # "revertType"
        BY DEF Steps
    <2>5. Exec(DeleteTunnel(net[job.gw], job.t, job.obj),
               DeleteTunnelOk(net[job.gw], job.t, job.obj), next, j)
        BY <1>7 DEF ExecDeleteTunnel
    <2> HIDE DEF next, j
    <2> QED
        BY <1>1, <1>2, <2>1, <2>3, <2>4, <2>5, ExecTyped
<1> QED
    BY <1>4, <1>5, <1>6, <1>7

LEMMA WritesTyped ==
    ASSUME TypeOK,
           AddFinalizer \/ RevertType \/ WriteStatus \/ WriteSpec \/ Release
    PROVE  TypeOK'
<1>1. pc # "idle"
    BY DEF AddFinalizer, RevertType, WriteStatus, WriteSpec, Release
<1>2. job \in Job /\ job.obj \in Object
    BY <1>1 DEF TypeOK, JobOK, Job
<1>3. job.obj.spec \in SpecFields /\ job.obj.status \in StatusFields
    BY <1>2 DEF Object
<1>4. CASE AddFinalizer
    <2>1. [job.obj EXCEPT !.finalizer = TRUE] \in Object
        BY <1>2 DEF Object
    <2> QED
        BY <1>1, <1>4, <2>1, UpdateTyped DEF AddFinalizer
<1>5. CASE RevertType
    <2>1. job.obj.status.type \in Type
        BY <1>3, <1>5 DEF RevertType, TypeOK, JobOK, StatusFields, StatusRecord
    <2>2. [job.obj EXCEPT !.spec.type = job.obj.status.type] \in Object
        BY <1>2, <1>3, <2>1 DEF Object, SpecFields, StatusFields, StatusRecord
    <2> QED
        BY <1>1, <1>5, <2>2, UpdateTyped DEF RevertType
<1>6. CASE WriteStatus
    <2>1. AfterStatus \in {"idle", "writeSpec"}
        BY DEF AfterStatus
    <2> QED
        BY <1>1, <1>2, <1>6, <2>1, UpdateTyped DEF WriteStatus
<1>7. CASE WriteSpec
    <2> DEFINE o == job.obj
               b == [o EXCEPT !.label = o.spec.peer,
                              !.spec.internalIP = o.status.internalIP,
                              !.spec.localGw = o.status.localGw,
                              !.spec.remoteIP = o.status.remoteIP]
               u == [o EXCEPT !.label = o.spec.peer]
    <2>1. b \in Object /\ u \in Object
        BY <1>2, <1>3 DEF Object, SpecFields, StatusFields, StatusRecord
    <2>2. Update(IF job.mode = "build" THEN b ELSE u, "idle")
        BY <1>7 DEF WriteSpec
    <2> HIDE DEF b, u
    <2> QED
        BY <1>1, <2>1, <2>2, UpdateTyped
<1>8. CASE Release
    BY <1>1, <1>8, UpdateTyped DEF Release
<1> QED
    BY <1>4, <1>5, <1>6, <1>7, <1>8

LEMMA FailuresTyped ==
    ASSUME TypeOK,
           CallFails \/ Crash \/ Panic \/ \E t \in Tunnel : SyncCache(t)
    PROVE  TypeOK'
<1>1. CASE CallFails
    BY <1>1 DEF CallFails, Stop, Fault, world, count, TypeOK, JobOK, InPod, Steps
<1>2. CASE Restart /\ faults' \in Nat
    <2>1. cache' \in [Tunnel -> [obj : Object \cup {None}, fresh : BOOLEAN]]
        BY <1>2 DEF Restart, TypeOK, JobOK
    <2> QED
        BY <1>2, <2>1 DEF Restart, Stop, world, count, TypeOK, JobOK, InPod
<1>3. CASE \E t \in Tunnel : SyncCache(t)
    BY <1>3 DEF SyncCache, world, count, TypeOK, JobOK
<1>4. CASE Crash
    BY <1>2, <1>4 DEF Crash, Fault, TypeOK, JobOK
<1>5. CASE Panic
    BY <1>2, <1>5 DEF Panic, TypeOK, JobOK
<1> QED
    BY <1>1, <1>3, <1>4, <1>5

LEMMA PutOtherTyped ==
    ASSUME TypeOK, NEW t \in Tunnel, NEW o \in Object \cup {None}, PutOther(t, o),
           events' \in Nat, outages' \in Nat
    PROVE  TypeOK'
<1>1. /\ obj' \in [Tunnel -> Object \cup {None}]
      /\ cache' \in [Tunnel -> [obj : Object \cup {None}, fresh : BOOLEAN]]
    BY PutTyped DEF PutOther
<1>2. JobOK'
    BY DEF PutOther, TypeOK, JobOK, Job, InPod, Steps
<1> QED
    BY <1>1, <1>2 DEF PutOther, world, TypeOK, JobOK

LEMMA UserTyped ==
    ASSUME TypeOK, User
    PROVE  TypeOK'
<1>1. PICK t \in Tunnel :
        \/ UserDeletes(t)
        \/ \E p \in Peer, a \in Addr, ty \in Type :
              UserCreates(t, p, a, ty) \/ UserEdits(t, p, a, ty)
    BY DEF User
<1>2. events' \in Nat /\ outages' \in Nat
    <2>1. Event
        BY <1>1 DEF UserDeletes, UserCreates, UserEdits
    <2> QED
        BY <2>1 DEF Event, TypeOK
<1>3. obj[t] \in Object \cup {None}
    BY DEF TypeOK, JobOK
<1>4. CASE UserDeletes(t)
    <2>1. obj[t] \in Object
        BY <1>3, <1>4 DEF UserDeletes
    <2>2. [obj[t] EXCEPT !.deleting = TRUE] \in Object
        BY <2>1 DEF Object
    <2> QED
        BY <1>2, <1>4, <2>2, PutOtherTyped DEF UserDeletes
<1>5. ASSUME NEW p \in Peer, NEW a \in Addr, NEW ty \in Type, UserCreates(t, p, a, ty)
      PROVE  TypeOK'
    <2>1. NewObject(p, a, ty) \in Object
        BY DEF NewObject, EmptyStatus, Object, SpecFields, StatusFields, StatusRecord
    <2> QED
        BY <1>2, <1>5, <2>1, PutOtherTyped DEF UserCreates
<1>6. ASSUME NEW p \in Peer, NEW a \in Addr, NEW ty \in Type, UserEdits(t, p, a, ty)
      PROVE  TypeOK'
    <2>1. obj[t] \in Object /\ obj[t].spec \in SpecFields
        BY <1>3, <1>6 DEF UserEdits, Object
    <2>2. [obj[t] EXCEPT !.spec.peer = p, !.spec.interfaceAddr = a, !.spec.type = ty]
             \in Object
        BY <2>1 DEF Object, SpecFields
    <2> QED
        BY <1>2, <1>6, <2>2, PutOtherTyped DEF UserEdits
<1> QED
    BY <1>1, <1>4, <1>5, <1>6

LEMMA ClusterTyped ==
    ASSUME TypeOK, Cluster
    PROVE  TypeOK'
<1>1. ASSUME NEW t \in Tunnel, SyncerPatches(t)
      PROVE  TypeOK'
    <2>1. /\ obj[t] \in Object /\ obj[t].spec \in SpecFields
          /\ obj[t].label \in Peer
        BY <1>1 DEF SyncerPatches, TypeOK, Object
    <2>2. remoteExIp[obj[t].label] \in RemoteIP
        BY <1>1, <2>1 DEF SyncerPatches, TypeOK
    <2>3. [obj[t] EXCEPT !.spec.remoteIP = remoteExIp[obj[t].label]] \in Object
        BY <2>1, <2>2 DEF Object, SpecFields
    <2>4. events' \in Nat /\ outages' \in Nat
        BY <1>1 DEF SyncerPatches, count, TypeOK
    <2> QED
        BY <1>1, <2>3, <2>4, PutOtherTyped DEF SyncerPatches
<1>2. ASSUME NEW t \in Tunnel, InformerPatches(t)
      PROVE  TypeOK'
    <2> DEFINE r == [obj[t] EXCEPT !.spec.internalIP = localExIp.ip]
               m == [r EXCEPT !.spec.localGw = localExIp.gw]
    <2>1. obj[t] \in Object /\ obj[t].spec \in SpecFields
        BY <1>2 DEF InformerPatches, TypeOK, Object
    <2>2. localExIp.gw \in Gateway /\ localExIp.ip \in GwIP
        BY <1>2 DEF InformerPatches, TypeOK, PG!Endpoint
    <2>3. r \in Object /\ r.spec \in SpecFields
        BY <2>1, <2>2 DEF Object, SpecFields
    <2>4. m \in Object
        BY <2>2, <2>3 DEF Object, SpecFields
    <2>5. PutOther(t, r) \/ PutOther(t, m)
        BY <1>2 DEF InformerPatches
    <2>6. events' \in Nat /\ outages' \in Nat
        BY <1>2 DEF InformerPatches, count, TypeOK
    <2> HIDE DEF r, m
    <2> QED
        BY <2>3, <2>4, <2>5, <2>6, PutOtherTyped
<1>3. ASSUME NEW p \in Peer, NEW i \in RemoteIP, RemoteExIpSynced(p, i)
      PROVE  TypeOK'
    BY <1>3 DEF RemoteExIpSynced, Event, Calm, TypeOK, JobOK
<1>4. ASSUME NEW e \in PG!Endpoint, LocalExIpMoves(e)
      PROVE  TypeOK'
    BY <1>4 DEF LocalExIpMoves, PG!Announce, PG!Readdress, PG!TakeOver, Calm, count,
                TypeOK, JobOK
<1>9. ASSUME LocalExIpDeleted
      PROVE  TypeOK'
    BY <1>9 DEF LocalExIpDeleted, PG!Withdraw, Calm, count, TypeOK, JobOK
<1>5. ASSUME NEW g \in Gateway, PodLost(g)
      PROVE  TypeOK'
    <2>1. JobOK'
        BY <1>5 DEF PodLost, Calm, TypeOK, JobOK, Job, InPod, Steps
    <2>2. net' \in [Gateway -> Netns]
        BY <1>5, EmptyNetTyped DEF PodLost, TypeOK
    <2> QED
        BY <1>5, <2>1, <2>2 DEF PodLost, PG!IsLost, Outage, Calm, TypeOK
<1>6. ASSUME NEW g \in Gateway, NodeLost(g)
      PROVE  TypeOK'
    BY <1>6 DEF NodeLost, PG!IsLost, Outage, Calm, TypeOK, JobOK
<1>7. ASSUME NEW g \in Gateway, NEW i \in GwIP, PodStarts(g, i)
      PROVE  TypeOK'
    BY <1>7 DEF PodStarts, PG!ComesUp, PG!Endpoint, Calm, count, TypeOK, JobOK
<1>8. ASSUME EgressAllocated
      PROVE  TypeOK'
    BY <1>8 DEF EgressAllocated, Calm, count, TypeOK, JobOK
<1> QED
    BY <1>1, <1>2, <1>3, <1>4, <1>5, <1>6, <1>7, <1>8, <1>9 DEF Cluster

LEMMA StutterTyped ==
    ASSUME TypeOK, UNCHANGED vars
    PROVE  TypeOK'
    BY DEF vars, world, count, TypeOK, JobOK

\* Every variable keeps its type, whatever fails and whoever interferes.
THEOREM TypeCorrect == Spec => []TypeOK
<1>1. Init => TypeOK
    BY InitTyped
<1>2. TypeOK /\ [Next]_vars => TypeOK'
    <2> SUFFICES ASSUME TypeOK, [Next]_vars PROVE TypeOK'
        OBVIOUS
    <2>1. CASE \E t \in Tunnel : Begin(t) \/ SyncCache(t)
        BY <2>1, BeginTyped, FailuresTyped
    <2>2. CASE WorkerStep
        BY <2>2, DecideTyped, GetNatGwPodTyped, ExecStepsTyped, WritesTyped,
           FailuresTyped DEF WorkerStep
    <2>3. CASE CallFails \/ Crash
        BY <2>3, FailuresTyped
    <2>4. CASE User \/ Cluster
        BY <2>4, UserTyped, ClusterTyped
    <2>5. CASE UNCHANGED vars
        BY <2>5, StutterTyped
    <2> QED
        BY <2>1, <2>2, <2>3, <2>4, <2>5 DEF Next
<1> QED
    BY <1>1, <1>2, PTL DEF Spec

-------------------------------------------------------------------------------
(***************************************************************************)
(* Nothing is left behind in a single gateway.                             *)
(*                                                                         *)
(* NothingLeftBehind is not inductive: a reconcile that builds a device    *)
(* works from a cached copy, and the object may have been changed since.   *)
(* OwnerInv says what the cached copies and the running reconcile are      *)
(* still good for: a cached copy with the finalizer that is not being      *)
(* deleted, however old, means that the object is there and still has the  *)
(* finalizer; so does a reconcile that builds; and a deletion that is not  *)
(* out of date deletes what it has seen.                                   *)
(***************************************************************************)

SingleGateway == \A g, h \in Gateway : g = h

Owned(t) == obj[t] # None /\ obj[t].finalizer

Deleting == {"getPod", "delRoute", "delTunnel", "release"}

CacheOwned ==
    \A t \in Tunnel :
        LET o == cache[t].obj IN
        /\ o # None /\ o.finalizer /\ ~o.deleting => Owned(t)
        /\ cache[t].fresh => o = obj[t]

BuildOwned ==
    pc \notin {"idle", "finalize"} /\ job.mode # "delete"
        => Owned(job.t) /\ job.obj.finalizer

DeleteSeen ==
    /\ pc # "idle" /\ job.mode = "delete" => pc \in Deleting
    /\ pc # "idle" /\ job.mode = "delete" /\ job.fresh
        => cache[job.t].fresh /\ obj[job.t] # None /\ obj[job.t].deleting
    /\ pc = "release" =>
        /\ job.mode = "delete"
        /\ SingleGateway => \A g \in Gateway : net[g].link[job.t] = None

Swept == SingleGateway => NothingLeftBehind

OwnerInv == CacheOwned /\ BuildOwned /\ DeleteSeen /\ Swept

LEMMA InitOwned == Init => OwnerInv
    BY DEF Init, OwnerInv, CacheOwned, BuildOwned, DeleteSeen, Swept, NothingLeftBehind,
           EmptyNet

LEMMA StopOwned ==
    ASSUME OwnerInv, Stop, UNCHANGED <<obj, cache, net>>
    PROVE  OwnerInv'
    BY DEF Stop, OwnerInv, CacheOwned, BuildOwned, DeleteSeen, Swept, NothingLeftBehind, Owned

LEMMA BeginOwned ==
    ASSUME TypeOK, OwnerInv, NEW t \in Tunnel, Begin(t)
    PROVE  OwnerInv'
<1> DEFINE o == cache[t].obj
<1>1. UNCHANGED <<obj, cache, net>>
    BY DEF Begin, Local, world
<1>2. /\ o \in Object /\ o # None /\ (o.deleting => o.finalizer)
      /\ pc' = FirstStep(o) /\ job'.t = t /\ job'.obj = o
      /\ job'.fresh = cache[t].fresh
      /\ job'.mode = IF o.deleting THEN "delete" ELSE "none"
    BY DEF Begin, TypeOK
<1>3. BuildOwned'
    <2> SUFFICES ASSUME pc' \notin {"idle", "finalize"}, job'.mode # "delete"
                 PROVE  Owned(t)' /\ job'.obj.finalizer
        BY <1>2 DEF BuildOwned
    <2>1. ~o.deleting /\ o.finalizer
        BY <1>2 DEF FirstStep
    <2> QED
        BY <1>1, <1>2, <2>1 DEF OwnerInv, CacheOwned, Owned
<1>4. DeleteSeen'
    BY <1>1, <1>2 DEF FirstStep, Deleting, DeleteSeen, OwnerInv, CacheOwned
<1> QED
    BY <1>1, <1>3, <1>4 DEF OwnerInv, CacheOwned, Swept, NothingLeftBehind, Owned

LEMMA DecideOwned ==
    ASSUME TypeOK, OwnerInv,
           DecideBuild \/ DecideRevert \/ DecideUpdate \/ DecideNothing
    PROVE  OwnerInv'
<1>1. UNCHANGED <<obj, cache, net>> /\ pc = "decide" /\ job \in Job
    BY DEF DecideBuild, DecideRevert, DecideUpdate, DecideNothing, Local, world,
           TypeOK, JobOK
<1>2. job.mode # "delete"
    BY <1>1 DEF OwnerInv, DeleteSeen, Deleting
<1>3. CASE DecideNothing
    BY <1>1, <1>3, StopOwned DEF DecideNothing
<1>4. ASSUME pc' \in {"getPod", "revertType"}, job'.t = job.t, job'.mode # "delete",
             job'.obj.finalizer = job.obj.finalizer
      PROVE  OwnerInv'
    <2>1. BuildOwned'
        BY <1>1, <1>2, <1>4 DEF OwnerInv, BuildOwned, Owned
    <2>2. DeleteSeen'
        BY <1>4 DEF DeleteSeen
    <2> QED
        BY <1>1, <2>1, <2>2 DEF OwnerInv, CacheOwned, Swept, NothingLeftBehind, Owned
<1>5. CASE DecideBuild
    <2>1. PICK s : job' = [job EXCEPT !.mode = "build", !.obj.status = s]
        BY <1>5 DEF DecideBuild
    <2>2. job'.t = job.t /\ job'.mode = "build" /\ job'.obj.finalizer = job.obj.finalizer
        BY <1>1, <2>1 DEF Job, Object
    <2> QED
        BY <1>4, <1>5, <2>2 DEF DecideBuild
<1>6. CASE DecideRevert
    BY <1>2, <1>4, <1>6 DEF DecideRevert
<1>7. CASE DecideUpdate
    <2>1. CASE SameGateway(job.obj)
        <3>1. job' = [job EXCEPT !.mode = "rebuild"]
            BY <1>7, <2>1 DEF DecideUpdate
        <3> QED
            BY <1>1, <1>4, <1>7, <3>1 DEF DecideUpdate, Job
    <2>2. CASE ~SameGateway(job.obj)
        <3>1. job' = [job EXCEPT !.mode = "move",
                                 !.obj.status.localGw = job.obj.spec.localGw]
            BY <1>7, <2>2 DEF DecideUpdate
        <3>2. job'.t = job.t /\ job'.mode = "move"
              /\ job'.obj.finalizer = job.obj.finalizer
            BY <1>1, <3>1 DEF Job, Object
        <3> QED
            BY <1>4, <1>7, <3>2 DEF DecideUpdate
    <2> QED
        BY <2>1, <2>2
<1> QED
    BY <1>3, <1>5, <1>6, <1>7

LEMMA GetNatGwPodOwned ==
    ASSUME TypeOK, OwnerInv, GetNatGwPod
    PROVE  OwnerInv'
<1>1. UNCHANGED <<obj, cache, net>> /\ pc = "getPod" /\ job \in Job
    BY DEF GetNatGwPod, Local, world, TypeOK, JobOK
<1>2. CASE Stop
    BY <1>1, <1>2, StopOwned
<1>3. CASE ~Stop
    <2>0. PICK g, s :
            /\ pc' = IF job.mode \in {"rebuild", "delete"} THEN "delRoute" ELSE "create"
            /\ job' = [job EXCEPT !.gw = g, !.intact = TRUE, !.obj.status = s]
        BY <1>3 DEF GetNatGwPod
    <2>1. /\ pc' = IF job.mode \in {"rebuild", "delete"} THEN "delRoute" ELSE "create"
          /\ job'.t = job.t /\ job'.mode = job.mode /\ job'.fresh = job.fresh
          /\ job'.obj.finalizer = job.obj.finalizer
        BY <1>1, <2>0 DEF Job, Object
    <2>2. BuildOwned'
        BY <1>1, <2>1 DEF OwnerInv, BuildOwned, Owned
    <2>3. DeleteSeen'
        BY <1>1, <2>1 DEF OwnerInv, DeleteSeen, Deleting
    <2> QED
        BY <1>1, <2>2, <2>3 DEF OwnerInv, CacheOwned, Swept, NothingLeftBehind, Owned
<1> QED
    BY <1>2, <1>3

\* A write that keeps the finalizer.
LEMMA UpdateOwned ==
    ASSUME TypeOK, OwnerInv, pc # "idle", job.mode # "delete",
           NEW o \in Object, o.finalizer, NEW next \in {"idle", "decide", "writeSpec"},
           Update(o, next)
    PROVE  OwnerInv'
<1>1. job \in Job /\ o # None /\ net' = net
    BY ConstantsOK DEF TypeOK, JobOK, Update, world
<1>2. CASE ~job.fresh
    BY <1>2, StopOwned DEF Update, world
<1>3. CASE Put(job.t, o) /\ Answer(next, [job EXCEPT !.obj = o])
    <2>1. /\ obj' = [obj EXCEPT ![job.t] = o]
          /\ cache' = [cache EXCEPT ![job.t].fresh = FALSE]
          /\ job.t \in Tunnel
        BY <1>1, <1>3 DEF Put, Job
    <2>2. obj'[job.t] = o /\ \A t \in Tunnel : Owned(t) => Owned(t)'
        BY <1>1, <2>1 DEF Owned, TypeOK
    <2>3. CacheOwned'
        BY <2>1, <2>2 DEF OwnerInv, CacheOwned, TypeOK
    <2>4. pc' = "idle" \/ (pc' = next /\ job' = [job EXCEPT !.obj = o])
        BY <1>3 DEF Answer, Stop
    <2>5. BuildOwned'
        BY <1>1, <2>2, <2>4 DEF BuildOwned, Job, Owned
    <2>6. DeleteSeen'
        BY <1>1, <2>4 DEF DeleteSeen, Job
    <2>7. Swept'
        BY <1>1, <2>2 DEF OwnerInv, Swept, NothingLeftBehind, Owned
    <2> QED
        BY <2>3, <2>5, <2>6, <2>7 DEF OwnerInv
<1> QED
    BY <1>2, <1>3 DEF Update

LEMMA WritesOwned ==
    ASSUME TypeOK, OwnerInv, AddFinalizer \/ RevertType \/ WriteStatus \/ WriteSpec
    PROVE  OwnerInv'
<1>1. /\ pc \in {"finalize", "revertType", "writeStatus", "writeSpec"}
      /\ job \in Job /\ job.obj \in Object
    BY DEF AddFinalizer, RevertType, WriteStatus, WriteSpec, TypeOK, JobOK, Job
<1>2. job.mode # "delete" /\ pc # "idle"
    BY <1>1 DEF OwnerInv, DeleteSeen, Deleting
<1>3. pc # "finalize" => job.obj.finalizer
    BY <1>1, <1>2 DEF OwnerInv, BuildOwned
<1>4. CASE AddFinalizer
    <2> DEFINE o == [job.obj EXCEPT !.finalizer = TRUE]
    <2>1. o \in Object /\ o.finalizer
        BY <1>1 DEF Object
    <2> QED
        BY <1>2, <1>4, <2>1, UpdateOwned DEF AddFinalizer
<1>5. CASE RevertType
    <2> DEFINE o == [job.obj EXCEPT !.spec.type = job.obj.status.type]
    <2>1. job.obj.status.type \in Type
        BY <1>1, <1>5 DEF RevertType, TypeOK, JobOK, Object, StatusFields, StatusRecord
    <2>2. o \in Object /\ o.finalizer
        BY <1>1, <1>3, <1>5, <2>1 DEF RevertType, Object, SpecFields
    <2> QED
        BY <1>2, <1>5, <2>2, UpdateOwned DEF RevertType
<1>6. CASE WriteStatus
    <2>1. AfterStatus \in {"idle", "writeSpec"}
        BY DEF AfterStatus
    <2> QED
        BY <1>1, <1>2, <1>3, <1>6, <2>1, UpdateOwned DEF WriteStatus
<1>7. CASE WriteSpec
    <2> DEFINE o == job.obj
               b == [o EXCEPT !.label = o.spec.peer,
                              !.spec.internalIP = o.status.internalIP,
                              !.spec.localGw = o.status.localGw,
                              !.spec.remoteIP = o.status.remoteIP]
               u == [o EXCEPT !.label = o.spec.peer]
               w == IF job.mode = "build" THEN b ELSE u
    <2>1. o.spec \in SpecFields /\ o.status \in StatusFields
        BY <1>1 DEF Object
    <2>2. b \in Object /\ u \in Object
        BY <1>1, <2>1 DEF Object, SpecFields, StatusFields, StatusRecord
    <2>3. b.finalizer /\ u.finalizer
        BY <1>1, <1>3, <1>7 DEF WriteSpec, Object
    <2>4. w \in Object /\ w.finalizer
        BY <2>2, <2>3
    <2>5. Update(w, "idle")
        BY <1>7 DEF WriteSpec
    <2> HIDE DEF w
    <2> QED
        BY <1>2, <2>4, <2>5, UpdateOwned
<1> QED
    BY <1>4, <1>5, <1>6, <1>7

\* Commands in the pod: a device is created by a reconcile that builds, and by
\* the one that deletes it is removed from the only gateway there is.
LEMMA ExecOwned ==
    ASSUME TypeOK, OwnerInv, pc \in InPod, job \in Job,
           NEW n, NEW ok, NEW next \in Steps \ {"finalize"}, NEW j \in Job,
           Exec(n, ok, next, j),
           j.t = job.t, j.mode = job.mode, j.fresh = job.fresh,
           j.obj.finalizer = job.obj.finalizer,
           \A t \in Tunnel : n.link[t] # None => net[job.gw].link[t] # None \/ Owned(t),
           job.mode = "delete" => next \in Deleting,
           next = "release" => job.mode = "delete",
           SingleGateway /\ ok /\ next = "release" => \A g \in Gateway :
                [net EXCEPT ![job.gw] = n][g].link[job.t] = None
    PROVE  OwnerInv'
<1>1. /\ UNCHANGED <<obj, cache>> /\ job.gw \in Gateway
      /\ pc \notin {"idle", "finalize"}
    BY DEF Exec, TypeOK, JobOK, InPod, Job
<1>2. CASE UNCHANGED net /\ Stop
    BY <1>1, <1>2, StopOwned
<1>3. CASE net' = [net EXCEPT ![job.gw] = n] /\ (Stop \/ ok)
           /\ (Stop \/ (pc' = next /\ job' = j))
    <2>1. Swept'
        BY <1>1, <1>3 DEF OwnerInv, Swept, NothingLeftBehind, Owned, TypeOK
    <2>2. BuildOwned'
        BY <1>1, <1>3 DEF OwnerInv, BuildOwned, Owned, Stop
    <2>3. DeleteSeen'
        BY <1>1, <1>3 DEF OwnerInv, DeleteSeen, Deleting, Stop, TypeOK
    <2> QED
        BY <1>1, <2>1, <2>2, <2>3 DEF OwnerInv, CacheOwned, Owned
<1> QED
    BY <1>2, <1>3 DEF Exec, Answer

LEMMA CommandsOwned ==
    ASSUME TypeOK, OwnerInv,
           ExecCreateTunnel \/ ExecAddRoute \/ ExecDelRoute \/ ExecDeleteTunnel
    PROVE  OwnerInv'
<1> DEFINE n0 == net[job.gw]
<1>1. /\ pc \in InPod /\ job \in Job /\ job.gw \in Gateway /\ job.obj \in Object
      /\ n0 \in Netns /\ job.t \in Tunnel
    BY DEF ExecCreateTunnel, ExecAddRoute, ExecDelRoute, ExecDeleteTunnel,
           TypeOK, JobOK, Job, InPod
<1>2. CASE ExecCreateTunnel
    <2> DEFINE n == CreateTunnel(n0, job.t, job.obj)
               ok == CreateTunnelOk(n0, job.t, job.obj)
    <2>1. job.mode # "delete" /\ Owned(job.t)
        BY <1>2 DEF ExecCreateTunnel, OwnerInv, DeleteSeen, BuildOwned, Deleting
    <2>2. \A t \in Tunnel \ {job.t} : n.link[t] = n0.link[t]
        BY <1>1 DEF CreateTunnel, CreateTunnelOk, Netns
    <2>3. Exec(n, ok, "addRoute", job)
        BY <1>2 DEF ExecCreateTunnel
    <2>4. "addRoute" \in Steps \ {"finalize"}
        BY DEF Steps
    <2>5. \A t \in Tunnel : n.link[t] # None => n0.link[t] # None \/ Owned(t)
        BY <2>1, <2>2
    <2> HIDE DEF n, ok
    <2> QED
        BY <1>1, <2>1, <2>3, <2>4, <2>5, ExecOwned
<1>3. CASE ExecAddRoute
    <2> DEFINE n == AddRoute(n0, job.t, job.obj, OvnGw[job.gw])
               ok == AddRouteOk(n0, job.t, job.obj, OvnGw[job.gw])
    <2>1. job.mode # "delete"
        BY <1>3 DEF ExecAddRoute, OwnerInv, DeleteSeen, Deleting
    <2>2. n.link = n0.link
        BY <1>1 DEF AddRoute, Netns
    <2>3. Exec(n, ok, "writeStatus", job)
        BY <1>3 DEF ExecAddRoute
    <2>4. "writeStatus" \in Steps \ {"finalize"}
        BY DEF Steps
    <2> HIDE DEF n, ok
    <2> QED
        BY <1>1, <2>1, <2>2, <2>3, <2>4, ExecOwned
<1>4. CASE ExecDelRoute
    <2> DEFINE n == DelRoute(n0, job.t, job.obj)
               ok == DelRouteOk(n0, job.t, job.obj)
    <2>1. n.link = n0.link
        BY <1>1 DEF DelRoute, Netns
    <2>2. Exec(n, ok, "delTunnel", job)
        BY <1>4 DEF ExecDelRoute
    <2>3. "delTunnel" \in Steps \ {"finalize"} /\ "delTunnel" \in Deleting
        BY DEF Steps, Deleting
    <2> HIDE DEF n, ok
    <2> QED
        BY <1>1, <2>1, <2>2, <2>3, ExecOwned
<1>5. CASE ExecDeleteTunnel
    <2> DEFINE n == DeleteTunnel(n0, job.t, job.obj)
               ok == DeleteTunnelOk(n0, job.t, job.obj)
               next == IF job.mode = "delete" THEN "release" ELSE "create"
               j == IF job.mode = "delete" THEN job
                      ELSE [job EXCEPT !.obj.status = FromSpec(job.obj)]
    <2>1. n.link = IF ok THEN [n0.link EXCEPT ![job.t] = None] ELSE n0.link
        BY <1>1 DEF DeleteTunnel, Netns
    <2>2. \A t \in Tunnel : n.link[t] # None => n0.link[t] # None
        BY <1>1, <2>1 DEF Netns
    <2>3. SingleGateway /\ ok => \A g \in Gateway : [net EXCEPT ![job.gw] = n][g].link[job.t] = None
        BY <1>1, <2>1 DEF SingleGateway, TypeOK, Netns
    <2>4. FromSpec(job.obj) \in StatusFields
        BY <1>1, FromSpecTyped
    <2>5. /\ j \in Job /\ j.t = job.t /\ j.mode = job.mode /\ j.fresh = job.fresh
          /\ j.obj.finalizer = job.obj.finalizer
        BY <1>1, <2>4 DEF Job, Object
    <2>6. Exec(n, ok, next, j)
        BY <1>5 DEF ExecDeleteTunnel
    <2>7. next \in Steps \ {"finalize"} /\ (job.mode = "delete" => next \in Deleting)
          /\ (next = "release" => job.mode = "delete")
        BY DEF Steps, Deleting
    <2> HIDE DEF n, ok, next, j
    <2> QED
        BY <1>1, <2>2, <2>3, <2>5, <2>6, <2>7, ExecOwned
<1> QED
    BY <1>2, <1>3, <1>4, <1>5

\* The object that disappears has no device, and no cached copy of it is fit to
\* build from.
LEMMA ReleaseOwned ==
    ASSUME TypeOK, OwnerInv, Release
    PROVE  OwnerInv'
<1>1. /\ pc = "release" /\ job \in Job /\ job.t \in Tunnel /\ job.mode = "delete"
      /\ net' = net
      /\ SingleGateway => \A g \in Gateway : net[g].link[job.t] = None
    BY DEF Release, Update, world, TypeOK, JobOK, Job, OwnerInv, DeleteSeen, Swept
<1>2. Stop
    BY DEF Release, Update, Answer
<1>3. CASE UNCHANGED <<obj, cache>>
    BY <1>1, <1>2, <1>3, StopOwned
<1>4. CASE job.fresh /\ Put(job.t, None)
    <2>1. /\ obj' = [obj EXCEPT ![job.t] = None]
          /\ cache' = [cache EXCEPT ![job.t].fresh = FALSE]
        BY <1>4 DEF Put
    <2>2. cache[job.t].obj.deleting
        BY <1>1, <1>4 DEF OwnerInv, DeleteSeen, CacheOwned
    <2>3. CacheOwned'
        BY <1>1, <2>1, <2>2 DEF OwnerInv, CacheOwned, Owned, TypeOK
    <2>4. Swept'
        BY <1>1, <2>1 DEF OwnerInv, Swept, NothingLeftBehind, TypeOK
    <2> QED
        BY <1>2, <2>3, <2>4 DEF OwnerInv, BuildOwned, DeleteSeen, Stop
<1> QED
    BY <1>3, <1>4 DEF Release, Update

LEMMA FailuresOwned ==
    ASSUME TypeOK, OwnerInv,
           CallFails \/ Crash \/ Panic \/ \E t \in Tunnel : SyncCache(t)
    PROVE  OwnerInv'
<1>1. CASE CallFails
    BY <1>1, StopOwned DEF CallFails, world
<1>2. CASE Restart
    <2>1. CacheOwned'
        BY <1>2 DEF Restart, CacheOwned, Owned
    <2> QED
        BY <1>2, <2>1 DEF Restart, Stop, world, OwnerInv, BuildOwned, DeleteSeen,
                          Swept, NothingLeftBehind
<1>3. ASSUME NEW t \in Tunnel, SyncCache(t)
      PROVE  OwnerInv'
    <2>1. UNCHANGED <<obj, pc, job, net>>
        BY <1>3 DEF SyncCache, world
    <2>2. CacheOwned'
        BY <1>3, <2>1 DEF SyncCache, OwnerInv, CacheOwned, Owned, TypeOK
    <2>3. pc # "idle" => job.t \in Tunnel
        BY DEF TypeOK, JobOK, Job
    <2>4. DeleteSeen'
        BY <1>3, <2>1, <2>3 DEF SyncCache, OwnerInv, DeleteSeen, TypeOK
    <2> QED
        BY <2>1, <2>2, <2>4 DEF OwnerInv, BuildOwned, Swept, NothingLeftBehind, Owned
<1> QED
    BY <1>1, <1>2, <1>3 DEF Crash, Panic

\* Nobody else takes an object that has the finalizer away.
LEMMA PutOtherOwned ==
    ASSUME TypeOK, OwnerInv, NEW t \in Tunnel, NEW o, PutOther(t, o),
           Owned(t) => o # None /\ o.finalizer
    PROVE  OwnerInv'
<1>1. /\ obj' = [obj EXCEPT ![t] = o]
      /\ cache' = [cache EXCEPT ![t].fresh = FALSE]
      /\ UNCHANGED <<pc, net>>
      /\ job' = IF pc # "idle" /\ job.t = t THEN [job EXCEPT !.fresh = FALSE] ELSE job
    BY DEF PutOther, Put, world
<1>2. \A u \in Tunnel : Owned(u) => Owned(u)'
    BY <1>1 DEF Owned, TypeOK
<1>3. CacheOwned'
    BY <1>1, <1>2 DEF OwnerInv, CacheOwned, TypeOK
<1>4. pc # "idle" => /\ job \in Job /\ job.t \in Tunnel
                     /\ job'.t = job.t /\ job'.mode = job.mode /\ job'.obj = job.obj
                     /\ job'.fresh => job.t # t /\ job.fresh
    BY <1>1 DEF TypeOK, JobOK, Job
<1>5. BuildOwned'
    BY <1>1, <1>2, <1>4 DEF OwnerInv, BuildOwned, Owned
<1>6. DeleteSeen'
    BY <1>1, <1>4 DEF OwnerInv, DeleteSeen, TypeOK
<1>7. Swept'
    BY <1>1, <1>2 DEF OwnerInv, Swept, NothingLeftBehind, Owned
<1> QED
    BY <1>3, <1>5, <1>6, <1>7 DEF OwnerInv

LEMMA UserOwned ==
    ASSUME TypeOK, OwnerInv, User
    PROVE  OwnerInv'
<1>1. ASSUME NEW t \in Tunnel, UserDeletes(t)
      PROVE  OwnerInv'
    <2>1. obj[t] \in Object /\ [obj[t] EXCEPT !.deleting = TRUE] \in Object
        BY <1>1 DEF UserDeletes, TypeOK, Object
    <2>2. obj[t].finalizer => [obj[t] EXCEPT !.deleting = TRUE].finalizer
        BY <2>1 DEF Object
    <2> QED
        BY <1>1, <2>1, <2>2, PutOtherOwned, ConstantsOK DEF UserDeletes, Owned
<1>2. ASSUME NEW t \in Tunnel, NEW p \in Peer, NEW a \in Addr, NEW ty \in Type,
             UserCreates(t, p, a, ty)
      PROVE  OwnerInv'
    BY <1>2, PutOtherOwned DEF UserCreates, Owned
<1>3. ASSUME NEW t \in Tunnel, NEW p \in Peer, NEW a \in Addr, NEW ty \in Type,
             UserEdits(t, p, a, ty)
      PROVE  OwnerInv'
    <2> DEFINE o == [obj[t] EXCEPT !.spec.peer = p, !.spec.interfaceAddr = a,
                                   !.spec.type = ty]
    <2>1. obj[t] \in Object /\ obj[t].spec \in SpecFields
        BY <1>3 DEF UserEdits, TypeOK, Object
    <2>2. o \in Object /\ o.finalizer = obj[t].finalizer
        BY <2>1 DEF Object, SpecFields
    <2> QED
        BY <1>3, <2>2, PutOtherOwned, ConstantsOK DEF UserEdits, Owned
<1> QED
    BY <1>1, <1>2, <1>3 DEF User

LEMMA ClusterOwned ==
    ASSUME TypeOK, OwnerInv, Cluster
    PROVE  OwnerInv'
<1>1. ASSUME NEW t \in Tunnel, SyncerPatches(t)
      PROVE  OwnerInv'
    <2> DEFINE o == [obj[t] EXCEPT !.spec.remoteIP = remoteExIp[obj[t].label]]
    <2>1. obj[t] \in Object /\ remoteExIp[obj[t].label] \in RemoteIP
        BY <1>1 DEF SyncerPatches, TypeOK, Object
    <2>2. o \in Object /\ o.finalizer = obj[t].finalizer
        BY <2>1 DEF Object, SpecFields
    <2> QED
        BY <1>1, <2>2, PutOtherOwned, ConstantsOK DEF SyncerPatches, Owned
<1>2. ASSUME NEW t \in Tunnel, InformerPatches(t)
      PROVE  OwnerInv'
    <2> DEFINE r == [obj[t] EXCEPT !.spec.internalIP = localExIp.ip]
               m == [r EXCEPT !.spec.localGw = localExIp.gw]
    <2>1. obj[t] \in Object /\ obj[t].spec \in SpecFields
          /\ localExIp.gw \in Gateway /\ localExIp.ip \in GwIP
        BY <1>2 DEF InformerPatches, TypeOK, Object, PG!Endpoint
    <2>2. r \in Object /\ r.spec \in SpecFields /\ r.finalizer = obj[t].finalizer
        BY <2>1 DEF Object, SpecFields
    <2>3. m \in Object /\ m.finalizer = r.finalizer
        BY <2>1, <2>2 DEF Object, SpecFields
    <2>4. PutOther(t, r) \/ PutOther(t, m)
        BY <1>2 DEF InformerPatches
    <2> HIDE DEF r, m
    <2> QED
        BY <2>2, <2>3, <2>4, PutOtherOwned, ConstantsOK DEF Owned
<1>3. ASSUME UNCHANGED <<obj, cache, pc, job>>,
             \A g \in Gateway, t \in Tunnel :
                net'[g].link[t] # None => net[g].link[t] # None
      PROVE  OwnerInv'
    <2>1. pc # "idle" => job.t \in Tunnel
        BY DEF TypeOK, JobOK, Job
    <2>2. DeleteSeen'
        BY <1>3, <2>1 DEF OwnerInv, DeleteSeen, Deleting
    <2> QED
        BY <1>3, <2>2 DEF OwnerInv, CacheOwned, BuildOwned, Swept, NothingLeftBehind, Owned
<1>4. ASSUME NEW p \in Peer, NEW i \in RemoteIP, RemoteExIpSynced(p, i)
      PROVE  OwnerInv'
    BY <1>3, <1>4 DEF RemoteExIpSynced, Calm
<1>5. ASSUME \/ LocalExIpDeleted
             \/ \E e \in PG!Endpoint : LocalExIpMoves(e)
             \/ \E g \in Gateway : NodeLost(g)
      PROVE  OwnerInv'
    BY <1>3, <1>5 DEF LocalExIpMoves, LocalExIpDeleted, NodeLost, Calm
<1>6. ASSUME NEW g \in Gateway, NEW i \in GwIP, PodStarts(g, i)
      PROVE  OwnerInv'
    BY <1>3, <1>6 DEF PodStarts, Calm
<1>7. ASSUME EgressAllocated
      PROVE  OwnerInv'
    BY <1>3, <1>7 DEF EgressAllocated, Calm
<1>8. ASSUME NEW g \in Gateway, PodLost(g)
      PROVE  OwnerInv'
    <2>1. UNCHANGED <<obj, cache, pc>> /\ net' = [net EXCEPT ![g] = EmptyNet]
        BY <1>8 DEF PodLost, Calm
    <2>2. \A h \in Gateway, t \in Tunnel :
            net'[h].link[t] # None => net[h].link[t] # None
        BY <2>1 DEF EmptyNet, TypeOK
    <2>3. pc # "idle" => /\ job'.t = job.t /\ job'.mode = job.mode
                         /\ job'.obj = job.obj /\ job'.fresh = job.fresh
                         /\ job.t \in Tunnel
        BY <1>8 DEF PodLost, TypeOK, JobOK, Job
    <2>4. BuildOwned'
        BY <2>1, <2>3 DEF OwnerInv, BuildOwned, Owned
    <2>5. DeleteSeen'
        BY <2>1, <2>2, <2>3 DEF OwnerInv, DeleteSeen, Deleting
    <2> QED
        BY <2>1, <2>2, <2>4, <2>5 DEF OwnerInv, CacheOwned, Swept, NothingLeftBehind, Owned
<1> QED
    BY <1>1, <1>2, <1>4, <1>5, <1>6, <1>7, <1>8 DEF Cluster

\* Who creates a device.
LEMMA CreatorOnly ==
    ASSUME TypeOK, [Next]_vars, NEW g \in Gateway, NEW t \in Tunnel,
           net[g].link[t] = None, net'[g].link[t] # None
    PROVE  pc = "create" /\ t = job.t
<1> DEFINE n0 == net[job.gw]
<1>1. CASE ExecCreateTunnel
  <2>1. /\ pc = "create" /\ job.gw \in Gateway /\ job.t \in Tunnel
        /\ job.obj \in Object /\ n0 \in Netns
      BY <1>1 DEF ExecCreateTunnel, TypeOK, JobOK, Job, InPod
  <2>2. \A u \in Tunnel \ {job.t} : CreateTunnel(n0, job.t, job.obj).link[u] = n0.link[u]
      BY <2>1 DEF CreateTunnel, CreateTunnelOk, Netns
  <2>3. net' \in {net, [net EXCEPT ![job.gw] = CreateTunnel(n0, job.t, job.obj)]}
      BY <1>1 DEF ExecCreateTunnel, Exec
  <2> QED
      BY <2>1, <2>2, <2>3 DEF TypeOK
<1>2. ASSUME NEW n, \A u \in Tunnel : n0.link[u] = None => n.link[u] = None,
             net' \in {net, [net EXCEPT ![job.gw] = n]}
      PROVE  FALSE
    BY <1>2 DEF TypeOK
<1>3. CASE ExecAddRoute \/ ExecDelRoute \/ ExecDeleteTunnel
  <2>1. /\ job.gw \in Gateway /\ job.t \in Tunnel /\ job.obj \in Object
        /\ n0 \in Netns
      BY <1>3 DEF ExecAddRoute, ExecDelRoute, ExecDeleteTunnel, TypeOK, JobOK, Job, InPod
  <2>2. CASE ExecAddRoute
    <3>1. AddRoute(n0, job.t, job.obj, OvnGw[job.gw]).link = n0.link
        BY <2>1 DEF AddRoute, Netns
    <3> QED
        BY <2>2, <3>1, <1>2 DEF ExecAddRoute, Exec
  <2>3. CASE ExecDelRoute
    <3>1. DelRoute(n0, job.t, job.obj).link = n0.link
        BY <2>1 DEF DelRoute, Netns
    <3> QED
        BY <2>3, <3>1, <1>2 DEF ExecDelRoute, Exec
  <2>4. CASE ExecDeleteTunnel
    <3>1. \A u \in Tunnel : n0.link[u] = None
                             => DeleteTunnel(n0, job.t, job.obj).link[u] = None
        BY <2>1 DEF DeleteTunnel, Netns
    <3> QED
        BY <2>4, <3>1, <1>2 DEF ExecDeleteTunnel, Exec
  <2> QED
      BY <1>3, <2>2, <2>3, <2>4
<1>4. CASE \E h \in Gateway : PodLost(h)
  <2>1. PICK h \in Gateway : net' = [net EXCEPT ![h] = EmptyNet]
      BY <1>4 DEF PodLost
  <2> QED
      BY <2>1 DEF EmptyNet, TypeOK
<1>5. \/ net' = net \/ (\E h \in Gateway : PodLost(h))
      \/ ExecCreateTunnel \/ ExecAddRoute \/ ExecDelRoute \/ ExecDeleteTunnel
  <2>0. ASSUME NEW u, NEW o, PutOther(u, o) PROVE net' = net
      BY <2>0 DEF PutOther, world
  <2>1. CASE User
      BY <2>0, <2>1 DEF User, UserDeletes, UserCreates, UserEdits
  <2>2. CASE Cluster
      BY <2>0, <2>2 DEF Cluster, SyncerPatches, InformerPatches, RemoteExIpSynced,
             LocalExIpMoves, LocalExIpDeleted, NodeLost, PodStarts, EgressAllocated, world
  <2>3. CASE CallFails \/ Crash \/ Panic \/ (\E u \in Tunnel : Begin(u) \/ SyncCache(u))
             \/ UNCHANGED vars
      BY <2>3 DEF CallFails, Crash, Panic, Restart, Begin, SyncCache, Local, world, vars
  <2>4. CASE \/ AddFinalizer \/ RevertType \/ WriteStatus \/ WriteSpec \/ Release
             \/ DecideBuild \/ DecideRevert \/ DecideUpdate \/ DecideNothing
             \/ GetNatGwPod
      BY <2>4 DEF AddFinalizer, RevertType, WriteStatus, WriteSpec, Release, Update,
             DecideBuild, DecideRevert, DecideUpdate, DecideNothing, GetNatGwPod, Local, world
  <2> QED
      BY <2>1, <2>2, <2>3, <2>4 DEF Next, WorkerStep
<1> QED
    BY <1>1, <1>3, <1>4, <1>5

LEMMA OwnerInvariance == Spec => []OwnerInv
<1>1. Init => OwnerInv
    BY InitOwned
<1>2. TypeOK /\ OwnerInv /\ [Next]_vars => OwnerInv'
    <2> SUFFICES ASSUME TypeOK, OwnerInv, [Next]_vars PROVE OwnerInv'
        OBVIOUS
    <2>1. CASE \E t \in Tunnel : Begin(t) \/ SyncCache(t)
        BY <2>1, BeginOwned, FailuresOwned
    <2>2. CASE WorkerStep
        BY <2>2, DecideOwned, GetNatGwPodOwned, CommandsOwned, WritesOwned,
           ReleaseOwned, FailuresOwned DEF WorkerStep
    <2>3. CASE CallFails \/ Crash
        BY <2>3, FailuresOwned
    <2>4. CASE User \/ Cluster
        BY <2>4, UserOwned, ClusterOwned
    <2>5. CASE UNCHANGED vars
        BY <2>5 DEF vars, world, OwnerInv, CacheOwned, BuildOwned, DeleteSeen,
                    Swept, NothingLeftBehind, Owned
    <2> QED
        BY <2>1, <2>2, <2>3, <2>4, <2>5 DEF Next
<1> QED
    BY <1>1, <1>2, TypeCorrect, PTL DEF Spec

\* A device is created by a reconcile that builds, and that one works for an object
\* that has the finalizer and keeps it to the end, in a VPC with any number of gateways.
THEOREM BuildsOwned == Spec => BuiltOnlyOwned
<1>1. TypeOK /\ OwnerInv /\ [Next]_vars =>
        [\A g \in Gateway, t \in Tunnel :
           net[g].link[t] = None /\ net'[g].link[t] # None
           => obj[t] # None /\ obj[t].finalizer]_vars
  <2> SUFFICES ASSUME TypeOK, OwnerInv, [Next]_vars, NEW g \in Gateway, NEW t \in Tunnel,
                      net[g].link[t] = None, net'[g].link[t] # None
               PROVE  obj[t] # None /\ obj[t].finalizer
      OBVIOUS
  <2>1. pc = "create" /\ t = job.t
      BY CreatorOnly
  <2> QED
      BY <2>1 DEF OwnerInv, BuildOwned, DeleteSeen, Deleting, Owned
<1> QED
    BY <1>1, TypeCorrect, OwnerInvariance, PTL DEF Spec, BuiltOnlyOwned

\* In a VPC with one gateway every device is owned by an object that still has the
\* finalizer: through stale reads, failed calls, lost answers, restarts of the
\* operator, outages of the gateway and edits by anybody at any moment.
THEOREM CleanGateway == SingleGateway => (Spec => []NothingLeftBehind)
<1> SUFFICES ASSUME SingleGateway PROVE Spec => []NothingLeftBehind
    OBVIOUS
<1>1. OwnerInv => NothingLeftBehind
    BY DEF OwnerInv, Swept
<1> QED
    BY <1>1, OwnerInvariance, PTL

===============================================================================
