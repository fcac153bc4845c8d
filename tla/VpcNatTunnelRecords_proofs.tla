---------------------- MODULE VpcNatTunnelRecords_proofs ----------------------
(***************************************************************************)
(* What the objects record about the pods: theorems about the VpcNatTunnel *)
(* reconciler for any number of gateways, tunnels, peers and faults.       *)
(*                                                                         *)
(* None of the properties is inductive.  A write is right because of what  *)
(* the reconcile has done since it read its copy, many steps and calls     *)
(* ago, and because nobody else has written the object since.  RecordInv   *)
(* says what a copy is worth at every step of a reconcile: in the API      *)
(* server, in the cache, in the worker, and in the pod.  TrafficInv adds,  *)
(* for what the pods carry, which routes there are in a pod.               *)
(***************************************************************************)
EXTENDS VpcNatTunnel_proofs

-------------------------------------------------------------------------------
(* The invariant *)

\* The type the device of an object has, or will be built with.
TypeOf(o) == IF o.status.initialized THEN o.status.type ELSE o.spec.type

Labelled(o) ==
    /\ o.label # None => o.status.initialized
    /\ o.label = None => Unpatched(o)

Allocated(o) == o.status.initialized => o.status.egress

Recorded(o) ==
    /\ Labelled(o) /\ Allocated(o)
    /\ o.status.initialized => o.finalizer

\* Every copy there is, however old, was written whole.
CopiesRecorded ==
    \A t \in Tunnel :
        /\ obj[t] # None => Recorded(obj[t])
        /\ cache[t].obj # None => Recorded(cache[t].obj)
        /\ cache[t].fresh => cache[t].obj = obj[t]

Early    == {"finalize", "decide", "revertType"}
Late     == {"create", "addRoute", "writeStatus", "writeSpec"}
Written  == {"writeStatus", "writeSpec"}
Building == {"build", "move", "rebuild"}

\* What a reconcile does at which of its steps.
JobStage ==
    pc # "idle" =>
        /\ job.mode = "none" <=> pc \in Early
        /\ job.mode = "delete" => pc \in Deleting
        /\ pc = "release" => job.mode = "delete"
        /\ job.mode = "build" => pc \in {"getPod"} \cup Late /\ job.obj.label = None
        /\ job.mode \in Building =>
              job.obj.status.initialized /\ job.obj.spec.type = job.obj.status.type

\* The copy being worked on: its Status runs ahead of the pod in a build.
JobRecorded ==
    pc # "idle" =>
        /\ Labelled(job.obj)
        /\ pc # "finalize" => job.obj.finalizer
        /\ job.mode # "build" \/ pc \in Written => Allocated(job.obj)
        /\ pc \notin Early \cup {"getPod"} =>
              job.gw = job.obj.status.localGw /\ job.gw # None
        /\ job.mode = "build" \/ pc \in {"create", "addRoute"} =>
              job.obj.status.remoteCIDR \in CIDR

\* What the object in the API server is, if the next write will be accepted.
FreshSeen ==
    pc # "idle" /\ job.fresh =>
        LET o == obj[job.t]
            j == job.obj
            c == cache[job.t].obj
        IN
        /\ o # None /\ o.spec = j.spec /\ o.label = j.label
        /\ o.deleting = j.deleting /\ o.finalizer = j.finalizer
        /\ job.mode \in {"none", "delete"} \/ pc = "writeSpec" => o.status = j.status
        /\ TypeOf(o) = TypeOf(j)
        /\ c # None /\ TypeOf(c) = TypeOf(j)

\* Once a build is recorded every copy that is still about has its type.
TypeKept ==
    \A t \in Tunnel : Built(t) =>
        /\ cache[t].obj # None => TypeOf(cache[t].obj) = obj[t].status.type
        /\ pc # "idle" /\ job.t = t => TypeOf(job.obj) = obj[t].status.type

\* The device is the one status s describes.
Linked(n, t, s) ==
    /\ n.link[t].kind = Kind(s.type)
    /\ n.link[t].remote = s.remoteIP
    /\ n.link[t].local = s.internalIP
    /\ s.interfaceAddr \in n.link[t].addrs

\* What the commands of the reconcile have left in the pod so far.
Done ==
    pc # "idle" =>
        LET n == net[job.gw]
            s == job.obj.status
        IN
        /\ pc \in {"addRoute"} \cup Written /\ n.link[job.t] # None =>
              n.link[job.t].kind = Kind(s.type)
        /\ pc = "addRoute" /\ job.intact => Linked(n, job.t, s)
        /\ pc \in Written /\ job.intact => Carries(n, job.t, s)
        /\ pc = "release" => n.link[job.t] = None

RecordInv ==
    /\ CopiesRecorded /\ JobStage /\ JobRecorded /\ FreshSeen /\ TypeKept
    /\ DeviceHasStatusType /\ Done

LEMMA InitRecorded == Init => RecordInv
<1> SUFFICES ASSUME Init PROVE RecordInv
    OBVIOUS
<1>1. pc = "idle" /\ \A t \in Tunnel : obj[t] = None /\ cache[t].obj = None
    BY DEF Init
<1>2. CopiesRecorded
    BY <1>1 DEF Init, CopiesRecorded
<1> QED
    BY <1>1, <1>2 DEF RecordInv, JobStage, JobRecorded, FreshSeen, TypeKept,
                      DeviceHasStatusType, Done, Built

-------------------------------------------------------------------------------
(* Steps that write nothing to the API server *)

LEMMA StopRecorded ==
    ASSUME RecordInv, Stop, UNCHANGED <<obj, cache, net>>
    PROVE  RecordInv'
<1>1. pc' = "idle"
    BY DEF Stop
<1>2. CopiesRecorded' /\ DeviceHasStatusType'
    BY DEF RecordInv, CopiesRecorded, DeviceHasStatusType, Built
<1>3. TypeKept'
    BY <1>1 DEF RecordInv, TypeKept, Built
<1> QED
    BY <1>1, <1>2, <1>3 DEF RecordInv, JobStage, JobRecorded, FreshSeen, Done

\* The reconcile goes on with a copy that differs in its Status at most.
LEMMA GoesOnRecorded ==
    ASSUME RecordInv, UNCHANGED <<obj, cache>>, pc # "idle",
           job'.t = job.t, job'.fresh = job.fresh,
           job'.obj.spec = job.obj.spec, job'.obj.label = job.obj.label,
           job'.obj.deleting = job.obj.deleting,
           job'.obj.finalizer = job.obj.finalizer,
           TypeOf(job'.obj) = TypeOf(job.obj),
           job'.mode \in {"none", "delete"} \/ pc' = "writeSpec" =>
              /\ job'.obj.status = job.obj.status
              /\ job.mode \in {"none", "delete"} \/ pc = "writeSpec",
           JobStage', JobRecorded', Done', DeviceHasStatusType'
    PROVE  RecordInv'
<1>1. CopiesRecorded'
    BY DEF RecordInv, CopiesRecorded
<1>2. FreshSeen'
    BY DEF RecordInv, FreshSeen, TypeOf
<1>3. TypeKept'
    BY DEF RecordInv, TypeKept, Built, TypeOf
<1> QED
    BY <1>1, <1>2, <1>3 DEF RecordInv

LEMMA BeginRecorded ==
    ASSUME TypeOK, RecordInv, NEW t \in Tunnel, Begin(t)
    PROVE  RecordInv'
<1> DEFINE o == cache[t].obj
<1>1. UNCHANGED <<obj, cache, net>>
    BY DEF Begin, Local, world
<1>2. /\ o \in Object /\ o # None /\ (o.deleting => o.finalizer)
      /\ pc' = FirstStep(o) /\ job'.t = t /\ job'.obj = o
      /\ job'.fresh = cache[t].fresh
      /\ job'.mode = IF o.deleting THEN "delete" ELSE "none"
    BY DEF Begin, TypeOK
<1>3. Recorded(o) /\ (cache[t].fresh => o = obj[t])
    BY <1>2 DEF RecordInv, CopiesRecorded
<1>4. /\ pc' \in {"getPod", "finalize", "decide"}
      /\ pc' = "getPod" <=> o.deleting
      /\ pc' # "finalize" => o.finalizer
    BY <1>2 DEF FirstStep
<1>5. JobStage'
    BY <1>2, <1>4 DEF JobStage, Early, Deleting, Building
<1>6. JobRecorded'
    BY <1>2, <1>3, <1>4 DEF JobRecorded, Recorded, Early, Written, Labelled, Allocated,
                            Unpatched
<1>7. FreshSeen'
    BY <1>1, <1>2, <1>3 DEF FreshSeen, TypeOf
<1>8. TypeKept'
    BY <1>1, <1>2 DEF RecordInv, TypeKept, Built, TypeOf
<1>9. Done'
    BY <1>4 DEF Done, Written
<1> QED
    BY <1>1, <1>5, <1>6, <1>7, <1>8, <1>9
       DEF RecordInv, CopiesRecorded, DeviceHasStatusType, Built

LEMMA DecideRecorded ==
    ASSUME TypeOK, RecordInv,
           DecideBuild \/ DecideRevert \/ DecideUpdate \/ DecideNothing
    PROVE  RecordInv'
<1>1. /\ UNCHANGED <<obj, cache, net>> /\ pc = "decide" /\ job \in Job
      /\ job.obj \in Object
    BY DEF DecideBuild, DecideRevert, DecideUpdate, DecideNothing, Local, world,
           TypeOK, JobOK, Job
<1>2. /\ job.mode = "none" /\ job.obj.finalizer
      /\ Labelled(job.obj) /\ Allocated(job.obj)
    BY <1>1 DEF RecordInv, JobStage, JobRecorded, Early
<1>3. DeviceHasStatusType'
    BY <1>1 DEF RecordInv, DeviceHasStatusType, Built
<1>4. CASE DecideNothing
    BY <1>1, <1>4, StopRecorded DEF DecideNothing
<1>5. CASE DecideRevert
    <2>1. pc' = "revertType" /\ job' = job
        BY <1>5 DEF DecideRevert
    <2>2. JobStage' /\ JobRecorded' /\ Done'
        BY <1>1, <1>2, <2>1 DEF JobStage, JobRecorded, Done, Early, Written, Building
    <2> QED
        BY <1>1, <1>2, <1>3, <2>1, <2>2, GoesOnRecorded
<1>6. CASE DecideBuild
    <2> DEFINE s == [job.obj.status EXCEPT
                        !.initialized = TRUE,
                        !.localGw = localExIp.gw,
                        !.remoteIP = remoteExIp[job.obj.spec.peer],
                        !.remoteCIDR = CidrOf[job.obj.spec.peer],
                        !.interfaceAddr = job.obj.spec.interfaceAddr,
                        !.type = job.obj.spec.type]
    <2>1. job.obj.spec \in SpecFields /\ job.obj.status \in StatusRecord
        BY <1>1 DEF Object, StatusFields
    <2>2. ~job.obj.status.initialized /\ CidrOf[job.obj.spec.peer] \in CIDR
        BY <1>6, <2>1, ConstantsOK DEF DecideBuild, MayBuild, SpecFields
    <2>3. /\ s.initialized /\ s.type = job.obj.spec.type
          /\ s.remoteCIDR = CidrOf[job.obj.spec.peer]
        BY <2>1 DEF StatusRecord
    <2>4. pc' = "getPod" /\ job' = [job EXCEPT !.mode = "build", !.obj.status = s]
        BY <1>6 DEF DecideBuild
    <2> HIDE DEF s
    <2>5. /\ job'.t = job.t /\ job'.fresh = job.fresh /\ job'.mode = "build"
          /\ job'.obj.spec = job.obj.spec /\ job'.obj.label = job.obj.label
          /\ job'.obj.deleting = job.obj.deleting
          /\ job'.obj.finalizer = job.obj.finalizer /\ job'.obj.status = s
        BY <1>1, <2>4 DEF Job, Object
    <2>6. job.obj.label = None /\ Unpatched(job.obj)
        BY <1>2, <2>2 DEF Labelled
    <2>7. JobStage'
        BY <2>3, <2>4, <2>5, <2>6 DEF JobStage, Early, Building
    <2>8. JobRecorded'
        BY <1>2, <2>2, <2>3, <2>4, <2>5, <2>6
           DEF JobRecorded, Early, Written, Labelled, Unpatched
    <2>9. Done'
        BY <2>4 DEF Done, Written
    <2>10. TypeOf(job'.obj) = TypeOf(job.obj)
        BY <2>2, <2>3, <2>5 DEF TypeOf
    <2> QED
        BY <1>1, <1>3, <2>4, <2>5, <2>7, <2>8, <2>9, <2>10, GoesOnRecorded
<1>7. CASE DecideUpdate
    <2>1. /\ job.obj.status.initialized /\ job.obj.spec.type = job.obj.status.type
          /\ pc' = "getPod"
        BY <1>7 DEF DecideUpdate, MayUpdate, TypeChanged
    <2> DEFINE s == [job.obj.status EXCEPT !.localGw = job.obj.spec.localGw]
    <2>2. \/ job' = [job EXCEPT !.mode = "rebuild"]
          \/ job' = [job EXCEPT !.mode = "move", !.obj.status = s]
        BY <1>7 DEF DecideUpdate
    <2>3. job.obj.status \in StatusRecord
        BY <1>1 DEF Object, StatusFields
    <2>4. /\ s.initialized = job.obj.status.initialized
          /\ s.type = job.obj.status.type /\ s.egress = job.obj.status.egress
        BY <2>3 DEF StatusRecord
    <2> HIDE DEF s
    <2>5. /\ job'.t = job.t /\ job'.fresh = job.fresh /\ job'.mode \in {"rebuild", "move"}
          /\ job'.obj.spec = job.obj.spec /\ job'.obj.label = job.obj.label
          /\ job'.obj.deleting = job.obj.deleting
          /\ job'.obj.finalizer = job.obj.finalizer
          /\ job'.obj.status = job.obj.status \/ job'.obj.status = s
        <3>1. CASE job' = [job EXCEPT !.mode = "rebuild"]
            BY <1>1, <3>1 DEF Job
        <3>2. CASE job' = [job EXCEPT !.mode = "move", !.obj.status = s]
            BY <1>1, <3>2 DEF Job, Object
        <3> QED
            BY <2>2, <3>1, <3>2
    <2>10. /\ job'.obj.status.initialized
           /\ job'.obj.status.type = job.obj.status.type
           /\ job'.obj.status.egress = job.obj.status.egress
        BY <2>1, <2>4, <2>5
    <2>6. JobStage'
        BY <2>1, <2>5, <2>10 DEF JobStage, Early, Building
    <2>7. JobRecorded'
        BY <1>2, <2>1, <2>5, <2>10
           DEF JobRecorded, Early, Written, Labelled, Allocated, Unpatched
    <2>8. Done'
        BY <2>1 DEF Done, Written
    <2>9. TypeOf(job'.obj) = TypeOf(job.obj)
        BY <2>1, <2>5, <2>10 DEF TypeOf
    <2> QED
        BY <1>1, <1>3, <2>1, <2>5, <2>6, <2>7, <2>8, <2>9, GoesOnRecorded
<1> QED
    BY <1>4, <1>5, <1>6, <1>7

\* What the two conversions leave alone.
LEMMA FromSpecKeeps ==
    ASSUME NEW o \in Object
    PROVE  LET s == FromSpec(o) IN
           /\ s.localGw = o.status.localGw /\ s.initialized = o.status.initialized
           /\ s.type = o.status.type /\ s.egress = o.status.egress
           /\ s.remoteCIDR \in CIDR
<1>1. o.status \in StatusRecord /\ CidrOf[o.spec.peer] \in CIDR
    BY ConstantsOK DEF Object, SpecFields, StatusFields
<1> QED
    BY <1>1 DEF FromSpec, StatusRecord

LEMMA FromPodKeeps ==
    ASSUME NEW o \in Object, NEW g
    PROVE  LET s == FromPod(o, g) IN
           /\ s.localGw = o.status.localGw /\ s.initialized = o.status.initialized
           /\ s.type = o.status.type /\ s.remoteCIDR = o.status.remoteCIDR
    BY DEF FromPod, Object, StatusFields, StatusRecord

LEMMA GetNatGwPodRecorded ==
    ASSUME TypeOK, RecordInv, GetNatGwPod
    PROVE  RecordInv'
<1> DEFINE o == job.obj
           g == o.status.localGw
<1>1. /\ UNCHANGED <<obj, cache, net>> /\ pc = "getPod" /\ job \in Job
      /\ o \in Object /\ job.mode \in Modes
    BY DEF GetNatGwPod, Local, world, TypeOK, JobOK, Job
<1>2. CASE Stop
    BY <1>1, <1>2, StopRecorded
<1>3. CASE ~Stop
    <2> DEFINE s == CASE job.mode = "build" -> FromPod(o, g)
                      [] job.mode = "move"  -> FromSpec(o)
                      [] OTHER              -> o.status
    <2>1. /\ g # None
          /\ pc' = IF job.mode \in {"rebuild", "delete"} THEN "delRoute" ELSE "create"
          /\ job' = [job EXCEPT !.gw = g, !.intact = TRUE, !.obj.status = s]
        BY <1>1, <1>3 DEF GetNatGwPod, Object
    <2>2. /\ s.localGw = g /\ s.initialized = o.status.initialized
          /\ s.type = o.status.type
          /\ job.mode # "build" => s.egress = o.status.egress
          /\ job.mode = "build" => s.remoteCIDR = o.status.remoteCIDR
          /\ job.mode = "move" => s.remoteCIDR \in CIDR
          /\ job.mode \notin {"build", "move"} => s = o.status
        BY <1>1, FromPodKeeps, FromSpecKeeps
    <2> HIDE DEF s
    <2>3. /\ job'.t = job.t /\ job'.fresh = job.fresh /\ job'.mode = job.mode
          /\ job'.obj.spec = o.spec /\ job'.obj.label = o.label
          /\ job'.obj.deleting = o.deleting /\ job'.obj.finalizer = o.finalizer
          /\ job'.obj.status = s /\ job'.gw = g
        BY <1>1, <2>1 DEF Job, Object
    <2>4. job.mode \notin {"none"}
        BY <1>1 DEF RecordInv, JobStage, Early
    <2>5. JobStage'
        BY <1>1, <2>1, <2>2, <2>3, <2>4
           DEF RecordInv, JobStage, Early, Late, Deleting, Building
    <2>6. JobRecorded'
        BY <1>1, <2>1, <2>2, <2>3, <2>4
           DEF RecordInv, JobRecorded, Early, Written, Labelled, Allocated, Unpatched,
               Modes
    <2>7. Done'
        BY <2>1 DEF Done, Written
    <2>8. TypeOf(job'.obj) = TypeOf(o)
        BY <2>2, <2>3 DEF TypeOf
    <2>9. DeviceHasStatusType'
        BY <1>1 DEF RecordInv, DeviceHasStatusType, Built
    <2>10. pc' # "writeSpec"
        BY <2>1
    <2> QED
        BY <1>1, <2>2, <2>3, <2>4, <2>5, <2>6, <2>7, <2>8, <2>9, <2>10, GoesOnRecorded
<1> QED
    BY <1>2, <1>3

-------------------------------------------------------------------------------
(* Commands *)

LEMMA ExecRecorded ==
    ASSUME TypeOK, RecordInv, pc \in InPod,
           NEW n, NEW ok, NEW next \in Steps \ {"writeSpec"}, NEW j,
           Exec(n, ok, next, j),
           j.t = job.t, j.fresh = job.fresh, j.mode = job.mode, job.mode # "none",
           j.obj.spec = job.obj.spec, j.obj.label = job.obj.label,
           j.obj.deleting = job.obj.deleting, j.obj.finalizer = job.obj.finalizer,
           TypeOf(j.obj) = TypeOf(job.obj),
           job.mode = "delete" => j.obj.status = job.obj.status,
           \A t \in Tunnel :
              Built(t) /\ obj[t].status.localGw = job.gw /\ n.link[t] # None
              => n.link[t].kind = Kind(obj[t].status.type),
           ok /\ pc' = next /\ job' = j /\ net' = [net EXCEPT ![job.gw] = n]
              => JobStage' /\ JobRecorded' /\ Done'
    PROVE  RecordInv'
<1>1. UNCHANGED <<obj, cache>> /\ job.gw \in Gateway /\ pc # "idle"
    BY DEF Exec, TypeOK, JobOK, InPod, Job
<1>2. CASE UNCHANGED net /\ Stop
    BY <1>1, <1>2, StopRecorded
<1>3. CASE net' = [net EXCEPT ![job.gw] = n] /\ (Stop \/ (ok /\ pc' = next /\ job' = j))
    <2>1. DeviceHasStatusType'
        BY <1>1, <1>3 DEF RecordInv, DeviceHasStatusType, Built, TypeOK
    <2>2. CASE ok /\ pc' = next /\ job' = j
        BY <1>1, <1>3, <2>1, <2>2, GoesOnRecorded
    <2>3. CASE Stop
        <3>1. pc' = "idle"
            BY <2>3 DEF Stop
        <3> QED
            BY <1>1, <2>1, <3>1 DEF RecordInv, CopiesRecorded, TypeKept, Built,
                                    JobStage, JobRecorded, FreshSeen, Done
    <2> QED
        BY <1>3, <2>2, <2>3
<1>4. next # "idle"
    BY DEF Steps
<1> QED
    BY <1>2, <1>3, <1>4 DEF Exec, Answer

\* The commands find the copy as JobStage and JobRecorded say.
LEMMA InPodRecorded ==
    ASSUME TypeOK, RecordInv, pc \in InPod
    PROVE  /\ job \in Job /\ job.obj \in Object /\ job.t \in Tunnel
           /\ job.gw \in Gateway /\ job.gw # None /\ job.gw = job.obj.status.localGw
           /\ net[job.gw] \in Netns /\ net[job.gw].link \in [Tunnel -> Link \cup {None}]
           /\ job.mode # "none"
           /\ pc \in {"create", "addRoute"} => job.mode \in Building
<1>1. /\ job \in Job /\ job.obj \in Object /\ job.t \in Tunnel /\ job.mode \in Modes
      /\ job.gw \in Gateway /\ job.gw # None /\ job.gw = job.obj.status.localGw
    BY DEF TypeOK, JobOK, InPod, Job, RecordInv, JobRecorded, Early
<1>2. net[job.gw] \in Netns /\ net[job.gw].link \in [Tunnel -> Link \cup {None}]
    BY <1>1 DEF TypeOK, Netns
<1>3. job.mode # "none"
    BY DEF RecordInv, JobStage, InPod, Early
<1>4. pc \in {"create", "addRoute"} => job.mode \in Building
    BY <1>1, <1>3 DEF RecordInv, JobStage, Deleting, Modes, Building
<1> QED
    BY <1>1, <1>2, <1>3, <1>4

LEMMA CreateRecorded ==
    ASSUME TypeOK, RecordInv, ExecCreateTunnel
    PROVE  RecordInv'
<1> DEFINE n0 == net[job.gw]
           n == CreateTunnel(n0, job.t, job.obj)
           ok == CreateTunnelOk(n0, job.t, job.obj)
           s == job.obj.status
<1>1. pc = "create" /\ pc \in InPod
    BY DEF ExecCreateTunnel, InPod
<1>2. /\ job \in Job /\ job.obj \in Object /\ job.t \in Tunnel
      /\ job.gw \in Gateway /\ job.gw = s.localGw
      /\ n0 \in Netns /\ n0.link \in [Tunnel -> Link \cup {None}]
      /\ job.mode \in Building
    BY <1>1, InPodRecorded
<1>3. s.initialized /\ job.obj.spec.type = s.type
    BY <1>1, <1>2 DEF RecordInv, JobStage
<1>4. \A t \in Tunnel \ {job.t} : n.link[t] = n0.link[t]
    BY <1>2 DEF CreateTunnel, CreateTunnelOk, Netns
<1>5. ok => Linked(n, job.t, s)
    <2>1. SUFFICES ASSUME ok PROVE  Linked(n, job.t, s)
        OBVIOUS
    <2>2. n.link[job.t] = NewLink(job.obj)
        BY <1>2, <2>1 DEF CreateTunnel, CreateTunnelOk, Netns
    <2> QED
        BY <1>3, <2>2 DEF Linked, NewLink
<1>6. ~ok => \/ n.link[job.t] = n0.link[job.t]
             \/ n0.link[job.t] # None /\ n.link[job.t].kind = n0.link[job.t].kind
    <2>1. CASE n0.link[job.t] # None
        <3>1. n0.link[job.t] \in Link
            BY <1>2, <2>1
        <3>2. n.link[job.t] = [n0.link[job.t] EXCEPT !.addrs = @ \cup {s.interfaceAddr}]
            BY <1>2, <2>1 DEF CreateTunnel, CreateTunnelOk, Netns
        <3> QED
            BY <2>1, <3>1, <3>2 DEF Link
    <2>2. CASE ~ok /\ n0.link[job.t] = None
        BY <2>2 DEF CreateTunnel
    <2> QED
        BY <2>1, <2>2
<1>7. \A t \in Tunnel :
        Built(t) /\ obj[t].status.localGw = job.gw /\ n.link[t] # None
        => n.link[t].kind = Kind(obj[t].status.type)
    <2> SUFFICES ASSUME NEW t \in Tunnel, Built(t), obj[t].status.localGw = job.gw,
                        n.link[t] # None
                 PROVE  n.link[t].kind = Kind(obj[t].status.type)
        OBVIOUS
    <2> HIDE DEF n, ok
    <2>1. n0.link[t] # None => n0.link[t].kind = Kind(obj[t].status.type)
        BY <1>2 DEF RecordInv, DeviceHasStatusType
    <2>2. CASE t = job.t /\ ok
        <3>1. obj[t].status.type = s.type
            BY <1>1, <1>3, <2>2 DEF RecordInv, TypeKept, TypeOf
        <3> QED
            BY <1>5, <2>2, <3>1 DEF Linked
    <2>3. CASE ~(t = job.t /\ ok)
        BY <1>4, <1>6, <2>1, <2>3
    <2> QED
        BY <2>2, <2>3
<1>8. ASSUME ok, pc' = "addRoute", job' = job, net' = [net EXCEPT ![job.gw] = n]
      PROVE  JobStage' /\ JobRecorded' /\ Done'
    <2>1. JobStage' /\ JobRecorded'
        BY <1>1, <1>8, InPodRecorded
           DEF RecordInv, JobStage, JobRecorded, Early, Late, Written, Building
    <2>2. net'[job.gw] = n
        BY <1>2, <1>8 DEF TypeOK
    <2> HIDE DEF n, ok
    <2>3. Done'
        BY <1>5, <1>8, <2>2 DEF Done, Linked, Written
    <2> QED
        BY <2>1, <2>3
<1>9. Exec(n, ok, "addRoute", job)
    BY DEF ExecCreateTunnel
<1>10. "addRoute" \in Steps \ {"writeSpec"} /\ job.mode # "none"
    BY <1>2 DEF Steps, Building
<1> HIDE DEF n, ok
<1> QED
    BY <1>1, <1>7, <1>8, <1>9, <1>10, ExecRecorded

LEMMA RoutesRecorded ==
    ASSUME TypeOK, RecordInv, ExecAddRoute \/ ExecDelRoute
    PROVE  RecordInv'
<1> DEFINE n0 == net[job.gw]
           s == job.obj.status
           lan == OvnGw[job.gw]
<1>1. pc \in {"addRoute", "delRoute"} /\ pc \in InPod
    BY DEF ExecAddRoute, ExecDelRoute, InPod
<1>2. /\ job \in Job /\ job.obj \in Object /\ job.t \in Tunnel /\ job.gw \in Gateway
      /\ n0 \in Netns /\ job.mode # "none"
      /\ pc = "addRoute" => job.mode \in Building
    BY <1>1, InPodRecorded
<1>3. \A t \in Tunnel :
        Built(t) /\ obj[t].status.localGw = job.gw /\ n0.link[t] # None
        => n0.link[t].kind = Kind(obj[t].status.type)
    BY <1>2 DEF RecordInv, DeviceHasStatusType
<1>4. CASE ExecAddRoute
    <2> DEFINE n == AddRoute(n0, job.t, job.obj, lan)
               ok == AddRouteOk(n0, job.t, job.obj, lan)
    <2>1. pc = "addRoute" /\ s.egress /\ s.remoteCIDR \in CIDR
        BY <1>4 DEF ExecAddRoute, RecordInv, JobRecorded
    <2>2. n.link = n0.link
        BY <1>2 DEF AddRoute, Netns
    <2>3. n0.out \in [CIDR -> Tunnel \cup {None}] /\ n0.snat \in [CIDR -> Nat]
        BY <1>2 DEF Netns
    <2>4. ok /\ job.intact => Carries(n, job.t, s)
        <3> SUFFICES ASSUME ok, job.intact PROVE Carries(n, job.t, s)
            OBVIOUS
        <3>1. Linked(n, job.t, s) /\ n.link[job.t] # None
            BY <2>1, <2>2 DEF RecordInv, Done, AddRouteOk, Linked
        <3>2. n.out[s.remoteCIDR] = job.t /\ n.inflow = s.ovnGwIP
            BY <1>2, <2>1, <2>3 DEF AddRoute, AddRouteOk, Netns
        <3>3. n.snat[s.remoteCIDR] = n0.snat[s.remoteCIDR] + 1
            BY <1>2, <2>1, <2>3 DEF AddRoute, Netns
        <3>4. n.snat[s.remoteCIDR] > 0
            BY <2>1, <2>3, <3>3
        <3> QED
            BY <3>1, <3>2, <3>4 DEF Carries, Linked
    <2>5. ASSUME ok, pc' = "writeStatus", job' = job, net' = [net EXCEPT ![job.gw] = n]
          PROVE  JobStage' /\ JobRecorded' /\ Done'
        <3>1. JobStage' /\ JobRecorded'
            BY <1>2, <2>1, <2>5, InPodRecorded, <1>1
               DEF RecordInv, JobStage, JobRecorded, Early, Late, Written, Building,
                   Allocated
        <3>2. net'[job.gw] = n
            BY <1>2, <2>5 DEF TypeOK
        <3> HIDE DEF n, ok
        <3>3. Done'
            BY <2>1, <2>2, <2>4, <2>5, <3>2 DEF RecordInv, Done, Written
        <3> QED
            BY <3>1, <3>3
    <2>6. Exec(n, ok, "writeStatus", job) /\ "writeStatus" \in Steps \ {"writeSpec"}
        BY <1>4 DEF ExecAddRoute, Steps
    <2>7. job.mode \in Building /\ job.mode \notin {"none", "delete"}
        BY <1>2, <2>1 DEF Building
    <2> HIDE DEF n, ok
    <2> QED
        BY <1>1, <1>3, <2>2, <2>5, <2>6, <2>7, ExecRecorded
<1>5. CASE ExecDelRoute
    <2> DEFINE n == DelRoute(n0, job.t, job.obj)
               ok == DelRouteOk(n0, job.t, job.obj)
    <2>1. pc = "delRoute"
        BY <1>5 DEF ExecDelRoute
    <2>2. n.link = n0.link
        BY <1>2 DEF DelRoute, Netns
    <2>3. ASSUME pc' = "delTunnel", job' = job
          PROVE  JobStage' /\ JobRecorded' /\ Done'
        BY <1>2, <2>1, <2>3
           DEF RecordInv, JobStage, JobRecorded, Early, Late, Written, Building,
               Deleting, Allocated, Labelled, Unpatched, Done
    <2>4. Exec(n, ok, "delTunnel", job) /\ "delTunnel" \in Steps \ {"writeSpec"}
        BY <1>5 DEF ExecDelRoute, Steps
    <2> HIDE DEF n, ok
    <2> QED
        BY <1>1, <1>2, <1>3, <2>2, <2>3, <2>4, ExecRecorded
<1> QED
    BY <1>4, <1>5

LEMMA DeleteRecorded ==
    ASSUME TypeOK, RecordInv, ExecDeleteTunnel
    PROVE  RecordInv'
<1> DEFINE n0 == net[job.gw]
           n == DeleteTunnel(n0, job.t, job.obj)
           ok == DeleteTunnelOk(n0, job.t, job.obj)
           next == IF job.mode = "delete" THEN "release" ELSE "create"
           s == FromSpec(job.obj)
           j == IF job.mode = "delete" THEN job ELSE [job EXCEPT !.obj.status = s]
<1>1. pc = "delTunnel" /\ pc \in InPod
    BY DEF ExecDeleteTunnel, InPod
<1>2. /\ job \in Job /\ job.obj \in Object /\ job.t \in Tunnel /\ job.gw \in Gateway
      /\ job.gw # None /\ job.gw = job.obj.status.localGw
      /\ n0 \in Netns /\ job.mode # "none" /\ n0.link \in [Tunnel -> Link \cup {None}]
      /\ job.mode \in Modes
    BY <1>1, InPodRecorded DEF Job
<1>3. n.link = IF ok THEN [n0.link EXCEPT ![job.t] = None] ELSE n0.link
    BY <1>2 DEF DeleteTunnel, Netns
<1>4. \A t \in Tunnel : n.link[t] # None => n.link[t] = n0.link[t]
    BY <1>2, <1>3
<1>5. \A t \in Tunnel :
        Built(t) /\ obj[t].status.localGw = job.gw /\ n.link[t] # None
        => n.link[t].kind = Kind(obj[t].status.type)
    BY <1>2, <1>4 DEF RecordInv, DeviceHasStatusType
<1>6. /\ s.localGw = job.gw /\ s.initialized = job.obj.status.initialized
      /\ s.type = job.obj.status.type /\ s.egress = job.obj.status.egress
      /\ s.remoteCIDR \in CIDR
    BY <1>2, FromSpecKeeps
<1>7. Exec(n, ok, next, j) /\ next \in Steps \ {"writeSpec"}
    BY DEF ExecDeleteTunnel, Steps
<1>8. ok => n.link[job.t] = None
    BY <1>2, <1>3
<1> HIDE DEF n, ok, s
<1>9. /\ j.t = job.t /\ j.fresh = job.fresh /\ j.mode = job.mode /\ j.gw = job.gw
      /\ j.obj.spec = job.obj.spec /\ j.obj.label = job.obj.label
      /\ j.obj.deleting = job.obj.deleting /\ j.obj.finalizer = job.obj.finalizer
      /\ j.obj.status = IF job.mode = "delete" THEN job.obj.status ELSE s
    BY <1>2 DEF Job, Object
<1>10. TypeOf(j.obj) = TypeOf(job.obj)
    BY <1>6, <1>9 DEF TypeOf
<1>11. ASSUME ok, pc' = next, job' = j, net' = [net EXCEPT ![job.gw] = n]
       PROVE  JobStage' /\ JobRecorded' /\ Done'
    <2> HIDE DEF j
    <2>1. net'[job.gw] = n
        BY <1>2, <1>11 DEF TypeOK
    <2>2. Done'
        BY <1>8, <1>9, <1>11, <2>1 DEF Done, Written
    <2>3. JobStage'
        BY <1>1, <1>2, <1>6, <1>9, <1>11
           DEF RecordInv, JobStage, Early, Late, Building, Deleting, Modes
    <2>4. JobRecorded'
        BY <1>1, <1>2, <1>6, <1>9, <1>11
           DEF RecordInv, JobStage, JobRecorded, Early, Late, Written, Labelled,
               Allocated, Unpatched
    <2> QED
        BY <2>2, <2>3, <2>4
<1> HIDE DEF next, j
<1> QED
    BY <1>1, <1>2, <1>5, <1>7, <1>9, <1>10, <1>11, ExecRecorded

-------------------------------------------------------------------------------
(* Writes of the reconcile *)

LEMMA UpdateRecorded ==
    ASSUME TypeOK, RecordInv, pc # "idle",
           NEW o \in Object, Recorded(o),
           o.status.initialized => o.status.type = TypeOf(job.obj),
           NEW next \in {"idle", "decide", "writeSpec"}, Update(o, next),
           job.fresh => \/ o.status = obj[job.t].status
                        \/ pc = "writeStatus" /\ o.status = job.obj.status,
           next # "idle" => TypeOf(o) = TypeOf(job.obj),
           next # "idle" /\ pc' = next /\ job' = [job EXCEPT !.obj = o] /\ net' = net
              => JobStage' /\ JobRecorded' /\ Done'
    PROVE  RecordInv'
<1>1. job \in Job /\ job.t \in Tunnel /\ o # None /\ net' = net
    BY ConstantsOK DEF TypeOK, JobOK, Job, Update, world
<1>2. CASE ~job.fresh
    BY <1>2, StopRecorded DEF Update, world
<1>3. CASE job.fresh /\ Put(job.t, o) /\ Answer(next, [job EXCEPT !.obj = o])
    <2>1. /\ obj' = [obj EXCEPT ![job.t] = o]
          /\ cache' = [cache EXCEPT ![job.t].fresh = FALSE]
        BY <1>3 DEF Put
    <2>2. /\ obj'[job.t] = o /\ ~cache'[job.t].fresh
          /\ \A t \in Tunnel : cache'[t].obj = cache[t].obj
          /\ \A t \in Tunnel \ {job.t} : obj'[t] = obj[t] /\ cache'[t] = cache[t]
        BY <1>1, <2>1 DEF TypeOK
    <2>3. CopiesRecorded'
        BY <2>2 DEF RecordInv, CopiesRecorded
    <2>4. DeviceHasStatusType'
        <3> SUFFICES ASSUME NEW t \in Tunnel, NEW g \in Gateway,
                            Built(t)', obj'[t].status.localGw = g, net[g].link[t] # None
                     PROVE  net[g].link[t].kind = Kind(obj'[t].status.type)
            BY <1>1 DEF DeviceHasStatusType
        <3>1. CASE t # job.t
            BY <2>2, <3>1 DEF RecordInv, DeviceHasStatusType, Built
        <3>2. CASE t = job.t /\ o.status = obj[job.t].status
            <4>1. obj[job.t] # None
                BY <1>1, <1>3 DEF RecordInv, FreshSeen
            <4> QED
                BY <1>1, <2>2, <3>2, <4>1 DEF RecordInv, DeviceHasStatusType, Built
        <3>3. CASE t = job.t /\ pc = "writeStatus" /\ o.status = job.obj.status
            BY <2>2, <3>3 DEF RecordInv, Done, JobRecorded, Early, Written
        <3> QED
            BY <1>3, <3>1, <3>2, <3>3
    <2>5. cache[job.t].obj # None /\ TypeOf(cache[job.t].obj) = TypeOf(job.obj)
        BY <1>3 DEF RecordInv, FreshSeen
    <2>6. CASE pc' = "idle"
        <3>1. TypeKept'
            BY <2>2, <2>5, <2>6 DEF RecordInv, TypeKept, Built, TypeOf
        <3> QED
            BY <2>3, <2>4, <2>6, <3>1
               DEF RecordInv, JobStage, JobRecorded, FreshSeen, Done
    <2>7. CASE next # "idle" /\ pc' = next /\ job' = [job EXCEPT !.obj = o]
        <3>1. job'.obj = o /\ job'.t = job.t /\ job'.fresh = job.fresh
            BY <1>1, <2>7 DEF Job
        <3>2. TypeKept'
            BY <2>2, <2>5, <2>7, <3>1 DEF RecordInv, TypeKept, Built, TypeOf
        <3>3. FreshSeen'
            BY <1>1, <2>2, <2>5, <2>7, <3>1 DEF FreshSeen, TypeOf
        <3> QED
            BY <1>1, <2>3, <2>4, <2>7, <3>2, <3>3 DEF RecordInv
    <2> QED
        BY <1>3, <2>6, <2>7 DEF Answer, Stop
<1> QED
    BY <1>2, <1>3 DEF Update

LEMMA WritesRecorded ==
    ASSUME TypeOK, RecordInv, AddFinalizer \/ RevertType \/ WriteStatus \/ WriteSpec
    PROVE  RecordInv'
<1> DEFINE o == job.obj
<1>1. /\ pc \in Early \cup Written /\ pc # "decide" /\ pc # "idle"
      /\ job \in Job /\ o \in Object /\ job.t \in Tunnel /\ job.mode \in Modes
    BY DEF AddFinalizer, RevertType, WriteStatus, WriteSpec, TypeOK, JobOK, Job,
           Early, Written
<1>2. /\ Labelled(o) /\ Allocated(o) /\ (pc # "finalize" => o.finalizer)
      /\ pc \in Early => job.mode = "none"
      /\ pc \in Written => /\ job.mode \in Building /\ o.status.initialized
                           /\ o.spec.type = o.status.type
    BY <1>1 DEF RecordInv, JobRecorded, JobStage, Early, Written, Deleting, Building,
                Modes
<1>3. o.spec \in SpecFields /\ o.status \in StatusFields
    BY <1>1 DEF Object
<1>4. job.fresh /\ pc # "writeStatus" => o.status = obj[job.t].status
    BY <1>1, <1>2 DEF RecordInv, FreshSeen, Written
<1>5. CASE AddFinalizer
    <2> DEFINE w == [o EXCEPT !.finalizer = TRUE]
    <2>1. /\ w \in Object /\ w.finalizer /\ w.status = o.status /\ w.spec = o.spec
          /\ w.label = o.label
        BY <1>1 DEF Object
    <2>2. Update(w, "decide") /\ pc = "finalize"
        BY <1>5 DEF AddFinalizer
    <2> HIDE DEF w
    <2>3. Recorded(w) /\ TypeOf(w) = TypeOf(o)
        BY <1>2, <2>1 DEF Recorded, Labelled, Allocated, Unpatched, TypeOf
    <2>4. ASSUME pc' = "decide", job' = [job EXCEPT !.obj = w]
          PROVE  JobStage' /\ JobRecorded' /\ Done'
        <3>1. job'.obj = w /\ job'.mode = "none"
            BY <1>1, <1>2, <2>2, <2>4 DEF Job, Early
        <3> QED
            BY <2>1, <2>3, <2>4, <3>1
               DEF JobStage, JobRecorded, Done, Early, Written, Building, Recorded
    <2> QED
        BY <1>1, <1>4, <2>1, <2>2, <2>3, <2>4, UpdateRecorded DEF TypeOf
<1>6. CASE RevertType
    <2> DEFINE w == [o EXCEPT !.spec.type = o.status.type]
    <2>0. pc = "revertType" /\ o.status.initialized /\ o.status.type \in Type
        BY <1>3, <1>6 DEF RevertType, TypeOK, JobOK, StatusFields, StatusRecord
    <2>1. /\ w \in Object /\ w.finalizer = o.finalizer /\ w.status = o.status
          /\ w.label = o.label /\ Unpatched(w) = Unpatched(o)
        BY <1>1, <1>3, <2>0 DEF Object, SpecFields, Unpatched
    <2>2. Update(w, "idle")
        BY <1>6 DEF RevertType
    <2> HIDE DEF w
    <2>3. Recorded(w)
        BY <1>2, <2>0, <2>1 DEF Recorded, Labelled, Allocated
    <2>4. w.status.initialized => w.status.type = TypeOf(o)
        BY <2>0, <2>1 DEF TypeOf
    <2> QED
        BY <1>1, <1>4, <2>0, <2>1, <2>2, <2>3, <2>4, UpdateRecorded
<1>7. CASE WriteStatus
    <2>1. pc = "writeStatus" /\ Update(o, AfterStatus)
          /\ AfterStatus \in {"idle", "writeSpec"}
        BY <1>7 DEF WriteStatus, AfterStatus
    <2>2. Recorded(o) /\ o.status.type = TypeOf(o)
        BY <1>2, <2>1 DEF Recorded, TypeOf, Written
    <2>3. ASSUME pc' = "writeSpec", job' = [job EXCEPT !.obj = o], net' = net
          PROVE  JobStage' /\ JobRecorded' /\ Done'
        <3>1. job' = job
            BY <1>1, <2>3 DEF Job
        <3> QED
            BY <1>1, <1>2, <2>1, <2>3, <3>1
               DEF RecordInv, JobStage, JobRecorded, Done, Early, Late, Written, Building
    <2> QED
        BY <1>1, <2>1, <2>2, <2>3, UpdateRecorded
<1>8. CASE WriteSpec
    <2> DEFINE b == [o EXCEPT !.label = o.spec.peer,
                              !.spec.internalIP = o.status.internalIP,
                              !.spec.localGw = o.status.localGw,
                              !.spec.remoteIP = o.status.remoteIP]
               u == [o EXCEPT !.label = o.spec.peer]
               w == IF job.mode = "build" THEN b ELSE u
    <2>1. b \in Object /\ u \in Object
        BY <1>1, <1>3 DEF Object, SpecFields, StatusFields, StatusRecord
    <2>2. /\ b.finalizer = o.finalizer /\ u.finalizer = o.finalizer
          /\ b.status = o.status /\ u.status = o.status
          /\ b.label = o.spec.peer /\ u.label = o.spec.peer
        BY <1>1 DEF Object
    <2>3. o.spec.peer # None
        BY <1>3, ConstantsOK DEF SpecFields
    <2>4. Update(w, "idle") /\ pc = "writeSpec"
        BY <1>8 DEF WriteSpec
    <2>5. /\ w \in Object /\ w.finalizer = o.finalizer /\ w.status = o.status
          /\ w.label # None
        BY <2>1, <2>2, <2>3
    <2> HIDE DEF w
    <2>6. Recorded(w) /\ w.status.type = TypeOf(o)
        BY <1>2, <2>4, <2>5 DEF Recorded, Labelled, Allocated, TypeOf, Written
    <2> QED
        BY <1>1, <1>4, <2>4, <2>5, <2>6, UpdateRecorded
<1> QED
    BY <1>5, <1>6, <1>7, <1>8

LEMMA ReleaseRecorded ==
    ASSUME TypeOK, RecordInv, Release
    PROVE  RecordInv'
<1>1. /\ job \in Job /\ job.t \in Tunnel /\ net' = net /\ pc' = "idle"
    BY DEF Release, Update, Answer, Stop, world, TypeOK, JobOK, Job
<1>2. CASE UNCHANGED <<obj, cache>> /\ Stop
    BY <1>1, <1>2, StopRecorded
<1>3. CASE Put(job.t, None)
    <2>1. /\ obj'[job.t] = None /\ ~cache'[job.t].fresh
          /\ \A t \in Tunnel : cache'[t].obj = cache[t].obj
          /\ \A t \in Tunnel \ {job.t} : obj'[t] = obj[t] /\ cache'[t] = cache[t]
        BY <1>1, <1>3 DEF Put, TypeOK
    <2>2. CopiesRecorded' /\ DeviceHasStatusType' /\ TypeKept'
        BY <1>1, <2>1 DEF RecordInv, CopiesRecorded, DeviceHasStatusType, TypeKept, Built
    <2> QED
        BY <1>1, <2>2 DEF RecordInv, JobStage, JobRecorded, FreshSeen, Done
<1> QED
    BY <1>2, <1>3 DEF Release, Update

-------------------------------------------------------------------------------
(* The others *)

LEMMA FailuresRecorded ==
    ASSUME TypeOK, RecordInv,
           CallFails \/ Crash \/ Panic \/ \E t \in Tunnel : SyncCache(t)
    PROVE  RecordInv'
<1>1. CASE CallFails
    BY <1>1, StopRecorded DEF CallFails, world
<1>2. CASE Restart
    <2>1. /\ obj' = obj /\ net' = net /\ pc' = "idle"
          /\ \A t \in Tunnel : cache'[t].obj = obj[t]
        BY <1>2 DEF Restart, Stop, world
    <2>2. CopiesRecorded' /\ DeviceHasStatusType' /\ TypeKept'
        BY <2>1 DEF RecordInv, CopiesRecorded, DeviceHasStatusType, TypeKept, Built, TypeOf
    <2> QED
        BY <2>1, <2>2 DEF RecordInv, JobStage, JobRecorded, FreshSeen, Done
<1>3. ASSUME NEW t \in Tunnel, SyncCache(t)
      PROVE  RecordInv'
    <2>1. /\ UNCHANGED <<obj, pc, job, net>>
          /\ cache'[t].obj = obj[t] /\ cache'[t].fresh
          /\ \A u \in Tunnel \ {t} : cache'[u] = cache[u]
        BY <1>3 DEF SyncCache, world, TypeOK
    <2>2. CopiesRecorded' /\ DeviceHasStatusType'
        BY <2>1 DEF RecordInv, CopiesRecorded, DeviceHasStatusType, Built
    <2>3. TypeKept'
        BY <2>1 DEF RecordInv, TypeKept, Built, TypeOf
    <2>4. pc # "idle" => job.t \in Tunnel
        BY DEF TypeOK, JobOK, Job
    <2>5. FreshSeen'
        BY <2>1, <2>4 DEF RecordInv, FreshSeen, TypeOf
    <2> QED
        BY <2>1, <2>2, <2>3, <2>5 DEF RecordInv, JobStage, JobRecorded, Done
<1> QED
    BY <1>1, <1>2, <1>3 DEF Crash, Panic

\* Nobody else writes a Status.
LEMMA PutOtherRecorded ==
    ASSUME TypeOK, RecordInv, NEW t \in Tunnel, NEW o, PutOther(t, o),
           o # None => /\ Recorded(o)
                       /\ o.status.initialized =>
                             obj[t] # None /\ o.status = obj[t].status
    PROVE  RecordInv'
<1>1. /\ obj'[t] = o /\ ~cache'[t].fresh
      /\ \A u \in Tunnel : cache'[u].obj = cache[u].obj
      /\ \A u \in Tunnel \ {t} : obj'[u] = obj[u] /\ cache'[u] = cache[u]
      /\ UNCHANGED <<pc, net>>
    BY DEF PutOther, Put, world, TypeOK
<1>2. pc # "idle" =>
        /\ job.t \in Tunnel /\ job'.t = job.t /\ job'.mode = job.mode
        /\ job'.obj = job.obj /\ job'.gw = job.gw /\ job'.intact = job.intact
        /\ job'.fresh => job.fresh /\ job.t # t
    BY DEF PutOther, TypeOK, JobOK, Job
<1>3. CopiesRecorded' /\ DeviceHasStatusType'
    BY <1>1 DEF RecordInv, CopiesRecorded, DeviceHasStatusType, Built
<1>4. TypeKept'
    BY <1>1, <1>2 DEF RecordInv, TypeKept, Built, TypeOf
<1>5. FreshSeen'
    BY <1>1, <1>2 DEF RecordInv, FreshSeen, TypeOf
<1>6. JobStage'
    BY <1>1, <1>2 DEF RecordInv, JobStage
<1>7. JobRecorded'
    BY <1>1, <1>2 DEF RecordInv, JobRecorded, Labelled, Allocated, Unpatched
<1>8. Done'
    BY <1>1, <1>2 DEF RecordInv, Done, Linked, Carries
<1> QED
    BY <1>3, <1>4, <1>5, <1>6, <1>7, <1>8 DEF RecordInv

LEMMA UserRecorded ==
    ASSUME TypeOK, RecordInv, User
    PROVE  RecordInv'
<1>1. ASSUME NEW t \in Tunnel, UserDeletes(t)
      PROVE  RecordInv'
    <2> DEFINE o == [obj[t] EXCEPT !.deleting = TRUE]
    <2>1. obj[t] \in Object /\ Recorded(obj[t])
        BY <1>1 DEF UserDeletes, TypeOK, RecordInv, CopiesRecorded
    <2>2. /\ o.status = obj[t].status /\ o.spec = obj[t].spec
          /\ o.label = obj[t].label /\ o.finalizer = obj[t].finalizer
        BY <2>1 DEF Object
    <2>3. PutOther(t, o) \/ PutOther(t, None)
        BY <1>1 DEF UserDeletes
    <2> HIDE DEF o
    <2>4. Recorded(o)
        BY <2>1, <2>2 DEF Recorded, Labelled, Allocated, Unpatched
    <2> QED
        BY <1>1, <2>2, <2>3, <2>4, PutOtherRecorded DEF UserDeletes
<1>2. ASSUME NEW t \in Tunnel, NEW p \in Peer, NEW a \in Addr, NEW ty \in Type,
             UserCreates(t, p, a, ty)
      PROVE  RecordInv'
    <2>1. Recorded(NewObject(p, a, ty)) /\ ~NewObject(p, a, ty).status.initialized
        BY DEF Recorded, Labelled, Allocated, Unpatched, NewObject, EmptyStatus
    <2> QED
        BY <1>2, <2>1, PutOtherRecorded DEF UserCreates
<1>3. ASSUME NEW t \in Tunnel, NEW p \in Peer, NEW a \in Addr, NEW ty \in Type,
             UserEdits(t, p, a, ty)
      PROVE  RecordInv'
    <2> DEFINE o == [obj[t] EXCEPT !.spec.peer = p, !.spec.interfaceAddr = a,
                                   !.spec.type = ty]
    <2>1. obj[t] # None /\ obj[t] \in Object /\ Recorded(obj[t])
          /\ obj[t].spec \in SpecFields
        BY <1>3 DEF UserEdits, TypeOK, RecordInv, CopiesRecorded, Object
    <2>2. /\ o.status = obj[t].status /\ o.label = obj[t].label
          /\ o.finalizer = obj[t].finalizer
        BY <2>1 DEF Object
    <2>3. Unpatched(o) = Unpatched(obj[t])
        BY <2>1 DEF Object, SpecFields, Unpatched
    <2>4. PutOther(t, o)
        BY <1>3 DEF UserEdits
    <2> HIDE DEF o
    <2>5. Recorded(o)
        BY <2>1, <2>2, <2>3 DEF Recorded, Labelled, Allocated
    <2> QED
        BY <2>1, <2>2, <2>4, <2>5, PutOtherRecorded
<1> QED
    BY <1>1, <1>2, <1>3 DEF User

LEMMA ClusterRecorded ==
    ASSUME TypeOK, RecordInv, Cluster
    PROVE  RecordInv'
<1>1. ASSUME NEW t \in Tunnel, NEW o, PutOther(t, o), obj[t] # None,
             obj[t].label # None, o.status = obj[t].status, o.label = obj[t].label,
             o.finalizer = obj[t].finalizer
      PROVE  RecordInv'
    <2>1. Recorded(obj[t])
        BY <1>1 DEF RecordInv, CopiesRecorded
    <2>2. Recorded(o)
        BY <1>1, <2>1 DEF Recorded, Labelled, Allocated
    <2> QED
        BY <1>1, <2>2, PutOtherRecorded
<1>2. ASSUME NEW t \in Tunnel, SyncerPatches(t)
      PROVE  RecordInv'
    <2> DEFINE o == [obj[t] EXCEPT !.spec.remoteIP = remoteExIp[obj[t].label]]
    <2>1. obj[t] \in Object /\ obj[t] # None /\ obj[t].label # None /\ PutOther(t, o)
        BY <1>2 DEF SyncerPatches, TypeOK
    <2>2. /\ o.status = obj[t].status /\ o.label = obj[t].label
          /\ o.finalizer = obj[t].finalizer
        BY <2>1 DEF Object
    <2> HIDE DEF o
    <2> QED
        BY <1>1, <2>1, <2>2
<1>3. ASSUME NEW t \in Tunnel, InformerPatches(t)
      PROVE  RecordInv'
    <2> DEFINE r == [obj[t] EXCEPT !.spec.internalIP = localExIp.ip]
               m == [r EXCEPT !.spec.localGw = localExIp.gw]
    <2>1. /\ obj[t] \in Object /\ obj[t] # None /\ obj[t].label # None
          /\ PutOther(t, r) \/ PutOther(t, m)
        BY <1>3 DEF InformerPatches, TypeOK
    <2>2. /\ r.status = obj[t].status /\ r.label = obj[t].label
          /\ r.finalizer = obj[t].finalizer
          /\ m.status = obj[t].status /\ m.label = obj[t].label
          /\ m.finalizer = obj[t].finalizer
        BY <2>1 DEF Object
    <2> HIDE DEF r, m
    <2> QED
        BY <1>1, <2>1, <2>2
<1>4. CASE UNCHANGED <<obj, cache, pc, job, net>>
    BY <1>4 DEF RecordInv, CopiesRecorded, JobStage, JobRecorded, FreshSeen, TypeKept,
                DeviceHasStatusType, Done, Built
<1>5. ASSUME NEW g \in Gateway, PodLost(g)
      PROVE  RecordInv'
    <2>1. UNCHANGED <<obj, cache, pc>> /\ net' = [net EXCEPT ![g] = EmptyNet]
        BY <1>5 DEF PodLost, Calm
    <2>2. /\ \A t \in Tunnel : net'[g].link[t] = None
          /\ \A h \in Gateway \ {g} : net'[h] = net[h]
        BY <2>1 DEF EmptyNet, TypeOK
    <2>3. pc # "idle" =>
            /\ job.t \in Tunnel /\ job'.t = job.t /\ job'.mode = job.mode
            /\ job'.obj = job.obj /\ job'.gw = job.gw /\ job'.fresh = job.fresh
            /\ job'.intact => job.intact /\ job.gw # g
        BY <1>5 DEF PodLost, TypeOK, JobOK, Job
    <2>4. DeviceHasStatusType' /\ CopiesRecorded'
        BY <2>1, <2>2 DEF RecordInv, DeviceHasStatusType, CopiesRecorded, Built
    <2>5. JobStage' /\ JobRecorded'
        BY <2>1, <2>3 DEF RecordInv, JobStage, JobRecorded, Labelled, Allocated, Unpatched
    <2>6. FreshSeen' /\ TypeKept'
        BY <2>1, <2>3 DEF RecordInv, FreshSeen, TypeKept, Built, TypeOf
    <2>7. pc \in Late \cup {"release"} => job.gw \in Gateway
        BY DEF TypeOK, JobOK, Job, RecordInv, JobRecorded, Early, Late
    <2>8. Done'
        BY <2>1, <2>2, <2>3, <2>7 DEF RecordInv, Done, Linked, Carries, Written, Late
    <2> QED
        BY <2>4, <2>5, <2>6, <2>8 DEF RecordInv
<1>6. \/ \E t \in Tunnel : SyncerPatches(t) \/ InformerPatches(t)
      \/ \E g \in Gateway : PodLost(g)
      \/ UNCHANGED <<obj, cache, pc, job, net>>
    BY DEF Cluster, RemoteExIpSynced, LocalExIpMoves, NodeLost, PodStarts,
           EgressAllocated, LocalExIpDeleted, Calm
<1> QED
    BY <1>2, <1>3, <1>4, <1>5, <1>6

LEMMA StepRecorded ==
    ASSUME TypeOK, RecordInv, [Next]_vars
    PROVE  RecordInv'
<1>1. CASE \E t \in Tunnel : Begin(t) \/ SyncCache(t)
    BY <1>1, BeginRecorded, FailuresRecorded
<1>2. CASE WorkerStep
    BY <1>2, DecideRecorded, GetNatGwPodRecorded, CreateRecorded, RoutesRecorded,
       DeleteRecorded, WritesRecorded, ReleaseRecorded, FailuresRecorded DEF WorkerStep
<1>3. CASE CallFails \/ Crash
    BY <1>3, FailuresRecorded
<1>4. CASE User \/ Cluster
    BY <1>4, UserRecorded, ClusterRecorded
<1>5. CASE UNCHANGED vars
    BY <1>5 DEF vars, world, RecordInv, CopiesRecorded, JobStage, JobRecorded,
                FreshSeen, TypeKept, DeviceHasStatusType, Done, Built
<1> QED
    BY <1>1, <1>2, <1>3, <1>4, <1>5 DEF Next

LEMMA RecordsInvariant == Spec => [](TypeOK /\ RecordInv)
<1>1. Init => RecordInv
    BY InitRecorded
<1>2. TypeOK /\ RecordInv /\ [Next]_vars => RecordInv'
    BY StepRecorded
<1> QED
    BY <1>1, <1>2, TypeCorrect, PTL DEF Spec

-------------------------------------------------------------------------------
(* The invariants *)

\* The type of a tunnel cannot change under its device, whoever edits the Spec
\* between the read, the commands and the write, and however old the copy is.
THEOREM DeviceType == Spec => []DeviceHasStatusType
<1>1. RecordInv => DeviceHasStatusType
    BY DEF RecordInv
<1> QED
    BY <1>1, RecordsInvariant, PTL

\* Informer and syncer, which find tunnels by their labels, never reach one whose
\* first build is not recorded, and until then nobody fills in the addresses.
THEOREM PatchesOnlyBuilt == Spec => []PatchedOnlyIfBuilt
<1>1. RecordInv => PatchedOnlyIfBuilt
    BY DEF RecordInv, CopiesRecorded, Recorded, Labelled, PatchedOnlyIfBuilt
<1> QED
    BY <1>1, RecordsInvariant, PTL

\* No object is recorded as built without egress addresses: the index that
\* panics in a build cannot panic in the deletion of a recorded tunnel.
THEOREM EgressKept == Spec => []EgressRecorded
<1>1. RecordInv => EgressRecorded
    BY DEF RecordInv, CopiesRecorded, Recorded, Allocated, EgressRecorded, Built
<1> QED
    BY <1>1, RecordsInvariant, PTL

-------------------------------------------------------------------------------
(* The action properties *)

\* What the worker puts into the API server, if it puts anything.
LEMMA UpdateWrites ==
    ASSUME TypeOK, pc # "idle", NEW o, NEW next, Update(o, next)
    PROVE  /\ job.t \in Tunnel
           /\ obj' = obj \/ (job.fresh /\ obj' = [obj EXCEPT ![job.t] = o])
    BY DEF TypeOK, JobOK, Job, Update, Put

\* The others keep the Status and the finalizer, and go their own way.
LEMMA OthersWrite ==
    ASSUME TypeOK, User \/ Cluster, NEW t \in Tunnel, obj[t] # None
    PROVE  /\ pc' = pc
           /\ obj'[t] # None => obj'[t].status = obj[t].status
           /\ obj'[t] = None => ~obj[t].finalizer
<1>0. obj[t] \in Object /\ obj[t].spec \in SpecFields
    BY DEF TypeOK, Object
<1>1. ASSUME NEW u \in Tunnel, NEW o, PutOther(u, o)
      PROVE  pc' = pc /\ obj' = [obj EXCEPT ![u] = o]
    BY <1>1 DEF PutOther, Put
<1>2. ASSUME NEW u \in Tunnel, UserDeletes(u)
      PROVE  /\ pc' = pc
             /\ obj'[t] # None => obj'[t].status = obj[t].status
             /\ obj'[t] = None => ~obj[t].finalizer
    <2> DEFINE o == [obj[u] EXCEPT !.deleting = TRUE]
    <2>1. obj[u] \in Object
        BY <1>2 DEF UserDeletes, TypeOK
    <2>2. o.status = obj[u].status /\ o \in Object
        BY <2>1 DEF Object
    <2>3. PutOther(u, IF obj[u].finalizer THEN o ELSE None)
        BY <1>2 DEF UserDeletes
    <2> HIDE DEF o
    <2> QED
        BY <1>1, <2>2, <2>3, ConstantsOK DEF TypeOK
<1>3. ASSUME NEW u \in Tunnel, NEW o, PutOther(u, o), o \in Object, obj[u] # None,
             o.status = obj[u].status
      PROVE  /\ pc' = pc
             /\ obj'[t] # None => obj'[t].status = obj[t].status
             /\ obj'[t] = None => ~obj[t].finalizer
    BY <1>1, <1>3, ConstantsOK DEF TypeOK
<1>4. ASSUME NEW u \in Tunnel, NEW p \in Peer, NEW a \in Addr, NEW ty \in Type,
             UserCreates(u, p, a, ty) \/ UserEdits(u, p, a, ty)
      PROVE  /\ pc' = pc
             /\ obj'[t] # None => obj'[t].status = obj[t].status
             /\ obj'[t] = None => ~obj[t].finalizer
    <2>1. CASE UserCreates(u, p, a, ty)
        <3>1. u # t /\ PutOther(u, NewObject(p, a, ty))
            BY <2>1 DEF UserCreates
        <3> QED
            BY <1>1, <3>1 DEF TypeOK
    <2>2. CASE UserEdits(u, p, a, ty)
        <3> DEFINE o == [obj[u] EXCEPT !.spec.peer = p, !.spec.interfaceAddr = a,
                                       !.spec.type = ty]
        <3>1. obj[u] # None /\ obj[u] \in Object /\ obj[u].spec \in SpecFields
              /\ PutOther(u, o)
            BY <2>2 DEF UserEdits, TypeOK, Object
        <3>2. o \in Object /\ o.status = obj[u].status
            BY <3>1 DEF Object, SpecFields
        <3> HIDE DEF o
        <3> QED
            BY <1>3, <3>1, <3>2
    <2> QED
        BY <1>4, <2>1, <2>2
<1>5. ASSUME NEW u \in Tunnel, SyncerPatches(u)
      PROVE  /\ pc' = pc
             /\ obj'[t] # None => obj'[t].status = obj[t].status
             /\ obj'[t] = None => ~obj[t].finalizer
    <2> DEFINE o == [obj[u] EXCEPT !.spec.remoteIP = remoteExIp[obj[u].label]]
    <2>1. obj[u] # None /\ obj[u] \in Object /\ PutOther(u, o)
          /\ remoteExIp[obj[u].label] \in RemoteIP
        BY <1>5 DEF SyncerPatches, TypeOK, Object
    <2>2. o \in Object /\ o.status = obj[u].status
        BY <2>1 DEF Object, SpecFields
    <2> HIDE DEF o
    <2> QED
        BY <1>3, <2>1, <2>2
<1>6. ASSUME NEW u \in Tunnel, InformerPatches(u)
      PROVE  /\ pc' = pc
             /\ obj'[t] # None => obj'[t].status = obj[t].status
             /\ obj'[t] = None => ~obj[t].finalizer
    <2> DEFINE r == [obj[u] EXCEPT !.spec.internalIP = localExIp.ip]
               m == [r EXCEPT !.spec.localGw = localExIp.gw]
    <2>1. obj[u] # None /\ obj[u] \in Object /\ (PutOther(u, r) \/ PutOther(u, m))
          /\ localExIp.gw \in Gateway /\ localExIp.ip \in GwIP
        BY <1>6 DEF InformerPatches, TypeOK, Object, PG!Endpoint
    <2>2. r \in Object /\ r.status = obj[u].status
        BY <2>1 DEF Object, SpecFields
    <2>3. m \in Object /\ m.status = r.status
        BY <2>1, <2>2 DEF Object, SpecFields
    <2> HIDE DEF r, m
    <2> QED
        BY <1>3, <2>1, <2>2, <2>3
<1>7. CASE UNCHANGED <<obj, pc>>
    BY <1>7
<1>8. \/ \E u \in Tunnel : UserDeletes(u) \/ SyncerPatches(u) \/ InformerPatches(u)
      \/ \E u \in Tunnel, p \in Peer, a \in Addr, ty \in Type :
            UserCreates(u, p, a, ty) \/ UserEdits(u, p, a, ty)
      \/ UNCHANGED <<obj, pc>>
    BY DEF User, Cluster, RemoteExIpSynced, LocalExIpMoves, PodLost, NodeLost,
           PodStarts, EgressAllocated, LocalExIpDeleted, Calm
<1> QED
    BY <1>2, <1>4, <1>5, <1>6, <1>7, <1>8

\* Everything but the writes and the others leaves the objects alone.
LEMMA WhoWrites ==
    ASSUME [Next]_vars
    PROVE  \/ AddFinalizer \/ RevertType \/ WriteStatus \/ WriteSpec \/ Release
           \/ User \/ Cluster
           \/ obj' = obj
    BY DEF Next, WorkerStep, vars, Begin, SyncCache, CallFails, Crash, Panic, Restart,
           DecideBuild, DecideRevert, DecideUpdate, DecideNothing, GetNatGwPod, Local,
           ExecCreateTunnel, ExecAddRoute, ExecDelRoute, ExecDeleteTunnel, Exec

\* What an accepted write of the worker makes of the object it is about.
LEMMA WorkerWrites ==
    ASSUME TypeOK, RecordInv, NEW t \in Tunnel,
           AddFinalizer \/ RevertType \/ WriteStatus \/ WriteSpec,
           obj'[t] # obj[t]
    PROVE  LET o == obj[t]
               p == obj'[t]
           IN
           /\ t = job.t /\ p # None
           /\ p.status = o.status \/ (pc = "writeStatus" /\ p.status = job.obj.status)
           /\ p.spec.peer = o.spec.peer /\ p.spec.interfaceAddr = o.spec.interfaceAddr
           /\ p.deleting = o.deleting /\ p.spec.type \in {o.spec.type, o.status.type}
           /\ o.label # None =>
                /\ p.spec.remoteIP = o.spec.remoteIP
                /\ p.spec.localGw = o.spec.localGw
                /\ p.spec.internalIP = o.spec.internalIP
<1> DEFINE j == job.obj
           o == obj[t]
<1>1. /\ pc # "idle" /\ job \in Job /\ j \in Object /\ job.mode \in Modes
      /\ pc \in {"finalize", "revertType"} \cup Written
      /\ j.spec \in SpecFields /\ j.status \in StatusFields
    BY DEF AddFinalizer, RevertType, WriteStatus, WriteSpec, TypeOK, JobOK, Job, Object,
           Written
<1>2. ASSUME NEW w, NEW next, Update(w, next)
      PROVE  t = job.t /\ job.fresh /\ obj'[t] = w
    BY <1>1, <1>2, UpdateWrites DEF TypeOK
<1>3. t = job.t /\ job.fresh
    BY <1>2 DEF AddFinalizer, RevertType, WriteStatus, WriteSpec
<1>4. /\ o.spec = j.spec /\ o.label = j.label /\ o.deleting = j.deleting
      /\ pc # "writeStatus" => o.status = j.status
      /\ job.mode = "build" => o.label = None
    BY <1>1, <1>3 DEF RecordInv, FreshSeen, JobStage, Early, Written
<1>5. CASE AddFinalizer
    <2> DEFINE w == [j EXCEPT !.finalizer = TRUE]
    <2>1. /\ w \in Object /\ w.spec = j.spec /\ w.status = j.status
          /\ w.deleting = j.deleting
        BY <1>1 DEF Object
    <2>2. obj'[t] = w /\ pc = "finalize"
        BY <1>2, <1>5 DEF AddFinalizer
    <2> HIDE DEF w
    <2> QED
        BY <1>3, <1>4, <2>1, <2>2, ConstantsOK
<1>6. CASE RevertType
    <2> DEFINE w == [j EXCEPT !.spec.type = j.status.type]
    <2>0. pc = "revertType" /\ j.status.type \in Type
        BY <1>1, <1>6 DEF RevertType, TypeOK, JobOK, StatusFields, StatusRecord
    <2>1. w \in Object /\ w.status = j.status /\ w.deleting = j.deleting
        BY <1>1, <2>0 DEF Object, SpecFields
    <2>2. /\ w.spec.type = j.status.type
          /\ w.spec.peer = j.spec.peer /\ w.spec.interfaceAddr = j.spec.interfaceAddr
          /\ w.spec.remoteIP = j.spec.remoteIP /\ w.spec.localGw = j.spec.localGw
          /\ w.spec.internalIP = j.spec.internalIP
        BY <1>1 DEF Object, SpecFields
    <2>3. obj'[t] = w
        BY <1>2, <1>6 DEF RevertType
    <2> HIDE DEF w
    <2> QED
        BY <1>3, <1>4, <2>0, <2>1, <2>2, <2>3, ConstantsOK
<1>7. CASE WriteStatus
    <2>1. obj'[t] = j /\ pc = "writeStatus"
        BY <1>2, <1>7 DEF WriteStatus
    <2> QED
        BY <1>1, <1>3, <1>4, <2>1, ConstantsOK
<1>8. CASE WriteSpec
    <2> DEFINE b == [j EXCEPT !.label = j.spec.peer,
                              !.spec.internalIP = j.status.internalIP,
                              !.spec.localGw = j.status.localGw,
                              !.spec.remoteIP = j.status.remoteIP]
               u == [j EXCEPT !.label = j.spec.peer]
               w == IF job.mode = "build" THEN b ELSE u
    <2>1. b \in Object /\ u \in Object
        BY <1>1 DEF Object, SpecFields, StatusFields, StatusRecord
    <2>2. /\ b.status = j.status /\ u.status = j.status
          /\ b.deleting = j.deleting /\ u.deleting = j.deleting /\ u.spec = j.spec
        BY <1>1 DEF Object
    <2>3. /\ b.spec.peer = j.spec.peer /\ b.spec.interfaceAddr = j.spec.interfaceAddr
          /\ b.spec.type = j.spec.type
        BY <1>1 DEF Object, SpecFields
    <2>4. obj'[t] = w /\ pc = "writeSpec"
        BY <1>2, <1>8 DEF WriteSpec
    <2> HIDE DEF b, u
    <2> QED
        BY <1>3, <1>4, <2>1, <2>2, <2>3, <2>4, ConstantsOK
<1> QED
    BY <1>5, <1>6, <1>7, <1>8

LEMMA ReleaseWrites ==
    ASSUME TypeOK, RecordInv, NEW t \in Tunnel, Release, obj'[t] # obj[t]
    PROVE  /\ t = job.t /\ obj'[t] = None
           /\ net[obj[t].status.localGw].link[t] = None
<1>1. pc = "release" /\ job.mode = "delete"
    BY DEF Release, RecordInv, JobStage
<1>2. t = job.t /\ job.fresh /\ obj'[t] = None
    BY <1>1, UpdateWrites DEF Release, TypeOK
<1>3. obj[t].status = job.obj.status
    BY <1>1, <1>2 DEF RecordInv, FreshSeen
<1>4. job.gw = job.obj.status.localGw
    BY <1>1 DEF RecordInv, JobRecorded, Early
<1> QED
    BY <1>1, <1>2, <1>3, <1>4 DEF RecordInv, Done

\* A Status is written only when the pod it names carries the tunnel as it says,
\* if that pod has not been replaced since: the last command was many calls ago.
THEOREM StatusHonest == Spec => StatusTruthful
<1> DEFINE A == \A t \in Tunnel :
                 /\ obj[t] # None /\ obj'[t] # None
                 /\ obj'[t].status # obj[t].status
                 /\ job.intact
                 => Carries(net[obj'[t].status.localGw], t, obj'[t].status)
<1>1. TypeOK /\ RecordInv /\ [Next]_vars => A
    <2> SUFFICES ASSUME TypeOK, RecordInv, [Next]_vars, NEW t \in Tunnel,
                        obj[t] # None, obj'[t] # None,
                        obj'[t].status # obj[t].status, job.intact
                 PROVE  Carries(net[obj'[t].status.localGw], t, obj'[t].status)
        OBVIOUS
    <2>1. AddFinalizer \/ RevertType \/ WriteStatus \/ WriteSpec
        BY WhoWrites, OthersWrite, ReleaseWrites
    <2>2. pc = "writeStatus" /\ t = job.t /\ obj'[t].status = job.obj.status
        BY <2>1, WorkerWrites
    <2>3. job.gw = job.obj.status.localGw
        BY <2>2 DEF RecordInv, JobRecorded, Early
    <2> QED
        BY <2>2, <2>3 DEF RecordInv, Done, Written
<1> QED
    BY <1>1, RecordsInvariant, PTL DEF Spec, StatusTruthful

\* An object that has been built disappears only after its device has been taken
\* off the gateway in its Status.
THEOREM ReleasesClean == Spec => ReleasedClean
<1> DEFINE A == \A t \in Tunnel :
                 Built(t) /\ obj'[t] = None
                 => net[obj[t].status.localGw].link[t] = None
<1>1. TypeOK /\ RecordInv /\ [Next]_vars => A
    <2> SUFFICES ASSUME TypeOK, RecordInv, [Next]_vars, NEW t \in Tunnel,
                        Built(t), obj'[t] = None
                 PROVE  net[obj[t].status.localGw].link[t] = None
        OBVIOUS
    <2>1. obj[t] # None /\ obj[t].finalizer
        BY DEF Built, RecordInv, CopiesRecorded, Recorded
    <2>2. Release
        BY <2>1, WhoWrites, OthersWrite, WorkerWrites
    <2> QED
        BY <2>1, <2>2, ReleaseWrites
<1> QED
    BY <1>1, RecordsInvariant, PTL DEF Spec, ReleasedClean

\* No write of the reconciler takes back what somebody else has written since the
\* reconciler read the object: neither a user's edit nor a patched address.
THEOREM NothingUndone == Spec => NoLostUpdate
<1> DEFINE A == \A t \in Tunnel :
                 /\ pc' # pc
                 /\ obj[t] # None /\ obj'[t] # None
                 => LET o == obj[t]
                        p == obj'[t]
                    IN
                    /\ p.spec.peer = o.spec.peer
                    /\ p.spec.interfaceAddr = o.spec.interfaceAddr
                    /\ p.deleting = o.deleting
                    /\ p.spec.type \in {o.spec.type, o.status.type}
                    /\ o.label # None =>
                         /\ p.spec.remoteIP = o.spec.remoteIP
                         /\ p.spec.localGw = o.spec.localGw
                         /\ p.spec.internalIP = o.spec.internalIP
<1>1. TypeOK /\ RecordInv /\ [Next]_vars => A
    <2> SUFFICES ASSUME TypeOK, RecordInv, [Next]_vars, NEW t \in Tunnel,
                        pc' # pc, obj[t] # None, obj'[t] # None, obj'[t] # obj[t]
                 PROVE  LET o == obj[t]
                            p == obj'[t]
                        IN
                        /\ p.spec.peer = o.spec.peer
                        /\ p.spec.interfaceAddr = o.spec.interfaceAddr
                        /\ p.deleting = o.deleting
                        /\ p.spec.type \in {o.spec.type, o.status.type}
                        /\ o.label # None =>
                             /\ p.spec.remoteIP = o.spec.remoteIP
                             /\ p.spec.localGw = o.spec.localGw
                             /\ p.spec.internalIP = o.spec.internalIP
        OBVIOUS
    <2>1. AddFinalizer \/ RevertType \/ WriteStatus \/ WriteSpec
        BY WhoWrites, OthersWrite, ReleaseWrites
    <2> QED
        BY <2>1, WorkerWrites
<1> QED
    BY <1>1, RecordsInvariant, PTL DEF Spec, NoLostUpdate

-------------------------------------------------------------------------------
(* Traffic *)

\* Who has egress addresses has the two ends of its routes.
Routable(s) == s.egress => s.remoteCIDR \in CIDR /\ s.ovnGwIP # None

CopiesRoutable ==
    /\ \A t \in Tunnel :
          /\ obj[t] # None => Routable(obj[t].status)
          /\ cache[t].obj # None => Routable(cache[t].obj.status)
    /\ pc # "idle" => Routable(job.obj.status)

\* A route leads through a device that is there, and no device carries two.
WellRouted(n) ==
    \A c \in CIDR : n.out[c] # None =>
        /\ n.link[n.out[c]] # None
        /\ \A d \in CIDR : n.out[d] = n.out[c] => d = c

RoutesThroughDevices == \A g \in Gateway : WellRouted(net[g])

\* Before its device is deleted, and before its route is added, a tunnel has no route.
NoRouteOfJob ==
    pc \in {"addRoute", "delTunnel"} => \A c \in CIDR : net[job.gw].out[c] # job.t

TrafficInv == CopiesRoutable /\ RoutesThroughDevices /\ NoRouteOfJob

\* What the four command lines leave alone in a namespace.
LEMMA CreateTunnelKeeps ==
    ASSUME NEW n \in Netns, NEW t \in Tunnel, NEW o \in Object,
           NEW m, m = CreateTunnel(n, t, o)
    PROVE  /\ m.out = n.out /\ m.inflow = n.inflow /\ m.snat = n.snat
           /\ \A u \in Tunnel : n.link[u] # None =>
                 /\ m.link[u] # None /\ m.link[u].kind = n.link[u].kind
                 /\ m.link[u].remote = n.link[u].remote
                 /\ m.link[u].local = n.link[u].local
                 /\ n.link[u].addrs \subseteq m.link[u].addrs
           /\ CreateTunnelOk(n, t, o) => n.link[t] = None
<1> DEFINE a == o.status.interfaceAddr
<1>1. CASE CreateTunnelOk(n, t, o)
    <2>1. m = [n EXCEPT !.link[t] = NewLink(o)] /\ n.link[t] = None
        BY <1>1 DEF CreateTunnel, CreateTunnelOk
    <2> QED
        BY <2>1 DEF Netns
<1>2. CASE n.link[t] # None
    <2> DEFINE l == [n.link[t] EXCEPT !.addrs = @ \cup {a}]
    <2>1. n.link \in [Tunnel -> Link \cup {None}] /\ n.link[t] \in Link
        BY <1>2 DEF Netns
    <2>2. a \in Addr \cup {None}
        BY DEF Object, StatusFields, StatusRecord
    <2>3. /\ l \in Link /\ l.kind = n.link[t].kind /\ l.remote = n.link[t].remote
          /\ l.local = n.link[t].local /\ l.addrs = n.link[t].addrs \cup {a}
        BY <2>1, <2>2 DEF Link
    <2>4. m = [n EXCEPT !.link[t] = l]
        BY <1>2 DEF CreateTunnel, CreateTunnelOk
    <2> HIDE DEF l
    <2>5. /\ m.link = [n.link EXCEPT ![t] = l]
          /\ m.out = n.out /\ m.inflow = n.inflow /\ m.snat = n.snat
        BY <2>4 DEF Netns
    <2>6. m.link[t] = l /\ l # None /\ n.link[t].addrs \subseteq l.addrs
        BY <2>1, <2>3, <2>5, ConstantsOK
    <2>7. \A u \in Tunnel \ {t} : m.link[u] = n.link[u]
        BY <2>1, <2>5
    <2> QED
        BY <1>2, <2>3, <2>5, <2>6, <2>7 DEF CreateTunnelOk
<1>3. CASE ~CreateTunnelOk(n, t, o) /\ n.link[t] = None
    BY <1>3 DEF CreateTunnel
<1> QED
    BY <1>1, <1>2, <1>3

LEMMA AddRouteKeeps ==
    ASSUME NEW n \in Netns, NEW t \in Tunnel, NEW o, NEW lan,
           NEW c \in CIDR, c = o.status.remoteCIDR,
           NEW m, m = AddRoute(n, t, o, lan)
    PROVE  /\ m.link = n.link /\ (n.inflow # None => m.inflow = n.inflow)
           /\ m.out = IF n.out[c] = None /\ n.link[t] # None
                        THEN [n.out EXCEPT ![c] = t] ELSE n.out
           /\ \A d \in CIDR : n.snat[d] > 0 => m.snat[d] > 0
<1>1. n.out \in [CIDR -> Tunnel \cup {None}] /\ n.snat \in [CIDR -> Nat]
    BY DEF Netns
<1>2. m.link = n.link /\ (n.inflow # None => m.inflow = n.inflow)
    BY DEF AddRoute, Netns
<1>3. m.out = [n.out EXCEPT ![c] = IF @ = None /\ n.link[t] # None THEN t ELSE @]
    BY DEF AddRoute, Netns
<1>4. m.out = IF n.out[c] = None /\ n.link[t] # None
                THEN [n.out EXCEPT ![c] = t] ELSE n.out
    BY <1>1, <1>3
<1>5. m.snat = [n.snat EXCEPT ![c] = @ + 1]
    BY DEF AddRoute, Netns
<1>6. \A d \in CIDR : n.snat[d] > 0 => m.snat[d] > 0
    BY <1>1, <1>5
<1> QED
    BY <1>2, <1>4, <1>6

LEMMA DelRouteKeeps ==
    ASSUME NEW n \in Netns, NEW t \in Tunnel, NEW o,
           NEW c \in CIDR, c = o.status.remoteCIDR,
           NEW m, m = DelRoute(n, t, o)
    PROVE  /\ m.link = n.link
           /\ m.out = IF n.out[c] = t THEN [n.out EXCEPT ![c] = None] ELSE n.out
           /\ DelRouteOk(n, t, o) => n.out[c] = t
<1>1. m.out = [n.out EXCEPT ![c] = IF @ = t THEN None ELSE @] /\ m.link = n.link
    BY DEF DelRoute, Netns
<1>2. n.out \in [CIDR -> Tunnel \cup {None}]
    BY DEF Netns
<1> QED
    BY <1>1, <1>2 DEF DelRouteOk

LEMMA DeleteTunnelKeeps ==
    ASSUME NEW n \in Netns, NEW t \in Tunnel, NEW o,
           NEW m, m = DeleteTunnel(n, t, o)
    PROVE  \/ m = n /\ ~DeleteTunnelOk(n, t, o)
           \/ /\ m.link = [n.link EXCEPT ![t] = None]
              /\ m.inflow = n.inflow /\ m.snat = n.snat
              /\ m.out = [c \in CIDR |-> IF n.out[c] = t THEN None ELSE n.out[c]]
    BY DEF DeleteTunnel, Netns

\* A namespace stays well routed under every command, and a pod that carries a
\* tunnel goes on carrying it if devices, routes and rules stay.
LEMMA EmptyRouted == WellRouted(EmptyNet)
    BY DEF WellRouted, EmptyNet

LEMMA CreateRouted ==
    ASSUME NEW n \in Netns, NEW t \in Tunnel, NEW o \in Object, WellRouted(n),
           NEW m, m = CreateTunnel(n, t, o)
    PROVE  /\ WellRouted(m)
           /\ CreateTunnelOk(n, t, o) => \A c \in CIDR : m.out[c] # t
<1>1. n.out \in [CIDR -> Tunnel \cup {None}]
    BY DEF Netns
<1> QED
    BY <1>1, CreateTunnelKeeps, ConstantsOK DEF WellRouted

LEMMA AddRouted ==
    ASSUME NEW n \in Netns, NEW t \in Tunnel, NEW o, NEW lan, WellRouted(n),
           o.status.remoteCIDR \in CIDR, \A c \in CIDR : n.out[c] # t,
           NEW m, m = AddRoute(n, t, o, lan)
    PROVE  WellRouted(m)
<1>1. n.out \in [CIDR -> Tunnel \cup {None}]
    BY DEF Netns
<1>2. /\ m.link = n.link
      /\ \/ m.out = n.out
         \/ /\ m.out = [n.out EXCEPT ![o.status.remoteCIDR] = t]
            /\ n.link[t] # None
    BY AddRouteKeeps
<1> QED
    BY <1>1, <1>2 DEF WellRouted

LEMMA DelRouted ==
    ASSUME NEW n \in Netns, NEW t \in Tunnel, NEW o, WellRouted(n),
           o.status.remoteCIDR \in CIDR,
           NEW m, m = DelRoute(n, t, o)
    PROVE  /\ WellRouted(m)
           /\ DelRouteOk(n, t, o) => \A c \in CIDR : m.out[c] # t
<1>1. n.out \in [CIDR -> Tunnel \cup {None}]
    BY DEF Netns
<1>2. /\ m.link = n.link
      /\ m.out = IF n.out[o.status.remoteCIDR] = t
                   THEN [n.out EXCEPT ![o.status.remoteCIDR] = None] ELSE n.out
      /\ DelRouteOk(n, t, o) => n.out[o.status.remoteCIDR] = t
    BY DelRouteKeeps
<1> QED
    BY <1>1, <1>2, ConstantsOK DEF WellRouted

LEMMA DeleteRouted ==
    ASSUME NEW n \in Netns, NEW t \in Tunnel, NEW o, WellRouted(n),
           NEW m, m = DeleteTunnel(n, t, o)
    PROVE  WellRouted(m)
<1>1. n.out \in [CIDR -> Tunnel \cup {None}] /\ n.link \in [Tunnel -> Link \cup {None}]
    BY DEF Netns
<1>2. CASE m = n
    BY <1>2
<1>3. ASSUME m # n
      PROVE  /\ \A u \in Tunnel : m.link[u] = IF u = t THEN None ELSE n.link[u]
             /\ \A c \in CIDR : m.out[c] = IF n.out[c] = t THEN None ELSE n.out[c]
  <2>1. /\ m.link = [n.link EXCEPT ![t] = None]
        /\ m.out = [c \in CIDR |-> IF n.out[c] = t THEN None ELSE n.out[c]]
      BY <1>3, DeleteTunnelKeeps
  <2> QED
      BY <1>1, <2>1
<1>4. CASE m # n
    BY <1>1, <1>3, <1>4 DEF WellRouted
<1> QED
    BY <1>2, <1>4

LEMMA StillCarries ==
    ASSUME NEW n, NEW m, NEW t \in Tunnel, NEW s, Carries(n, t, s),
           s.remoteCIDR \in CIDR, s.ovnGwIP # None,
           /\ m.link[t] # None /\ m.link[t].kind = n.link[t].kind
           /\ m.link[t].remote = n.link[t].remote
           /\ m.link[t].local = n.link[t].local
           /\ n.link[t].addrs \subseteq m.link[t].addrs,
           n.inflow # None => m.inflow = n.inflow,
           \A c \in CIDR : n.out[c] = t => m.out[c] = t,
           \A c \in CIDR : n.snat[c] > 0 => m.snat[c] > 0
    PROVE  Carries(m, t, s)
    BY DEF Carries

\* A build that succeeds is taken down by the commands of a deletion, which all succeed
\* in turn and leave the namespace exactly as it was before the build: no route, rule or
\* device is left over and none of another tunnel is taken.  (WellRouted is a part of
\* TrafficInv: it holds of every namespace there is.)
THEOREM BuildUndone ==
    ASSUME NEW n0 \in Netns, WellRouted(n0), NEW t \in Tunnel, NEW o \in Object,
           Routable(o.status), o.status.egress, NEW lan \in OvnGwIPs,
           NEW n1, n1 = CreateTunnel(n0, t, o), CreateTunnelOk(n0, t, o),
           NEW n2, n2 = AddRoute(n1, t, o, lan), AddRouteOk(n1, t, o, lan),
           NEW n3, n3 = DelRoute(n2, t, o),
           NEW n4, n4 = DeleteTunnel(n3, t, o)
    PROVE  DelRouteOk(n2, t, o) /\ DeleteTunnelOk(n3, t, o) /\ n4 = n0
<1> DEFINE c == o.status.remoteCIDR
           l == NewLink(o)
<1>1. /\ c \in CIDR /\ o.status.ovnGwIP = lan /\ lan # None
      /\ l \in Link /\ l # None /\ l.kind = Kind(o.spec.type)
    BY NewLinkTyped, ConstantsOK DEF Routable, AddRouteOk, NewLink
<1>2. /\ n0.link \in [Tunnel -> Link \cup {None}]
      /\ n0.out \in [CIDR -> Tunnel \cup {None}] /\ n0.snat \in [CIDR -> Nat]
      /\ n0.link[t] = None
    BY DEF Netns, CreateTunnelOk
<1>3. \A d \in CIDR : n0.out[d] # t
    BY <1>2, ConstantsOK DEF WellRouted
<1> HIDE DEF c, l
<1>4. /\ n1 \in Netns /\ n1.link = [n0.link EXCEPT ![t] = l]
      /\ n1.out = n0.out /\ n1.inflow = n0.inflow /\ n1.snat = n0.snat
    <2>1. n1 \in Netns
        BY CreateTunnelTyped
    <2>2. n1 = [n0 EXCEPT !.link[t] = l]
        BY <1>2 DEF CreateTunnel, l
    <2> QED
        BY <2>1, <2>2 DEF Netns
<1>5. n1.inflow = None /\ n1.out[c] = None /\ n1.link[t] # None
    BY DEF AddRouteOk, c
<1>6. /\ n2 \in Netns /\ n2.link = n1.link /\ n2.inflow = lan
      /\ n2.out = [n1.out EXCEPT ![c] = t]
      /\ n2.snat = [n1.snat EXCEPT ![c] = @ + 1]
    <2>1. n2 \in Netns
        BY <1>4, AddRouteTyped
    <2>2. /\ n2.link = n1.link /\ n2.inflow = lan
          /\ n2.snat = [n1.snat EXCEPT ![c] = @ + 1]
        BY <1>1, <1>4, <1>5 DEF AddRoute, Netns, c
    <2>3. n2.out = [n1.out EXCEPT ![c] = IF @ = None /\ n1.link[t] # None THEN t ELSE @]
        BY <1>1, <1>4 DEF AddRoute, Netns, c
    <2>4. n2.out = [n1.out EXCEPT ![c] = t]
        BY <1>5, <2>3
    <2> QED
        BY <2>1, <2>2, <2>4
<1>7. n2.out[c] = t /\ n2.snat[c] = n0.snat[c] + 1 /\ n2.snat[c] > 0
    BY <1>1, <1>2, <1>4, <1>6
<1>8. DelRouteOk(n2, t, o)
    BY <1>1, <1>6, <1>7 DEF DelRouteOk, c
<1>9. /\ n3 \in Netns /\ n3.link = n2.link /\ n3.inflow = None
      /\ n3.out = n0.out /\ n3.snat = n0.snat
    <2>1. n3 \in Netns
        BY <1>6, DelRouteTyped
    <2>2. /\ n3.link = n2.link /\ n3.inflow = None
          /\ n3.out = [n2.out EXCEPT ![c] = IF @ = t THEN None ELSE @]
          /\ n3.snat = [n2.snat EXCEPT ![c] = IF @ > 0 THEN @ - 1 ELSE 0]
        BY <1>1, <1>6 DEF DelRoute, Netns, c
    <2>3. n3.out = n0.out
        BY <1>1, <1>2, <1>4, <1>5, <1>6, <1>7, <2>2
    <2>4. n3.snat = n0.snat
        BY <1>1, <1>2, <1>4, <1>6, <1>7, <2>2
    <2> QED
        BY <2>1, <2>2, <2>3, <2>4
<1>10. n3.link[t] = l
    BY <1>2, <1>4, <1>6, <1>9
<1>11. DeleteTunnelOk(n3, t, o)
    BY <1>1, <1>10 DEF DeleteTunnelOk
<1>12. /\ n4 \in Netns /\ n4.link = [n3.link EXCEPT ![t] = None]
       /\ n4.inflow = n3.inflow /\ n4.snat = n3.snat
       /\ n4.out = [d \in CIDR |-> IF n3.out[d] = t THEN None ELSE n3.out[d]]
    <2>1. n4 \in Netns
        BY <1>9, DeleteTunnelTyped
    <2>2. n4 = [n3 EXCEPT !.link[t] = None,
                          !.out = [d \in CIDR |-> IF n3.out[d] = t THEN None ELSE n3.out[d]]]
        BY <1>11 DEF DeleteTunnel
    <2> QED
        BY <1>9, <2>1, <2>2 DEF Netns
<1>13. n4.out = n0.out
    BY <1>2, <1>3, <1>9, <1>12
<1>14. n4.link = n0.link
    BY <1>2, <1>4, <1>6, <1>9, <1>12
<1>15. n4.inflow = n0.inflow /\ n4.snat = n0.snat
    BY <1>4, <1>5, <1>9, <1>12
<1>16. n4 = n0
    BY <1>12, <1>13, <1>14, <1>15 DEF Netns
<1> QED
    BY <1>8, <1>11, <1>16

LEMMA Executed ==
    ASSUME TypeOK, RecordInv, pc \in InPod,
           NEW n, NEW ok, NEW next \in Steps, NEW j, Exec(n, ok, next, j)
    PROVE  /\ UNCHANGED <<obj, cache, up>>
           /\ net' = net \/ net' = [net EXCEPT ![job.gw] = n]
           /\ \/ pc' = "idle"
              \/ /\ ok /\ pc' = next /\ job' = j
                 /\ net' = [net EXCEPT ![job.gw] = n]
    BY DEF Exec, Answer, Stop, Steps

LEMMA RoutedAfter ==
    ASSUME TypeOK, RecordInv, TrafficInv, pc \in InPod,
           NEW n, NEW ok, NEW next \in Steps, NEW j, Exec(n, ok, next, j),
           j.t = job.t, j.gw = job.gw, WellRouted(n),
           ok /\ next \in {"addRoute", "delTunnel"} => \A c \in CIDR : n.out[c] # job.t
    PROVE  RoutesThroughDevices' /\ NoRouteOfJob'
<1>1. job.gw \in Gateway /\ net \in [Gateway -> Netns]
    BY InPodRecorded DEF TypeOK
<1>2. RoutesThroughDevices'
    BY <1>1, Executed DEF TrafficInv, RoutesThroughDevices
<1>3. NoRouteOfJob'
    BY <1>1, Executed DEF NoRouteOfJob
<1> QED
    BY <1>2, <1>3

LEMMA CommandsRouted ==
    ASSUME TypeOK, RecordInv, TrafficInv,
           ExecCreateTunnel \/ ExecAddRoute \/ ExecDelRoute \/ ExecDeleteTunnel
    PROVE  RoutesThroughDevices' /\ NoRouteOfJob'
<1> DEFINE n == net[job.gw]
           t == job.t
           o == job.obj
<1>1. pc \in InPod
    BY DEF ExecCreateTunnel, ExecAddRoute, ExecDelRoute, ExecDeleteTunnel, InPod
<1>2. job \in Job /\ t \in Tunnel /\ o \in Object /\ n \in Netns /\ job.gw \in Gateway
    BY <1>1, InPodRecorded
<1>3. WellRouted(n) /\ (o.status.egress => o.status.remoteCIDR \in CIDR)
    BY <1>1, <1>2 DEF TrafficInv, RoutesThroughDevices, CopiesRoutable, Routable, InPod
<1>4. CASE ExecCreateTunnel
    <2> DEFINE m == CreateTunnel(n, t, o)
               ok == CreateTunnelOk(n, t, o)
    <2>1. WellRouted(m) /\ (ok => \A c \in CIDR : m.out[c] # t)
        BY <1>2, <1>3, CreateRouted
    <2>2. Exec(m, ok, "addRoute", job) /\ "addRoute" \in Steps
        BY <1>4 DEF ExecCreateTunnel, Steps
    <2> HIDE DEF m, ok
    <2> QED
        BY <1>1, <2>1, <2>2, RoutedAfter
<1>5. CASE ExecAddRoute
    <2> DEFINE m == AddRoute(n, t, o, OvnGw[job.gw])
               ok == AddRouteOk(n, t, o, OvnGw[job.gw])
    <2>1. o.status.remoteCIDR \in CIDR /\ \A c \in CIDR : n.out[c] # t
        BY <1>3, <1>5 DEF ExecAddRoute, TrafficInv, NoRouteOfJob
    <2>2. WellRouted(m)
        BY <1>2, <1>3, <2>1, AddRouted
    <2>3. Exec(m, ok, "writeStatus", job) /\ "writeStatus" \in Steps
        BY <1>5 DEF ExecAddRoute, Steps
    <2> HIDE DEF m, ok
    <2> QED
        BY <1>1, <2>2, <2>3, RoutedAfter
<1>6. CASE ExecDelRoute
    <2> DEFINE m == DelRoute(n, t, o)
               ok == DelRouteOk(n, t, o)
    <2>1. o.status.remoteCIDR \in CIDR
        BY <1>3, <1>6 DEF ExecDelRoute
    <2>2. WellRouted(m) /\ (ok => \A c \in CIDR : m.out[c] # t)
        BY <1>2, <1>3, <2>1, DelRouted
    <2>3. Exec(m, ok, "delTunnel", job) /\ "delTunnel" \in Steps
        BY <1>6 DEF ExecDelRoute, Steps
    <2> HIDE DEF m, ok
    <2> QED
        BY <1>1, <2>2, <2>3, RoutedAfter
<1>7. CASE ExecDeleteTunnel
    <2> DEFINE m == DeleteTunnel(n, t, o)
               ok == DeleteTunnelOk(n, t, o)
               next == IF job.mode = "delete" THEN "release" ELSE "create"
               s == FromSpec(o)
               j == IF job.mode = "delete" THEN job ELSE [job EXCEPT !.obj.status = s]
    <2>1. WellRouted(m)
        BY <1>2, <1>3, DeleteRouted
    <2>2. /\ Exec(m, ok, next, j)
          /\ next \in Steps \ {"addRoute", "delTunnel"}
        BY <1>7 DEF ExecDeleteTunnel, Steps
    <2> HIDE DEF m, ok, next, s
    <2>3. j.t = job.t /\ j.gw = job.gw
        BY <1>2 DEF Job
    <2> HIDE DEF j
    <2> QED
        BY <1>1, <2>1, <2>2, <2>3, RoutedAfter
<1> QED
    BY <1>4, <1>5, <1>6, <1>7

\* The others leave the running reconcile where it is, and a namespace as it is, unless
\* its pod is lost.
LEMMA OthersLeaveJob ==
    ASSUME TypeOK, User \/ Cluster
    PROVE  /\ pc' = pc
           /\ pc # "idle" =>
                job'.t = job.t /\ job'.gw = job.gw /\ job'.obj = job.obj
<1> DEFINE Same == /\ pc' = pc
                   /\ pc # "idle" =>
                        job'.t = job.t /\ job'.gw = job.gw /\ job'.obj = job.obj
<1>1. pc # "idle" => job \in Job
    BY DEF TypeOK, JobOK
<1>2. ASSUME NEW t \in Tunnel, NEW o, PutOther(t, o)
      PROVE  Same
    BY <1>1, <1>2 DEF PutOther, Job
<1>3. CASE User
    BY <1>2, <1>3 DEF User, UserDeletes, UserCreates, UserEdits
<1>4. ASSUME NEW t \in Tunnel, SyncerPatches(t) \/ InformerPatches(t)
      PROVE  Same
    BY <1>2, <1>4 DEF SyncerPatches, InformerPatches
<1>5. ASSUME NEW g \in Gateway, PodLost(g) \/ NodeLost(g)
      PROVE  Same
    BY <1>1, <1>5 DEF PodLost, NodeLost, Calm, Job
<1>6. ASSUME \/ \E p \in Peer, i \in RemoteIP : RemoteExIpSynced(p, i)
             \/ \E e \in PG!Endpoint : LocalExIpMoves(e)
             \/ \E g \in Gateway, i \in GwIP : PodStarts(g, i)
             \/ EgressAllocated \/ LocalExIpDeleted
      PROVE  Same
    BY <1>6 DEF RemoteExIpSynced, LocalExIpMoves, PodStarts, EgressAllocated,
                LocalExIpDeleted, Calm
<1> QED
    BY <1>3, <1>4, <1>5, <1>6 DEF Cluster

LEMMA OthersLeaveNet ==
    ASSUME TypeOK, User \/ Cluster, NEW g \in Gateway
    PROVE  net'[g] = net[g] \/ (net'[g] = EmptyNet /\ ~up'[g])
<1>1. ASSUME NEW h \in Gateway, PodLost(h)
      PROVE  net'[g] = net[g] \/ (net'[g] = EmptyNet /\ ~up'[g])
    BY <1>1 DEF PodLost, TypeOK
<1>2. ASSUME NEW t \in Tunnel, NEW o, PutOther(t, o)
      PROVE  net' = net
    BY <1>2 DEF PutOther, world
<1>3. CASE User
    BY <1>2, <1>3 DEF User, UserDeletes, UserCreates, UserEdits
<1>4. ASSUME NEW t \in Tunnel, SyncerPatches(t) \/ InformerPatches(t)
      PROVE  net' = net
    BY <1>2, <1>4 DEF SyncerPatches, InformerPatches
<1>5. ASSUME \/ \E p \in Peer, i \in RemoteIP : RemoteExIpSynced(p, i)
             \/ \E e \in PG!Endpoint : LocalExIpMoves(e)
             \/ \E h \in Gateway : NodeLost(h)
             \/ \E h \in Gateway, i \in GwIP : PodStarts(h, i)
             \/ EgressAllocated \/ LocalExIpDeleted
      PROVE  net' = net
    BY <1>5 DEF RemoteExIpSynced, LocalExIpMoves, NodeLost, PodStarts, EgressAllocated,
                LocalExIpDeleted
<1> QED
    BY <1>1, <1>3, <1>4, <1>5 DEF Cluster

LEMMA RoutesKept ==
    ASSUME TypeOK, RecordInv, TrafficInv, [Next]_vars
    PROVE  RoutesThroughDevices' /\ NoRouteOfJob'
<1> DEFINE Commands == ExecCreateTunnel \/ ExecAddRoute \/ ExecDelRoute \/ ExecDeleteTunnel
<1>1. CASE Commands
    BY <1>1, CommandsRouted
<1>2. CASE User \/ Cluster
    <2>1. RoutesThroughDevices'
        BY <1>2, OthersLeaveNet, EmptyRouted DEF TrafficInv, RoutesThroughDevices
    <2>2. NoRouteOfJob'
        <3> SUFFICES ASSUME pc \in {"addRoute", "delTunnel"}, NEW c \in CIDR,
                            pc' = pc, job'.t = job.t, job'.gw = job.gw
                     PROVE  net'[job.gw].out[c] # job.t
            BY <1>2, OthersLeaveJob DEF NoRouteOfJob
        <3>1. job.gw \in Gateway /\ job.t \in Tunnel
            BY InPodRecorded DEF InPod
        <3>2. EmptyNet.out[c] # job.t
            BY <3>1, ConstantsOK DEF EmptyNet
        <3> QED
            BY <1>2, <3>1, <3>2, OthersLeaveNet DEF TrafficInv, NoRouteOfJob
    <2> QED
        BY <2>1, <2>2
<1>3. CASE net' = net /\ (UNCHANGED <<pc, job>> \/ pc' \notin {"addRoute", "delTunnel"})
    BY <1>3 DEF TrafficInv, RoutesThroughDevices, NoRouteOfJob
<1>4. \/ Commands \/ User \/ Cluster
      \/ net' = net /\ (UNCHANGED <<pc, job>> \/ pc' \notin {"addRoute", "delTunnel"})
    BY DEF Next, vars, WorkerStep, AddFinalizer, DecideBuild, DecideRevert, DecideUpdate,
           DecideNothing, RevertType, GetNatGwPod, WriteStatus, WriteSpec, AfterStatus,
           Release, Panic, CallFails, Crash, Restart, Begin, FirstStep, SyncCache, Update,
           Answer, Stop, Local, world
<1> QED
    BY <1>1, <1>2, <1>3, <1>4

LEMMA CacheReads ==
    ASSUME TypeOK, [Next]_vars, NEW t \in Tunnel
    PROVE  cache'[t].obj \in {cache[t].obj, obj[t]}
<1> DEFINE Reads == cache'[t].obj \in {cache[t].obj, obj[t]}
<1>1. ASSUME NEW u, NEW o, Put(u, o)
      PROVE  Reads
    BY <1>1 DEF Put, TypeOK
<1>2. ASSUME NEW u \in Tunnel, SyncCache(u)
      PROVE  Reads
    BY <1>2 DEF SyncCache, TypeOK
<1>3. ASSUME Restart
      PROVE  Reads
    BY <1>3 DEF Restart
<1>4. ASSUME NEW o, NEW next, Update(o, next)
      PROVE  Reads
    BY <1>1, <1>4 DEF Update
<1>5. ASSUME NEW u, NEW o, PutOther(u, o)
      PROVE  Reads
    BY <1>1, <1>5 DEF PutOther
<1>6. CASE WorkerStep
    BY <1>3, <1>4, <1>6 DEF WorkerStep, AddFinalizer, DecideBuild, DecideRevert,
       DecideUpdate, DecideNothing, RevertType, GetNatGwPod, ExecCreateTunnel,
       ExecAddRoute, ExecDelRoute, ExecDeleteTunnel, Exec, WriteStatus, WriteSpec,
       Release, Panic, Local
<1>7. CASE User
    BY <1>5, <1>7 DEF User, UserDeletes, UserCreates, UserEdits
<1>8. CASE Cluster
    BY <1>5, <1>8 DEF Cluster, SyncerPatches, InformerPatches, RemoteExIpSynced,
       LocalExIpMoves, PodLost, NodeLost, PodStarts, EgressAllocated, LocalExIpDeleted,
       Calm
<1>9. CASE \/ \E u \in Tunnel : Begin(u) \/ SyncCache(u)
           \/ CallFails \/ Crash \/ UNCHANGED vars
    BY <1>2, <1>3, <1>9 DEF Begin, CallFails, Crash, Local, vars
<1> QED
    BY <1>6, <1>7, <1>8, <1>9 DEF Next

LEMMA Born ==
    ASSUME TypeOK, User \/ Cluster, NEW t \in Tunnel, obj[t] = None, obj'[t] # None
    PROVE  obj'[t].status = EmptyStatus
<1>1. ASSUME NEW u \in Tunnel, NEW o, PutOther(u, o)
      PROVE  obj' = [obj EXCEPT ![u] = o]
    BY <1>1 DEF PutOther, Put
<1>2. ASSUME NEW u \in Tunnel, obj[u] # None, NEW o, PutOther(u, o)
      PROVE  FALSE
    BY <1>1, <1>2 DEF TypeOK
<1>3. ASSUME NEW u \in Tunnel, NEW p \in Peer, NEW a \in Addr, NEW ty \in Type,
             UserCreates(u, p, a, ty)
      PROVE  obj'[t].status = EmptyStatus
    <2>1. obj' = [obj EXCEPT ![u] = NewObject(p, a, ty)]
        BY <1>1, <1>3 DEF UserCreates
    <2> QED
        BY <2>1 DEF TypeOK, NewObject
<1>4. CASE User
    BY <1>2, <1>3, <1>4 DEF User, UserDeletes, UserEdits
<1>5. CASE Cluster
    BY <1>2, <1>5 DEF Cluster, SyncerPatches, InformerPatches, RemoteExIpSynced,
       LocalExIpMoves, PodLost, NodeLost, PodStarts, EgressAllocated, LocalExIpDeleted,
       Calm
<1> QED
    BY <1>4, <1>5

LEMMA ObjectsRoutable ==
    ASSUME TypeOK, RecordInv, TrafficInv, [Next]_vars, NEW t \in Tunnel, obj'[t] # None
    PROVE  Routable(obj'[t].status)
<1>1. obj[t] # None => Routable(obj[t].status)
    BY DEF TrafficInv, CopiesRoutable
<1>2. CASE obj'[t] = obj[t]
    BY <1>1, <1>2
<1>3. CASE /\ AddFinalizer \/ RevertType \/ WriteStatus \/ WriteSpec
           /\ obj'[t] # obj[t]
    <2>1. pc # "idle" /\ t = job.t
        BY <1>3, WorkerWrites
           DEF AddFinalizer, RevertType, WriteStatus, WriteSpec
    <2>2. job.fresh
        BY <1>3, <2>1, UpdateWrites
           DEF AddFinalizer, RevertType, WriteStatus, WriteSpec
    <2>3. obj[t] # None
        BY <2>1, <2>2 DEF RecordInv, FreshSeen
    <2>4. obj'[t].status = obj[t].status \/ obj'[t].status = job.obj.status
        BY <1>3, WorkerWrites
    <2> QED
        BY <1>1, <2>1, <2>3, <2>4 DEF TrafficInv, CopiesRoutable
<1>4. CASE Release
    BY <1>2, <1>4, ReleaseWrites
<1>5. CASE User \/ Cluster
    BY <1>1, <1>5, OthersWrite, Born DEF Routable, EmptyStatus
<1> QED
    BY <1>2, <1>3, <1>4, <1>5, WhoWrites

LEMMA JobRoutable ==
    ASSUME TypeOK, RecordInv, TrafficInv, [Next]_vars, pc' # "idle"
    PROVE  Routable(job'.obj.status)
<1> DEFINE j == job.obj
           g == j.status.localGw
<1>1. pc # "idle" =>
         /\ job \in Job /\ j \in Object /\ j.spec \in SpecFields
         /\ j.status \in StatusRecord /\ Routable(j.status)
         /\ CidrOf[j.spec.peer] \in CIDR
    BY ConstantsOK DEF TypeOK, JobOK, Job, Object, SpecFields, StatusFields, TrafficInv,
                       CopiesRoutable
<1>2. ASSUME NEW t \in Tunnel, Begin(t)
      PROVE  Routable(job'.obj.status)
    BY <1>2 DEF Begin, TrafficInv, CopiesRoutable
<1>3. CASE AddFinalizer
    <2> DEFINE w == [j EXCEPT !.finalizer = TRUE]
    <2>1. pc # "idle" /\ job' = [job EXCEPT !.obj = w]
        BY <1>3 DEF AddFinalizer, Update, Answer, Stop
    <2>2. w.status = j.status
        BY <1>1, <2>1 DEF Object
    <2> HIDE DEF w
    <2> QED
        BY <1>1, <2>1, <2>2 DEF Job
<1>4. CASE DecideBuild
    <2> DEFINE s == [j.status EXCEPT
                        !.initialized = TRUE,
                        !.localGw = localExIp.gw,
                        !.remoteIP = remoteExIp[j.spec.peer],
                        !.remoteCIDR = CidrOf[j.spec.peer],
                        !.interfaceAddr = j.spec.interfaceAddr,
                        !.type = j.spec.type]
    <2>1. pc # "idle" /\ job' = [job EXCEPT !.mode = "build", !.obj.status = s]
        BY <1>4 DEF DecideBuild
    <2>2. Routable(s)
        BY <1>1, <2>1 DEF Routable, StatusRecord
    <2> HIDE DEF s
    <2> QED
        BY <1>1, <2>1, <2>2 DEF Job, Object
<1>5. CASE DecideUpdate
    <2> DEFINE s == [j.status EXCEPT !.localGw = j.spec.localGw]
    <2>1. /\ pc # "idle"
          /\ \/ job' = [job EXCEPT !.mode = "rebuild"]
             \/ job' = [job EXCEPT !.mode = "move", !.obj.status = s]
        BY <1>5 DEF DecideUpdate
    <2>2. Routable(s)
        BY <1>1, <2>1 DEF Routable, StatusRecord
    <2> HIDE DEF s
    <2>3. CASE job' = [job EXCEPT !.mode = "rebuild"]
        BY <1>1, <2>1, <2>3 DEF Job
    <2>4. CASE job' = [job EXCEPT !.mode = "move", !.obj.status = s]
        BY <1>1, <2>1, <2>2, <2>4 DEF Job, Object
    <2> QED
        BY <2>1, <2>3, <2>4
<1>6. CASE GetNatGwPod
    <2> DEFINE s == CASE job.mode = "build" -> FromPod(j, g)
                      [] job.mode = "move"  -> FromSpec(j)
                      [] OTHER              -> j.status
    <2>1. /\ pc = "getPod" /\ g # None
          /\ job' = [job EXCEPT !.gw = g, !.intact = TRUE, !.obj.status = s]
        BY <1>6 DEF GetNatGwPod, Stop
    <2>2. g \in Gateway
        BY <1>1, <2>1 DEF StatusRecord
    <2>3. ASSUME job.mode = "build"
          PROVE  Routable(FromPod(j, g))
        <3>1. j.status.remoteCIDR \in CIDR
            BY <2>1, <2>3 DEF RecordInv, JobRecorded
        <3> QED
            BY <1>1, <2>1, <2>2, <3>1, ConstantsOK
               DEF FromPod, Routable, StatusRecord, OvnGwIPs
    <2>4. Routable(FromSpec(j)) /\ Routable(j.status)
        BY <1>1, <2>1 DEF FromSpec, Routable, StatusRecord
    <2>5. Routable(s)
        BY <2>3, <2>4
    <2> HIDE DEF s
    <2> QED
        BY <1>1, <2>1, <2>5 DEF Job, Object
<1>7. CASE ExecDeleteTunnel
    <2> DEFINE s == FromSpec(j)
    <2>1. pc # "idle" /\ (job' = job \/ job' = [job EXCEPT !.obj.status = s])
        BY <1>7 DEF ExecDeleteTunnel, Exec, Answer, Stop
    <2>2. Routable(s)
        BY <1>1, <2>1 DEF FromSpec, Routable, StatusRecord
    <2> HIDE DEF s
    <2> QED
        BY <1>1, <2>1, <2>2 DEF Job, Object
<1>8. CASE WriteStatus
    BY <1>1, <1>8 DEF WriteStatus, Update, Answer, Stop, Job
<1>9. CASE User \/ Cluster
    BY <1>1, <1>9, OthersLeaveJob
<1>10. CASE pc # "idle" /\ job' = job
    BY <1>1, <1>10
<1>11. \/ \E t \in Tunnel : Begin(t)
       \/ AddFinalizer \/ DecideBuild \/ DecideUpdate \/ GetNatGwPod
       \/ ExecDeleteTunnel \/ WriteStatus \/ User \/ Cluster
       \/ pc # "idle" /\ job' = job
    BY DEF Next, vars, WorkerStep, DecideRevert, DecideNothing, RevertType,
           ExecCreateTunnel, ExecAddRoute, ExecDelRoute, Exec, WriteSpec, Release, Panic,
           CallFails, Crash, Restart, SyncCache, Update, Answer, Stop
<1> QED
    BY <1>2, <1>3, <1>4, <1>5, <1>6, <1>7, <1>8, <1>9, <1>10, <1>11

LEMMA TrafficInvariance == Spec => [](TypeOK /\ RecordInv /\ TrafficInv)
<1>1. Init => TrafficInv
    BY EmptyRouted DEF Init, TrafficInv, CopiesRoutable, RoutesThroughDevices,
                       NoRouteOfJob
<1>2. TypeOK /\ RecordInv /\ TrafficInv /\ [Next]_vars => TrafficInv'
    <2> SUFFICES ASSUME TypeOK, RecordInv, TrafficInv, [Next]_vars
                 PROVE  TrafficInv'
        OBVIOUS
    <2>1. \A t \in Tunnel : cache'[t].obj # None => Routable(cache'[t].obj.status)
        BY CacheReads DEF TrafficInv, CopiesRoutable
    <2>2. CopiesRoutable'
        BY <2>1, ObjectsRoutable, JobRoutable DEF CopiesRoutable, Routable
    <2> QED
        BY <2>2, RoutesKept DEF TrafficInv
<1> QED
    BY <1>1, <1>2, RecordsInvariant, PTL DEF Spec

\* The commands that may run while a tunnel carries traffic, and leave it alone.
LEMMA CommandsCarry ==
    ASSUME TypeOK, RecordInv, TrafficInv, NEW t \in Tunnel, NEW s,
           Carries(net[job.gw], t, s), s.remoteCIDR \in CIDR, s.ovnGwIP # None,
           ExecCreateTunnel \/ ExecAddRoute \/ ExecDeleteTunnel
    PROVE  Carries(net'[job.gw], t, s)
<1> DEFINE n == net[job.gw]
           o == job.obj
<1>1. pc \in InPod
    BY DEF ExecCreateTunnel, ExecAddRoute, ExecDeleteTunnel, InPod
<1>2. /\ job.t \in Tunnel /\ o \in Object /\ n \in Netns /\ job.gw \in Gateway
      /\ net \in [Gateway -> Netns]
    BY <1>1, InPodRecorded DEF TypeOK
<1>3. ASSUME NEW m, net' = net \/ net' = [net EXCEPT ![job.gw] = m], Carries(m, t, s)
      PROVE  Carries(net'[job.gw], t, s)
    BY <1>2, <1>3
<1>4. CASE ExecCreateTunnel
    <2> DEFINE m == CreateTunnel(n, job.t, o)
    <2>1. net' = net \/ net' = [net EXCEPT ![job.gw] = m]
        BY <1>4 DEF ExecCreateTunnel, Exec
    <2>2. Carries(n, t, s) /\ n.link[t] # None
        BY DEF Carries
    <2>3. /\ m.out = n.out /\ m.inflow = n.inflow /\ m.snat = n.snat
          /\ m.link[t] # None /\ m.link[t].kind = n.link[t].kind
          /\ m.link[t].remote = n.link[t].remote
          /\ m.link[t].local = n.link[t].local
          /\ n.link[t].addrs \subseteq m.link[t].addrs
        BY <1>2, <2>2, CreateTunnelKeeps
    <2> HIDE DEF m, n
    <2>4. Carries(m, t, s)
        BY <2>2, <2>3, StillCarries
    <2> QED
        BY <1>3, <2>1, <2>4
<1>5. CASE ExecAddRoute
    <2> DEFINE m == AddRoute(n, job.t, o, OvnGw[job.gw])
    <2>1. net' = net \/ net' = [net EXCEPT ![job.gw] = m]
        BY <1>5 DEF ExecAddRoute, Exec
    <2>2. o.status.remoteCIDR \in CIDR
        BY <1>1, <1>5 DEF ExecAddRoute, InPod, TrafficInv, CopiesRoutable, Routable
    <2>3. n.out \in [CIDR -> Tunnel \cup {None}] /\ Carries(n, t, s) /\ n.link[t] # None
        BY <1>2 DEF Netns, Carries
    <2>4. /\ m.link = n.link /\ (n.inflow # None => m.inflow = n.inflow)
          /\ \A d \in CIDR : n.snat[d] > 0 => m.snat[d] > 0
          /\ \/ m.out = n.out
             \/ /\ m.out = [n.out EXCEPT ![o.status.remoteCIDR] = job.t]
                /\ n.out[o.status.remoteCIDR] = None
        BY <1>2, <2>2, AddRouteKeeps
    <2> HIDE DEF m, n
    <2>5. \A c \in CIDR : n.out[c] = t => m.out[c] = t
        BY <2>3, <2>4, ConstantsOK
    <2>6. Carries(m, t, s)
        BY <2>3, <2>4, <2>5, StillCarries
    <2> QED
        BY <1>3, <2>1, <2>6
<1>6. CASE ExecDeleteTunnel
    <2> DEFINE m == DeleteTunnel(n, job.t, o)
    <2>1. net' = net \/ net' = [net EXCEPT ![job.gw] = m]
        BY <1>6 DEF ExecDeleteTunnel, Exec
    <2>2. n.out[s.remoteCIDR] = t /\ Carries(n, t, s)
        BY DEF Carries
    <2>3. t # job.t
        BY <1>6, <2>2 DEF ExecDeleteTunnel, TrafficInv, NoRouteOfJob
    <2>4. m = DeleteTunnel(n, job.t, o)
        OBVIOUS
    <2> HIDE DEF m, n, o
    <2>5. n.link \in [Tunnel -> Link \cup {None}]
        BY <1>2 DEF Netns
    <2>6. \/ m = n
          \/ /\ m.link = [n.link EXCEPT ![job.t] = None]
             /\ m.inflow = n.inflow /\ m.snat = n.snat
             /\ m.out = [c \in CIDR |-> IF n.out[c] = job.t THEN None ELSE n.out[c]]
        BY <1>2, <2>4 DEF DeleteTunnel, Netns
    <2>7. Carries(m, t, s)
        BY <1>2, <2>2, <2>3, <2>5, <2>6 DEF Carries
    <2> QED
        BY <1>3, <2>1, <2>7
<1> QED
    BY <1>4, <1>5, <1>6

\* While others of the same gateway are built, rebuilt, moved and retried, and whoever
\* fails at it, a tunnel that is carried stays so: only the loss of the pod and the
\* command that takes routes down cut it.
THEOREM TrafficKept == Spec => CutOnlyByDelRoute
<1> DEFINE A == \A g \in Gateway, t \in Tunnel :
                 /\ Built(t)
                 /\ Carries(net[g], t, obj[t].status) /\ ~Carries(net'[g], t, obj[t].status)
                 => ~up'[g] \/ (pc = "delRoute" /\ job.gw = g)
<1>1. TypeOK /\ RecordInv /\ TrafficInv /\ [Next]_vars => A
    <2> SUFFICES ASSUME TypeOK, RecordInv, TrafficInv, [Next]_vars,
                        NEW g \in Gateway, NEW t \in Tunnel, Built(t),
                        Carries(net[g], t, obj[t].status),
                        ~Carries(net'[g], t, obj[t].status)
                 PROVE  ~up'[g] \/ (pc = "delRoute" /\ job.gw = g)
        OBVIOUS
    <2> DEFINE s == obj[t].status
    <2>1. s.remoteCIDR \in CIDR /\ s.ovnGwIP # None
        BY DEF Built, RecordInv, CopiesRecorded, Recorded, Allocated, TrafficInv,
               CopiesRoutable, Routable
    <2> HIDE DEF s
    <2>2. CASE User \/ Cluster
        BY <2>2, OthersLeaveNet
    <2>3. CASE ExecCreateTunnel \/ ExecAddRoute \/ ExecDelRoute \/ ExecDeleteTunnel
        <3>1. net' = net \/ \E n : net' = [net EXCEPT ![job.gw] = n]
            BY <2>3 DEF ExecCreateTunnel, ExecAddRoute, ExecDelRoute, ExecDeleteTunnel,
                        Exec
        <3>2. job.gw = g
            BY <3>1 DEF TypeOK
        <3>3. CASE ExecDelRoute
            BY <3>2, <3>3 DEF ExecDelRoute
        <3>4. CASE ExecCreateTunnel \/ ExecAddRoute \/ ExecDeleteTunnel
            BY <2>1, <3>2, <3>4, CommandsCarry DEF s
        <3> QED
            BY <2>3, <3>3, <3>4
    <2>4. CASE net' = net
        BY <2>4
    <2>5. \/ User \/ Cluster \/ net' = net
          \/ ExecCreateTunnel \/ ExecAddRoute \/ ExecDelRoute \/ ExecDeleteTunnel
        BY DEF Next, vars, WorkerStep, AddFinalizer, DecideBuild, DecideRevert,
               DecideUpdate, DecideNothing, RevertType, GetNatGwPod, WriteStatus,
               WriteSpec, Release, Panic, CallFails, Crash, Restart, Begin, SyncCache,
               Update, Local, world
    <2> QED
        BY <2>2, <2>3, <2>4, <2>5
<1> QED
    BY <1>1, TrafficInvariance, PTL DEF Spec, CutOnlyByDelRoute
===============================================================================
