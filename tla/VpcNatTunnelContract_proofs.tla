---------------------- MODULE VpcNatTunnelContract_proofs ----------------------
(***************************************************************************)
(* The VpcNatTunnel reconciler implements the two abstract specifications  *)
(* stated of it, for any gateways, tunnels and addresses and any number of *)
(* faults, edits and outages.                                              *)
(*                                                                         *)
(* PrimaryGateway, its contract with the gateway informer: with gateways   *)
(* and GatewayExIp moving as PrimaryGateway says, every step of the        *)
(* reconciler, of the users and of the syncer is a step of PrimaryGateway  *)
(* or none.  TunnelLife, the life of an object for whoever watches it.     *)
(*                                                                         *)
(* Both need an invariant of the worker: what it is about to write was     *)
(* read many calls ago, so the copy has to say now what the write will     *)
(* promise then.                                                           *)
(***************************************************************************)
EXTENDS VpcNatTunnelRecords_proofs

-------------------------------------------------------------------------------
(* The invariant *)

\* Who is up, and whoever is announced, has been up with that address.
BeenTrue ==
    /\ \A g \in Gateway : up[g] => [gw |-> g, ip |-> podIP[g]] \in been
    /\ localExIp \in been \cup {None}

AskedOf(o) ==
    IF o = None \/ o.label = None THEN None
      ELSE [gw |-> o.spec.localGw, ip |-> o.spec.internalIP]

\* An object that can be found by its labels has an address to be at.
Findable ==
    \A t \in Tunnel :
        obj[t] # None /\ obj[t].label # None => AskedOf(obj[t]) \in PG!Endpoint

\* The address a first build works with was read long before it is written, but it is
\* one its gateway has had.  Other builds are of objects that have their labels.
JobPromises ==
    pc # "idle" =>
        /\ job.mode \in {"rebuild", "move"} => job.obj.label # None
        /\ job.mode = "build" /\ pc # "getPod" =>
              [gw |-> job.obj.status.localGw, ip |-> job.obj.status.internalIP] \in been

ContractInv == BeenTrue /\ Findable /\ JobPromises

LEMMA InitContract == Init => ContractInv /\ PG!Init
<1> SUFFICES ASSUME Init PROVE ContractInv /\ PG!Init
    OBVIOUS
<1>1. BeenTrue
    BY DEF Init, BeenTrue
<1>2. Findable /\ JobPromises
    BY DEF Init, Findable, JobPromises
<1>3. Asked = [t \in Tunnel |-> None]
    BY DEF Init, Asked
<1>4. been \in SUBSET PG!Endpoint
    BY ConstantsOK DEF Init, PG!Endpoint
<1>5. PG!Init
    BY <1>3, <1>4 DEF Init, PG!Init
<1> QED
    BY <1>1, <1>2, <1>5 DEF ContractInv

-------------------------------------------------------------------------------
(* What a write of an object does to Asked *)

LEMMA AskedPut ==
    ASSUME TypeOK, NEW t \in Tunnel, NEW o, obj' = [obj EXCEPT ![t] = o]
    PROVE  /\ Asked' = [Asked EXCEPT ![t] = AskedOf(o)]
           /\ Asked[t] = AskedOf(obj[t])
<1>1. \A u \in Tunnel : obj'[u] = IF u = t THEN o ELSE obj[u]
    BY DEF TypeOK
<1>2. Asked = [u \in Tunnel |-> AskedOf(obj[u])]
    BY DEF Asked, AskedOf
<1>3. Asked' = [u \in Tunnel |-> AskedOf(obj'[u])]
    BY DEF Asked, AskedOf
<1> HIDE DEF AskedOf
<1>4. Asked' = [u \in Tunnel |-> IF u = t THEN AskedOf(o) ELSE AskedOf(obj[u])]
    BY <1>1, <1>3
<1> QED
    BY <1>2, <1>4

LEMMA AskedKept ==
    ASSUME obj' = obj
    PROVE  Asked' = Asked
    BY DEF Asked

\* A write that leaves label and addresses as they are.
LEMMA SameAsked ==
    ASSUME TypeOK, Findable, NEW t \in Tunnel, NEW o, obj' = [obj EXCEPT ![t] = o],
           obj[t] # None, o # None, o.label = None <=> obj[t].label = None,
           o.spec.localGw = obj[t].spec.localGw,
           o.spec.internalIP = obj[t].spec.internalIP
    PROVE  Asked' = Asked /\ Findable'
<1>1. AskedOf(o) = AskedOf(obj[t])
    BY DEF AskedOf
<1>2. \A u \in Tunnel : obj'[u] = IF u = t THEN o ELSE obj[u]
    BY DEF TypeOK
<1>3. Asked' = Asked
    BY <1>1, AskedPut DEF Asked
<1>4. Findable'
    BY <1>1, <1>2 DEF Findable
<1> QED
    BY <1>3, <1>4

LEMMA Unseen ==
    ASSUME UNCHANGED <<been, lost, localExIp>>, Asked' = Asked
    PROVE  [PG!Next]_(PG!vars)
    BY DEF PG!vars

\* Whoever makes an object disappear, or lets it have no labels.
LEMMA Unasked ==
    ASSUME TypeOK, Findable, NEW t \in Tunnel, NEW o, obj' = [obj EXCEPT ![t] = o],
           o = None \/ o.label = None, UNCHANGED <<been, lost, localExIp>>
    PROVE  Findable' /\ [PG!Next]_(PG!vars)
<1>1. Asked' = [Asked EXCEPT ![t] = None] /\ Asked[t] = AskedOf(obj[t])
    BY AskedPut DEF AskedOf
<1>2. Findable'
    BY DEF Findable, TypeOK
<1>3. CASE Asked[t] # None
  <2>1. PG!Gone(t)
      BY <1>1, <1>3 DEF PG!Gone
  <2> QED
      BY <1>2, <2>1 DEF PG!Next
<1>4. CASE Asked[t] = None
  <2>1. Asked' = Asked
      BY <1>1, <1>4 DEF Asked
  <2> QED
      BY <1>2, <2>1, Unseen
<1> QED
    BY <1>3, <1>4

-------------------------------------------------------------------------------
(* The reconciler *)

\* Only the end of a first build sets a label where there was none.
LEMMA WritesKept ==
    ASSUME TypeOK, RecordInv, ContractInv,
           \/ AddFinalizer \/ RevertType \/ WriteStatus
           \/ WriteSpec /\ job.mode # "build"
    PROVE  Findable' /\ [PG!Next]_(PG!vars)
<1> DEFINE j == job.obj
<1>1. /\ pc # "idle" /\ job \in Job /\ j \in Object /\ j.spec \in SpecFields
      /\ job.mode \in Modes /\ UNCHANGED <<been, lost, localExIp>>
    BY DEF AddFinalizer, RevertType, WriteStatus, WriteSpec, Update, world,
           TypeOK, JobOK, Job, Object
<1>2. PICK o \in Object : /\ \E next : Update(o, next)
                          /\ o.label = None <=> j.label = None
                          /\ o.spec.localGw = j.spec.localGw
                          /\ o.spec.internalIP = j.spec.internalIP
  <2>1. CASE AddFinalizer
    <3>1. [j EXCEPT !.finalizer = TRUE] \in Object
        BY <1>1 DEF Object
    <3>2. /\ [j EXCEPT !.finalizer = TRUE].label = j.label
          /\ [j EXCEPT !.finalizer = TRUE].spec = j.spec
        BY <1>1 DEF Object
    <3> QED
        BY <2>1, <3>1, <3>2 DEF AddFinalizer
  <2>2. CASE RevertType
    <3> DEFINE o == [j EXCEPT !.spec.type = j.status.type]
    <3>1. j.status.type \in Type
        BY <1>1, <2>2 DEF RevertType, TypeOK, JobOK, Object, StatusFields, StatusRecord
    <3>2. o \in Object
        BY <1>1, <3>1 DEF Object, SpecFields
    <3>3. /\ o.label = j.label /\ o.spec.localGw = j.spec.localGw
          /\ o.spec.internalIP = j.spec.internalIP
        BY <1>1 DEF Object, SpecFields
    <3>4. Update(o, "idle")
        BY <2>2 DEF RevertType
    <3> HIDE DEF o
    <3> QED
        BY <3>2, <3>3, <3>4
  <2>3. CASE WriteStatus
      BY <1>1, <2>3 DEF WriteStatus
  <2>4. CASE WriteSpec /\ job.mode # "build"
    <3> DEFINE o == [j EXCEPT !.label = j.spec.peer]
    <3>1. o \in Object /\ o.label = j.spec.peer /\ o.spec = j.spec
        BY <1>1 DEF Object, SpecFields
    <3>2. Update(o, "idle") /\ pc = "writeSpec"
        BY <2>4 DEF WriteSpec
    <3>3. j.spec.peer # None
        BY <1>1, ConstantsOK DEF SpecFields
    <3>4. job.mode \in {"rebuild", "move"}
        BY <1>1, <2>4, <3>2 DEF RecordInv, JobStage, Early, Deleting, Modes
    <3>5. j.label # None
        BY <1>1, <3>4 DEF ContractInv, JobPromises
    <3> HIDE DEF o
    <3> QED
        BY <3>1, <3>2, <3>3, <3>5
  <2> QED
      BY <2>1, <2>2, <2>3, <2>4
<1>3. /\ job.t \in Tunnel
      /\ obj' = obj \/ (job.fresh /\ obj' = [obj EXCEPT ![job.t] = o])
    BY <1>1, <1>2, UpdateWrites
<1>4. CASE obj' = obj
    BY <1>1, <1>4, AskedKept, Unseen DEF ContractInv, Findable
<1>5. CASE job.fresh /\ obj' = [obj EXCEPT ![job.t] = o]
  <2>1. obj[job.t] # None /\ obj[job.t].spec = j.spec /\ obj[job.t].label = j.label
      BY <1>1, <1>5 DEF RecordInv, FreshSeen
  <2>2. o # None
      BY ConstantsOK
  <2>3. Asked' = Asked /\ Findable'
      BY <1>2, <1>3, <1>5, <2>1, <2>2, SameAsked DEF ContractInv
  <2> QED
      BY <1>1, <2>3, Unseen
<1> QED
    BY <1>3, <1>4, <1>5

\* The end of a first build: the object can be found from now on, at an address its
\* gateway has had.
LEMMA BuildLabels ==
    ASSUME TypeOK, RecordInv, ContractInv, WriteSpec, job.mode = "build"
    PROVE  Findable' /\ [PG!Next]_(PG!vars)
<1> DEFINE j == job.obj
           e == [gw |-> j.status.localGw, ip |-> j.status.internalIP]
           o == [j EXCEPT !.label = j.spec.peer,
                          !.spec.internalIP = j.status.internalIP,
                          !.spec.localGw = j.status.localGw,
                          !.spec.remoteIP = j.status.remoteIP]
<1>1. /\ pc = "writeSpec" /\ job \in Job /\ j \in Object /\ j.spec \in SpecFields
      /\ UNCHANGED <<been, lost, localExIp>> /\ Update(o, "idle")
    BY DEF WriteSpec, Update, world, TypeOK, JobOK, Job, Object
<1>2. e \in been /\ e \in PG!Endpoint
    BY <1>1 DEF ContractInv, JobPromises, TypeOK
<1>3. /\ job.t \in Tunnel
      /\ obj' = obj \/ (job.fresh /\ obj' = [obj EXCEPT ![job.t] = o])
    BY <1>1, UpdateWrites
<1>4. CASE obj' = obj
    BY <1>1, <1>4, AskedKept, Unseen DEF ContractInv, Findable
<1>5. CASE job.fresh /\ obj' = [obj EXCEPT ![job.t] = o]
  <2>1. obj[job.t] # None /\ obj[job.t].label = None
      BY <1>1, <1>5 DEF RecordInv, FreshSeen, JobStage
  <2>2. j.spec.peer # None
      BY <1>1, ConstantsOK DEF SpecFields
  <2>3. /\ o # None /\ o.label = j.spec.peer
        /\ o.spec.localGw = j.status.localGw /\ o.spec.internalIP = j.status.internalIP
    <3>1. j.status \in StatusRecord
        BY <1>1 DEF Object, StatusFields
    <3> DEFINE s == [j.spec EXCEPT !.internalIP = j.status.internalIP,
                                   !.localGw = j.status.localGw,
                                   !.remoteIP = j.status.remoteIP]
    <3>2. /\ s \in SpecFields /\ s.localGw = j.status.localGw
          /\ s.internalIP = j.status.internalIP
        BY <1>1, <3>1 DEF SpecFields, StatusRecord
    <3>3. o = [j EXCEPT !.label = j.spec.peer, !.spec = s]
        BY <1>1 DEF Object, SpecFields
    <3> HIDE DEF s, o
    <3>4. j.spec.peer \in Peer
        BY <1>1 DEF SpecFields
    <3>5. o \in Object /\ o.label = j.spec.peer /\ o.spec = s
        BY <1>1, <3>2, <3>3, <3>4 DEF Object
    <3> QED
        BY <3>2, <3>5, ConstantsOK
  <2>4. o.label # None /\ AskedOf(o) = e
      BY <2>2, <2>3 DEF AskedOf
  <2> HIDE DEF o, e
  <2>5. Asked[job.t] = None /\ Asked' = [Asked EXCEPT ![job.t] = e]
      BY <1>3, <1>5, <2>1, <2>4, AskedPut DEF AskedOf
  <2>6. PG!Label(job.t, e)
      BY <1>1, <1>2, <2>5 DEF PG!Label
  <2>7. Findable'
      BY <1>2, <1>3, <1>5, <2>4 DEF ContractInv, Findable, TypeOK
  <2> QED
      BY <1>2, <1>3, <2>6, <2>7 DEF PG!Next
<1> QED
    BY <1>3, <1>4, <1>5

LEMMA ReleaseGone ==
    ASSUME TypeOK, ContractInv, Release
    PROVE  Findable' /\ [PG!Next]_(PG!vars)
<1>1. pc # "idle" /\ Update(None, "idle") /\ UNCHANGED <<been, lost, localExIp>>
    BY DEF Release, Update, world
<1>2. /\ job.t \in Tunnel
      /\ obj' = obj \/ obj' = [obj EXCEPT ![job.t] = None]
    BY <1>1, UpdateWrites
<1>3. CASE obj' = obj
    BY <1>1, <1>3, AskedKept, Unseen DEF ContractInv, Findable
<1>4. CASE obj' = [obj EXCEPT ![job.t] = None]
    BY <1>1, <1>2, <1>4, Unasked DEF ContractInv
<1> QED
    BY <1>2, <1>3, <1>4

-------------------------------------------------------------------------------
(* The others *)

LEMMA UserAsks ==
    ASSUME TypeOK, ContractInv, User
    PROVE  Findable' /\ [PG!Next]_(PG!vars)
<1>1. ASSUME NEW t \in Tunnel, NEW o, PutOther(t, o)
      PROVE  obj' = [obj EXCEPT ![t] = o] /\ UNCHANGED <<been, lost, localExIp>>
    BY <1>1 DEF PutOther, Put, world
<1>2. ASSUME NEW t \in Tunnel, UserDeletes(t)
      PROVE  Findable' /\ [PG!Next]_(PG!vars)
  <2> DEFINE o == [obj[t] EXCEPT !.deleting = TRUE]
  <2>1. obj[t] # None /\ obj[t] \in Object /\ (PutOther(t, o) \/ PutOther(t, None))
      BY <1>2 DEF UserDeletes, TypeOK
  <2>2. o \in Object /\ o # None /\ o.label = obj[t].label /\ o.spec = obj[t].spec
      BY <2>1, ConstantsOK DEF Object
  <2> HIDE DEF o
  <2>3. CASE PutOther(t, o)
      BY <1>1, <2>1, <2>2, <2>3, SameAsked, Unseen DEF ContractInv
  <2>4. CASE PutOther(t, None)
      BY <1>1, <2>4, Unasked DEF ContractInv
  <2> QED
      BY <2>1, <2>3, <2>4
<1>3. ASSUME NEW t \in Tunnel, NEW p \in Peer, NEW a \in Addr, NEW ty \in Type,
             UserCreates(t, p, a, ty)
      PROVE  Findable' /\ [PG!Next]_(PG!vars)
  <2>1. PutOther(t, NewObject(p, a, ty)) /\ NewObject(p, a, ty).label = None
      BY <1>3 DEF UserCreates, NewObject
  <2> QED
      BY <1>1, <2>1, Unasked DEF ContractInv
<1>4. ASSUME NEW t \in Tunnel, NEW p \in Peer, NEW a \in Addr, NEW ty \in Type,
             UserEdits(t, p, a, ty)
      PROVE  Findable' /\ [PG!Next]_(PG!vars)
  <2> DEFINE o == [obj[t] EXCEPT !.spec.peer = p, !.spec.interfaceAddr = a,
                                 !.spec.type = ty]
  <2>1. /\ obj[t] # None /\ obj[t] \in Object /\ obj[t].spec \in SpecFields
        /\ PutOther(t, o)
      BY <1>4 DEF UserEdits, TypeOK, Object
  <2>2. /\ o \in Object /\ o # None /\ o.label = obj[t].label
        /\ o.spec.localGw = obj[t].spec.localGw
        /\ o.spec.internalIP = obj[t].spec.internalIP
    <3> DEFINE s == [obj[t].spec EXCEPT !.peer = p, !.interfaceAddr = a, !.type = ty]
    <3>1. /\ s \in SpecFields /\ s.localGw = obj[t].spec.localGw
          /\ s.internalIP = obj[t].spec.internalIP
        BY <2>1 DEF SpecFields
    <3>2. o = [obj[t] EXCEPT !.spec = s]
        BY <2>1 DEF Object, SpecFields
    <3> HIDE DEF s, o
    <3>3. o \in Object /\ o.label = obj[t].label /\ o.spec = s
        BY <2>1, <3>1, <3>2 DEF Object
    <3> QED
        BY <3>1, <3>3, ConstantsOK
  <2> HIDE DEF o
  <2> QED
      BY <1>1, <2>1, <2>2, SameAsked, Unseen DEF ContractInv
<1> QED
    BY <1>2, <1>3, <1>4 DEF User

\* The informer's patch, whichever of the two it is.
LEMMA PatchFollows ==
    ASSUME TypeOK, ContractInv, NEW t \in Tunnel, InformerPatches(t)
    PROVE  Findable' /\ [PG!Next]_(PG!vars)
<1> DEFINE r == [obj[t] EXCEPT !.spec.internalIP = localExIp.ip]
           m == [r EXCEPT !.spec.localGw = localExIp.gw]
<1>1. /\ obj[t] # None /\ obj[t] \in Object /\ obj[t].spec \in SpecFields
      /\ obj[t].label # None /\ localExIp # None
      /\ localExIp.gw \in Gateway /\ localExIp.ip \in GwIP
      /\ obj' = [obj EXCEPT ![t] = r] \/ obj' = [obj EXCEPT ![t] = m]
      /\ UNCHANGED <<been, lost, localExIp>>
    BY DEF InformerPatches, PutOther, Put, world, TypeOK, Object, PG!Endpoint
<1>2. Asked[t] = [gw |-> obj[t].spec.localGw, ip |-> obj[t].spec.internalIP]
    BY <1>1 DEF Asked
<1>3. Asked[t] \in PG!Endpoint /\ obj[t].spec.localGw \in Gateway
    BY <1>1, <1>2 DEF ContractInv, Findable, AskedOf, PG!Endpoint
<1>4. Asked[t] # None
    BY <1>3, ConstantsOK DEF PG!Endpoint
<1>5. /\ r \in Object /\ r.spec \in SpecFields /\ r # None /\ r.label = obj[t].label
      /\ r.spec.localGw = obj[t].spec.localGw /\ r.spec.internalIP = localExIp.ip
    BY <1>1, ConstantsOK DEF Object, SpecFields
<1> HIDE DEF r
<1>6. /\ m \in Object /\ m # None /\ m.label = obj[t].label
      /\ m.spec.localGw = localExIp.gw /\ m.spec.internalIP = localExIp.ip
  <2> DEFINE s == [r.spec EXCEPT !.localGw = localExIp.gw]
  <2>1. s \in SpecFields /\ s.localGw = localExIp.gw /\ s.internalIP = localExIp.ip
      BY <1>1, <1>5 DEF SpecFields
  <2>2. m = [r EXCEPT !.spec = s]
      BY <1>5 DEF Object, SpecFields
  <2> HIDE DEF s, m
  <2>3. m \in Object /\ m.label = r.label /\ m.spec = s
      BY <1>5, <2>1, <2>2 DEF Object
  <2> QED
      BY <1>5, <2>1, <2>3, ConstantsOK
<1> HIDE DEF m
<1>7. PICK o \in Object, g \in {obj[t].spec.localGw, localExIp.gw} :
         /\ obj' = [obj EXCEPT ![t] = o] /\ o # None /\ o.label # None
         /\ AskedOf(o) = [gw |-> g, ip |-> localExIp.ip]
  <2>1. AskedOf(r) = [gw |-> obj[t].spec.localGw, ip |-> localExIp.ip]
      BY <1>1, <1>5 DEF AskedOf
  <2>2. AskedOf(m) = [gw |-> localExIp.gw, ip |-> localExIp.ip]
      BY <1>1, <1>6 DEF AskedOf
  <2> HIDE DEF AskedOf
  <2>3. CASE obj' = [obj EXCEPT ![t] = r]
      BY <1>1, <1>5, <2>1, <2>3
  <2>4. CASE obj' = [obj EXCEPT ![t] = m]
      BY <1>1, <1>6, <2>2, <2>4
  <2> QED
      BY <1>1, <2>3, <2>4
<1>8. g \in Gateway
    BY <1>1, <1>3, <1>7
<1>9. Asked' = [Asked EXCEPT ![t] = [gw |-> g, ip |-> localExIp.ip]]
    BY <1>7, AskedPut
<1>10. PG!Follow(t, g)
    BY <1>1, <1>2, <1>4, <1>7, <1>8, <1>9 DEF PG!Follow
<1>11. Findable'
  <2>1. AskedOf(o) \in PG!Endpoint
      BY <1>1, <1>7, <1>8 DEF PG!Endpoint
  <2> QED
      BY <1>7, <2>1 DEF ContractInv, Findable, TypeOK
<1> QED
    BY <1>8, <1>10, <1>11 DEF PG!Next

LEMMA ClusterAsks ==
    ASSUME TypeOK, ContractInv, Cluster
    PROVE  Findable' /\ [PG!Next]_(PG!vars)
<1>1. ASSUME NEW t \in Tunnel, SyncerPatches(t)
      PROVE  Findable' /\ [PG!Next]_(PG!vars)
  <2> DEFINE o == [obj[t] EXCEPT !.spec.remoteIP = remoteExIp[obj[t].label]]
  <2>1. /\ obj[t] # None /\ obj[t] \in Object /\ obj[t].spec \in SpecFields
        /\ remoteExIp[obj[t].label] \in RemoteIP
        /\ obj' = [obj EXCEPT ![t] = o] /\ UNCHANGED <<been, lost, localExIp>>
      BY <1>1 DEF SyncerPatches, PutOther, Put, world, TypeOK, Object
  <2>2. /\ o \in Object /\ o # None /\ o.label = obj[t].label
        /\ o.spec.localGw = obj[t].spec.localGw
        /\ o.spec.internalIP = obj[t].spec.internalIP
      BY <2>1, ConstantsOK DEF Object, SpecFields
  <2> HIDE DEF o
  <2> QED
      BY <2>1, <2>2, SameAsked, Unseen DEF ContractInv
<1>2. ASSUME obj' = obj
      PROVE  Asked' = Asked /\ Findable'
    BY <1>2, AskedKept DEF ContractInv, Findable
<1>3. ASSUME NEW e \in PG!Endpoint, LocalExIpMoves(e)
      PROVE  Findable' /\ [PG!Next]_(PG!vars)
    BY <1>2, <1>3 DEF LocalExIpMoves, Calm, PG!Next
<1>4. CASE LocalExIpDeleted
    BY <1>2, <1>4 DEF LocalExIpDeleted, Calm, PG!Next
<1>5. ASSUME NEW g \in Gateway, PodLost(g) \/ NodeLost(g)
      PROVE  Findable' /\ [PG!Next]_(PG!vars)
    BY <1>2, <1>5 DEF PodLost, NodeLost, Calm, PG!Next
<1>6. ASSUME NEW g \in Gateway, NEW i \in GwIP, PodStarts(g, i)
      PROVE  Findable' /\ [PG!Next]_(PG!vars)
  <2>1. [gw |-> g, ip |-> i] \in PG!Endpoint
      BY DEF PG!Endpoint
  <2> QED
      BY <1>2, <1>6, <2>1 DEF PodStarts, Calm, PG!Next
<1>7. CASE EgressAllocated \/ \E p \in Peer, i \in RemoteIP : RemoteExIpSynced(p, i)
    BY <1>2, <1>7, Unseen DEF EgressAllocated, RemoteExIpSynced, Calm
<1> QED
    BY <1>1, <1>3, <1>4, <1>5, <1>6, <1>7, PatchFollows DEF Cluster

LEMMA ContractStep ==
    ASSUME TypeOK, RecordInv, ContractInv, [Next]_vars
    PROVE  Findable' /\ [PG!Next]_(PG!vars)
<1>1. CASE \/ AddFinalizer \/ RevertType \/ WriteStatus \/ WriteSpec \/ Release
           \/ User \/ Cluster
    BY <1>1, WritesKept, BuildLabels, ReleaseGone, UserAsks, ClusterAsks
<1>2. CASE obj' = obj /\ UNCHANGED <<been, lost, localExIp>>
    BY <1>2, AskedKept, Unseen DEF ContractInv, Findable
<1>3. \/ AddFinalizer \/ RevertType \/ WriteStatus \/ WriteSpec \/ Release
      \/ User \/ Cluster
      \/ obj' = obj /\ UNCHANGED <<been, lost, localExIp>>
    BY DEF Next, WorkerStep, vars, Begin, SyncCache, CallFails, Crash, Panic, Restart,
           DecideBuild, DecideRevert, DecideUpdate, DecideNothing, GetNatGwPod, Local,
           ExecCreateTunnel, ExecAddRoute, ExecDelRoute, ExecDeleteTunnel, Exec, world
<1> QED
    BY <1>1, <1>2, <1>3

-------------------------------------------------------------------------------
(* The invariant is inductive *)

LEMMA BeenKept ==
    ASSUME TypeOK, BeenTrue, [Next]_vars
    PROVE  BeenTrue' /\ been \subseteq been'
<1>1. CASE UNCHANGED <<up, podIP, localExIp, been>>
    BY <1>1 DEF BeenTrue
<1>2. ASSUME NEW e \in PG!Endpoint, LocalExIpMoves(e)
      PROVE  BeenTrue' /\ been \subseteq been'
    BY <1>2 DEF LocalExIpMoves, PG!Announce, PG!Readdress, PG!TakeOver, BeenTrue
<1>3. CASE LocalExIpDeleted
    BY <1>3 DEF LocalExIpDeleted, PG!Withdraw, BeenTrue
<1>4. ASSUME NEW g \in Gateway, PodLost(g) \/ NodeLost(g)
      PROVE  BeenTrue' /\ been \subseteq been'
    BY <1>4 DEF PodLost, NodeLost, PG!IsLost, BeenTrue, TypeOK
<1>5. ASSUME NEW g \in Gateway, NEW i \in GwIP, PodStarts(g, i)
      PROVE  BeenTrue' /\ been \subseteq been'
    BY <1>5 DEF PodStarts, PG!ComesUp, BeenTrue, TypeOK
<1>6. \/ UNCHANGED <<up, podIP, localExIp, been>>
      \/ \E e \in PG!Endpoint : LocalExIpMoves(e)
      \/ LocalExIpDeleted
      \/ \E g \in Gateway : PodLost(g) \/ NodeLost(g)
      \/ \E g \in Gateway, i \in GwIP : PodStarts(g, i)
  <2> DEFINE Same == UNCHANGED <<up, podIP, localExIp, been>>
  <2>1. ASSUME WorkerStep
        PROVE  Same
    <3>1. CASE DecideBuild \/ DecideRevert \/ DecideUpdate \/ DecideNothing \/ GetNatGwPod
        BY <3>1 DEF DecideBuild, DecideRevert, DecideUpdate, DecideNothing, GetNatGwPod,
                    Local, world
    <3>2. CASE ExecCreateTunnel \/ ExecAddRoute \/ ExecDelRoute \/ ExecDeleteTunnel
        BY <3>2 DEF ExecCreateTunnel, ExecAddRoute, ExecDelRoute, ExecDeleteTunnel, Exec
    <3>3. CASE AddFinalizer \/ RevertType \/ WriteStatus \/ WriteSpec \/ Release \/ Panic
        BY <3>3 DEF AddFinalizer, RevertType, WriteStatus, WriteSpec, Release, Update,
                    Panic, Restart, world
    <3> QED
        BY <2>1, <3>1, <3>2, <3>3 DEF WorkerStep
  <2>2. ASSUME \/ \E t \in Tunnel : Begin(t) \/ SyncCache(t)
               \/ CallFails \/ Crash \/ User \/ UNCHANGED vars
        PROVE  Same
    <3>1. ASSUME User
          PROVE  Same
      <4>1. ASSUME NEW t \in Tunnel, NEW o, PutOther(t, o)
            PROVE  Same
          BY <4>1 DEF PutOther, world
      <4>2. ASSUME NEW t \in Tunnel, UserDeletes(t)
            PROVE  Same
          BY <4>1, <4>2 DEF UserDeletes
      <4>3. ASSUME NEW t \in Tunnel, NEW p \in Peer, NEW a \in Addr, NEW ty \in Type,
                   UserCreates(t, p, a, ty) \/ UserEdits(t, p, a, ty)
            PROVE  Same
          BY <4>1, <4>3 DEF UserCreates, UserEdits
      <4> QED
          BY <3>1, <4>2, <4>3 DEF User
    <3>2. ASSUME \/ \E t \in Tunnel : Begin(t) \/ SyncCache(t)
                 \/ CallFails \/ Crash \/ UNCHANGED vars
          PROVE  Same
        BY <3>2 DEF Begin, Local, SyncCache, CallFails, Crash, Restart, world, vars
    <3> QED
        BY <2>2, <3>1, <3>2
  <2>3. ASSUME \/ \E t \in Tunnel : SyncerPatches(t) \/ InformerPatches(t)
               \/ \E p \in Peer, i \in RemoteIP : RemoteExIpSynced(p, i)
               \/ EgressAllocated
        PROVE  Same
      BY <2>3 DEF SyncerPatches, InformerPatches, PutOther, world, RemoteExIpSynced,
                  EgressAllocated
  <2> QED
      BY <2>1, <2>2, <2>3 DEF Next, Cluster
<1> QED
    BY <1>1, <1>2, <1>3, <1>4, <1>5, <1>6

\* A step that leaves copy and stage as they are, or ends the reconcile.
LEMMA PromisesStand ==
    ASSUME JobPromises, been \subseteq been',
           \/ pc' = "idle"
           \/ /\ pc # "idle" /\ job'.mode = job.mode /\ job'.obj = job.obj
              /\ job.mode = "build" => pc' = pc \/ pc # "getPod"
    PROVE  JobPromises'
    BY DEF JobPromises

LEMMA WorkerPromises ==
    ASSUME TypeOK, RecordInv, ContractInv, WorkerStep, been \subseteq been'
    PROVE  JobPromises'
<1> USE DEF ContractInv
<1>1. pc # "idle" /\ job \in Job
    BY DEF WorkerStep, AddFinalizer, DecideBuild, DecideRevert, DecideUpdate,
           DecideNothing, RevertType, GetNatGwPod, ExecCreateTunnel, ExecAddRoute,
           ExecDelRoute, ExecDeleteTunnel, WriteStatus, WriteSpec, Release, Panic,
           TypeOK, JobOK
<1>2. CASE AddFinalizer
  <2>1. job.mode = "none"
      BY <1>1, <1>2 DEF AddFinalizer, RecordInv, JobStage, Early
  <2>2. pc' = "idle" \/ job'.mode = "none"
      BY <1>1, <1>2, <2>1 DEF AddFinalizer, Update, Answer, Stop, Job
  <2> QED
      BY <2>2 DEF JobPromises
<1>3. CASE DecideBuild
    BY <1>1, <1>3 DEF DecideBuild, Job, JobPromises
<1>4. CASE DecideRevert
    BY <1>1, <1>4 DEF DecideRevert, JobPromises, RecordInv, JobStage, Early
<1>5. CASE DecideUpdate
  <2>1. job.obj.label # None
      BY <1>1, <1>5 DEF DecideUpdate, MayUpdate, RecordInv, JobRecorded, Labelled
  <2>2. job'.mode \in {"rebuild", "move"} /\ job'.obj.label = job.obj.label
      BY <1>1, <1>5 DEF DecideUpdate, Job, Object
  <2> QED
      BY <2>1, <2>2 DEF JobPromises
<1>6. CASE GetNatGwPod
  <2> DEFINE g == job.obj.status.localGw
  <2>1. CASE pc' = "idle"
      BY <2>1 DEF JobPromises
  <2>2. CASE pc' # "idle"
    <3>1. /\ g # None /\ up[g] /\ job'.mode = job.mode
          /\ job'.obj.label = job.obj.label
          /\ job.mode = "build" => job'.obj.status = FromPod(job.obj, g)
      <4> DEFINE s == CASE job.mode = "build" -> FromPod(job.obj, g)
                        [] job.mode = "move"  -> FromSpec(job.obj)
                        [] OTHER              -> job.obj.status
      <4>1. /\ g # None /\ up[g]
            /\ job' = [job EXCEPT !.gw = g, !.intact = TRUE, !.obj.status = s]
          BY <1>6, <2>2 DEF GetNatGwPod, Stop
      <4>2. job.mode = "build" => s = FromPod(job.obj, g)
          OBVIOUS
      <4> HIDE DEF s
      <4>3. /\ job'.mode = job.mode /\ job'.obj.label = job.obj.label
            /\ job'.obj.status = s
          BY <1>1, <4>1 DEF Job, Object
      <4> QED
          BY <4>1, <4>2, <4>3
    <3>2. CASE job.mode = "build"
      <4>1. job.obj \in Object /\ g \in Gateway
          BY <1>1, <3>1 DEF Job, Object, StatusFields, StatusRecord
      <4>2. job'.obj.status.localGw = g /\ job'.obj.status.internalIP = podIP[g]
          BY <3>1, <3>2, <4>1 DEF FromPod, Object, StatusFields, StatusRecord
      <4>3. [gw |-> g, ip |-> podIP[g]] \in been'
          BY <3>1, <4>1 DEF BeenTrue
      <4> QED
          BY <3>1, <3>2, <4>2, <4>3 DEF JobPromises
    <3>3. CASE job.mode # "build"
        BY <1>1, <3>1, <3>3 DEF JobPromises
    <3> QED
        BY <3>2, <3>3
  <2> QED
      BY <2>1, <2>2
<1>7. CASE ExecCreateTunnel \/ ExecAddRoute \/ ExecDelRoute
  <2>1. pc # "getPod" /\ (pc' = "idle" \/ job' = job)
      BY <1>7 DEF ExecCreateTunnel, ExecAddRoute, ExecDelRoute, Exec, Answer, Stop
  <2> QED
      BY <1>1, <2>1, PromisesStand
<1>8. CASE ExecDeleteTunnel
  <2>1. job.mode # "build"
      BY <1>1, <1>8 DEF ExecDeleteTunnel, RecordInv, JobStage, Late
  <2>2. \/ pc' = "idle"
        \/ job'.mode = job.mode /\ job'.obj.label = job.obj.label
      BY <1>1, <1>8 DEF ExecDeleteTunnel, Exec, Answer, Stop, Job, Object
  <2> QED
      BY <1>1, <2>1, <2>2 DEF JobPromises
<1>9. CASE WriteStatus
  <2>1. \/ pc' = "idle"
        \/ job'.mode = job.mode /\ job'.obj = job.obj
      BY <1>1, <1>9 DEF WriteStatus, Update, Answer, Stop, Job
  <2>2. pc = "writeStatus"
      BY <1>9 DEF WriteStatus
  <2> QED
      BY <1>1, <2>1, <2>2, PromisesStand
<1>10. CASE DecideNothing \/ RevertType \/ WriteSpec \/ Release \/ Panic
  <2>1. pc' = "idle"
      BY <1>10 DEF DecideNothing, RevertType, WriteSpec, Release, Panic, Restart,
                   Update, Answer, Stop
  <2> QED
      BY <2>1 DEF JobPromises
<1> QED
    BY <1>2, <1>3, <1>4, <1>5, <1>6, <1>7, <1>8, <1>9, <1>10 DEF WorkerStep

\* The others only tell the worker that its copy, or its pod, is out of date.
LEMMA OthersStep ==
    ASSUME TypeOK, User \/ Cluster
    PROVE  /\ pc' = pc
           /\ pc # "idle" => job'.mode = job.mode /\ job'.obj = job.obj
<1>1. pc # "idle" => job \in Job
    BY DEF TypeOK, JobOK
<1> DEFINE Told == \/ job' = job
                   \/ job' = [job EXCEPT !.fresh = FALSE]
                   \/ job' = [job EXCEPT !.intact = FALSE]
<1>2. ASSUME User
      PROVE  pc' = pc /\ Told
    BY <1>2 DEF User, UserDeletes, UserCreates, UserEdits, PutOther
<1>3. ASSUME NEW t \in Tunnel, SyncerPatches(t) \/ InformerPatches(t)
      PROVE  pc' = pc /\ Told
    BY <1>3 DEF SyncerPatches, InformerPatches, PutOther
<1>4. ASSUME NEW g \in Gateway, PodLost(g) \/ NodeLost(g)
      PROVE  pc' = pc /\ Told
    BY <1>4 DEF PodLost, NodeLost, Calm
<1>5. ASSUME \/ \E p \in Peer, i \in RemoteIP : RemoteExIpSynced(p, i)
             \/ \E e \in PG!Endpoint : LocalExIpMoves(e)
             \/ \E g \in Gateway, i \in GwIP : PodStarts(g, i)
             \/ EgressAllocated \/ LocalExIpDeleted
      PROVE  pc' = pc /\ Told
    BY <1>5 DEF RemoteExIpSynced, LocalExIpMoves, PodStarts, EgressAllocated,
                LocalExIpDeleted, Calm
<1>6. pc' = pc /\ Told
    BY <1>2, <1>3, <1>4, <1>5 DEF Cluster
<1> QED
    BY <1>1, <1>6 DEF Job

LEMMA PromisesKept ==
    ASSUME TypeOK, RecordInv, ContractInv, [Next]_vars
    PROVE  JobPromises'
<1>1. been \subseteq been'
    BY BeenKept DEF ContractInv
<1>2. CASE WorkerStep
    BY <1>1, <1>2, WorkerPromises
<1>3. ASSUME NEW t \in Tunnel, Begin(t)
      PROVE  JobPromises'
  <2>1. job'.mode \in {"none", "delete"}
      BY <1>3 DEF Begin
  <2> QED
      BY <2>1 DEF JobPromises
<1>4. CASE CallFails \/ Crash
    BY <1>4 DEF CallFails, Crash, Restart, Stop, JobPromises
<1>5. CASE User \/ Cluster \/ (\E t \in Tunnel : SyncCache(t)) \/ UNCHANGED vars
  <2>1. pc' = pc
      BY <1>5, OthersStep DEF SyncCache, vars
  <2>2. pc # "idle" => job'.mode = job.mode /\ job'.obj = job.obj
      BY <1>5, OthersStep DEF SyncCache, vars
  <2> QED
      BY <1>1, <2>1, <2>2, PromisesStand DEF ContractInv
<1> QED
    BY <1>2, <1>3, <1>4, <1>5 DEF Next

LEMMA ContractInvariance == Spec => [](TypeOK /\ RecordInv /\ ContractInv)
<1>1. Init => ContractInv
    BY InitContract
<1>2. TypeOK /\ RecordInv /\ ContractInv /\ [Next]_vars => ContractInv'
    BY ContractStep, BeenKept, PromisesKept DEF ContractInv
<1> QED
    BY <1>1, <1>2, RecordsInvariant, PTL DEF Spec

\* The reconciler implements its half of the contract with the gateway informer: the
\* labels come with an address a gateway has had, and stay, until the object is released.
\* An Update made with the copy of a build long ago cannot break it.
THEOREM ContractKept == Spec => KeepsContract
<1>1. Init => PG!Init
    BY InitContract
<1>2. TypeOK /\ RecordInv /\ ContractInv /\ [Next]_vars => [PG!Next]_(PG!vars)
    BY ContractStep
<1> QED
    BY <1>1, <1>2, ContractInvariance, PTL DEF Spec, KeepsContract, PG!Spec

-------------------------------------------------------------------------------
(* The life of an object *)

\* What the record of the running build or rebuild will say.
Answering ==
    pc # "idle" =>
        LET s == job.obj.status
            p == job.obj.spec
            more == s.interfaceAddr = p.interfaceAddr /\ s.remoteCIDR = CidrOf[p.peer]
        IN
        /\ job.mode = "delete" <=> job.obj.deleting
        /\ job.mode = "build" =>
              /\ s.remoteIP # None /\ more
              /\ job.fresh /\ pc # "writeSpec" => ~obj[job.t].status.initialized
        /\ job.mode \in {"rebuild", "move"} => s.localGw = p.localGw
        /\ job.mode \in {"rebuild", "move"} /\ pc \in Late =>
              s.remoteIP = p.remoteIP /\ s.internalIP = p.internalIP /\ more

\* Who has labels has all of its addresses.
PeerPlaced ==
    \A t \in Tunnel :
        obj[t] # None /\ obj[t].label # None => obj[t].spec.remoteIP # None

LifeInv == Answering /\ PeerPlaced

AllInv == RecordInv /\ ContractInv /\ LifeInv

LEMMA LifePut ==
    ASSUME TypeOK, NEW t \in Tunnel, NEW o, obj' = [obj EXCEPT ![t] = o]
    PROVE  Lives' = [Lives EXCEPT ![t] = LifeOf(o)] /\ Lives[t] = LifeOf(obj[t])
<1>1. \A u \in Tunnel : obj'[u] = IF u = t THEN o ELSE obj[u]
    BY DEF TypeOK
<1>2. Lives = [u \in Tunnel |-> LifeOf(obj[u])]
    BY DEF Lives
<1>3. Lives' = [u \in Tunnel |-> LifeOf(obj'[u])]
    BY DEF Lives, LifeOf, StageOf, AsksFor, Records
<1>4. Lives' = [u \in Tunnel |-> IF u = t THEN LifeOf(o) ELSE LifeOf(obj[u])]
    BY <1>1, <1>3
<1> QED
    BY <1>2, <1>4

LEMMA LifeKept ==
    ASSUME obj' = obj
    PROVE  Lives' = Lives
    BY DEF Lives, LifeOf, StageOf, AsksFor, Records

RecordOf(o) == IF o.status.initialized THEN Records(o.status) ELSE None

LEMMA LifeFields ==
    ASSUME NEW o, o # None
    PROVE  LifeOf(o) = [stage |-> StageOf(o), deleting |-> o.deleting,
                        asked |-> AsksFor(o.spec), recorded |-> RecordOf(o)]
    BY DEF LifeOf, RecordOf

\* What an object asks for, and at which stage it is.
LEMMA Asks ==
    ASSUME TypeOK, AllInv, NEW t \in Tunnel, obj[t] # None
    PROVE  LET o == obj[t]
               s == o.spec
               place == [gw |-> s.localGw, ip |-> s.internalIP, remote |-> s.remoteIP]
           IN
           /\ o \in Object /\ s \in SpecFields
           /\ AsksFor(s) \in TL!Asked
           /\ o.label = None => AsksFor(s).place = None
           /\ o.label # None => /\ AsksFor(s).place = place
                                /\ place \in [gw : Gateway, ip : GwIP, remote : RemoteIP]
           /\ StageOf(o) = "labelled" <=> o.label # None
           /\ StageOf(o) = "new" <=> ~o.finalizer
           /\ StageOf(o) # "absent"
<1> DEFINE o == obj[t]
           s == o.spec
           place == [gw |-> s.localGw, ip |-> s.internalIP, remote |-> s.remoteIP]
<1>1. o \in Object /\ s \in SpecFields
    BY DEF TypeOK, Object
<1>2. Recorded(o)
    BY DEF AllInv, RecordInv, CopiesRecorded
<1>3. ASSUME o.label = None
      PROVE  AsksFor(s).place = None
  <2>1. Unpatched(o)
      BY <1>2, <1>3 DEF Recorded, Labelled
  <2> QED
      BY <2>1 DEF Unpatched, AsksFor
<1>4. ASSUME o.label # None
      PROVE  /\ AsksFor(s).place = place
             /\ place \in [gw : Gateway, ip : GwIP, remote : RemoteIP]
  <2>1. s.localGw \in Gateway /\ s.internalIP \in GwIP
      BY <1>4 DEF AllInv, ContractInv, Findable, AskedOf, PG!Endpoint
  <2>2. s.remoteIP \in RemoteIP /\ s.remoteIP # None
      BY <1>1, <1>4 DEF AllInv, LifeInv, PeerPlaced, SpecFields
  <2>3. AsksFor(s).place = place
      BY <2>2 DEF AsksFor
  <2> QED
      BY <2>1, <2>2, <2>3
<1>5. AsksFor(s) \in TL!Asked
  <2>1. AsksFor(s).place \in [gw : Gateway, ip : GwIP, remote : RemoteIP] \cup {None}
      BY <1>3, <1>4
  <2>2. /\ s.type \in Type /\ s.interfaceAddr \in Addr /\ CidrOf[s.peer] \in CIDR
      BY <1>1, ConstantsOK DEF SpecFields
  <2> QED
      BY <2>1, <2>2 DEF AsksFor, TL!Asked
<1>6. /\ StageOf(o) = "labelled" <=> o.label # None
      /\ StageOf(o) = "new" <=> ~o.finalizer
      /\ StageOf(o) # "absent"
    BY <1>2 DEF StageOf, Recorded, Labelled
<1> QED
    BY <1>1, <1>3, <1>4, <1>5, <1>6

\* What the write of the worker is about, if it is accepted.
LEMMA FreshAsks ==
    ASSUME TypeOK, AllInv, pc # "idle", job.fresh
    PROVE  LET o == obj[job.t]
               j == job.obj
           IN
           /\ job.t \in Tunnel /\ o # None /\ j \in Object /\ j # None
           /\ j.spec = o.spec /\ j.label = o.label /\ j.deleting = o.deleting
           /\ j.finalizer = o.finalizer
           /\ job.mode \in {"none", "delete"} \/ pc = "writeSpec" => j.status = o.status
    BY ConstantsOK DEF TypeOK, JobOK, Job, AllInv, RecordInv, FreshSeen

LEMMA OwnLives ==
    ASSUME TypeOK, AllInv, AddFinalizer
    PROVE  [TL!Next]_Lives
<1> DEFINE j == job.obj
           o == [j EXCEPT !.finalizer = TRUE]
           b == obj[job.t]
<1>1. pc = "finalize" /\ job.mode = "none" /\ Update(o, "decide")
    BY DEF AddFinalizer, AllInv, RecordInv, JobStage, Early
<1>2. obj' = obj \/ (job.fresh /\ obj' = [obj EXCEPT ![job.t] = o])
    BY <1>1, UpdateWrites
<1>3. CASE obj' = obj
    BY <1>3, LifeKept
<1>4. CASE job.fresh /\ obj' = [obj EXCEPT ![job.t] = o]
  <2>1. /\ job.t \in Tunnel /\ b # None /\ j \in Object /\ j.status = b.status
        /\ j.spec = b.spec /\ j.label = b.label /\ j.deleting = b.deleting
        /\ j.finalizer = b.finalizer
      BY <1>1, <1>4, FreshAsks
  <2>2. ~b.deleting
      BY <1>1, <2>1 DEF AllInv, LifeInv, Answering, Object
  <2>3. /\ o \in Object /\ o.finalizer /\ o.status = b.status /\ o.spec = b.spec
        /\ o.label = b.label /\ o.deleting = b.deleting
      BY <2>1 DEF Object
  <2> HIDE DEF o
  <2>4. Lives' = [Lives EXCEPT ![job.t] = LifeOf(o)] /\ Lives[job.t] = LifeOf(b)
      BY <1>4, <2>1, LifePut
  <2>5. /\ LifeOf(b) = [stage |-> StageOf(b), deleting |-> b.deleting,
                        asked |-> AsksFor(b.spec), recorded |-> RecordOf(b)]
        /\ LifeOf(o) = [stage |-> StageOf(o), deleting |-> b.deleting,
                        asked |-> AsksFor(b.spec), recorded |-> RecordOf(b)]
      BY <2>1, <2>3, ConstantsOK, LifeFields DEF RecordOf
  <2>6. CASE b.finalizer
    <3>1. StageOf(o) = StageOf(b)
        BY <2>3, <2>6 DEF StageOf
    <3>2. LifeOf(o) = Lives[job.t]
        BY <2>4, <2>5, <3>1
    <3> QED
        BY <2>4, <3>2 DEF Lives
  <2>7. CASE ~b.finalizer
    <3>1. StageOf(b) = "new"
        BY <2>1, <2>7, Asks
    <3>2. StageOf(o) = "owned"
        BY <2>3, <3>1 DEF StageOf
    <3>3. LifeOf(o) = TL!State("owned", Lives[job.t].deleting, Lives[job.t].asked, None)
      <4>1. ~b.status.initialized
          BY <2>1, <2>7 DEF AllInv, RecordInv, CopiesRecorded, Recorded
      <4> QED
          BY <2>4, <2>5, <3>2, <4>1 DEF TL!State, RecordOf
    <3>4. Lives[job.t].stage = "new" /\ ~Lives[job.t].deleting
        BY <2>2, <2>4, <2>5, <3>1
    <3>5. TL!Own(job.t)
        BY <2>4, <3>3, <3>4 DEF TL!Own, TL!Advances, TL!Becomes
    <3> QED
        BY <2>1, <3>5 DEF TL!Next
  <2> QED
      BY <2>6, <2>7
<1> QED
    BY <1>2, <1>3, <1>4

LEMMA RecordLives ==
    ASSUME TypeOK, AllInv, WriteStatus
    PROVE  [TL!Next]_Lives
<1> DEFINE j == job.obj
           b == obj[job.t]
           place == [gw |-> j.status.localGw, ip |-> j.status.internalIP,
                     remote |-> j.status.remoteIP]
<1>1. pc = "writeStatus" /\ Update(j, AfterStatus) /\ job \in Job
    BY DEF WriteStatus, TypeOK, JobOK
<1>2. job.mode \in {"build", "rebuild", "move"}
    BY <1>1 DEF AllInv, RecordInv, JobStage, Early, Deleting, Job, Modes
<1>3. obj' = obj \/ (job.fresh /\ obj' = [obj EXCEPT ![job.t] = j])
    BY <1>1, UpdateWrites
<1>4. CASE obj' = obj
    BY <1>4, LifeKept
<1>5. CASE job.fresh /\ obj' = [obj EXCEPT ![job.t] = j]
  <2>1. /\ job.t \in Tunnel /\ b # None /\ j \in Object /\ j # None
        /\ j.spec = b.spec /\ j.label = b.label /\ j.deleting = b.deleting
        /\ j.finalizer = b.finalizer
      BY <1>1, <1>5, FreshAsks
  <2>2. /\ ~b.deleting /\ j.finalizer /\ j.status.initialized
        /\ j.status.type = j.spec.type
      BY <1>1, <1>2, <2>1 DEF AllInv, LifeInv, Answering, RecordInv, JobRecorded,
                              JobStage, Building, Object
  <2>3. Lives' = [Lives EXCEPT ![job.t] = LifeOf(j)] /\ Lives[job.t] = LifeOf(b)
      BY <1>5, <2>1, LifePut
  <2>4. /\ LifeOf(b) = [stage |-> StageOf(b), deleting |-> b.deleting,
                        asked |-> AsksFor(b.spec), recorded |-> RecordOf(b)]
        /\ LifeOf(j) = [stage |-> StageOf(j), deleting |-> b.deleting,
                        asked |-> AsksFor(b.spec), recorded |-> Records(j.status)]
      BY <2>1, <2>2, LifeFields DEF RecordOf
  <2>5. CASE job.mode = "build"
    <3>1. /\ b.label = None /\ ~b.status.initialized /\ b.finalizer
          /\ j.status.interfaceAddr = j.spec.interfaceAddr
          /\ j.status.remoteCIDR = CidrOf[j.spec.peer] /\ j.status.remoteIP # None
        BY <1>1, <1>5, <2>1, <2>2, <2>5 DEF AllInv, LifeInv, Answering, RecordInv, JobStage
    <3>2. StageOf(b) = "owned" /\ StageOf(j) = "built"
        BY <2>1, <2>2, <3>1 DEF StageOf
    <3>3. place \in [gw : Gateway, ip : GwIP, remote : RemoteIP]
      <4>1. [gw |-> j.status.localGw, ip |-> j.status.internalIP] \in PG!Endpoint
          BY <1>1, <2>5 DEF AllInv, ContractInv, JobPromises, TypeOK
      <4>2. j.status.remoteIP \in RemoteIP
          BY <2>1, <3>1 DEF Object, StatusFields, StatusRecord
      <4> QED
          BY <4>1, <4>2 DEF PG!Endpoint
    <3>4. Records(j.status) = [AsksFor(b.spec) EXCEPT !.place = place]
        BY <2>1, <2>2, <3>1 DEF Records, AsksFor
    <3>5. Lives[job.t].stage = "owned" /\ ~Lives[job.t].deleting
        BY <2>2, <2>3, <2>4, <3>2
    <3> HIDE DEF place
    <3>6. /\ Lives[job.t].asked = AsksFor(b.spec)
          /\ LifeOf(j) = TL!State("built", Lives[job.t].deleting, AsksFor(b.spec),
                                  Records(j.status))
        BY <2>3, <2>4, <3>2 DEF TL!State
    <3>7. Lives' = [Lives EXCEPT ![job.t] =
                      TL!State("built", Lives[job.t].deleting, Lives[job.t].asked,
                               [Lives[job.t].asked EXCEPT !.place = place])]
        BY <2>3, <3>4, <3>6
    <3>8. TL!Build(job.t)
        BY <3>3, <3>5, <3>7 DEF TL!Build, TL!Advances, TL!Becomes
    <3> QED
        BY <2>1, <3>8 DEF TL!Next
  <2>6. CASE job.mode \in {"rebuild", "move"}
    <3>1. /\ j.label # None
          /\ j.status.localGw = j.spec.localGw /\ j.status.remoteIP = j.spec.remoteIP
          /\ j.status.internalIP = j.spec.internalIP
          /\ j.status.interfaceAddr = j.spec.interfaceAddr
          /\ j.status.remoteCIDR = CidrOf[j.spec.peer]
        BY <1>1, <2>6 DEF AllInv, LifeInv, Answering, ContractInv, JobPromises, Late
    <3>2. b.status.initialized /\ b.status.type = j.status.type
        BY <1>1, <2>1, <2>2, <3>1 DEF AllInv, RecordInv, CopiesRecorded, Recorded,
                                      Labelled, TypeKept, Built, TypeOf
    <3>3. StageOf(b) = "labelled" /\ StageOf(j) = "labelled"
        BY <2>1, <3>1 DEF StageOf
    <3>4. AsksFor(b.spec).place = place
        BY <2>1, <3>1, Asks
    <3>5. Records(j.status) = AsksFor(b.spec)
        BY <2>1, <2>2, <3>1, <3>4 DEF Records, AsksFor
    <3>6. AsksFor(b.spec).type = RecordOf(b).type
        BY <2>1, <2>2, <3>2 DEF AsksFor, Records, RecordOf
    <3>7. /\ Lives[job.t].stage = "labelled" /\ ~Lives[job.t].deleting
          /\ Lives[job.t].asked.type = Lives[job.t].recorded.type
        BY <2>2, <2>3, <2>4, <3>3, <3>6
    <3>8. LifeOf(j) = TL!State("labelled", Lives[job.t].deleting, Lives[job.t].asked,
                               Lives[job.t].asked)
        BY <2>3, <2>4, <3>3, <3>5 DEF TL!State
    <3>9. TL!Rebuild(job.t)
        BY <2>3, <3>7, <3>8 DEF TL!Rebuild, TL!Advances, TL!Becomes
    <3> QED
        BY <2>1, <3>9 DEF TL!Next
  <2> QED
      BY <1>2, <2>5, <2>6
<1> QED
    BY <1>3, <1>4, <1>5

LEMMA LabelLives ==
    ASSUME TypeOK, AllInv, WriteSpec
    PROVE  [TL!Next]_Lives
<1> DEFINE j == job.obj
           b == obj[job.t]
           s == [j.spec EXCEPT !.internalIP = j.status.internalIP,
                               !.localGw = j.status.localGw,
                               !.remoteIP = j.status.remoteIP]
           n == IF job.mode = "build" THEN s ELSE j.spec
           o == [j EXCEPT !.label = j.spec.peer, !.spec = n]
<1>1. pc = "writeSpec" /\ job \in Job /\ j \in Object /\ j.spec \in SpecFields
    BY DEF WriteSpec, TypeOK, JobOK, Job, Object
<1>2. Update(o, "idle")
  <2>1. CASE job.mode = "build"
    <3>1. o = [j EXCEPT !.label = j.spec.peer,
                        !.spec.internalIP = j.status.internalIP,
                        !.spec.localGw = j.status.localGw,
                        !.spec.remoteIP = j.status.remoteIP]
        BY <1>1, <2>1 DEF Object, SpecFields
    <3> QED
        BY <2>1, <3>1 DEF WriteSpec
  <2>2. CASE job.mode # "build"
    <3>1. o = [j EXCEPT !.label = j.spec.peer]
        BY <1>1, <2>2 DEF Object
    <3> QED
        BY <2>2, <3>1 DEF WriteSpec
  <2> QED
      BY <2>1, <2>2
<1>3. n \in SpecFields /\ n.type = j.spec.type /\ n.peer = j.spec.peer
      /\ n.interfaceAddr = j.spec.interfaceAddr
    BY <1>1 DEF Object, StatusFields, StatusRecord, SpecFields
<1>4. job.mode = "build" => /\ n.internalIP = j.status.internalIP
                            /\ n.localGw = j.status.localGw
                            /\ n.remoteIP = j.status.remoteIP
    BY <1>1 DEF SpecFields
<1>5. job.mode # "build" => n = j.spec
    OBVIOUS
<1> HIDE DEF n
<1>6. /\ o \in Object /\ o # None /\ o.spec = n /\ o.label = j.spec.peer /\ o.label # None
      /\ o.status = j.status /\ o.deleting = j.deleting /\ o.finalizer = j.finalizer
    BY <1>1, <1>3, ConstantsOK DEF Object, SpecFields
<1> HIDE DEF o
<1>7. job.mode \in Building /\ j.status.initialized /\ j.spec.type = j.status.type
    BY <1>1 DEF AllInv, RecordInv, JobStage, Early, Deleting, Building, Job, Modes
<1>8. obj' = obj \/ (job.fresh /\ obj' = [obj EXCEPT ![job.t] = o])
    BY <1>1, <1>2, UpdateWrites
<1>9. CASE obj' = obj
    BY <1>9, LifeKept
<1>10. CASE job.fresh /\ obj' = [obj EXCEPT ![job.t] = o]
  <2>1. /\ job.t \in Tunnel /\ b # None /\ j.status = b.status
        /\ j.spec = b.spec /\ j.label = b.label /\ j.deleting = b.deleting
        /\ j.finalizer = b.finalizer
      BY <1>1, <1>10, FreshAsks
  <2>2. Lives' = [Lives EXCEPT ![job.t] = LifeOf(o)] /\ Lives[job.t] = LifeOf(b)
      BY <1>10, <2>1, LifePut
  <2>3. /\ LifeOf(b) = [stage |-> StageOf(b), deleting |-> b.deleting,
                        asked |-> AsksFor(b.spec), recorded |-> Records(b.status)]
        /\ LifeOf(o) = [stage |-> "labelled", deleting |-> b.deleting,
                        asked |-> AsksFor(n), recorded |-> Records(b.status)]
      BY <1>6, <1>7, <2>1, LifeFields DEF RecordOf, StageOf
  <2>4. CASE job.mode = "build"
    <3>1. /\ b.label = None /\ ~b.deleting /\ j.status.remoteIP # None
          /\ j.status.interfaceAddr = j.spec.interfaceAddr
          /\ j.status.remoteCIDR = CidrOf[j.spec.peer]
        BY <1>1, <2>1, <2>4 DEF AllInv, RecordInv, JobStage, LifeInv, Answering, Object
    <3>2. StageOf(b) = "built"
        BY <1>7, <2>1, <3>1 DEF StageOf
    <3>3. AsksFor(n) = Records(b.status)
        BY <1>3, <1>4, <1>7, <2>1, <2>4, <3>1 DEF AsksFor, Records
    <3>4. /\ Lives[job.t].stage = "built" /\ ~Lives[job.t].deleting
          /\ Lives[job.t].recorded = Records(b.status)
        BY <2>2, <2>3, <3>1, <3>2
    <3>5. LifeOf(o) = TL!State("labelled", Lives[job.t].deleting, Lives[job.t].recorded,
                               Lives[job.t].recorded)
        BY <2>2, <2>3, <3>3 DEF TL!State
    <3>6. TL!Label(job.t)
        BY <2>2, <3>4, <3>5 DEF TL!Label, TL!Advances, TL!Becomes
    <3> QED
        BY <2>1, <3>6 DEF TL!Next
  <2>5. CASE job.mode # "build"
    <3>1. b.label # None
        BY <1>1, <1>7, <2>1, <2>5 DEF AllInv, ContractInv, JobPromises, Building
    <3>2. LifeOf(o) = Lives[job.t]
        BY <1>5, <2>1, <2>2, <2>3, <2>5, <3>1 DEF StageOf
    <3> QED
        BY <2>2, <3>2 DEF Lives
  <2> QED
      BY <2>4, <2>5
<1> QED
    BY <1>8, <1>9, <1>10

LEMMA ReleaseLives ==
    ASSUME TypeOK, AllInv, Release
    PROVE  [TL!Next]_Lives
<1> DEFINE b == obj[job.t]
<1>1. pc = "release" /\ Update(None, "idle")
    BY DEF Release
<1>2. job.obj.deleting
    BY <1>1 DEF AllInv, RecordInv, JobStage, LifeInv, Answering
<1>3. obj' = obj \/ (job.fresh /\ obj' = [obj EXCEPT ![job.t] = None])
    BY <1>1, UpdateWrites
<1>4. CASE obj' = obj
    BY <1>4, LifeKept
<1>5. CASE job.fresh /\ obj' = [obj EXCEPT ![job.t] = None]
  <2>1. job.t \in Tunnel /\ b # None /\ b.deleting
      BY <1>1, <1>2, <1>5, FreshAsks
  <2>2. Lives' = [Lives EXCEPT ![job.t] = LifeOf(None)] /\ Lives[job.t] = LifeOf(b)
      BY <1>5, <2>1, LifePut
  <2>3. LifeOf(None) = TL!Absent
      BY DEF LifeOf, TL!Absent, TL!State
  <2>4. Lives[job.t].deleting
      BY <2>1, <2>2, LifeFields
  <2>5. TL!Release(job.t)
      BY <2>2, <2>3, <2>4 DEF TL!Release, TL!Becomes
  <2> QED
      BY <2>1, <2>5 DEF TL!Next
<1> QED
    BY <1>3, <1>4, <1>5

\* A write of what is asked for besides the addresses.
LEMMA EditLives ==
    ASSUME TypeOK, AllInv, NEW t \in Tunnel, obj[t] # None,
           NEW o \in Object, obj' = [obj EXCEPT ![t] = o],
           o.status = obj[t].status, o.label = obj[t].label,
           o.finalizer = obj[t].finalizer, o.deleting = obj[t].deleting,
           o.spec.localGw = obj[t].spec.localGw, o.spec.remoteIP = obj[t].spec.remoteIP,
           o.spec.internalIP = obj[t].spec.internalIP
    PROVE  [TL!Next]_Lives
<1> DEFINE b == obj[t]
           a == AsksFor(o.spec)
<1>1. Lives' = [Lives EXCEPT ![t] = LifeOf(o)] /\ Lives[t] = LifeOf(b)
    BY LifePut
<1>2. StageOf(o) = StageOf(b) /\ RecordOf(o) = RecordOf(b)
    BY DEF StageOf, RecordOf
<1>3. /\ LifeOf(b) = [stage |-> StageOf(b), deleting |-> b.deleting,
                      asked |-> AsksFor(b.spec), recorded |-> RecordOf(b)]
      /\ LifeOf(o) = [stage |-> StageOf(b), deleting |-> b.deleting,
                      asked |-> a, recorded |-> RecordOf(b)]
    BY <1>2, ConstantsOK, LifeFields
<1>4. /\ AsksFor(b.spec) \in TL!Asked /\ StageOf(b) # "absent"
      /\ o.spec \in SpecFields
    BY Asks DEF Object
<1>5. a.place = AsksFor(b.spec).place
    BY DEF AsksFor
<1>6. a \in TL!Asked
  <2>1. a.place \in [gw : Gateway, ip : GwIP, remote : RemoteIP] \cup {None}
      BY <1>4, <1>5 DEF TL!Asked
  <2>2. /\ o.spec.type \in Type /\ o.spec.interfaceAddr \in Addr
        /\ CidrOf[o.spec.peer] \in CIDR
      BY <1>4, ConstantsOK DEF SpecFields
  <2> QED
      BY <2>1, <2>2 DEF AsksFor, TL!Asked
<1> HIDE DEF a
<1>7. LifeOf(o) = [Lives[t] EXCEPT !.asked = a]
    BY <1>1, <1>3
<1>8. Lives[t].stage # "absent" /\ a.place = Lives[t].asked.place
    BY <1>1, <1>3, <1>4, <1>5
<1>9. TL!Edit(t)
    BY <1>1, <1>6, <1>7, <1>8 DEF TL!Edit, TL!Becomes
<1> QED
    BY <1>9 DEF TL!Next

LEMMA RevertLives ==
    ASSUME TypeOK, AllInv, RevertType
    PROVE  [TL!Next]_Lives
<1> DEFINE j == job.obj
           o == [j EXCEPT !.spec.type = j.status.type]
<1>1. /\ pc = "revertType" /\ job.mode = "none" /\ Update(o, "idle")
      /\ j \in Object /\ j.status.type \in Type
    BY DEF RevertType, AllInv, RecordInv, JobStage, Early, TypeOK, JobOK, Job,
           Object, StatusFields, StatusRecord
<1>2. /\ o \in Object /\ o.status = j.status /\ o.label = j.label
      /\ o.finalizer = j.finalizer /\ o.deleting = j.deleting
      /\ o.spec.localGw = j.spec.localGw /\ o.spec.remoteIP = j.spec.remoteIP
      /\ o.spec.internalIP = j.spec.internalIP
    BY <1>1 DEF Object, SpecFields
<1> HIDE DEF o
<1>3. obj' = obj \/ (job.fresh /\ obj' = [obj EXCEPT ![job.t] = o])
    BY <1>1, UpdateWrites
<1>4. CASE obj' = obj
    BY <1>4, LifeKept
<1>5. CASE job.fresh /\ obj' = [obj EXCEPT ![job.t] = o]
  <2>1. /\ job.t \in Tunnel /\ obj[job.t] # None
        /\ j.spec = obj[job.t].spec /\ j.label = obj[job.t].label
        /\ j.deleting = obj[job.t].deleting /\ j.finalizer = obj[job.t].finalizer
        /\ j.status = obj[job.t].status
      BY <1>1, <1>5, FreshAsks
  <2> QED
      BY <1>2, <1>5, <2>1, EditLives
<1> QED
    BY <1>3, <1>4, <1>5

\* A write of the addresses, by informer or syncer.
LEMMA PatchLives ==
    ASSUME TypeOK, AllInv, NEW t \in Tunnel, obj[t] # None, obj[t].label # None,
           NEW o \in Object, obj' = [obj EXCEPT ![t] = o],
           o.status = obj[t].status, o.label = obj[t].label,
           o.finalizer = obj[t].finalizer, o.deleting = obj[t].deleting,
           o.spec.peer = obj[t].spec.peer, o.spec.type = obj[t].spec.type,
           o.spec.interfaceAddr = obj[t].spec.interfaceAddr,
           o.spec.localGw \in Gateway, o.spec.internalIP \in GwIP,
           o.spec.remoteIP \in RemoteIP, o.spec.remoteIP # None
    PROVE  [TL!Next]_Lives
<1> DEFINE b == obj[t]
           place == [gw |-> o.spec.localGw, ip |-> o.spec.internalIP,
                     remote |-> o.spec.remoteIP]
<1>1. Lives' = [Lives EXCEPT ![t] = LifeOf(o)] /\ Lives[t] = LifeOf(b)
    BY LifePut
<1>2. StageOf(o) = StageOf(b) /\ RecordOf(o) = RecordOf(b) /\ StageOf(b) = "labelled"
    BY DEF StageOf, RecordOf
<1>3. AsksFor(o.spec) = [AsksFor(b.spec) EXCEPT !.place = place]
    BY DEF AsksFor
<1>4. /\ LifeOf(b) = [stage |-> StageOf(b), deleting |-> b.deleting,
                      asked |-> AsksFor(b.spec), recorded |-> RecordOf(b)]
      /\ LifeOf(o) = [stage |-> StageOf(b), deleting |-> b.deleting,
                      asked |-> [AsksFor(b.spec) EXCEPT !.place = place],
                      recorded |-> RecordOf(b)]
    BY <1>2, <1>3, ConstantsOK, LifeFields
<1>5. place \in [gw : Gateway, ip : GwIP, remote : RemoteIP]
    OBVIOUS
<1> HIDE DEF place
<1>6. LifeOf(o) = [Lives[t] EXCEPT !.asked.place = place]
    BY <1>1, <1>4
<1>7. Lives[t].stage = "labelled"
    BY <1>1, <1>2, <1>4
<1>8. TL!Patch(t)
    BY <1>1, <1>5, <1>6, <1>7 DEF TL!Patch, TL!Becomes
<1> QED
    BY <1>8 DEF TL!Next

LEMMA PatchersLive ==
    ASSUME TypeOK, AllInv, NEW t \in Tunnel, SyncerPatches(t) \/ InformerPatches(t)
    PROVE  [TL!Next]_Lives
<1> DEFINE b == obj[t]
<1>1. /\ b # None /\ b \in Object /\ b.label # None /\ b.spec \in SpecFields
      /\ b.spec.localGw \in Gateway /\ b.spec.internalIP \in GwIP
      /\ b.spec.remoteIP \in RemoteIP /\ b.spec.remoteIP # None
    BY DEF SyncerPatches, InformerPatches, TypeOK, Object, SpecFields, AllInv, LifeInv,
           PeerPlaced, ContractInv, Findable, AskedOf, PG!Endpoint
<1>2. CASE SyncerPatches(t)
  <2> DEFINE i == remoteExIp[b.label]
             o == [b EXCEPT !.spec.remoteIP = i]
  <2>1. i \in RemoteIP /\ i # None /\ obj' = [obj EXCEPT ![t] = o]
      BY <1>1, <1>2 DEF SyncerPatches, PutOther, Put, TypeOK, Object
  <2> HIDE DEF i
  <2>2. /\ o \in Object /\ o.status = b.status /\ o.label = b.label
        /\ o.finalizer = b.finalizer /\ o.deleting = b.deleting
        /\ o.spec = [b.spec EXCEPT !.remoteIP = i]
      BY <1>1, <2>1 DEF Object, SpecFields
  <2>3. /\ o.spec.peer = b.spec.peer /\ o.spec.type = b.spec.type
        /\ o.spec.interfaceAddr = b.spec.interfaceAddr
        /\ o.spec.localGw = b.spec.localGw /\ o.spec.internalIP = b.spec.internalIP
        /\ o.spec.remoteIP = i
      BY <1>1, <2>2 DEF SpecFields
  <2> HIDE DEF o
  <2> QED
      BY <1>1, <2>1, <2>2, <2>3, PatchLives
<1>3. CASE InformerPatches(t)
  <2> DEFINE r == [b EXCEPT !.spec.internalIP = localExIp.ip]
             m == [r EXCEPT !.spec.localGw = localExIp.gw]
             s(g) == [b.spec EXCEPT !.internalIP = localExIp.ip, !.localGw = g]
             n(g) == [b EXCEPT !.spec = s(g)]
  <2>1. /\ localExIp.gw \in Gateway /\ localExIp.ip \in GwIP
        /\ obj' = [obj EXCEPT ![t] = r] \/ obj' = [obj EXCEPT ![t] = m]
      BY <1>3 DEF InformerPatches, PutOther, Put, TypeOK, PG!Endpoint
  <2>2. r = n(b.spec.localGw)
      BY <1>1 DEF Object, SpecFields
  <2>3. m = n(localExIp.gw)
      BY <1>1 DEF Object, SpecFields
  <2> HIDE DEF r, m
  <2>4. PICK g \in Gateway : obj' = [obj EXCEPT ![t] = n(g)]
      BY <1>1, <2>1, <2>2, <2>3
  <2>5. /\ s(g) \in SpecFields /\ s(g).peer = b.spec.peer /\ s(g).type = b.spec.type
        /\ s(g).interfaceAddr = b.spec.interfaceAddr
        /\ s(g).localGw = g /\ s(g).internalIP = localExIp.ip
        /\ s(g).remoteIP = b.spec.remoteIP
      BY <1>1, <2>1 DEF SpecFields
  <2> HIDE DEF s
  <2>6. /\ n(g) \in Object /\ n(g).status = b.status /\ n(g).label = b.label
        /\ n(g).finalizer = b.finalizer /\ n(g).deleting = b.deleting
        /\ n(g).spec = s(g)
      BY <1>1, <2>5 DEF Object
  <2> HIDE DEF n
  <2> QED
      BY <1>1, <2>1, <2>4, <2>5, <2>6, PatchLives
<1> QED
    BY <1>2, <1>3

LEMMA UserLives ==
    ASSUME TypeOK, AllInv, User
    PROVE  [TL!Next]_Lives
<1>1. ASSUME NEW t \in Tunnel, NEW o, PutOther(t, o)
      PROVE  obj' = [obj EXCEPT ![t] = o]
    BY <1>1 DEF PutOther, Put
<1>2. ASSUME NEW t \in Tunnel, UserDeletes(t)
      PROVE  [TL!Next]_Lives
  <2> DEFINE b == obj[t]
             o == [b EXCEPT !.deleting = TRUE]
  <2>1. /\ b # None /\ b \in Object /\ ~b.deleting
        /\ obj' = [obj EXCEPT ![t] = IF b.finalizer THEN o ELSE None]
      BY <1>1, <1>2 DEF UserDeletes, TypeOK
  <2>2. /\ o \in Object /\ o.status = b.status /\ o.label = b.label
        /\ o.finalizer = b.finalizer /\ o.spec = b.spec /\ o.deleting = TRUE
      BY <2>1 DEF Object
  <2> HIDE DEF o
  <2>3. LifeOf(b) = [stage |-> StageOf(b), deleting |-> b.deleting,
                     asked |-> AsksFor(b.spec), recorded |-> RecordOf(b)]
      BY <2>1, LifeFields
  <2>4. LifeOf(o) = [stage |-> StageOf(b), deleting |-> TRUE,
                     asked |-> AsksFor(b.spec), recorded |-> RecordOf(b)]
    <3>1. o # None /\ StageOf(o) = StageOf(b) /\ RecordOf(o) = RecordOf(b)
        BY <2>2, ConstantsOK DEF StageOf, RecordOf
    <3> QED
        BY <2>2, <3>1, LifeFields
  <2>5. LifeOf(None) = TL!Absent
      BY DEF LifeOf, TL!Absent, TL!State
  <2>6. Lives[t] = LifeOf(b) /\ Lives[t].stage = StageOf(b) /\ ~Lives[t].deleting
    <3>1. Lives[t] = LifeOf(b)
        BY DEF Lives
    <3> QED
        BY <2>1, <2>3, <3>1
  <2>7. /\ b.finalizer => StageOf(b) # "new"
        /\ ~b.finalizer => StageOf(b) = "new"
        /\ StageOf(b) # "absent"
      BY <2>1, Asks
  <2>8. Lives' = [Lives EXCEPT ![t] = IF b.finalizer THEN LifeOf(o) ELSE LifeOf(None)]
      BY <2>1, LifePut
  <2>9. LifeOf(o) = TL!State(Lives[t].stage, TRUE, Lives[t].asked, Lives[t].recorded)
      BY <2>3, <2>4, <2>6 DEF TL!State
  <2>10. TL!Delete(t)
      BY <2>5, <2>6, <2>7, <2>8, <2>9 DEF TL!Delete, TL!Becomes
  <2> QED
      BY <2>10 DEF TL!Next
<1>3. ASSUME NEW t \in Tunnel, NEW p \in Peer, NEW a \in Addr, NEW ty \in Type,
             UserCreates(t, p, a, ty)
      PROVE  [TL!Next]_Lives
  <2> DEFINE o == NewObject(p, a, ty)
             k == [type |-> ty, ends |-> [addr |-> a, cidr |-> CidrOf[p]], place |-> None]
  <2>1. obj[t] = None /\ obj' = [obj EXCEPT ![t] = o]
      BY <1>1, <1>3 DEF UserCreates
  <2>2. Lives' = [Lives EXCEPT ![t] = LifeOf(o)] /\ Lives[t] = LifeOf(None)
      BY <2>1, LifePut
  <2>3. /\ o \in Object /\ o # None /\ AsksFor(o.spec) = k
        /\ o.deleting = FALSE /\ StageOf(o) = "new" /\ RecordOf(o) = None
    <3>1. o.spec \in SpecFields /\ EmptyStatus \in StatusFields
        BY DEF NewObject, SpecFields, EmptyStatus, StatusFields, StatusRecord
    <3>2. o \in Object
        BY <3>1 DEF NewObject, Object
    <3>3. AsksFor(o.spec) = k
        BY DEF AsksFor, NewObject
    <3>4. o.deleting = FALSE /\ StageOf(o) = "new" /\ RecordOf(o) = None
        BY DEF NewObject, EmptyStatus, StageOf, RecordOf
    <3> QED
        BY <3>2, <3>3, <3>4, ConstantsOK
  <2> HIDE DEF o
  <2>4. LifeOf(o) = TL!State("new", FALSE, k, None)
      BY <2>3, LifeFields DEF TL!State
  <2>5. k \in TL!Asked /\ k.place = None
      BY ConstantsOK DEF TL!Asked
  <2>6. Lives[t].stage = "absent"
      BY <2>2 DEF LifeOf
  <2> HIDE DEF k
  <2>7. TL!Create(t)
      BY <2>2, <2>4, <2>5, <2>6 DEF TL!Create, TL!Becomes
  <2> QED
      BY <2>7 DEF TL!Next
<1>4. ASSUME NEW t \in Tunnel, NEW p \in Peer, NEW a \in Addr, NEW ty \in Type,
             UserEdits(t, p, a, ty)
      PROVE  [TL!Next]_Lives
  <2> DEFINE b == obj[t]
             o == [b EXCEPT !.spec.peer = p, !.spec.interfaceAddr = a, !.spec.type = ty]
             s == [b.spec EXCEPT !.peer = p, !.interfaceAddr = a, !.type = ty]
  <2>1. /\ b # None /\ b \in Object /\ b.spec \in SpecFields
        /\ obj' = [obj EXCEPT ![t] = o]
      BY <1>1, <1>4 DEF UserEdits, TypeOK, Object
  <2>2. /\ s \in SpecFields /\ s.localGw = b.spec.localGw
        /\ s.internalIP = b.spec.internalIP /\ s.remoteIP = b.spec.remoteIP
      BY <2>1 DEF SpecFields
  <2>3. o = [b EXCEPT !.spec = s]
      BY <2>1 DEF Object, SpecFields
  <2> HIDE DEF s, o
  <2>4. /\ o \in Object /\ o.label = b.label /\ o.spec = s /\ o.status = b.status
        /\ o.finalizer = b.finalizer /\ o.deleting = b.deleting
      BY <2>1, <2>2, <2>3 DEF Object
  <2> QED
      BY <2>1, <2>2, <2>4, EditLives
<1> QED
    BY <1>2, <1>3, <1>4 DEF User

LEMMA InitLives == Init => LifeInv /\ TL!Init
<1> SUFFICES ASSUME Init PROVE LifeInv /\ TL!Init
    OBVIOUS
<1>1. LifeInv
    BY DEF Init, LifeInv, Answering, PeerPlaced
<1>2. Lives = [t \in Tunnel |-> TL!Absent]
    BY DEF Init, Lives, LifeOf, TL!Absent, TL!State
<1> QED
    BY <1>1, <1>2 DEF TL!Init

Writes == AddFinalizer \/ RevertType \/ WriteStatus \/ WriteSpec \/ Release

Patches == \E t \in Tunnel : SyncerPatches(t) \/ InformerPatches(t)

LEMMA ObjectWritten ==
    ASSUME [Next]_vars
    PROVE  Writes \/ User \/ Patches \/ obj' = obj
<1>1. ASSUME WorkerStep
      PROVE  Writes \/ obj' = obj
    BY <1>1 DEF WorkerStep, Writes, DecideBuild, DecideRevert, DecideUpdate, DecideNothing,
                GetNatGwPod, Local, ExecCreateTunnel, ExecAddRoute, ExecDelRoute,
                ExecDeleteTunnel, Exec, Panic, Restart
<1>2. ASSUME Cluster
      PROVE  Patches \/ obj' = obj
    BY <1>2 DEF Cluster, Patches, RemoteExIpSynced, LocalExIpMoves, LocalExIpDeleted, PodLost,
                NodeLost, PodStarts, EgressAllocated, Calm
<1>3. ASSUME \/ \E t \in Tunnel : Begin(t) \/ SyncCache(t)
             \/ CallFails \/ Crash \/ UNCHANGED vars
      PROVE  obj' = obj
    BY <1>3 DEF Begin, Local, SyncCache, CallFails, Crash, Restart, vars
<1> QED
    BY <1>1, <1>2, <1>3 DEF Next

LEMMA LifeStep ==
    ASSUME TypeOK, AllInv, [Next]_vars
    PROVE  [TL!Next]_Lives
<1>1. CASE Writes
    BY <1>1, OwnLives, RevertLives, RecordLives, LabelLives, ReleaseLives DEF Writes
<1>2. CASE User
    BY <1>2, UserLives
<1>3. CASE Patches
    BY <1>3, PatchersLive DEF Patches
<1>4. CASE obj' = obj
    BY <1>4, LifeKept
<1> QED
    BY <1>1, <1>2, <1>3, <1>4, ObjectWritten

\* A step that leaves copy and stage as they are, or ends the reconcile.
LEMMA AnswersStand ==
    ASSUME Answering,
           \/ pc' = "idle"
           \/ /\ pc # "idle" /\ job'.mode = job.mode /\ job'.obj = job.obj
              /\ job.mode \in {"rebuild", "move"} /\ pc' \in Late => pc \in Late
              /\ job.mode = "build" /\ job'.fresh /\ pc' # "writeSpec" =>
                    /\ job.fresh /\ pc # "writeSpec" /\ job'.t = job.t
                    /\ obj'[job.t] = obj[job.t]
    PROVE  Answering'
    BY DEF Answering

LEMMA OthersFresh ==
    ASSUME TypeOK, User \/ Cluster, pc # "idle"
    PROVE  /\ job'.t = job.t
           /\ job'.fresh => job.fresh /\ obj'[job.t] = obj[job.t]
<1>1. job \in Job
    BY DEF TypeOK, JobOK
<1> DEFINE Goal == job'.t = job.t /\ (job'.fresh => job.fresh /\ obj'[job.t] = obj[job.t])
<1>2. ASSUME NEW t \in Tunnel, NEW o, PutOther(t, o)
      PROVE  Goal
    BY <1>1, <1>2 DEF PutOther, Put, TypeOK, Job
<1>3. CASE User
    BY <1>2, <1>3 DEF User, UserDeletes, UserCreates, UserEdits
<1>4. ASSUME NEW t \in Tunnel, SyncerPatches(t) \/ InformerPatches(t)
      PROVE  Goal
    BY <1>2, <1>4 DEF SyncerPatches, InformerPatches
<1>5. ASSUME NEW g \in Gateway, PodLost(g) \/ NodeLost(g)
      PROVE  Goal
    BY <1>1, <1>5 DEF PodLost, NodeLost, Calm, Job
<1>6. ASSUME \/ \E p \in Peer, i \in RemoteIP : RemoteExIpSynced(p, i)
             \/ \E e \in PG!Endpoint : LocalExIpMoves(e)
             \/ \E g \in Gateway, i \in GwIP : PodStarts(g, i)
             \/ EgressAllocated \/ LocalExIpDeleted
      PROVE  Goal
    BY <1>6 DEF RemoteExIpSynced, LocalExIpMoves, PodStarts, EgressAllocated,
                LocalExIpDeleted, Calm
<1> QED
    BY <1>3, <1>4, <1>5, <1>6 DEF Cluster

LEMMA WorkerAnswers ==
    ASSUME TypeOK, AllInv, WorkerStep
    PROVE  Answering'
<1> DEFINE j == job.obj
<1>1. pc # "idle" /\ job \in Job /\ j \in Object
    BY DEF WorkerStep, AddFinalizer, DecideBuild, DecideRevert, DecideUpdate,
           DecideNothing, RevertType, GetNatGwPod, ExecCreateTunnel, ExecAddRoute,
           ExecDelRoute, ExecDeleteTunnel, WriteStatus, WriteSpec, Release, Panic,
           TypeOK, JobOK, Job
<1>2. /\ Answering /\ JobStage /\ FreshSeen
      /\ j.status \in StatusRecord /\ j.spec \in SpecFields /\ job.mode \in Modes
    BY <1>1 DEF AllInv, RecordInv, LifeInv, Object, StatusFields, Job
<1>3. CASE AddFinalizer
  <2>1. job.mode = "none"
      BY <1>1, <1>2, <1>3 DEF AddFinalizer, JobStage, Early
  <2>2. \/ pc' = "idle"
        \/ job'.mode = "none" /\ job'.obj.deleting = j.deleting
      BY <1>1, <1>3, <2>1 DEF AddFinalizer, Update, Answer, Stop, Job, Object
  <2> QED
      BY <1>1, <1>2, <2>1, <2>2 DEF Answering
<1>4. CASE DecideBuild
  <2> DEFINE s == [j.status EXCEPT
                     !.initialized = TRUE,
                     !.localGw = localExIp.gw,
                     !.remoteIP = remoteExIp[j.spec.peer],
                     !.remoteCIDR = CidrOf[j.spec.peer],
                     !.interfaceAddr = j.spec.interfaceAddr,
                     !.type = j.spec.type]
  <2>1. /\ pc = "decide" /\ remoteExIp[j.spec.peer] # None /\ ~j.status.initialized
        /\ job' = [job EXCEPT !.mode = "build", !.obj.status = s]
        /\ obj' = obj
      BY <1>4 DEF DecideBuild, MayBuild, PeerKnown, Local
  <2>2. /\ s.remoteIP # None /\ s.interfaceAddr = j.spec.interfaceAddr
        /\ s.remoteCIDR = CidrOf[j.spec.peer]
      BY <1>2, <2>1 DEF StatusRecord
  <2> HIDE DEF s
  <2>3. /\ job'.mode = "build" /\ job'.t = job.t /\ job'.fresh = job.fresh
        /\ job'.obj.status = s /\ job'.obj.spec = j.spec
        /\ job'.obj.deleting = j.deleting
      BY <1>1, <2>1 DEF Job, Object
  <2>4. job.mode = "none"
      BY <1>1, <1>2, <2>1 DEF JobStage, Early
  <2>5. job.fresh => ~obj'[job.t].status.initialized
      BY <1>1, <1>2, <2>1, <2>4 DEF FreshSeen
  <2> QED
      BY <1>1, <1>2, <2>2, <2>3, <2>4, <2>5 DEF Answering
<1>5. CASE DecideUpdate
  <2>1. pc = "decide" /\ pc' = "getPod" /\ job.mode = "none"
      BY <1>1, <1>2, <1>5 DEF DecideUpdate, JobStage, Early
  <2>2. /\ job'.mode \in {"rebuild", "move"}
        /\ job'.obj.deleting = j.deleting /\ job'.obj.spec = j.spec
        /\ job'.obj.status.localGw = j.spec.localGw
    <3>1. CASE SameGateway(j)
        BY <1>1, <1>5, <3>1 DEF DecideUpdate, SameGateway, Job
    <3>2. CASE ~SameGateway(j)
        BY <1>1, <1>2, <1>5, <3>2 DEF DecideUpdate, Job, Object, StatusRecord
    <3> QED
        BY <3>1, <3>2
  <2> QED
      BY <1>1, <1>2, <2>1, <2>2 DEF Answering, Late
<1>6. CASE GetNatGwPod
  <2> DEFINE g == j.status.localGw
             s == CASE job.mode = "build" -> FromPod(j, g)
                    [] job.mode = "move"  -> FromSpec(j)
                    [] OTHER              -> j.status
  <2>1. CASE pc' = "idle"
      BY <2>1 DEF Answering
  <2>2. CASE pc' # "idle"
    <3>1. /\ pc = "getPod" /\ obj' = obj
          /\ pc' = IF job.mode \in {"rebuild", "delete"} THEN "delRoute" ELSE "create"
          /\ job' = [job EXCEPT !.gw = g, !.intact = TRUE, !.obj.status = s]
        BY <1>6, <2>2 DEF GetNatGwPod, Stop, Local
    <3>2. job.mode = "build" => /\ s.remoteIP = j.status.remoteIP
                                /\ s.interfaceAddr = j.status.interfaceAddr
                                /\ s.remoteCIDR = j.status.remoteCIDR
        BY <1>2 DEF FromPod, StatusRecord
    <3>3. job.mode = "move" => s = FromSpec(j)
        OBVIOUS
    <3>4. job.mode \notin {"build", "move"} => s = j.status
        OBVIOUS
    <3> HIDE DEF s
    <3>5. /\ job'.mode = job.mode /\ job'.t = job.t /\ job'.fresh = job.fresh
          /\ job'.obj.status = s /\ job'.obj.spec = j.spec
          /\ job'.obj.deleting = j.deleting
        BY <1>1, <3>1 DEF Job, Object
    <3>6. CASE job.mode = "build"
        BY <1>1, <1>2, <3>1, <3>2, <3>5, <3>6 DEF Answering
    <3>7. CASE job.mode = "move"
      <4>1. /\ s.localGw = j.status.localGw /\ s.remoteIP = j.spec.remoteIP
            /\ s.internalIP = j.spec.internalIP
            /\ s.interfaceAddr = j.spec.interfaceAddr
            /\ s.remoteCIDR = CidrOf[j.spec.peer]
          BY <1>2, <3>3, <3>7 DEF FromSpec, StatusRecord
      <4> QED
          BY <1>1, <1>2, <3>5, <3>7, <4>1 DEF Answering
    <3>8. CASE job.mode \notin {"build", "move"}
        BY <1>1, <1>2, <3>1, <3>4, <3>5, <3>8 DEF Answering, Late
    <3> QED
        BY <3>6, <3>7, <3>8
  <2> QED
      BY <2>1, <2>2
<1>7. CASE ExecCreateTunnel \/ ExecAddRoute \/ ExecDelRoute
  <2>1. /\ pc' = "idle" \/ job' = job
        /\ obj' = obj /\ pc # "writeSpec" /\ (pc' \in Late => pc \in Late)
      BY <1>7 DEF ExecCreateTunnel, ExecAddRoute, ExecDelRoute, Exec, Answer, Stop, Late
  <2> QED
      BY <1>1, <1>2, <2>1, AnswersStand
<1>8. CASE ExecDeleteTunnel
  <2>1. job.mode # "build" /\ pc = "delTunnel"
      BY <1>1, <1>2, <1>8 DEF ExecDeleteTunnel, JobStage, Late
  <2>2. CASE job.mode = "delete"
    <3>1. pc' = "idle" \/ job' = job
        BY <1>8, <2>2 DEF ExecDeleteTunnel, Exec, Answer, Stop
    <3> QED
        BY <1>1, <1>2, <2>2, <3>1, AnswersStand
  <2>3. CASE job.mode # "delete"
    <3> DEFINE s == FromSpec(j)
    <3>1. pc' = "idle" \/ job' = [job EXCEPT !.obj.status = s]
        BY <1>8, <2>3 DEF ExecDeleteTunnel, Exec, Answer, Stop
    <3>2. /\ s.localGw = j.status.localGw /\ s.remoteIP = j.spec.remoteIP
          /\ s.internalIP = j.spec.internalIP
          /\ s.interfaceAddr = j.spec.interfaceAddr
          /\ s.remoteCIDR = CidrOf[j.spec.peer]
        BY <1>2 DEF FromSpec, StatusRecord
    <3> HIDE DEF s
    <3>3. \/ pc' = "idle"
          \/ /\ job'.mode = job.mode /\ job'.obj.status = s
             /\ job'.obj.spec = j.spec /\ job'.obj.deleting = j.deleting
        BY <1>1, <3>1 DEF Job, Object
    <3> QED
        BY <1>1, <1>2, <2>1, <2>3, <3>2, <3>3 DEF Answering
  <2> QED
      BY <2>2, <2>3
<1>9. CASE WriteStatus
  <2>1. /\ pc = "writeStatus"
        /\ pc' = "idle" \/ (pc' = "writeSpec" /\ job'.mode = job.mode /\ job'.obj = j)
      BY <1>1, <1>9 DEF WriteStatus, AfterStatus, Update, Answer, Stop, Job
  <2> QED
      BY <1>1, <1>2, <2>1, AnswersStand DEF Late
<1>10. CASE DecideRevert
  <2>1. job' = job /\ obj' = obj /\ pc = "decide" /\ pc' = "revertType"
      BY <1>10 DEF DecideRevert, Local
  <2> QED
      BY <1>1, <1>2, <2>1, AnswersStand DEF Late
<1>11. CASE DecideNothing \/ RevertType \/ WriteSpec \/ Release \/ Panic
  <2>1. pc' = "idle"
      BY <1>11 DEF DecideNothing, RevertType, WriteSpec, Release, Panic, Restart,
                   Update, Answer, Stop
  <2> QED
      BY <2>1 DEF Answering
<1> QED
    BY <1>3, <1>4, <1>5, <1>6, <1>7, <1>8, <1>9, <1>10, <1>11 DEF WorkerStep

LEMMA AnswersKept ==
    ASSUME TypeOK, AllInv, [Next]_vars
    PROVE  Answering'
<1>1. CASE WorkerStep
    BY <1>1, WorkerAnswers
<1>2. ASSUME NEW t \in Tunnel, Begin(t)
      PROVE  Answering'
  <2>1. job'.mode = IF job'.obj.deleting THEN "delete" ELSE "none"
      BY <1>2 DEF Begin
  <2> QED
      BY <2>1 DEF Answering
<1>3. CASE CallFails \/ Crash
    BY <1>3 DEF CallFails, Crash, Restart, Stop, Answering
<1>4. CASE User \/ Cluster
  <2>1. pc' = pc
      BY <1>4, OthersStep
  <2>2. CASE pc = "idle"
      BY <2>1, <2>2 DEF Answering
  <2>3. CASE pc # "idle"
      BY <1>4, <2>1, <2>3, OthersStep, OthersFresh, AnswersStand DEF AllInv, LifeInv
  <2> QED
      BY <2>2, <2>3
<1>5. CASE UNCHANGED <<obj, pc, job>>
    BY <1>5 DEF AllInv, LifeInv, Answering
<1> QED
    BY <1>1, <1>2, <1>3, <1>4, <1>5 DEF Next, SyncCache, vars

LEMMA PlacedPut ==
    ASSUME TypeOK, PeerPlaced, NEW t \in Tunnel, NEW o, obj' = [obj EXCEPT ![t] = o],
           o # None /\ o.label # None => o.spec.remoteIP # None
    PROVE  PeerPlaced'
<1>1. \A u \in Tunnel : obj'[u] = IF u = t THEN o ELSE obj[u]
    BY DEF TypeOK
<1> QED
    BY <1>1 DEF PeerPlaced

LEMMA WorkerPlaces ==
    ASSUME TypeOK, AllInv, Writes
    PROVE  PeerPlaced'
<1> USE DEF Writes
<1> DEFINE j == job.obj
<1>1. pc # "idle" /\ job \in Job /\ j \in Object /\ j.spec \in SpecFields
    BY DEF AddFinalizer, RevertType, WriteStatus, WriteSpec, Release, TypeOK, JobOK,
           Job, Object
<1>2. PICK o : /\ \E next : Update(o, next)
               /\ o # None /\ o.label # None =>
                     \/ o.spec.remoteIP # None
                     \/ j.label # None /\ o.spec.remoteIP = j.spec.remoteIP
  <2>1. CASE AddFinalizer
    <3> DEFINE o == [j EXCEPT !.finalizer = TRUE]
    <3>1. o.label = j.label /\ o.spec = j.spec /\ Update(o, "decide")
        BY <1>1, <2>1 DEF AddFinalizer, Object
    <3> HIDE DEF o
    <3> QED
        BY <3>1
  <2>2. CASE RevertType
    <3> DEFINE o == [j EXCEPT !.spec.type = j.status.type]
    <3>1. /\ o.label = j.label /\ o.spec.remoteIP = j.spec.remoteIP
          /\ Update(o, "idle")
        BY <1>1, <2>2 DEF RevertType, Object, SpecFields
    <3> HIDE DEF o
    <3> QED
        BY <3>1
  <2>3. CASE WriteStatus
      BY <2>3 DEF WriteStatus
  <2>4. CASE WriteSpec /\ job.mode = "build"
    <3> DEFINE o == [j EXCEPT !.label = j.spec.peer,
                              !.spec.internalIP = j.status.internalIP,
                              !.spec.localGw = j.status.localGw,
                              !.spec.remoteIP = j.status.remoteIP]
    <3>1. o.spec.remoteIP = j.status.remoteIP
        BY <1>1 DEF Object, SpecFields
    <3>2. Update(o, "idle")
        BY <2>4 DEF WriteSpec
    <3>3. j.status.remoteIP # None
        BY <1>1, <2>4 DEF AllInv, LifeInv, Answering
    <3> HIDE DEF o
    <3> QED
        BY <3>1, <3>2, <3>3
  <2>5. CASE WriteSpec /\ job.mode # "build"
    <3> DEFINE o == [j EXCEPT !.label = j.spec.peer]
    <3>1. o.spec = j.spec
        BY <1>1 DEF Object
    <3>2. Update(o, "idle") /\ pc = "writeSpec"
        BY <2>5 DEF WriteSpec
    <3>3. job.mode \in {"rebuild", "move"}
        BY <1>1, <2>5, <3>2 DEF AllInv, RecordInv, JobStage, Early, Deleting, Job, Modes
    <3>4. j.label # None
        BY <1>1, <3>3 DEF AllInv, ContractInv, JobPromises
    <3> HIDE DEF o
    <3> QED
        BY <3>1, <3>2, <3>4
  <2>6. CASE Release
      BY <2>6 DEF Release
  <2> QED
      BY <2>1, <2>2, <2>3, <2>4, <2>5, <2>6
<1>3. /\ job.t \in Tunnel
      /\ obj' = obj \/ (job.fresh /\ obj' = [obj EXCEPT ![job.t] = o])
    BY <1>1, <1>2, UpdateWrites
<1>4. CASE obj' = obj
    BY <1>4 DEF AllInv, LifeInv, PeerPlaced
<1>5. CASE job.fresh /\ obj' = [obj EXCEPT ![job.t] = o]
  <2>1. obj[job.t] # None /\ j.label = obj[job.t].label /\ j.spec = obj[job.t].spec
      BY <1>1, <1>5, FreshAsks
  <2>2. j.label # None => j.spec.remoteIP # None
      BY <1>3, <2>1 DEF AllInv, LifeInv, PeerPlaced
  <2>3. o # None /\ o.label # None => o.spec.remoteIP # None
      BY <1>2, <2>2
  <2> QED
      BY <1>3, <1>5, <2>3, PlacedPut DEF AllInv, LifeInv
<1> QED
    BY <1>3, <1>4, <1>5

LEMMA OthersPlace ==
    ASSUME TypeOK, AllInv, User \/ Patches
    PROVE  PeerPlaced'
<1> USE DEF AllInv, LifeInv
<1>1. ASSUME NEW t \in Tunnel, NEW o, PutOther(t, o),
             o # None /\ o.label # None =>
                \/ o.spec.remoteIP # None
                \/ /\ obj[t] # None /\ obj[t].label # None
                   /\ o.spec.remoteIP = obj[t].spec.remoteIP
      PROVE  PeerPlaced'
  <2>1. obj' = [obj EXCEPT ![t] = o]
      BY <1>1 DEF PutOther, Put
  <2>2. o # None /\ o.label # None => o.spec.remoteIP # None
      BY <1>1 DEF PeerPlaced
  <2> QED
      BY <2>1, <2>2, PlacedPut
<1>2. ASSUME NEW t \in Tunnel, obj[t] # None
      PROVE  obj[t] \in Object /\ obj[t].spec \in SpecFields
    BY <1>2 DEF TypeOK, Object
<1>3. ASSUME NEW t \in Tunnel, UserDeletes(t)
      PROVE  PeerPlaced'
  <2> DEFINE o == [obj[t] EXCEPT !.deleting = TRUE]
  <2>1. o.spec = obj[t].spec /\ o.label = obj[t].label
      BY <1>2, <1>3 DEF UserDeletes, Object
  <2>2. obj[t] # None /\ (PutOther(t, o) \/ PutOther(t, None))
      BY <1>3 DEF UserDeletes
  <2> HIDE DEF o
  <2> QED
      BY <1>1, <2>1, <2>2
<1>4. ASSUME NEW t \in Tunnel, NEW p \in Peer, NEW a \in Addr, NEW ty \in Type,
             UserCreates(t, p, a, ty)
      PROVE  PeerPlaced'
  <2>1. PutOther(t, NewObject(p, a, ty)) /\ NewObject(p, a, ty).label = None
      BY <1>4 DEF UserCreates, NewObject
  <2> QED
      BY <1>1, <2>1
<1>5. ASSUME NEW t \in Tunnel, NEW p \in Peer, NEW a \in Addr, NEW ty \in Type,
             UserEdits(t, p, a, ty)
      PROVE  PeerPlaced'
  <2> DEFINE o == [obj[t] EXCEPT !.spec.peer = p, !.spec.interfaceAddr = a,
                                 !.spec.type = ty]
  <2>1. /\ o.spec.remoteIP = obj[t].spec.remoteIP /\ o.label = obj[t].label
      BY <1>2, <1>5 DEF UserEdits, Object, SpecFields
  <2>2. obj[t] # None /\ PutOther(t, o)
      BY <1>5 DEF UserEdits
  <2> HIDE DEF o
  <2> QED
      BY <1>1, <2>1, <2>2
<1>6. ASSUME NEW t \in Tunnel, SyncerPatches(t)
      PROVE  PeerPlaced'
  <2> DEFINE o == [obj[t] EXCEPT !.spec.remoteIP = remoteExIp[obj[t].label]]
  <2>1. o.spec.remoteIP # None
      BY <1>2, <1>6 DEF SyncerPatches, Object, SpecFields
  <2>2. PutOther(t, o)
      BY <1>6 DEF SyncerPatches
  <2> HIDE DEF o
  <2> QED
      BY <1>1, <2>1, <2>2
<1>7. ASSUME NEW t \in Tunnel, InformerPatches(t)
      PROVE  PeerPlaced'
  <2> DEFINE r == [obj[t] EXCEPT !.spec.internalIP = localExIp.ip]
             m == [r EXCEPT !.spec.localGw = localExIp.gw]
  <2>1. obj[t] # None /\ obj[t].label # None /\ (PutOther(t, r) \/ PutOther(t, m))
      BY <1>7 DEF InformerPatches
  <2>2. /\ r.spec.remoteIP = obj[t].spec.remoteIP
        /\ m.spec.remoteIP = obj[t].spec.remoteIP
      BY <1>2, <2>1 DEF Object, SpecFields
  <2> HIDE DEF r, m
  <2> QED
      BY <1>1, <2>1, <2>2
<1> QED
    BY <1>3, <1>4, <1>5, <1>6, <1>7 DEF User, Patches

LEMMA LifeInvKept ==
    ASSUME TypeOK, AllInv, [Next]_vars
    PROVE  LifeInv'
<1>1. CASE Writes
    BY <1>1, AnswersKept, WorkerPlaces DEF LifeInv
<1>2. CASE User \/ Patches
    BY <1>2, AnswersKept, OthersPlace DEF LifeInv
<1>3. CASE obj' = obj
    BY <1>3, AnswersKept DEF AllInv, LifeInv, PeerPlaced
<1> QED
    BY <1>1, <1>2, <1>3, ObjectWritten

LEMMA LifeInvariance == Spec => [](TypeOK /\ AllInv)
<1>1. Init => LifeInv
    BY InitLives
<1>2. TypeOK /\ AllInv /\ [Next]_vars => LifeInv'
    BY LifeInvKept
<1> QED
    BY <1>1, <1>2, ContractInvariance, PTL DEF Spec, AllInv

\* No step of the whole system takes an object back in its life, or records anything
\* but what is asked for as a whole at the moment of the write, of the type recorded
\* before: every step is one of TunnelLife's, or changes no object.  The reconcile that
\* writes has read the object, and computed what it records, any number of calls ago.
THEOREM LivedInOrder == Spec => LivesInOrder
<1>1. Init => TL!Init
    BY InitLives
<1>2. TypeOK /\ AllInv /\ [Next]_vars => [TL!Next]_Lives
    BY LifeStep
<1> QED
    BY <1>1, <1>2, LifeInvariance, PTL DEF Spec, LivesInOrder, TL!Spec
===============================================================================
