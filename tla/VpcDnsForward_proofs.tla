------------------------- MODULE VpcDnsForward_proofs -------------------------
(***************************************************************************)
(* Theorems about the VpcDnsForward reconciler, for any objects and VPCs   *)
(* and any bound on faults, events and changes.                            *)
(***************************************************************************)
EXTENDS VpcDnsForward, TLAPS

-------------------------------------------------------------------------------
(* The invariant *)

Owner(f) == fwd[f] # None /\ fwd[f].finalizer

\* A cached object that has the finalizer and is not being deleted still has it, and
\* a copy held to be current is current.
CacheOwned ==
    \A f \in Forward :
        LET o == seenFwd[f].val IN
        /\ o # None /\ o.finalizer /\ ~o.deleting =>
             Owner(f) /\ (changes = 0 => fwd[f].vpc = o.vpc)
        /\ seenFwd[f].fresh => o = fwd[f]

\* So is the copy a reconcile works on; a deletion's is also the one in the cache.
JobCurrent ==
    pc # "idle" /\ job.fresh =>
        /\ fwd[job.f] = job.obj
        /\ job.obj.deleting => seenFwd[job.f].fresh

\* What is connected has the finalizer, and nobody takes it away meanwhile.
ConnectOwned ==
    pc \notin {"idle", "finalize"} /\ ~job.obj.deleting =>
        Owner(job.f) /\ (changes = 0 => fwd[job.f].vpc = job.obj.vpc)

\* A deletion goes from the Deployment to the finalizer.
DeleteOrder ==
    /\ pc # "idle" /\ job.obj.deleting =>
         pc \in {"readDeployment", "writeDeployment", "release"}
    /\ pc = "release" => job.obj.deleting /\ ~routed[job.obj.vpc]

\* The Corefile never loses its forward, and is seen or written before the Deployment.
CorefileDone ==
    /\ seenCorefile.val > 0 => corefile > 0
    /\ pc \in {"readDeployment", "writeDeployment"} /\ ~job.obj.deleting => corefile > 0

IInv ==
    /\ TypeOK /\ CacheOwned /\ JobCurrent /\ ConnectOwned /\ DeleteOrder /\ CorefileDone
    /\ ForwardedBeforeRouted /\ RoutesOwned

LEMMA InitInv == Init => IInv
<1> SUFFICES ASSUME Init PROVE IInv
    OBVIOUS
<1>1. TypeOK
    BY DEF Init, TypeOK, Cached
<1> QED
    BY <1>1 DEF Init, IInv, CacheOwned, JobCurrent, ConnectOwned, DeleteOrder, CorefileDone,
                ForwardedBeforeRouted, RoutesOwned

-------------------------------------------------------------------------------
(* Ends of steps *)

LEMMA AnswerCases ==
    ASSUME TypeOK, NEW next, NEW j, Answer(next, j)
    PROVE  /\ \/ pc' = "idle" /\ job' = None
              \/ next # "idle" /\ pc' = next /\ job' = j
           /\ faults' \in Nat
    BY DEF Answer, Stop, Fault, TypeOK

LEMMA StopInv ==
    ASSUME IInv, Stop, UNCHANGED <<api, seen, active, count>>, faults' \in Nat
    PROVE  IInv'
<1>1. TypeOK'
    BY DEF IInv, TypeOK, Stop, api, seen, count
<1> QED
    BY <1>1 DEF IInv, CacheOwned, JobCurrent, ConnectOwned, DeleteOrder, CorefileDone,
                ForwardedBeforeRouted, RoutesOwned, Owner, Stop, api, seen, count

-------------------------------------------------------------------------------
(* The reads *)

LEMMA BeginInv ==
    ASSUME IInv, NEW f \in Forward, Begin(f)
    PROVE  IInv'
<1> DEFINE o == seenFwd[f].val
<1>1. o \in Object /\ seenFwd[f].fresh \in BOOLEAN
    BY DEF Begin, IInv, TypeOK, Cached
<1>2. /\ job'.f = f /\ job'.obj = o /\ job'.fresh = seenFwd[f].fresh
      /\ job' \in Job
    BY <1>1 DEF Begin, Job, Cached, Unread
<1>3. UNCHANGED <<api, seen, active, faults, count>> /\ pc = "idle"
    BY DEF Begin, Local
<1>4. /\ pc' \in {"readDeployment", "finalize", "check"}
      /\ pc' = "readDeployment" <=> o.deleting
      /\ pc' = "check" => o.finalizer
    BY <1>1 DEF Begin, Object
<1>5. /\ o.finalizer /\ ~o.deleting =>
           Owner(f) /\ (changes = 0 => fwd[f].vpc = o.vpc)
      /\ seenFwd[f].fresh => o = fwd[f]
    BY DEF IInv, CacheOwned, Begin
<1> HIDE DEF o
<1>6. TypeOK'
    BY <1>2, <1>3, <1>4 DEF IInv, TypeOK, Steps, api, seen, count
<1>7. CacheOwned' /\ ForwardedBeforeRouted' /\ RoutesOwned'
    BY <1>3 DEF IInv, CacheOwned, ForwardedBeforeRouted, RoutesOwned, Owner, api, seen, count
<1>8. JobCurrent' /\ ConnectOwned'
    BY <1>5, <1>2, <1>3, <1>4 DEF JobCurrent, ConnectOwned, Owner, api, seen, count
<1>9. DeleteOrder' /\ CorefileDone'
    BY <1>2, <1>3, <1>4 DEF IInv, DeleteOrder, CorefileDone, api, seen
<1> QED
    BY <1>6, <1>7, <1>8, <1>9 DEF IInv

LEMMA CheckInv ==
    ASSUME IInv, CheckDnsCorefile
    PROVE  IInv'
<1>1. /\ pc = "check" /\ job' = job /\ pc' \in {"readDeployment", "readCorefile"}
      /\ pc' = "readDeployment" => seenCorefile.val > 0
      /\ UNCHANGED <<api, seen, active, faults, count>>
    BY DEF CheckDnsCorefile, AfterCheck, Local
<1>2. TypeOK'
    BY <1>1 DEF IInv, TypeOK, Steps, api, seen, count
<1> QED
    BY <1>1, <1>2 DEF IInv, CacheOwned, JobCurrent, ConnectOwned, DeleteOrder, CorefileDone,
                      ForwardedBeforeRouted, RoutesOwned, Owner, api, seen, count

LEMMA ReadCorefileInv ==
    ASSUME IInv, ReadCorefile
    PROVE  IInv'
<1>1. /\ pc = "readCorefile" /\ pc' = "writeCorefile"
      /\ job' \in Job
      /\ job'.f = job.f /\ job'.obj = job.obj /\ job'.fresh = job.fresh
      /\ UNCHANGED <<api, seen, active, faults, count>>
    BY DEF ReadCorefile, Local, IInv, TypeOK, Job
<1>2. TypeOK'
    BY <1>1 DEF IInv, TypeOK, Steps, api, seen, count
<1> QED
    BY <1>1, <1>2 DEF IInv, CacheOwned, JobCurrent, ConnectOwned, DeleteOrder, CorefileDone,
                      ForwardedBeforeRouted, RoutesOwned, Owner, api, seen, count

LEMMA ReadDeploymentInv ==
    ASSUME IInv, ReadDeployment
    PROVE  IInv'
<1>1. CASE job.obj.vpc \notin active
    BY <1>1, StopInv DEF ReadDeployment, Local, IInv, TypeOK
<1>2. CASE job.obj.vpc \in active
  <2>1. seenRouted[job.obj.vpc] \in Cached(BOOLEAN)
      BY DEF ReadDeployment, IInv, TypeOK, Job, Object
  <2>2. /\ pc = "readDeployment" /\ pc' = "writeDeployment"
        /\ job' \in Job
        /\ job'.f = job.f /\ job'.obj = job.obj /\ job'.fresh = job.fresh
        /\ UNCHANGED <<api, seen, active, faults, count>>
      BY <1>2, <2>1 DEF ReadDeployment, Local, IInv, TypeOK, Job
  <2>3. TypeOK'
      BY <2>2 DEF IInv, TypeOK, Steps, api, seen, count
  <2> QED
      BY <2>2, <2>3 DEF IInv, CacheOwned, JobCurrent, ConnectOwned, DeleteOrder, CorefileDone,
                        ForwardedBeforeRouted, RoutesOwned, Owner, api, seen, count
<1> QED
    BY <1>1, <1>2

-------------------------------------------------------------------------------
(* The writes *)

LEMMA FinalizeInv ==
    ASSUME IInv, AddFinalizer
    PROVE  IInv'
<1> DEFINE o == [job.obj EXCEPT !.finalizer = TRUE]
<1>1. pc = "finalize" /\ Update(o, "check")
    BY DEF AddFinalizer
<1>2. CASE ~job.fresh
    BY <1>1, <1>2, StopInv DEF Update, Refused, IInv, TypeOK, count
<1>3. CASE job.fresh
  <2>1. /\ o \in Object /\ o.finalizer /\ o.deleting = job.obj.deleting
        /\ o.vpc = job.obj.vpc /\ fwd[job.f] = job.obj /\ job.f \in Forward
        /\ ~job.obj.deleting
      BY <1>1, <1>3 DEF IInv, TypeOK, JobCurrent, DeleteOrder, Job, Object
  <2>2. /\ [job EXCEPT !.obj = o] \in Job
        /\ \/ pc' = "idle" /\ job' = None
           \/ pc' = "check" /\ job' = [job EXCEPT !.obj = o]
        /\ faults' \in Nat
      BY <1>1, <1>3, <2>1, AnswerCases DEF Update, IInv, TypeOK, Job
  <2>3. /\ fwd' = [fwd EXCEPT ![job.f] = o]
        /\ seenFwd' = [seenFwd EXCEPT ![job.f].fresh = FALSE]
        /\ UNCHANGED <<corefile, routed, seenCorefile, seenRouted, active, count>>
      BY <1>1, <1>3 DEF Update
  <2>4. pc' = "check" =>
          job'.f = job.f /\ job'.obj = o /\ job'.fresh = job.fresh
      BY <2>2 DEF IInv, TypeOK, Job
  <2>5. fwd'[job.f] = o
      BY <2>1, <2>3 DEF IInv, TypeOK
  <2> HIDE DEF o
  <2>6. TypeOK'
      BY <1>1, <2>1, <2>2, <2>3 DEF IInv, TypeOK, Steps, Cached, count
  <2>7. CacheOwned'
    <3>1. /\ o # None
          /\ \A g \in Forward \ {job.f} : fwd'[g] = fwd[g]
          /\ \A g \in Forward :
               /\ seenFwd'[g].val = seenFwd[g].val
               /\ seenFwd'[g].fresh => seenFwd[g].fresh /\ g # job.f
        BY <2>1, <2>3, ConstantsOK DEF IInv, TypeOK, Cached
    <3> QED
        BY <2>1, <2>3, <2>5, <3>1 DEF IInv, CacheOwned, Owner, count
  <2>8. JobCurrent' /\ ConnectOwned'
      BY <2>4, <2>1, <2>2, <2>5, ConstantsOK DEF JobCurrent, ConnectOwned, Owner
  <2>9. DeleteOrder' /\ CorefileDone' /\ ForwardedBeforeRouted'
      BY <1>1, <2>1, <2>2, <2>3
         DEF IInv, TypeOK, DeleteOrder, CorefileDone, ForwardedBeforeRouted, Job
  <2>10. RoutesOwned'
      BY <2>1, <2>3, ConstantsOK DEF IInv, TypeOK, RoutesOwned, count
  <2> QED
      BY <2>6, <2>7, <2>8, <2>9, <2>10 DEF IInv
<1> QED
    BY <1>2, <1>3

LEMMA CorefileInv ==
    ASSUME IInv, WriteCorefile
    PROVE  IInv'
<1>1. CASE ~job.corefile.fresh
    BY <1>1, StopInv DEF WriteCorefile, Refused, IInv, TypeOK, count
<1>2. CASE job.corefile.fresh
  <2>1. /\ pc = "writeCorefile"
        /\ \/ pc' = "idle" /\ job' = None
           \/ pc' = "readDeployment" /\ job' = job
        /\ faults' \in Nat
      BY <1>2, AnswerCases DEF WriteCorefile, IInv
  <2>2. corefile' \in Nat /\ corefile' > 0
      BY <1>2 DEF WriteCorefile, IInv, TypeOK, Job, Cached
  <2>3. seenCorefile' \in Cached(Nat)
      BY <1>2 DEF WriteCorefile, IInv, TypeOK, Cached
  <2>4. UNCHANGED <<fwd, routed, seenFwd, seenRouted, active, count>>
      BY <1>2 DEF WriteCorefile
  <2>5. TypeOK'
      BY <2>1, <2>2, <2>3, <2>4 DEF IInv, TypeOK, Steps, count
  <2> QED
      BY <2>1, <2>2, <2>4, <2>5
         DEF IInv, CacheOwned, JobCurrent, ConnectOwned, DeleteOrder, CorefileDone,
             ForwardedBeforeRouted, RoutesOwned, Owner, count
<1> QED
    BY <1>1, <1>2

LEMMA DeploymentInv ==
    ASSUME IInv, WriteDeployment
    PROVE  IInv'
<1>1. CASE ~job.routed.fresh
    BY <1>1, StopInv DEF WriteDeployment, DeploymentRefused, Refused, IInv, TypeOK, count
<1>2. CASE job.routed.fresh
  <2> DEFINE v == job.obj.vpc
  <2>1. /\ pc = "writeDeployment" /\ v \in Vpc /\ job \in Job /\ job.obj.deleting \in BOOLEAN
        /\ \/ pc' = "idle" /\ job' = None
           \/ job.obj.deleting /\ pc' = "release" /\ job' = job
        /\ faults' \in Nat
      BY <1>2, AnswerCases DEF WriteDeployment, IInv, TypeOK, Job, Object
  <2>2. /\ routed' = [routed EXCEPT ![v] = ~job.obj.deleting]
        /\ UNCHANGED <<fwd, corefile, seenFwd, seenCorefile, active, count>>
      BY <1>2 DEF WriteDeployment, RouteWanted
  <2>3. seenRouted' \in [Vpc -> Cached(BOOLEAN)]
    <3> DEFINE b == seenRouted[v].fresh /\ routed' = routed
    <3>1. b \in BOOLEAN /\ seenRouted' = [seenRouted EXCEPT ![v].fresh = b]
        BY <1>2, <2>1 DEF WriteDeployment, IInv, TypeOK, Cached
    <3> HIDE DEF b
    <3> QED
        BY <3>1, <2>1 DEF IInv, TypeOK, Cached
  <2> HIDE DEF v
  <2>4. routed' \in [Vpc -> BOOLEAN] /\ \A w \in Vpc \ {v} : routed'[w] = routed[w]
      BY <2>1, <2>2 DEF IInv, TypeOK
  <2>5. routed'[v] = ~job.obj.deleting
      BY <2>1, <2>2 DEF IInv, TypeOK
  <2>6. TypeOK'
      BY <2>1, <2>2, <2>3, <2>4 DEF IInv, TypeOK, Steps, count
  <2>7. CacheOwned' /\ JobCurrent' /\ ConnectOwned' /\ CorefileDone'
      BY <2>1, <2>2
         DEF IInv, CacheOwned, JobCurrent, ConnectOwned, CorefileDone, Owner, count
  <2>8. DeleteOrder'
      BY <2>1, <2>5 DEF DeleteOrder, v
  <2>9. ForwardedBeforeRouted'
      BY <2>1, <2>2, <2>4, <2>5 DEF IInv, CorefileDone, ForwardedBeforeRouted
  <2>10. RoutesOwned'
    <3>1. ~job.obj.deleting /\ changes = 0 =>
            job.f \in Forward /\ Owner(job.f) /\ fwd[job.f].vpc = v
        BY <2>1 DEF IInv, ConnectOwned, Job, v
    <3> QED
        BY <2>1, <2>2, <2>4, <2>5, <3>1 DEF IInv, RoutesOwned, Owner, count
  <2> QED
      BY <2>6, <2>7, <2>8, <2>9, <2>10 DEF IInv
<1> QED
    BY <1>1, <1>2

LEMMA ReleaseInv ==
    ASSUME IInv, Release
    PROVE  IInv'
<1>1. pc = "release" /\ Update(None, "idle")
    BY DEF Release
<1>2. CASE ~job.fresh
    BY <1>1, <1>2, StopInv DEF Update, Refused, IInv, TypeOK, count
<1>3. CASE job.fresh
  <2>1. pc' = "idle" /\ job' = None /\ faults' \in Nat
      BY <1>1, <1>3, AnswerCases DEF Update, IInv
  <2>2. /\ fwd' = [fwd EXCEPT ![job.f] = None]
        /\ seenFwd' = [seenFwd EXCEPT ![job.f].fresh = FALSE]
        /\ UNCHANGED <<corefile, routed, seenCorefile, seenRouted, active, count>>
      BY <1>1, <1>3 DEF Update
  <2>3. /\ job.f \in Forward /\ job.obj \in Object
        /\ fwd[job.f] = job.obj /\ seenFwd[job.f].val = job.obj
        /\ job.obj.deleting /\ ~routed[job.obj.vpc]
      BY <1>1, <1>3 DEF IInv, TypeOK, Job, JobCurrent, DeleteOrder, CacheOwned
  <2>4. TypeOK'
      BY <2>1, <2>2, <2>3 DEF IInv, TypeOK, Cached, count
  <2>5. CacheOwned'
      BY <2>2, <2>3 DEF IInv, TypeOK, CacheOwned, Owner, Cached, count
  <2>6. RoutesOwned'
      BY <2>2, <2>3 DEF IInv, TypeOK, RoutesOwned, count
  <2> QED
      BY <2>1, <2>2, <2>4, <2>5, <2>6
         DEF IInv, JobCurrent, ConnectOwned, DeleteOrder, CorefileDone, ForwardedBeforeRouted
<1> QED
    BY <1>2, <1>3

-------------------------------------------------------------------------------
(* Failures, the cache, and the others *)

LEMMA FailuresInv ==
    ASSUME IInv, CallFails \/ Restart
    PROVE  IInv'
<1>1. faults' \in Nat /\ Stop /\ UNCHANGED <<api, active, count>>
    BY DEF CallFails, Restart, Fault, IInv, TypeOK
<1>2. CASE CallFails
    BY <1>1, <1>2, StopInv DEF CallFails
<1>3. CASE Restart
  <2>1. TypeOK'
      BY <1>1, <1>3 DEF Restart, Stop, IInv, TypeOK, Cached, api, count
  <2>2. /\ pc' = "idle" /\ seenCorefile'.val = corefile
        /\ \A f \in Forward : seenFwd'[f].val = fwd[f]
        /\ UNCHANGED <<fwd, corefile, routed, changes>>
      BY <1>3 DEF Restart, Stop, api, count
  <2>3. CacheOwned' /\ CorefileDone'
      BY <2>2 DEF CacheOwned, CorefileDone, Owner
  <2> QED
      BY <2>1, <2>2, <2>3
         DEF IInv, JobCurrent, ConnectOwned, DeleteOrder, ForwardedBeforeRouted, RoutesOwned
<1> QED
    BY <1>2, <1>3

LEMMA SyncInv ==
    ASSUME IInv, Sync
    PROVE  IInv'
<1>1. UNCHANGED <<api, active, pc, job, faults, count>>
    BY DEF Sync, SyncCorefile, SyncForward, SyncDeployment, Synced
<1>2. CASE SyncCorefile
  <2>1. TypeOK'
      BY <1>1, <1>2 DEF SyncCorefile, IInv, TypeOK, Cached, api, count
  <2> QED
      BY <1>1, <1>2, <2>1
         DEF SyncCorefile, IInv, CacheOwned, JobCurrent, ConnectOwned, DeleteOrder,
             CorefileDone, ForwardedBeforeRouted, RoutesOwned, Owner, api, count
<1>3. ASSUME NEW f \in Forward, SyncForward(f) PROVE IInv'
  <2>1. /\ seenFwd' = [seenFwd EXCEPT ![f] = [val |-> fwd[f], fresh |-> TRUE]]
        /\ UNCHANGED <<seenCorefile, seenRouted>>
      BY <1>3 DEF SyncForward
  <2>2. TypeOK'
      BY <1>1, <2>1 DEF IInv, TypeOK, Cached, api, count
  <2>3. CacheOwned' /\ JobCurrent'
      BY <1>1, <2>1 DEF IInv, TypeOK, CacheOwned, JobCurrent, Owner, Job, api, count
  <2> QED
      BY <1>1, <2>1, <2>2, <2>3
         DEF IInv, ConnectOwned, DeleteOrder, CorefileDone, ForwardedBeforeRouted,
             RoutesOwned, Owner, api, count
<1>4. ASSUME NEW v \in Vpc, SyncDeployment(v) PROVE IInv'
  <2>1. TypeOK'
      BY <1>1, <1>4 DEF SyncDeployment, IInv, TypeOK, Cached, api, count
  <2> QED
      BY <1>1, <1>4, <2>1
         DEF SyncDeployment, IInv, CacheOwned, JobCurrent, ConnectOwned, DeleteOrder,
             CorefileDone, ForwardedBeforeRouted, RoutesOwned, Owner, api, count
<1> QED
    BY <1>2, <1>3, <1>4 DEF Sync

\* Somebody else writes an object: a new one, a new VPC in it, or its deletion.
LEMMA PutOtherInv ==
    ASSUME IInv, NEW f \in Forward, NEW o \in Object \cup {None}, PutOther(f, o),
           events' \in Nat, changes' \in Nat,
           changes' = 0 => changes = 0,
           Owner(f) => o # None /\ o.finalizer,
           changes' = 0 /\ Owner(f) => o.vpc = fwd[f].vpc
    PROVE  IInv'
<1>1. /\ fwd' = [fwd EXCEPT ![f] = o]
      /\ seenFwd' = [seenFwd EXCEPT ![f].fresh = FALSE]
      /\ UNCHANGED <<corefile, routed, seenCorefile, seenRouted, active, pc, faults>>
    BY DEF PutOther
<1>2. /\ pc = "idle" => job' = job
      /\ pc # "idle" =>
           /\ job' \in Job /\ job'.f = job.f /\ job'.obj = job.obj
           /\ job'.fresh = (job.fresh /\ job.f # f)
    BY DEF PutOther, IInv, TypeOK, Job
<1>3. TypeOK'
    BY <1>1, <1>2 DEF IInv, TypeOK, Cached
<1>4. \A g \in Forward : Owner(g) =>
        Owner(g)' /\ (changes' = 0 => fwd'[g].vpc = fwd[g].vpc)
    BY <1>1 DEF IInv, TypeOK, Owner
<1>5. CacheOwned'
    BY <1>1, <1>4 DEF IInv, TypeOK, CacheOwned, Cached
<1>6. JobCurrent'
    BY <1>1, <1>2 DEF IInv, TypeOK, JobCurrent, Job, Cached
<1>7. ConnectOwned'
    BY <1>1, <1>2, <1>4 DEF IInv, TypeOK, ConnectOwned, Job
<1>8. DeleteOrder' /\ CorefileDone' /\ ForwardedBeforeRouted'
    BY <1>1, <1>2 DEF IInv, DeleteOrder, CorefileDone, ForwardedBeforeRouted
<1>9. RoutesOwned'
    BY <1>1, <1>4 DEF IInv, RoutesOwned, Owner
<1> QED
    BY <1>3, <1>5, <1>6, <1>7, <1>8, <1>9 DEF IInv

LEMMA UsersInv ==
    ASSUME IInv, NEW f \in Forward,
           UserDeletes(f) \/ \E v \in Vpc : UserCreates(f, v) \/ UserEdits(f, v)
    PROVE  IInv'
<1>1. events' \in Nat /\ changes' \in Nat /\ (changes' = 0 => changes = 0)
  <2>1. Event \/ Change
      BY DEF UserDeletes, UserCreates, UserEdits
  <2> QED
      BY <2>1 DEF Event, Change, IInv, TypeOK
<1>2. ASSUME NEW v \in Vpc, UserCreates(f, v) PROVE IInv'
  <2> DEFINE o == [vpc |-> v, finalizer |-> FALSE, deleting |-> FALSE]
  <2>1. o \in Object /\ PutOther(f, o) /\ ~Owner(f)
      BY <1>2 DEF UserCreates, Object, Owner
  <2> HIDE DEF o
  <2> QED
      BY <1>1, <2>1, PutOtherInv
<1>3. ASSUME NEW v \in Vpc, UserEdits(f, v) PROVE IInv'
  <2> DEFINE o == [fwd[f] EXCEPT !.vpc = v]
  <2>1. /\ o \in Object /\ PutOther(f, o) /\ (Owner(f) => o.finalizer)
        /\ changes' # 0
      BY <1>3 DEF UserEdits, Change, IInv, TypeOK, Object, Owner
  <2> HIDE DEF o
  <2> QED
      BY <1>1, <2>1, ConstantsOK, PutOtherInv
<1>4. ASSUME UserDeletes(f) PROVE IInv'
  <2>1. CASE fwd[f].finalizer
    <3> DEFINE o == [fwd[f] EXCEPT !.deleting = TRUE]
    <3>1. fwd[f] \in Object
        BY <1>4 DEF UserDeletes, IInv, TypeOK
    <3>2. PutOther(f, o)
        BY <1>4, <2>1 DEF UserDeletes
    <3>3. o \in Object /\ o.finalizer /\ o.vpc = fwd[f].vpc
        BY <2>1, <3>1 DEF Object
    <3> HIDE DEF o
    <3> QED
        BY <1>1, <3>2, <3>3, ConstantsOK, PutOtherInv
  <2>2. CASE ~fwd[f].finalizer
      BY <1>1, <1>4, <2>2, PutOtherInv DEF UserDeletes, Owner
  <2> QED
      BY <2>1, <2>2
<1> QED
    BY <1>2, <1>3, <1>4

LEMMA KubeOvnInv ==
    ASSUME IInv, NEW v \in Vpc, VpcDnsActive(v) \/ DeploymentRendered(v)
    PROVE  IInv'
<1>1. CASE VpcDnsActive(v)
  <2>1. TypeOK'
      BY <1>1 DEF VpcDnsActive, IInv, TypeOK, api, seen, count
  <2> QED
      BY <1>1, <2>1
         DEF VpcDnsActive, IInv, CacheOwned, JobCurrent, ConnectOwned, DeleteOrder,
             CorefileDone, ForwardedBeforeRouted, RoutesOwned, Owner, api, seen, count
<1>2. CASE DeploymentRendered(v)
  <2>1. /\ routed' = [routed EXCEPT ![v] = FALSE]
        /\ seenRouted' = [seenRouted EXCEPT ![v].fresh = FALSE]
        /\ UNCHANGED <<fwd, corefile, seenFwd, seenCorefile, active, pc, faults>>
        /\ changes' = changes + 1 /\ events' = events
      BY <1>2 DEF DeploymentRendered, Change
  <2>2. /\ pc = "idle" => job' = job
        /\ pc # "idle" =>
             job' \in Job /\ job'.f = job.f /\ job'.obj = job.obj /\ job'.fresh = job.fresh
      BY <1>2 DEF DeploymentRendered, IInv, TypeOK, Job, Cached
  <2>3. TypeOK'
    <3>1. routed' \in [Vpc -> BOOLEAN] /\ seenRouted' \in [Vpc -> Cached(BOOLEAN)]
        BY <2>1 DEF IInv, TypeOK, Cached
    <3>2. events' \in Nat /\ changes' \in Nat /\ (pc' = "idle" => job' = None)
        BY <2>1, <2>2 DEF IInv, TypeOK
    <3> QED
        BY <2>1, <2>2, <3>1, <3>2 DEF IInv, TypeOK
  <2>4. \A w \in Vpc : routed'[w] => routed[w]
      BY <2>1 DEF IInv, TypeOK
  <2>5. changes' # 0
      BY <2>1 DEF IInv, TypeOK
  <2>6. CacheOwned' /\ JobCurrent' /\ ConnectOwned' /\ CorefileDone'
      BY <2>1, <2>2, <2>5
         DEF IInv, CacheOwned, JobCurrent, ConnectOwned, CorefileDone, Owner
  <2>7. DeleteOrder'
      BY <2>1, <2>2, <2>4 DEF IInv, TypeOK, DeleteOrder, Job, Object
  <2>8. ForwardedBeforeRouted' /\ RoutesOwned'
      BY <2>1, <2>4, <2>5 DEF IInv, ForwardedBeforeRouted, RoutesOwned
  <2> QED
      BY <2>3, <2>6, <2>7, <2>8 DEF IInv
<1> QED
    BY <1>1, <1>2

LEMMA StutterInv ==
    ASSUME IInv, UNCHANGED vars
    PROVE  IInv'
    BY DEF IInv, TypeOK, CacheOwned, JobCurrent, ConnectOwned, DeleteOrder, CorefileDone,
           ForwardedBeforeRouted, RoutesOwned, Owner, vars, api, seen, count

LEMMA Invariance == Spec => []IInv
<1>1. ASSUME IInv, [Next]_vars PROVE IInv'
  <2>1. ASSUME WorkerStep PROVE IInv'
      BY <1>1, <2>1, FinalizeInv, CheckInv, ReadCorefileInv, CorefileInv, ReadDeploymentInv,
         DeploymentInv, ReleaseInv DEF WorkerStep
  <2>2. ASSUME Others PROVE IInv'
      BY <1>1, <2>2, UsersInv, KubeOvnInv DEF Others
  <2> QED
      BY <1>1, <2>1, <2>2, BeginInv, FailuresInv, SyncInv, StutterInv DEF Next
<1> QED
    BY InitInv, <1>1, PTL DEF Spec

-------------------------------------------------------------------------------
(* How many blocks there are in the Corefile *)

\* Whoever writes a second block has the first one in his cache, so that nobody comes
\* to a third; what was read to be written is no newer than the cache.
BlockInv ==
    /\ seenCorefile.val <= corefile /\ corefile <= 2
    /\ seenCorefile.fresh => seenCorefile.val = corefile
    /\ corefile = 2 => seenCorefile.val > 0 /\ pc \notin {"readCorefile", "writeCorefile"}
    /\ pc = "writeCorefile" =>
          /\ job.corefile.val <= seenCorefile.val
          /\ job.corefile.fresh => job.corefile.val = corefile

LEMMA BlocksKept ==
    ASSUME BlockInv, UNCHANGED <<corefile, seenCorefile>>,
           \/ pc' \notin {"readCorefile", "writeCorefile"}
           \/ pc' = pc /\ (pc = "writeCorefile" => job'.corefile = job.corefile)
    PROVE  BlockInv'
BY DEF BlockInv

LEMMA WriteBlock ==
    ASSUME IInv, BlockInv, WriteCorefile
    PROVE  BlockInv'
<1>1. /\ corefile \in Nat /\ seenCorefile \in Cached(Nat) /\ job \in Job
      /\ pc = "writeCorefile"
    BY DEF WriteCorefile, IInv, TypeOK
<1>2. CASE ~job.corefile.fresh
    BY <1>2, BlocksKept DEF WriteCorefile, Refused, Stop, api, seen
<1>3. CASE job.corefile.fresh
  <2>1. /\ corefile' = job.corefile.val + 1 /\ job.corefile.val = corefile
        /\ job.corefile.val <= seenCorefile.val
        /\ seenCorefile' = [seenCorefile EXCEPT !.fresh = FALSE]
      BY <1>1, <1>3 DEF WriteCorefile, BlockInv
  <2>2. pc' \in {"idle", "readDeployment"}
      BY <1>3 DEF WriteCorefile, Answer, Stop
  <2>3. seenCorefile'.val = seenCorefile.val /\ ~seenCorefile'.fresh
      BY <1>1, <2>1 DEF Cached
  <2>4. seenCorefile.val \in Nat
      BY <1>1 DEF Cached
  <2>5. corefile # 2 /\ corefile <= 2 /\ seenCorefile.val <= corefile
      BY <1>1 DEF BlockInv
  <2> QED
      BY <1>1, <2>1, <2>2, <2>3, <2>4, <2>5 DEF BlockInv
<1> QED
    BY <1>2, <1>3

LEMMA ReadBlock ==
    ASSUME IInv, BlockInv, CheckDnsCorefile \/ ReadCorefile
    PROVE  BlockInv'
<1>1. corefile \in Nat /\ seenCorefile \in Cached(Nat)
    BY DEF IInv, TypeOK
<1>2. UNCHANGED <<corefile, seenCorefile>>
    BY DEF CheckDnsCorefile, ReadCorefile, Local, api, seen
<1>3. CASE CheckDnsCorefile
  <2>1. /\ pc' \in {"readDeployment", "readCorefile"}
        /\ pc' = "readCorefile" => ~(seenCorefile.val > 0)
    <3>1. CASE seenCorefile.val > 0
        BY <1>3, <3>1 DEF CheckDnsCorefile, AfterCheck
    <3>2. CASE ~(seenCorefile.val > 0)
        BY <1>3, <3>2 DEF CheckDnsCorefile, AfterCheck
    <3> QED
        BY <3>1, <3>2
  <2> QED
      BY <1>2, <2>1 DEF BlockInv
<1>4. CASE ReadCorefile
  <2>1. pc = "readCorefile" /\ pc' = "writeCorefile" /\ job'.corefile = seenCorefile
      BY <1>4 DEF ReadCorefile, IInv, TypeOK, Job
  <2>2. seenCorefile.val \in Nat
      BY <1>1 DEF Cached
  <2> QED
      BY <1>2, <2>1, <2>2 DEF BlockInv
<1> QED
    BY <1>3, <1>4

LEMMA BlockStep ==
    ASSUME IInv, BlockInv, [Next]_vars
    PROVE  BlockInv'
<1>1. CASE CheckDnsCorefile \/ ReadCorefile \/ WriteCorefile
    BY <1>1, ReadBlock, WriteBlock
<1>2. CASE AddFinalizer
    BY <1>2, BlocksKept DEF AddFinalizer, Update, Answer, Refused, Stop, api, seen
<1>3. CASE Release
    BY <1>3, BlocksKept DEF Release, Update, Answer, Refused, Stop, api, seen
<1>4. CASE ReadDeployment
    BY <1>4, BlocksKept DEF ReadDeployment, Stop, Local, api, seen
<1>5. CASE WriteDeployment
    BY <1>5, BlocksKept
       DEF WriteDeployment, Answer, DeploymentRefused, Refused, Stop, api, seen
<1>6. CASE \E f \in Forward : Begin(f)
    BY <1>6, BlocksKept DEF Begin, Local, api, seen
<1>7. CASE CallFails
    BY <1>7, BlocksKept DEF CallFails, Stop, api, seen
<1>8. CASE Restart
  <2>1. /\ corefile' = corefile /\ pc' = "idle"
        /\ seenCorefile' = [val |-> corefile, fresh |-> TRUE] /\ corefile \in Nat
      BY <1>8 DEF Restart, Stop, api, IInv, TypeOK
  <2> QED
      BY <2>1 DEF BlockInv
<1>9. CASE SyncCorefile
  <2>1. /\ corefile' = corefile /\ pc' = pc /\ job' = job /\ corefile \in Nat
        /\ seenCorefile' = [val |-> corefile, fresh |-> TRUE]
        /\ seenCorefile.val \in Nat
      BY <1>9 DEF SyncCorefile, Synced, api, IInv, TypeOK, Cached
  <2>2. pc = "writeCorefile" => job.corefile.val \in Nat
      BY DEF IInv, TypeOK, Job, Cached
  <2> QED
      BY <2>1, <2>2 DEF BlockInv
<1>10. CASE (\E f \in Forward : SyncForward(f)) \/ \E v \in Vpc : SyncDeployment(v)
    BY <1>10, BlocksKept DEF SyncForward, SyncDeployment, Synced, api
<1>11. CASE Others
  <2>1. UNCHANGED <<corefile, seenCorefile, pc>>
      BY <1>11 DEF Others, UserCreates, UserEdits, UserDeletes, PutOther, VpcDnsActive,
                   DeploymentRendered, api, seen
  <2>2. pc = "writeCorefile" => job'.corefile = job.corefile
      BY <1>11 DEF Others, UserCreates, UserEdits, UserDeletes, PutOther, VpcDnsActive,
                   DeploymentRendered, IInv, TypeOK, Job
  <2> QED
      BY <2>1, <2>2, BlocksKept
<1>12. CASE UNCHANGED vars
    BY <1>12, BlocksKept DEF vars, api, seen
<1> QED
    BY <1>1, <1>2, <1>3, <1>4, <1>5, <1>6, <1>7, <1>8, <1>9, <1>10, <1>11, <1>12
       DEF Next, WorkerStep, Sync

-------------------------------------------------------------------------------
(* Theorems *)

\* Every reachable state is well typed.
THEOREM TypeCorrect == Spec => []TypeOK
<1>1. IInv => TypeOK
    BY DEF IInv
<1> QED
    BY Invariance, <1>1, PTL

\* No vpc-dns server has a route to CoreDNS before the Corefile forwards there.
THEOREM ForwardFirst == Spec => []ForwardedBeforeRouted
<1>1. IInv => ForwardedBeforeRouted
    BY DEF IInv
<1> QED
    BY Invariance, <1>1, PTL

\* The Corefile gets at most one block too many, however many objects share it.
THEOREM BlocksBounded == Spec => []AtMostOneTooMany
<1>1. Init => BlockInv
    BY DEF Init, BlockInv
<1>2. IInv /\ BlockInv /\ [Next]_vars => BlockInv'
    BY BlockStep
<1>3. BlockInv => AtMostOneTooMany
    BY DEF BlockInv, AtMostOneTooMany
<1> QED
    BY Invariance, <1>1, <1>2, <1>3, PTL DEF Spec

\* The finalizer keeps its promise: without changes of VPCs no route outlives the
\* last object that has the finalizer.
THEOREM NoRouteLeft == Spec => []RoutesOwned
<1>1. IInv => RoutesOwned
    BY DEF IInv
<1> QED
    BY Invariance, <1>1, PTL
===============================================================================
