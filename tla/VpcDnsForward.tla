----------------------------- MODULE VpcDnsForward -----------------------------
(***************************************************************************)
(* The VpcDnsForward reconciler: for every VpcDnsForward the Corefile of   *)
(* the vpc-dns servers forwards "clusterset.local" to the cluster's own    *)
(* CoreDNS, and the vpc-dns Deployment of the VPC has a route to it.       *)
(*                                                                         *)
(* One worker; every read comes from the manager's cache, kind by kind     *)
(* behind the API server; a write is refused if the copy it is made of is  *)
(* out of date.  Several objects may name the same VPC, and all of them    *)
(* share the one Corefile.                                                 *)
(***************************************************************************)
EXTENDS Naturals, FiniteSets

CONSTANTS
    Forward,    \* names of VpcDnsForward objects
    Vpc,        \* custom VPCs
    None,       \* absent value
    MaxFaults,  \* bound: failed calls, lost answers and restarts of the operator
    MaxEvents,  \* bound: objects created and deleted
    MaxChanges  \* bound: new VPC in an object, Deployment written anew

VARIABLES
    fwd,        \* the VpcDnsForward objects
    corefile,   \* number of clusterset.local blocks in vpc-dns-corefile
    routed,     \* [Vpc -> its vpc-dns Deployment has the route to CoreDNS]
    active,     \* the VPCs with an active VpcDns
    seenFwd, seenCorefile, seenRouted,  \* the manager's cache of these
    pc,         \* next step of the running reconcile, "idle" if none
    job,        \* its local variables
    faults, events, changes

api   == <<fwd, corefile, routed>>
seen  == <<seenFwd, seenCorefile, seenRouted>>
count == <<events, changes>>
vars  == <<api, seen, active, pc, job, faults, count>>

Object == [vpc : Vpc, finalizer : BOOLEAN, deleting : BOOLEAN]

\* A cached object; fresh: nobody has written it since.
Cached(S) == [val : S, fresh : BOOLEAN]

\* obj: the copy worked on, fresh: nobody has written the object since; corefile,
\* routed: the ConfigMap and the Deployment as they were read for the next write.
Job == [f : Forward, obj : Object, fresh : BOOLEAN,
        corefile : Cached(Nat), routed : Cached(BOOLEAN)]

ASSUME ConstantsOK ==
    /\ None \notin Object
    /\ MaxFaults \in Nat /\ MaxEvents \in Nat /\ MaxChanges \in Nat

Unread(v) == [val |-> v, fresh |-> FALSE]

Steps == {"finalize", "check", "readCorefile", "writeCorefile", "readDeployment",
          "writeDeployment", "release"}

Init ==
    /\ fwd = [f \in Forward |-> None]
    /\ corefile = 0
    /\ routed = [v \in Vpc |-> FALSE]
    /\ active = {}
    /\ seenFwd = [f \in Forward |-> [val |-> None, fresh |-> TRUE]]
    /\ seenCorefile = [val |-> corefile, fresh |-> TRUE]
    /\ seenRouted = [v \in Vpc |-> [val |-> FALSE, fresh |-> TRUE]]
    /\ pc = "idle" /\ job = None
    /\ faults = 0 /\ events = 0 /\ changes = 0

-------------------------------------------------------------------------------
(* How a step of the running reconcile ends *)

\* Mutant: what the last reconcile worked on is kept.
StopKeepsJob == pc' = "idle" /\ job' = job

Stop == pc' = "idle" /\ job' = None

Fault == faults < MaxFaults /\ faults' = faults + 1

\* The call was carried out; its answer arrives, or is lost.
Answer(next, j) ==
    \/ /\ IF next = "idle" THEN Stop ELSE pc' = next /\ job' = j
       /\ UNCHANGED faults
    \/ Stop /\ Fault

Refused == Stop /\ UNCHANGED <<api, seen, faults>>

Local == UNCHANGED <<api, seen, active, faults, count>>

\* r.Update of the VpcDnsForward itself.
Update(o, next) ==
    /\ \/ /\ job.fresh
          /\ fwd' = [fwd EXCEPT ![job.f] = o]
          /\ seenFwd' = [seenFwd EXCEPT ![job.f].fresh = FALSE]
          /\ Answer(next, [job EXCEPT !.obj = o])
          /\ UNCHANGED <<corefile, routed, seenCorefile, seenRouted>>
       \/ ~job.fresh /\ Refused
    /\ UNCHANGED <<active, count>>

-------------------------------------------------------------------------------
(* Reconcile *)

Begin(f) ==
    LET o == seenFwd[f].val IN
    /\ pc = "idle" /\ o # None
    /\ o.deleting => o.finalizer
    /\ pc' = CASE o.deleting   -> "readDeployment"
               [] ~o.finalizer -> "finalize"
               [] OTHER        -> "check"
    /\ job' = [f |-> f, obj |-> o, fresh |-> seenFwd[f].fresh,
               corefile |-> Unread(0), routed |-> Unread(FALSE)]
    /\ Local

AddFinalizer ==
    /\ pc = "finalize"
    /\ Update([job.obj EXCEPT !.finalizer = TRUE], "check")

\* Mutant: the Corefile is taken to be updated already.
AfterCheckAlways == "readDeployment"

\* Mutant: the check is ignored.
AfterCheckNever == "readCorefile"

AfterCheck == IF seenCorefile.val > 0 THEN "readDeployment" ELSE "readCorefile"

CheckDnsCorefile ==
    /\ pc = "check"
    /\ pc' = AfterCheck /\ UNCHANGED job /\ Local

\* updateDnsCorefile reads the ConfigMap once more.
ReadCorefile ==
    /\ pc = "readCorefile"
    /\ pc' = "writeCorefile" /\ job' = [job EXCEPT !.corefile = seenCorefile] /\ Local

WriteCorefile ==
    /\ pc = "writeCorefile"
    /\ \/ /\ job.corefile.fresh
          /\ corefile' = job.corefile.val + 1
          /\ seenCorefile' = [seenCorefile EXCEPT !.fresh = FALSE]
          /\ Answer("readDeployment", job)
          /\ UNCHANGED <<fwd, routed, seenFwd, seenRouted>>
       \/ ~job.corefile.fresh /\ Refused
    /\ UNCHANGED <<active, count>>

\* Mutant: a deletion that finds nothing to remove returns at once.
ReadDeploymentIfRouted ==
    /\ pc = "readDeployment"
    /\ IF /\ job.obj.vpc \in active
          /\ job.obj.deleting => seenRouted[job.obj.vpc].val
         THEN /\ pc' = "writeDeployment"
              /\ job' = [job EXCEPT !.routed = seenRouted[job.obj.vpc]]
         ELSE Stop
    /\ Local

\* genRouteToCoreDNS and getVpcDnsDeployment.
ReadDeployment ==
    /\ pc = "readDeployment"
    /\ IF job.obj.vpc \in active
         THEN /\ pc' = "writeDeployment"
              /\ job' = [job EXCEPT !.routed = seenRouted[job.obj.vpc]]
         ELSE Stop
    /\ Local

\* Mutant: a deletion adds the route too.
RouteAlways == TRUE

RouteWanted == ~job.obj.deleting

\* Mutant: an update that was refused goes unnoticed.
DeploymentRefusedUnnoticed ==
    /\ IF job.obj.deleting THEN pc' = "release" /\ job' = job ELSE Stop
    /\ UNCHANGED <<api, seen, faults>>

DeploymentRefused == Refused

WriteDeployment ==
    LET v == job.obj.vpc IN
    /\ pc = "writeDeployment"
    /\ \/ /\ job.routed.fresh
          /\ routed' = [routed EXCEPT ![v] = RouteWanted]
          /\ seenRouted' = [seenRouted EXCEPT ![v].fresh = @ /\ routed' = routed]
          /\ Answer(IF job.obj.deleting THEN "release" ELSE "idle", job)
          /\ UNCHANGED <<fwd, corefile, seenFwd, seenCorefile>>
       \/ ~job.routed.fresh /\ DeploymentRefused
    /\ UNCHANGED <<active, count>>

\* With its last finalizer gone the API server drops the object.
Release ==
    /\ pc = "release"
    /\ Update(None, "idle")

-------------------------------------------------------------------------------
(* Failures of the operator, and its cache *)

CallFails ==
    /\ pc # "idle" /\ Stop /\ Fault
    /\ UNCHANGED <<api, seen, active, count>>

Restart ==
    /\ Stop /\ Fault
    /\ seenFwd' = [f \in Forward |-> [val |-> fwd[f], fresh |-> TRUE]]
    /\ seenCorefile' = [val |-> corefile, fresh |-> TRUE]
    /\ seenRouted' = [v \in Vpc |-> [val |-> routed[v], fresh |-> TRUE]]
    /\ UNCHANGED <<api, active, count>>

Synced == UNCHANGED <<api, active, pc, job, faults, count>>

SyncForward(f) ==
    /\ ~seenFwd[f].fresh
    /\ seenFwd' = [seenFwd EXCEPT ![f] = [val |-> fwd[f], fresh |-> TRUE]]
    /\ UNCHANGED <<seenCorefile, seenRouted>> /\ Synced

SyncCorefile ==
    /\ ~seenCorefile.fresh /\ seenCorefile' = [val |-> corefile, fresh |-> TRUE]
    /\ UNCHANGED <<seenFwd, seenRouted>> /\ Synced

SyncDeployment(v) ==
    /\ ~seenRouted[v].fresh
    /\ seenRouted' = [seenRouted EXCEPT ![v] = [val |-> routed[v], fresh |-> TRUE]]
    /\ UNCHANGED <<seenFwd, seenCorefile>> /\ Synced

-------------------------------------------------------------------------------
(* The others *)

Event  == events < MaxEvents /\ events' = events + 1 /\ UNCHANGED changes
Change == changes < MaxChanges /\ changes' = changes + 1 /\ UNCHANGED events

PutOther(f, o) ==
    /\ fwd' = [fwd EXCEPT ![f] = o]
    /\ seenFwd' = [seenFwd EXCEPT ![f].fresh = FALSE]
    /\ job' = IF pc # "idle" /\ job.f = f THEN [job EXCEPT !.fresh = FALSE] ELSE job
    /\ UNCHANGED <<corefile, routed, seenCorefile, seenRouted, active, pc, faults>>

UserCreates(f, v) ==
    /\ fwd[f] = None /\ Event
    /\ PutOther(f, [vpc |-> v, finalizer |-> FALSE, deleting |-> FALSE])

UserEdits(f, v) ==
    /\ fwd[f] # None /\ fwd[f].vpc # v /\ Change
    /\ PutOther(f, [fwd[f] EXCEPT !.vpc = v])

UserDeletes(f) ==
    /\ fwd[f] # None /\ ~fwd[f].deleting /\ Event
    /\ PutOther(f, IF fwd[f].finalizer THEN [fwd[f] EXCEPT !.deleting = TRUE] ELSE None)

VpcDnsActive(v) ==
    /\ v \notin active /\ active' = active \cup {v}
    /\ UNCHANGED <<api, seen, pc, job, faults, count>>

\* kube-ovn writes the Deployment anew.
DeploymentRendered(v) ==
    /\ routed[v] /\ Change
    /\ routed' = [routed EXCEPT ![v] = FALSE]
    /\ seenRouted' = [seenRouted EXCEPT ![v].fresh = FALSE]
    /\ job' = IF pc = "writeDeployment" /\ job.obj.vpc = v
                THEN [job EXCEPT !.routed.fresh = FALSE] ELSE job
    /\ UNCHANGED <<fwd, corefile, seenFwd, seenCorefile, active, pc, faults>>

-------------------------------------------------------------------------------
WorkerStep ==
    \/ AddFinalizer \/ CheckDnsCorefile \/ ReadCorefile \/ WriteCorefile
    \/ ReadDeployment \/ WriteDeployment \/ Release

Sync ==
    \/ SyncCorefile
    \/ (\E f \in Forward : SyncForward(f)) \/ (\E v \in Vpc : SyncDeployment(v))

Others ==
    \/ \E f \in Forward, v \in Vpc : UserCreates(f, v) \/ UserEdits(f, v)
    \/ \E f \in Forward : UserDeletes(f)
    \/ \E v \in Vpc : VpcDnsActive(v) \/ DeploymentRendered(v)

Next ==
    \/ \E f \in Forward : Begin(f)
    \/ WorkerStep \/ CallFails \/ Restart \/ Sync \/ Others

Spec == Init /\ [][Next]_vars

\* The work queue serves every key in turn (after an error, an event or at the
\* cache's periodic resync), the cache follows the API server and a reconcile
\* that runs goes on until it returns.
FairSpec ==
    /\ Spec /\ WF_vars(WorkerStep) /\ WF_vars(SyncCorefile)
    /\ \A f \in Forward : SF_vars(Begin(f)) /\ WF_vars(SyncForward(f))
    /\ \A v \in Vpc : WF_vars(SyncDeployment(v))

-------------------------------------------------------------------------------
(* Properties *)

TypeOK ==
    /\ fwd \in [Forward -> Object \cup {None}]
    /\ corefile \in Nat /\ routed \in [Vpc -> BOOLEAN]
    /\ active \in SUBSET Vpc
    /\ seenFwd \in [Forward -> Cached(Object \cup {None})]
    /\ seenCorefile \in Cached(Nat)
    /\ seenRouted \in [Vpc -> Cached(BOOLEAN)]
    /\ pc \in Steps \cup {"idle"}
    /\ IF pc = "idle" THEN job = None ELSE job \in Job
    /\ faults \in Nat /\ events \in Nat /\ changes \in Nat

\* A vpc-dns server has a route to CoreDNS only once the Corefile forwards
\* clusterset.local there, whichever object, old or new, the route was made for.
ForwardedBeforeRouted ==
    \A v \in Vpc : routed[v] => corefile > 0

\* Check and update each read the ConfigMap from the cache, so an object that has found
\* no forward may insert one beside another's; but it stays at one too many, through any
\* sequence of objects, stale reads, lost answers and restarts.
AtMostOneTooMany == corefile <= 2

\* Finalizer: as long as nobody has changed the VPC of an object, a Deployment has
\* the route only while an object of its VPC still has the finalizer, through stale
\* reads, refused updates, failed calls and restarts.
RoutesOwned ==
    changes = 0 => \A v \in Vpc : routed[v] =>
        \E f \in Forward : fwd[f] # None /\ fwd[f].finalizer /\ fwd[f].vpc = v

\* Every object whose VPC has an active vpc-dns gets its route, also after another object
\* of the VPC has taken it away, after a change of its VPC and after the Deployment has
\* been written anew; and once deleted it is released, although its route may be gone
\* already, for the same reasons or since an attempt was cut off before the finalizer.
Pending(f) == fwd[f] # None /\ fwd[f].vpc \in active

Settled(f) == ~Pending(f) \/ (~fwd[f].deleting /\ routed[fwd[f].vpc])

EventuallySettled == \A f \in Forward : Pending(f) ~> Settled(f)
===============================================================================
