------------------------ MODULE GatewayInformer_proofs ------------------------
(***************************************************************************)
(* Theorems about the gateway informer, for any finite set of gateways,    *)
(* any addresses and tunnels and any bound on faults and events.           *)
(***************************************************************************)
EXTENDS GatewayInformer, FiniteSetTheorems, SequenceTheorems, TLAPS

-------------------------------------------------------------------------------
(* What the informer lists when it starts *)

LEMMA RelistedTyped ==
    ASSUME NEW view \in StatefulSets, NEW q \in Relisted(view)
    PROVE  q \in Seq(Notice)
<1> DEFINE there == {g \in Gateway : view[g].st # "absent"}
<1> DEFINE n == Cardinality(there)
<1>1. n \in Nat
    BY ConstantsOK, FS_Subset, FS_CardinalityType
<1>2. PICK f \in [1..n -> there] :
          q = [i \in 1..n |-> [kind |-> IF Available(view, f[i]) THEN "addedUp" ELSE "added",
                               gw   |-> f[i]]]
    BY DEF Relisted
<1>3. \A i \in 1..n : q[i] \in Notice
    BY <1>2 DEF Notice
<1>4. q = [i \in 1..n |-> q[i]]
    BY <1>2
<1> HIDE DEF n, there
<1>5. [i \in 1..n |-> q[i]] \in Seq(Notice)
    BY <1>1, <1>3
<1> QED
    BY <1>4, <1>5

-------------------------------------------------------------------------------
(* The invariant *)

\* A copy of the GatewayExIp held to be current is current, and the one a failover
\* or a restart works on names the gateway whose event is handled.
ExIpHeld ==
    /\ seenExIp.fresh => seenExIp.val = exip
    /\ pc \in {"updateVpc", "updateExIp"} /\ job.exip
        => exip # None /\ exip.gw = job.gw

\* Before the GatewayExIp is written the routes lead where it will point.
RouteReady ==
    /\ pc = "updateVpc" => job.kind # "restarted"
    /\ pc = "updateExIp" =>
         IF job.kind = "restarted" THEN job.next = job.gw ELSE route \in {None, job.next}

\* While tunnels are listed and patched the GatewayExIp is what the handler wrote.
Announced ==
    pc \in {"list", "patch"} => exip = [gw |-> job.next, ip |-> job.ip]

\* Tunnels lose their labels only when they are released, and the copies of a released
\* tunnel are out of date.
TunnelsThere ==
    /\ \A t \in Tunnel : build[t] # None => tun[t] = None
    /\ \A t \in Tunnel : seenTun[t].fresh => seenTun[t].val = tun[t]
    /\ pc # "idle" => \A t \in job.todo \cap job.fresh : tun[t] # None

IInv == TypeOK /\ ExIpHeld /\ RouteReady /\ Announced /\ TunnelsThere

LEMMA InitInv == Init => IInv
<1> SUFFICES ASSUME Init PROVE IInv
    OBVIOUS
<1>1. queue \in Seq(Notice)
    BY RelistedTyped DEF Init
<1>2. TypeOK
    BY <1>1, ConstantsOK DEF Init, TypeOK, JobOK, Cached, Endpoint
<1> QED
    BY <1>2 DEF Init, IInv, ExIpHeld, RouteReady, Announced, TunnelsThere

-------------------------------------------------------------------------------
(* Ends of calls *)

LEMMA AnswerCases ==
    ASSUME TypeOK, NEW next, NEW j, Answer(next, j)
    PROVE  /\ \/ pc' = "idle" /\ job' = NoJob
              \/ next # "idle" /\ pc' = next /\ job' = j
           /\ faults' \in Nat
    BY DEF Answer, Stop, Fault, TypeOK

\* A handler that returns leaves nothing that could go wrong.
LEMMA StopInv ==
    ASSUME IInv, Stop, UNCHANGED <<api, seen>>, queue' \in Seq(Notice),
           faults' \in Nat, outages' \in Nat, events' \in Nat
    PROVE  IInv'
<1>1. TypeOK'
    BY DEF IInv, TypeOK, JobOK, Stop, api, seen
<1> QED
    BY <1>1 DEF IInv, ExIpHeld, RouteReady, Announced, TunnelsThere, Stop, api, seen

-------------------------------------------------------------------------------
(* The handlers begin *)

LEMMA BeginInv ==
    ASSUME IInv, NEW kind \in {"addedUp", "failed", "restarted", "deleted"},
           NEW g \in Gateway, NEW next \in Gateway,
           NEW call \in {"create", "delete", "updateVpc", "updateExIp"},
           Begin(kind, g, next, call), UNCHANGED <<api, seen, faults, count>>,
           queue' \in Seq(Notice),
           call \in {"updateVpc", "updateExIp"} => IsPrimary(g),
           call = "updateVpc" => kind # "restarted",
           call = "updateExIp" => kind = "restarted" /\ next = g
    PROVE  IInv'
<1>1. job' \in Job
  <2>1. seenSts[next].ip \in IP
      BY DEF IInv, TypeOK, StatefulSets
  <2>2. seenRoute.fresh \in BOOLEAN /\ seenExIp.fresh \in BOOLEAN
      BY DEF IInv, TypeOK, Cached
  <2> QED
      BY <2>1, <2>2 DEF Begin, Job, Labelled
<1>2. TypeOK'
    BY <1>1, ConstantsOK DEF IInv, TypeOK, JobOK, Begin, Calls, api, seen, count
<1>3. ExIpHeld'
    BY DEF IInv, ExIpHeld, Begin, IsPrimary, api, seen
<1>4. RouteReady' /\ Announced'
    BY DEF Begin, RouteReady, Announced
<1>5. TunnelsThere'
    BY DEF IInv, TunnelsThere, Begin, Labelled, api, seen
<1> QED
    BY <1>2, <1>3, <1>4, <1>5 DEF IInv

LEMMA IgnoredInv ==
    ASSUME IInv, Ignored, UNCHANGED <<api, seen>>, queue' \in Seq(Notice),
           faults' \in Nat, outages' \in Nat, events' \in Nat
    PROVE  IInv'
<1>1. TypeOK'
    BY DEF IInv, TypeOK, JobOK, Ignored, api, seen
<1> QED
    BY <1>1 DEF IInv, ExIpHeld, RouteReady, Announced, TunnelsThere, Ignored, api, seen

LEMMA HandlersInv ==
    ASSUME IInv, NEW g \in Gateway,
           \/ HandleAddedUp(g) \/ HandleAdded(g) \/ HandleFailed(g)
           \/ HandleRestarted(g) \/ HandleDeleted(g)
    PROVE  IInv'
<1>1. queue' \in Seq(Notice)
    BY HeadTailProperties DEF HandleAddedUp, HandleAdded, HandleFailed, HandleRestarted,
                              HandleDeleted, Takes, IInv, TypeOK
<1>2. UNCHANGED <<api, seen, faults, count>>
    BY DEF HandleAddedUp, HandleAdded, HandleFailed, HandleRestarted, HandleDeleted, Local
<1>3. CASE Ignored
    BY <1>1, <1>2, <1>3, IgnoredInv DEF IInv, TypeOK, count
<1>4. CASE HandleAddedUp(g) /\ Begin("addedUp", g, g, "create")
    BY <1>1, <1>2, <1>4, BeginInv
<1>5. CASE HandleFailed(g) /\ IsPrimary(g) /\ \E h \in Standby(g) :
               Begin("failed", g, h, "updateVpc")
    BY <1>1, <1>2, <1>5, BeginInv DEF Standby
<1>6. CASE HandleRestarted(g) /\ IsPrimary(g) /\ Begin("restarted", g, g, "updateExIp")
    BY <1>1, <1>2, <1>6, BeginInv
<1>7. CASE HandleDeleted(g) /\ Begin("deleted", g, g, "delete")
    BY <1>1, <1>2, <1>7, BeginInv
<1>8. CASE HandleDeleted(g) /\ IsPrimary(g) /\ \E h \in Gateway :
               Begin("deleted", g, h, "updateVpc")
    BY <1>1, <1>2, <1>8, BeginInv
<1> QED
    BY <1>3, <1>4, <1>5, <1>6, <1>7, <1>8
       DEF HandleAddedUp, HandleAdded, HandleFailed, HandleRestarted, HandleDeleted,
           FirstCall

-------------------------------------------------------------------------------
(* The handlers write *)

LEMMA CreateInv ==
    ASSUME IInv, CreateExIp
    PROVE  IInv'
<1>1. CASE exip # None
    BY <1>1, StopInv DEF CreateExIp, Refused, IInv, TypeOK, count
<1>2. CASE exip = None
  <2>1. pc' = "idle" /\ job' = NoJob /\ faults' \in Nat
      BY <1>2, AnswerCases DEF CreateExIp, IInv
  <2>2. exip' \in Endpoint
      BY <1>2 DEF CreateExIp, IInv, TypeOK, JobOK, Job, Endpoint
  <2>3. seenExIp' \in Cached(Endpoint \cup {None}) /\ ~seenExIp'.fresh
      BY <1>2 DEF CreateExIp, IInv, TypeOK, Cached
  <2>4. TypeOK'
      BY <1>2, <2>1, <2>2, <2>3 DEF CreateExIp, IInv, TypeOK, JobOK, count
  <2> QED
      BY <1>2, <2>1, <2>3, <2>4
         DEF CreateExIp, IInv, ExIpHeld, RouteReady, Announced, TunnelsThere
<1> QED
    BY <1>1, <1>2

LEMMA DeleteInv ==
    ASSUME IInv, DeleteExIp
    PROVE  IInv'
<1>1. pc' = "idle" /\ job' = NoJob /\ faults' \in Nat
    BY AnswerCases DEF DeleteExIp, IInv
<1>2. /\ seenExIp' \in Cached(Endpoint \cup {None})
      /\ seenExIp'.fresh => seenExIp'.val = None
    BY DEF DeleteExIp, IInv, TypeOK, ExIpHeld, Cached
<1>3. TypeOK'
    BY <1>1, <1>2 DEF DeleteExIp, IInv, TypeOK, JobOK, count
<1> QED
    BY <1>1, <1>2, <1>3
       DEF DeleteExIp, IInv, ExIpHeld, RouteReady, Announced, TunnelsThere

LEMMA VpcInv ==
    ASSUME IInv, UpdateVpc
    PROVE  IInv'
<1>1. CASE ~job.route
    BY <1>1, StopInv DEF UpdateVpc, Refused, IInv, TypeOK, count
<1>2. CASE job.route
  <2>1. /\ \/ pc' = "idle" /\ job' = NoJob
           \/ pc' = "updateExIp" /\ job' = job
        /\ faults' \in Nat
      BY <1>2, AnswerCases DEF UpdateVpc, IInv
  <2>2. route' \in {None, job.next} /\ route' \in Gateway \cup {None}
      BY <1>2 DEF UpdateVpc, IInv, TypeOK, JobOK, Job
  <2>3. seenRoute' \in Cached(Gateway \cup {None})
      BY <1>2 DEF UpdateVpc, IInv, TypeOK, Cached
  <2>4. TypeOK'
      BY <1>2, <2>1, <2>2, <2>3 DEF UpdateVpc, IInv, TypeOK, JobOK, Calls, count
  <2> QED
      BY <1>2, <2>1, <2>2, <2>4
         DEF UpdateVpc, IInv, ExIpHeld, RouteReady, Announced, TunnelsThere
<1> QED
    BY <1>1, <1>2

LEMMA ExIpInv ==
    ASSUME IInv, UpdateExIp
    PROVE  IInv'
<1>1. CASE ~job.exip
    BY <1>1, StopInv DEF UpdateExIp, ExIpCurrent, ExIpRefused, Refused, IInv, TypeOK, count
<1>2. CASE job.exip
  <2>1. /\ \/ pc' = "idle" /\ job' = NoJob
           \/ pc' \in {"list", "patch"} /\ job' = job
        /\ faults' \in Nat
      BY <1>2, AnswerCases
         DEF UpdateExIp, ExIpCurrent, ExIpRefused, AfterExIp, AfterList, IInv
  <2>2. exip' = [gw |-> job.next, ip |-> job.ip] /\ exip' \in Endpoint
      BY <1>2 DEF UpdateExIp, ExIpCurrent, IInv, TypeOK, JobOK, Job, Endpoint
  <2>3. /\ seenExIp' \in Cached(Endpoint \cup {None})
        /\ seenExIp'.fresh => seenExIp'.val = exip'
      BY <1>2 DEF UpdateExIp, ExIpCurrent, IInv, TypeOK, ExIpHeld, Cached
  <2>4. TypeOK'
      BY <1>2, <2>1, <2>2, <2>3
         DEF UpdateExIp, ExIpCurrent, IInv, TypeOK, JobOK, Calls, count
  <2> QED
      BY <1>2, <2>1, <2>2, <2>3, <2>4
         DEF UpdateExIp, ExIpCurrent, IInv, ExIpHeld, RouteReady, Announced, TunnelsThere
<1> QED
    BY <1>1, <1>2

LEMMA ListInv ==
    ASSUME IInv, ListTunnels
    PROVE  IInv'
<1>1. CASE Labelled = {}
    BY <1>1, StopInv DEF ListTunnels, IInv, TypeOK, count
<1>2. CASE Labelled # {}
  <2> DEFINE current == {t \in Tunnel : seenTun[t].fresh}
  <2>1. /\ pc' = "patch" /\ pc # "idle"
        /\ job' = [job EXCEPT !.todo = Labelled, !.fresh = current]
      BY <1>2 DEF ListTunnels
  <2>2. Labelled \in SUBSET Tunnel /\ current \in SUBSET Tunnel
      BY DEF Labelled
  <2> HIDE DEF current
  <2>3. /\ job' \in Job /\ job'.todo = Labelled /\ job'.fresh = current
        /\ job'.next = job.next /\ job'.ip = job.ip
      BY <2>1, <2>2 DEF IInv, TypeOK, JobOK, Job
  <2>4. TypeOK'
      BY <1>2, <2>1, <2>3 DEF ListTunnels, IInv, TypeOK, JobOK, Calls, api, seen, count
  <2>6. \A t \in current : t \in Tunnel /\ seenTun[t].fresh
      BY DEF current
  <2>5. TunnelsThere'
      BY <1>2, <2>1, <2>3, <2>6 DEF ListTunnels, IInv, TunnelsThere, Labelled, api, seen
  <2> QED
      BY <1>2, <2>1, <2>3, <2>4, <2>5
         DEF ListTunnels, IInv, ExIpHeld, RouteReady, Announced, api, seen
<1> QED
    BY <1>1, <1>2

LEMMA PatchInv ==
    ASSUME IInv, NEW t \in Tunnel, PatchTunnel(t)
    PROVE  IInv'
<1>1. CASE t \notin job.fresh
    BY <1>1, StopInv DEF PatchTunnel, Refused, IInv, TypeOK, count
<1>2. CASE t \in job.fresh
  <2> DEFINE rest == [job EXCEPT !.todo = @ \ {t}]
  <2>1. /\ \/ pc' = "idle" /\ job' = NoJob
           \/ pc' = "patch" /\ job' = rest
        /\ faults' \in Nat
      BY <1>2, AnswerCases DEF PatchTunnel, AfterList, IInv
  <2>2. /\ rest \in Job /\ rest.todo = job.todo \ {t} /\ rest.fresh = job.fresh
        /\ rest.next = job.next /\ rest.ip = job.ip
      BY DEF PatchTunnel, IInv, TypeOK, JobOK, Job
  <2>3. Patched(t) \in Endpoint
      BY <1>2 DEF PatchTunnel, Patched, IInv, TypeOK, JobOK, TunnelsThere, Job, Endpoint
  <2>4. tun' = [tun EXCEPT ![t] = Patched(t)] /\ tun[t] # None
      BY <1>2 DEF PatchTunnel, IInv, TunnelsThere
  <2>5. /\ seenTun' \in [Tunnel -> Cached(Endpoint \cup {None})]
        /\ \A u \in Tunnel : /\ seenTun'[u].val = seenTun[u].val
                             /\ seenTun'[u].fresh => seenTun[u].fresh
        /\ seenTun'[t].fresh => tun' = tun
    <3>1. seenTun' = [seenTun EXCEPT ![t].fresh = @ /\ tun' = tun]
        BY <1>2 DEF PatchTunnel
    <3> DEFINE b == seenTun[t].fresh /\ tun' = tun
    <3>2. /\ b \in BOOLEAN /\ seenTun' = [seenTun EXCEPT ![t].fresh = b]
          /\ b => seenTun[t].fresh /\ tun' = tun
        BY <3>1 DEF IInv, TypeOK, Cached
    <3> HIDE DEF b
    <3> QED
        BY <3>2 DEF IInv, TypeOK, Cached
  <2> HIDE DEF rest
  <2>6. TypeOK'
      BY <1>2, <2>1, <2>2, <2>3, <2>4, <2>5
         DEF PatchTunnel, IInv, TypeOK, JobOK, Calls, count
  <2>7. \A u \in Tunnel : tun'[u] # None <=> tun[u] # None
      BY <2>3, <2>4, ConstantsOK DEF IInv, TypeOK
  <2>8. TunnelsThere'
    <3>1. build' = build
        BY <1>2 DEF PatchTunnel
    <3>2. pc' # "idle" => job'.todo \subseteq job.todo /\ job'.fresh = job.fresh
        BY <2>1, <2>2
    <3>3. job.todo \subseteq Tunnel /\ \A u \in job.todo \cap job.fresh : tun[u] # None
        BY DEF PatchTunnel, IInv, TypeOK, JobOK, Job, TunnelsThere
    <3>4. \A u \in Tunnel : seenTun'[u].fresh => tun'[u] = tun[u]
        BY <2>4, <2>5 DEF IInv, TypeOK
    <3> QED
        BY <2>5, <2>7, <3>1, <3>2, <3>3, <3>4 DEF IInv, TunnelsThere
  <2> QED
      BY <1>2, <2>1, <2>2, <2>6, <2>8
         DEF PatchTunnel, IInv, ExIpHeld, RouteReady, Announced
<1> QED
    BY <1>1, <1>2

-------------------------------------------------------------------------------
(* Failures, the cache, and the others *)

LEMMA FailuresInv ==
    ASSUME IInv, CallFails \/ ReadFails
    PROVE  IInv'
<1>1. CASE CallFails
  <2>1. faults' \in Nat /\ queue' = queue
      BY <1>1 DEF CallFails, Fault, IInv, TypeOK
  <2> QED
      BY <1>1, <2>1, StopInv DEF CallFails, IInv, TypeOK, count
<1>2. CASE ReadFails
  <2>1. queue' \in Seq(Notice) /\ faults' \in Nat
      BY <1>2, HeadTailProperties DEF ReadFails, Fault, IInv, TypeOK
  <2> QED
      BY <1>2, <2>1, IgnoredInv DEF ReadFails, Ignored, IInv, TypeOK, count
<1> QED
    BY <1>1, <1>2

LEMMA RestartInv ==
    ASSUME IInv, Restart
    PROVE  IInv'
<1>1. queue' \in Seq(Notice)
    BY RelistedTyped DEF Restart, IInv, TypeOK
<1>2. faults' \in Nat
    BY DEF Restart, Fault, IInv, TypeOK
<1>3. TypeOK'
    BY <1>1, <1>2 DEF Restart, Stop, IInv, TypeOK, JobOK, Cached, api, count
<1> QED
    BY <1>3 DEF Restart, Stop, IInv, TypeOK, ExIpHeld, RouteReady, Announced, TunnelsThere, api

LEMMA SyncInv ==
    ASSUME IInv, Sync
    PROVE  IInv'
<1>1. TypeOK'
  <2>1. UNCHANGED <<api, queue, pc, job, faults, count>>
      BY DEF Sync, SyncSts, SyncRoute, SyncExIp, SyncTunnel, Synced
  <2>2. /\ seenSts' \in StatefulSets
        /\ seenRoute' \in Cached(Gateway \cup {None})
        /\ seenExIp' \in Cached(Endpoint \cup {None})
        /\ seenTun' \in [Tunnel -> Cached(Endpoint \cup {None})]
    <3>1. ASSUME NEW t \in Tunnel
          PROVE  [val |-> tun[t], fresh |-> TRUE] \in Cached(Endpoint \cup {None})
        BY DEF IInv, TypeOK, Cached
    <3>2. CASE SyncSts
        BY <3>2 DEF SyncSts, IInv, TypeOK
    <3>3. CASE SyncRoute
        BY <3>3 DEF SyncRoute, IInv, TypeOK, Cached
    <3>4. CASE SyncExIp
        BY <3>4 DEF SyncExIp, IInv, TypeOK, Cached
    <3>5. ASSUME NEW t \in Tunnel, SyncTunnel(t)
          PROVE  /\ UNCHANGED <<seenSts, seenRoute, seenExIp>>
                 /\ seenTun' \in [Tunnel -> Cached(Endpoint \cup {None})]
        BY <3>1, <3>5 DEF SyncTunnel, IInv, TypeOK
    <3> QED
        BY <3>2, <3>3, <3>4, <3>5 DEF Sync, IInv, TypeOK
  <2> QED
      BY <2>1, <2>2 DEF IInv, TypeOK, JobOK, api, count
<1>2. ExIpHeld' /\ RouteReady' /\ Announced'
    BY DEF Sync, SyncSts, SyncRoute, SyncExIp, SyncTunnel, Synced,
           IInv, ExIpHeld, RouteReady, Announced, api
<1>3. TunnelsThere'
    BY DEF Sync, SyncSts, SyncRoute, SyncExIp, SyncTunnel, Synced,
           IInv, TypeOK, TunnelsThere, api
<1> QED
    BY <1>1, <1>2, <1>3 DEF IInv

LEMMA GatewaysInv ==
    ASSUME IInv, NEW g \in Gateway,
           \/ GatewayCreated(g) \/ GatewayFails(g) \/ GatewayDeleted(g)
           \/ \E i \in IP : GatewayReturns(g, i)
    PROVE  IInv'
<1>1. UNCHANGED <<route, exip, tun, build, seen, pc, job, faults>>
    BY DEF GatewayCreated, GatewayFails, GatewayDeleted, GatewayReturns, Becomes
<1>2. PICK kind \in {"added", "failed", "restarted", "deleted"} :
          queue' = Append(queue, [kind |-> kind, gw |-> g])
    BY DEF GatewayCreated, GatewayFails, GatewayDeleted, GatewayReturns, Becomes
<1>3. queue' \in Seq(Notice)
    BY <1>2, AppendProperties DEF IInv, TypeOK, Notice
<1>4. sts' \in StatefulSets
  <2>1. CASE \E st \in {"absent", "down"} : sts' = [sts EXCEPT ![g].st = st]
      BY <2>1 DEF IInv, TypeOK, StatefulSets
  <2>2. CASE \E i \in IP : sts' = [sts EXCEPT ![g] = [st |-> "up", ip |-> i]]
      BY <2>2 DEF IInv, TypeOK, StatefulSets
  <2> QED
      BY <2>1, <2>2 DEF GatewayCreated, GatewayFails, GatewayDeleted, GatewayReturns, Becomes
<1>5. outages' \in Nat /\ events' \in Nat
    BY DEF GatewayCreated, GatewayFails, GatewayDeleted, GatewayReturns, Event, Outage,
           IInv, TypeOK, count
<1>6. TypeOK'
    BY <1>1, <1>3, <1>4, <1>5 DEF IInv, TypeOK, JobOK, seen
<1> QED
    BY <1>1, <1>6 DEF IInv, ExIpHeld, RouteReady, Announced, TunnelsThere, seen

LEMMA BuildsInv ==
    ASSUME IInv, NEW t \in Tunnel, TunnelBuilds(t)
    PROVE  IInv'
<1>1. build' \in [Tunnel -> Endpoint \cup {None}]
    BY DEF TunnelBuilds, IInv, TypeOK, Cached, StatefulSets, Endpoint
<1>2. TypeOK'
    BY <1>1 DEF TunnelBuilds, IInv, TypeOK, JobOK, seen, count
<1>3. TunnelsThere'
    BY DEF TunnelBuilds, IInv, TypeOK, TunnelsThere, seen
<1> QED
    BY <1>2, <1>3 DEF TunnelBuilds, IInv, ExIpHeld, RouteReady, Announced, seen

LEMMA LabelledInv ==
    ASSUME IInv, NEW t \in Tunnel, TunnelLabelled(t)
    PROVE  IInv'
<1>1. /\ pc' = pc /\ pc = "idle" => job' = job
      /\ pc # "idle" => job' = [job EXCEPT !.fresh = @ \ {t}] /\ job' \in Job
    BY DEF TunnelLabelled, IInv, TypeOK, JobOK, Job
<1>2. seenTun' \in [Tunnel -> Cached(Endpoint \cup {None})]
    BY DEF TunnelLabelled, IInv, TypeOK, Cached
<1>3. TypeOK'
    BY <1>1, <1>2 DEF TunnelLabelled, IInv, TypeOK, JobOK, count
<1>4. TunnelsThere'
    BY <1>1 DEF TunnelLabelled, IInv, TypeOK, JobOK, Job, TunnelsThere
<1>5. ExIpHeld' /\ RouteReady' /\ Announced'
    BY <1>1 DEF TunnelLabelled, IInv, TypeOK, JobOK, Job, ExIpHeld, RouteReady, Announced
<1> QED
    BY <1>3, <1>4, <1>5 DEF IInv

LEMMA ReleasedInv ==
    ASSUME IInv, NEW t \in Tunnel, TunnelReleased(t)
    PROVE  IInv'
<1>1. /\ pc' = pc /\ pc = "idle" => job' = job
      /\ pc # "idle" => job' = [job EXCEPT !.fresh = @ \ {t}] /\ job' \in Job
    BY DEF TunnelReleased, IInv, TypeOK, JobOK, Job
<1>2. /\ seenTun' \in [Tunnel -> Cached(Endpoint \cup {None})]
      /\ \A u \in Tunnel : /\ seenTun'[u].val = seenTun[u].val
                           /\ seenTun'[u].fresh => seenTun[u].fresh /\ tun'[u] = tun[u]
  <2>1. seenTun' = [seenTun EXCEPT ![t].fresh = @ /\ tun' = tun]
      BY DEF TunnelReleased
  <2> DEFINE b == seenTun[t].fresh /\ tun' = tun
  <2>2. b \in BOOLEAN /\ seenTun' = [seenTun EXCEPT ![t].fresh = b]
      BY <2>1
  <2>3. /\ b => seenTun[t].fresh /\ tun' = tun
        /\ \A u \in Tunnel \ {t} : tun'[u] = tun[u]
      BY DEF TunnelReleased, IInv, TypeOK
  <2> HIDE DEF b
  <2> QED
      BY <2>2, <2>3 DEF IInv, TypeOK, Cached
<1>3. TypeOK'
    BY <1>1, <1>2 DEF TunnelReleased, IInv, TypeOK, JobOK, count
<1>4. TunnelsThere'
    BY <1>1, <1>2 DEF TunnelReleased, IInv, TypeOK, JobOK, Job, TunnelsThere
<1>5. ExIpHeld' /\ RouteReady' /\ Announced'
    BY <1>1 DEF TunnelReleased, IInv, TypeOK, JobOK, Job, ExIpHeld, RouteReady, Announced
<1> QED
    BY <1>3, <1>4, <1>5 DEF IInv

LEMMA StutterInv ==
    ASSUME IInv, UNCHANGED vars
    PROVE  IInv'
    BY DEF IInv, TypeOK, JobOK, ExIpHeld, RouteReady, Announced, TunnelsThere,
           vars, api, seen, count

LEMMA NextInv ==
    ASSUME IInv, [Next]_vars
    PROVE  IInv'
<1>1. ASSUME Handler PROVE IInv'
    BY <1>1, HandlersInv, CreateInv, DeleteInv, VpcInv, ExIpInv, ListInv, PatchInv DEF Handler
<1>2. ASSUME Failure PROVE IInv'
    BY <1>2, FailuresInv, RestartInv DEF Failure
<1>3. ASSUME Cluster PROVE IInv'
    BY <1>3, GatewaysInv, BuildsInv, LabelledInv, ReleasedInv DEF Cluster
<1> QED
    BY <1>1, <1>2, <1>3, SyncInv, StutterInv DEF Next

LEMMA Invariance == Spec => []IInv
<1>1. IInv /\ [Next]_vars => IInv'
    BY NextInv
<1> QED
    BY InitInv, <1>1, PTL DEF Spec

-------------------------------------------------------------------------------
(* Theorems *)

\* Every reachable state is well typed; in particular no handler ever patches a
\* tunnel that has lost its labels.
THEOREM TypeCorrect == Spec => []TypeOK
<1>1. IInv => TypeOK
    BY DEF IInv
<1> QED
    BY Invariance, <1>1, PTL

\* The writers of the GatewayExIp and of the tunnels.
LEMMA ExIpWriter ==
    ASSUME IInv, [Next]_vars, exip # None, exip' # None, exip' # exip
    PROVE  /\ pc = "updateExIp" /\ job.exip
           /\ exip' = [gw |-> job.next, ip |-> job.ip]
  BY DEF Next, Handler, HandleAddedUp, HandleAdded, HandleFailed, HandleRestarted,
         HandleDeleted, Local, CreateExIp, DeleteExIp, UpdateVpc, UpdateExIp,
         ExIpCurrent, ExIpRefused, Refused, ListTunnels, PatchTunnel,
         Sync, SyncSts, SyncRoute, SyncExIp, SyncTunnel, Synced,
         Failure, CallFails, ReadFails, Restart,
         Cluster, GatewayCreated, GatewayFails, GatewayDeleted, GatewayReturns, Becomes,
         TunnelBuilds, TunnelLabelled, TunnelReleased, vars, api, seen

LEMMA TunnelWriter ==
    ASSUME IInv, [Next]_vars, NEW t \in Tunnel, tun[t] # None,
           tun'[t] \notin {None, tun[t]}
    PROVE  pc = "patch" /\ tun'[t] = Patched(t)
<1>1. CASE \E u \in Tunnel : PatchTunnel(u)
  <2>1. PICK u \in Tunnel : PatchTunnel(u)
      BY <1>1
  <2>2. u \in job.fresh /\ tun' = [tun EXCEPT ![u] = Patched(u)]
      BY <2>1 DEF PatchTunnel, Refused, api
  <2>3. t = u
      BY <2>2 DEF IInv, TypeOK
  <2> QED
      BY <2>1, <2>2, <2>3 DEF PatchTunnel, IInv, TypeOK
<1>2. CASE \E u \in Tunnel : TunnelLabelled(u)
  <2>1. PICK u \in Tunnel : build[u] # None /\ tun' = [tun EXCEPT ![u] = build[u]]
      BY <1>2 DEF TunnelLabelled
  <2>2. tun[u] = None
      BY <2>1 DEF IInv, TunnelsThere
  <2> QED
      BY <2>1, <2>2 DEF IInv, TypeOK
<1>3. CASE \E u \in Tunnel : TunnelReleased(u)
  <2>1. PICK u \in Tunnel : tun' = [tun EXCEPT ![u] = None]
      BY <1>3 DEF TunnelReleased
  <2> QED
      BY <2>1 DEF IInv, TypeOK
<1>4. tun' = tun \/ \E u \in Tunnel :
        PatchTunnel(u) \/ TunnelLabelled(u) \/ TunnelReleased(u)
  BY DEF Next, Handler, HandleAddedUp, HandleAdded, HandleFailed, HandleRestarted,
         HandleDeleted, Local, CreateExIp, DeleteExIp, UpdateVpc, UpdateExIp,
         ExIpCurrent, ExIpRefused, Refused, ListTunnels,
         Sync, SyncSts, SyncRoute, SyncExIp, SyncTunnel, Synced,
         Failure, CallFails, ReadFails, Restart,
         Cluster, GatewayCreated, GatewayFails, GatewayDeleted, GatewayReturns, Becomes,
         TunnelBuilds, vars, api, seen
<1> QED
    BY <1>1, <1>2, <1>3, <1>4

\* A failover writes the routes first: the GatewayExIp moves to a gateway only when
\* the static routes of the VPC, if there are any, already lead to it.
THEOREM RoutesFirst == Spec => RoutedFirst
<1>1. IInv /\ [Next]_vars =>
        [exip # None /\ exip' # None /\ exip'.gw # exip.gw
           => route \in {None, exip'.gw}]_vars
  <2> SUFFICES ASSUME IInv, [Next]_vars, exip # None, exip' # None, exip'.gw # exip.gw
               PROVE  route \in {None, exip'.gw}
      OBVIOUS
  <2>1. pc = "updateExIp" /\ job.exip /\ exip' = [gw |-> job.next, ip |-> job.ip]
      BY ExIpWriter
  <2> QED
      BY <2>1 DEF IInv, RouteReady, ExIpHeld
<1> QED
    BY Invariance, <1>1, PTL DEF Spec, RoutedFirst

\* A tunnel is patched only to what the GatewayExIp announces at that moment.
THEOREM PatchesAnnounced == Spec => PatchedAsNamed
<1>1. IInv /\ [Next]_vars =>
        [\A t \in Tunnel :
           tun[t] # None /\ tun'[t] \notin {None, tun[t]}
           => /\ exip # None /\ tun'[t].ip = exip.ip
              /\ tun'[t].gw # tun[t].gw => tun'[t].gw = exip.gw]_vars
  <2> SUFFICES ASSUME IInv, [Next]_vars, NEW t \in Tunnel,
                      tun[t] # None, tun'[t] \notin {None, tun[t]}
               PROVE  /\ exip # None /\ tun'[t].ip = exip.ip
                      /\ tun'[t].gw # tun[t].gw => tun'[t].gw = exip.gw
      OBVIOUS
  <2>1. pc = "patch" /\ tun'[t] = Patched(t)
      BY TunnelWriter
  <2>2. exip = [gw |-> job.next, ip |-> job.ip] /\ exip \in Endpoint
      BY <2>1 DEF IInv, Announced, TypeOK, JobOK, Job, Endpoint
  <2>3. tun[t] \in Endpoint
      BY DEF IInv, TypeOK
  <2> QED
      BY <2>1, <2>2, <2>3, ConstantsOK DEF Patched, Endpoint
<1> QED
    BY Invariance, <1>1, PTL DEF Spec, PatchedAsNamed

\* The GatewayExIp is never taken off a gateway by the event of another one.
THEOREM TakenOnlyFromFailed == Spec => TakenFromFailed
<1>1. IInv /\ [Next]_vars =>
        [exip # None /\ exip' # None /\ exip'.gw # exip.gw => job.gw = exip.gw]_vars
  <2> SUFFICES ASSUME IInv, [Next]_vars, exip # None, exip' # None, exip'.gw # exip.gw
               PROVE  job.gw = exip.gw
      OBVIOUS
  <2>1. pc = "updateExIp" /\ job.exip
      BY ExIpWriter
  <2> QED
      BY <2>1 DEF IInv, ExIpHeld
<1> QED
    BY Invariance, <1>1, PTL DEF Spec, TakenFromFailed
===============================================================================
