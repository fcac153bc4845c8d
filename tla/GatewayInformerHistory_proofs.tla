--------------------- MODULE GatewayInformerHistory_proofs ---------------------
(***************************************************************************)
(* The informer implements PrimaryGateway, for any finite set of gateways, *)
(* any addresses and tunnels and any bound on faults and events.           *)
(***************************************************************************)
EXTENDS GatewayInformerHistory, GatewayInformer_proofs

-------------------------------------------------------------------------------
(* The invariant *)

\* What the history variables know of the gateways as they are, and as they are seen.
HistoryTrue ==
    /\ been \in SUBSET Endpoint /\ lost \in SUBSET Gateway
    /\ \A g \in Gateway :
         /\ Available(sts, g) => [gw |-> g, ip |-> sts[g].ip] \in been
         /\ Available(seenSts, g) => [gw |-> g, ip |-> seenSts[g].ip] \in been
         /\ [gw |-> g, ip |-> seenSts[g].ip] \in been
              => [gw |-> g, ip |-> sts[g].ip] \in been
         /\ (\E i \in IP : [gw |-> g, ip |-> i] \in been) /\ ~Available(sts, g)
              => g \in lost

\* Gateways that may be the primary: the address one is seen with was really its own,
\* and unless it is seen up it was lost.
Worthy ==
    {g \in Gateway : /\ [gw |-> g, ip |-> seenSts[g].ip] \in been
                     /\ Available(seenSts, g) \/ g \in lost}

\* Notices tell the truth about the past.
TrueNotice ==
    {n \in Notice : /\ n.kind \in {"failed", "deleted"} => n.gw \in lost
                    /\ n.kind = "addedUp" => n.gw \in Worthy}

NoticesTrue == queue \in Seq(TrueNotice)

\* Whatever names a gateway, in the API server, in the cache or in a running handler,
\* names a worthy one.
ExIpWorthy == exip # None => exip.gw \in Worthy

SeenWorthy == seenExIp.val # None => seenExIp.val.gw \in Worthy

BuildsBeen == \A t \in Tunnel : build[t] # None => build[t] \in been

JobWorthy ==
    /\ pc # "idle" =>
         /\ job.next \in Worthy /\ [gw |-> job.next, ip |-> job.ip] \in been
         /\ job.kind \in {"failed", "deleted"} => job.gw \in lost
    /\ pc \in {"updateVpc", "updateExIp"} => job.kind # "addedUp"
    /\ pc = "delete" /\ exip # None => exip.gw \in lost

NamesWorthy == ExIpWorthy /\ SeenWorthy /\ BuildsBeen /\ JobWorthy

HIInv == IInv /\ HistoryTrue /\ NoticesTrue /\ NamesWorthy

-------------------------------------------------------------------------------
(* The history *)

LEMMA HistoryGrows ==
    ASSUME [HNext]_hvars
    PROVE  been \subseteq been' /\ lost \subseteq lost'
  BY DEF HNext, hvars

\* An address changes only with a gateway that comes up.
LEMMA AddressesMove ==
    ASSUME IInv, [Next]_vars, NEW g \in Gateway, sts'[g].st # "up"
    PROVE  sts'[g].ip = sts[g].ip
<1>1. CASE sts' = sts
    BY <1>1
<1>2. ASSUME NEW h \in Gateway, NEW st, sts' = [sts EXCEPT ![h].st = st]
      PROVE  sts'[g].ip = sts[g].ip
    BY <1>2 DEF IInv, TypeOK, StatefulSets
<1>3. ASSUME NEW h \in Gateway, NEW i \in IP, GatewayReturns(h, i)
      PROVE  sts'[g].ip = sts[g].ip
    BY <1>3 DEF GatewayReturns, IInv, TypeOK, StatefulSets
<1> QED
    BY <1>1, <1>2, <1>3
       DEF Next, Handler, HandleAddedUp, HandleAdded, HandleFailed, HandleRestarted,
           HandleDeleted, Local, CreateExIp, DeleteExIp, UpdateVpc, UpdateExIp,
           ExIpCurrent, ExIpRefused, Refused, ListTunnels, PatchTunnel,
           Sync, SyncSts, SyncRoute, SyncExIp, SyncTunnel, Synced,
           Failure, CallFails, ReadFails, Restart,
           Cluster, GatewayCreated, GatewayFails, GatewayDeleted, Becomes,
           TunnelBuilds, TunnelLabelled, TunnelReleased, vars, api, seen

\* The cache is left alone or renewed.
LEMMA SightMoves ==
    ASSUME [Next]_vars
    PROVE  seenSts' = seenSts \/ (seenSts' = sts /\ sts' = sts)
  BY DEF Next, Handler, HandleAddedUp, HandleAdded, HandleFailed, HandleRestarted,
         HandleDeleted, Local, CreateExIp, DeleteExIp, UpdateVpc, UpdateExIp,
         ExIpCurrent, ExIpRefused, Refused, ListTunnels, PatchTunnel,
         Sync, SyncSts, SyncRoute, SyncExIp, SyncTunnel, Synced,
         Failure, CallFails, ReadFails, Restart,
         Cluster, GatewayCreated, GatewayFails, GatewayDeleted, GatewayReturns, Becomes,
         TunnelBuilds, TunnelLabelled, TunnelReleased, vars, api, seen

LEMMA HistoryInv ==
    ASSUME IInv, IInv', HistoryTrue, [Next]_vars, HNext
    PROVE  HistoryTrue'
<1>1. UpNow(sts') \subseteq Endpoint
    BY DEF UpNow, Endpoint, IInv, TypeOK, StatefulSets
<1>2. been' \in SUBSET Endpoint /\ lost' \in SUBSET Gateway
    BY <1>1 DEF HNext, HistoryTrue, LostNow
<1>3. been \subseteq been' /\ lost \subseteq lost'
    BY DEF HNext
<1>4. ASSUME NEW g \in Gateway, Available(sts', g)
      PROVE  [gw |-> g, ip |-> sts'[g].ip] \in been'
    BY <1>4 DEF HNext, UpNow
<1>5. ASSUME NEW g \in Gateway, [gw |-> g, ip |-> sts[g].ip] \in been
      PROVE  [gw |-> g, ip |-> sts'[g].ip] \in been'
  <2>1. CASE sts'[g].st = "up"
      BY <2>1, <1>4 DEF Available
  <2>2. CASE sts'[g].st # "up"
      BY <2>2, <1>3, <1>5, AddressesMove
  <2> QED
      BY <2>1, <2>2
<1>6. ASSUME NEW g \in Gateway, NEW i \in IP, [gw |-> g, ip |-> i] \in been',
             ~Available(sts', g)
      PROVE  g \in lost'
  <2>1. [gw |-> g, ip |-> i] \in been
      BY <1>6 DEF HNext, UpNow
  <2>2. CASE Available(sts, g)
      BY <1>6, <2>2 DEF HNext, LostNow, Available
  <2>3. CASE ~Available(sts, g)
      BY <2>1, <2>3, <1>3 DEF HistoryTrue
  <2> QED
      BY <2>2, <2>3
<1>7. CASE seenSts' = seenSts
  <2>1. \A g \in Gateway :
          /\ Available(seenSts', g) => [gw |-> g, ip |-> seenSts'[g].ip] \in been'
          /\ [gw |-> g, ip |-> seenSts'[g].ip] \in been'
               => [gw |-> g, ip |-> sts'[g].ip] \in been'
    <3> SUFFICES ASSUME NEW g \in Gateway,
                        [gw |-> g, ip |-> seenSts[g].ip] \in been' \/ Available(seenSts, g)
                 PROVE  /\ Available(seenSts, g) => [gw |-> g, ip |-> seenSts[g].ip] \in been'
                        /\ [gw |-> g, ip |-> sts'[g].ip] \in been'
        BY <1>7
    <3>1. Available(seenSts, g) => [gw |-> g, ip |-> seenSts[g].ip] \in been
        BY DEF HistoryTrue
    <3>2. CASE [gw |-> g, ip |-> seenSts[g].ip] \in been
        BY <3>1, <3>2, <1>3, <1>5 DEF HistoryTrue
    <3>3. CASE [gw |-> g, ip |-> seenSts[g].ip] \notin been
      <4>1. Available(sts', g)
          BY <3>1, <3>3 DEF HNext, UpNow
      <4> QED
          BY <3>1, <3>3, <4>1, <1>4
    <3> QED
        BY <3>2, <3>3
  <2> QED
      BY <1>2, <1>4, <1>6, <2>1 DEF HistoryTrue
<1>8. CASE seenSts' = sts /\ sts' = sts
    BY <1>2, <1>4, <1>6, <1>8 DEF HistoryTrue
<1> QED
    BY <1>7, <1>8, SightMoves

LEMMA WorthyKept ==
    ASSUME IInv, HistoryTrue, [Next]_vars, HNext
    PROVE  Worthy \subseteq Worthy'
<1> SUFFICES ASSUME NEW g \in Worthy
             PROVE  g \in Worthy'
    OBVIOUS
<1>1. been \subseteq been' /\ lost \subseteq lost' /\ g \in Gateway
    BY DEF HNext, Worthy
<1>2. CASE seenSts' = seenSts
    BY <1>1, <1>2 DEF Worthy, Available
<1>3. CASE seenSts' = sts /\ sts' = sts
  <2>1. [gw |-> g, ip |-> sts[g].ip] \in been
      BY DEF Worthy, HistoryTrue
  <2>2. sts[g].ip \in IP
      BY <1>1 DEF IInv, TypeOK, StatefulSets
  <2>3. Available(sts, g) \/ g \in lost
      BY <1>1, <2>1, <2>2 DEF HistoryTrue
  <2> QED
      BY <1>1, <1>3, <2>1, <2>3 DEF Worthy, Available
<1> QED
    BY <1>2, <1>3, SightMoves

-------------------------------------------------------------------------------
(* The notices *)

LEMMA RelistedTrue ==
    ASSUME IInv, HistoryTrue, NEW q \in Relisted(sts), NEW i \in 1..Len(q)
    PROVE  /\ q[i].kind \in {"addedUp", "added"} /\ q[i].gw \in Gateway
           /\ q[i].kind = "addedUp" => Available(sts, q[i].gw)
<1> DEFINE there == {g \in Gateway : sts[g].st # "absent"}
<1> DEFINE n == Cardinality(there)
<1>1. n \in Nat
    BY ConstantsOK, FS_Subset, FS_CardinalityType
<1>2. PICK f \in [1..n -> there] :
          q = [k \in 1..n |-> [kind |-> IF Available(sts, f[k]) THEN "addedUp" ELSE "added",
                               gw   |-> f[k]]]
    BY DEF Relisted
<1> HIDE DEF n
<1>3. i \in 1..n
  <2>1. q \in Seq(Notice) /\ DOMAIN q = 1..n
      BY <1>2, RelistedTyped DEF IInv, TypeOK
  <2> QED
      BY <2>1, <1>1
<1> QED
    BY <1>2, <1>3

\* A sequence of notices is typed by the set all of them are in.
LEMMA Narrowed ==
    ASSUME NEW S, NEW T, NEW q \in Seq(S), \A i \in 1..Len(q) : q[i] \in T
    PROVE  q \in Seq(T)
<1>1. q \in [1..Len(q) -> S] /\ Len(q) \in Nat
    BY LenProperties
<1>2. q \in [1..Len(q) -> T]
    BY <1>1
<1> QED
    BY <1>1, <1>2

LEMMA NoticesInit ==
    ASSUME HInit, IInv, HistoryTrue
    PROVE  NoticesTrue
<1>1. queue \in Relisted(sts) /\ seenSts = sts /\ queue \in Seq(Notice)
    BY DEF HInit, Init, IInv, TypeOK
<1>2. ASSUME NEW i \in 1..Len(queue)
      PROVE  queue[i] \in TrueNotice
  <2>1. /\ queue[i].kind \in {"addedUp", "added"} /\ queue[i].gw \in Gateway
        /\ queue[i].kind = "addedUp" => Available(sts, queue[i].gw)
      BY <1>1, RelistedTrue
  <2>2. queue[i] \in Notice
      BY <1>1, ElementOfSeq
  <2> QED
      BY <1>1, <2>1, <2>2 DEF HistoryTrue, Worthy, TrueNotice
<1> QED
    BY <1>1, <1>2, Narrowed DEF NoticesTrue

\* What a step may do to the queue.
LEMMA QueueMoves ==
    ASSUME [Next]_vars
    PROVE  \/ queue' = queue
           \/ queue # <<>> /\ queue' = Tail(queue)
           \/ seenSts' = sts /\ sts' = sts /\ queue' \in Relisted(sts)
           \/ \E g \in Gateway :
                 /\ \/ GatewayCreated(g) \/ GatewayFails(g) \/ GatewayDeleted(g)
                    \/ \E i \in IP : GatewayReturns(g, i)
                 /\ \E kind \in {"added", "restarted", "failed", "deleted"} :
                       /\ queue' = Append(queue, [kind |-> kind, gw |-> g])
                       /\ kind \in {"failed", "deleted"}
                            => GatewayFails(g) \/ GatewayDeleted(g)
<1>1. ASSUME NEW g \in Gateway,
             \/ GatewayCreated(g) \/ GatewayFails(g) \/ GatewayDeleted(g)
             \/ \E i \in IP : GatewayReturns(g, i)
      PROVE  \E kind \in {"added", "restarted", "failed", "deleted"} :
               /\ queue' = Append(queue, [kind |-> kind, gw |-> g])
               /\ kind \in {"failed", "deleted"} => GatewayFails(g) \/ GatewayDeleted(g)
    BY <1>1 DEF GatewayCreated, GatewayFails, GatewayDeleted, GatewayReturns, Becomes
<1>2. CASE Restart
    BY <1>2 DEF Restart, api
<1>3. CASE Handler \/ CallFails \/ ReadFails
    BY <1>3 DEF Handler, HandleAddedUp, HandleAdded, HandleFailed, HandleRestarted,
                HandleDeleted, Takes, CreateExIp, DeleteExIp, UpdateVpc, UpdateExIp,
                ListTunnels, PatchTunnel, CallFails, ReadFails
<1>4. CASE Sync \/ UNCHANGED vars
           \/ \E t \in Tunnel : TunnelBuilds(t) \/ TunnelLabelled(t) \/ TunnelReleased(t)
    BY <1>4 DEF Sync, SyncSts, SyncRoute, SyncExIp, SyncTunnel, Synced, TunnelBuilds,
                TunnelLabelled, TunnelReleased, vars
<1> QED
    BY <1>1, <1>2, <1>3, <1>4 DEF Next, Failure, Cluster

LEMMA LostAtOnce ==
    ASSUME IInv, HNext, NEW g \in Gateway, GatewayFails(g) \/ GatewayDeleted(g)
    PROVE  g \in lost'
<1>1. sts[g].st # "absent" /\ sts'[g].st # "up" /\ sts'[g].st # sts[g].st
    BY DEF GatewayFails, GatewayDeleted, Becomes, Available, IInv, TypeOK, StatefulSets
<1> QED
    BY <1>1 DEF HNext, LostNow

LEMMA NoticesInv ==
    ASSUME IInv, HistoryTrue, HistoryTrue', NoticesTrue, [Next]_vars, HNext
    PROVE  NoticesTrue'
<1>1. TrueNotice \subseteq TrueNotice'
  <2> SUFFICES ASSUME NEW n \in TrueNotice
               PROVE  n \in TrueNotice'
      OBVIOUS
  <2>1. n \in Notice /\ n.gw \in Gateway
      BY DEF TrueNotice, Notice
  <2>2. n.gw \in Worthy => n.gw \in Worthy'
      BY WorthyKept
  <2>3. lost \subseteq lost'
      BY DEF HNext
  <2> QED
      BY <2>1, <2>2, <2>3 DEF TrueNotice
<1>2. queue \in Seq(TrueNotice')
  <2>1. \A i \in 1..Len(queue) : queue[i] \in TrueNotice'
      BY <1>1, ElementOfSeq DEF NoticesTrue
  <2> QED
      BY <2>1, Narrowed DEF NoticesTrue
<1>3. CASE queue' = queue
    BY <1>2, <1>3 DEF NoticesTrue
<1>4. CASE queue # <<>> /\ queue' = Tail(queue)
    BY <1>2, <1>4, HeadTailProperties DEF NoticesTrue
<1>5. CASE seenSts' = sts /\ sts' = sts /\ queue' \in Relisted(sts)
  <2>1. queue' \in Seq(Notice)
      BY <1>5, RelistedTyped DEF IInv, TypeOK
  <2>2. ASSUME NEW i \in 1..Len(queue')
        PROVE  queue'[i] \in TrueNotice'
    <3> DEFINE n == queue'[i]
    <3>1. /\ n.kind \in {"addedUp", "added"} /\ n.gw \in Gateway
          /\ n.kind = "addedUp" => Available(sts, n.gw)
        BY <1>5, RelistedTrue
    <3>2. n \in Notice
        BY <2>1, ElementOfSeq
    <3> HIDE DEF n
    <3>3. n.kind = "addedUp" => [gw |-> n.gw, ip |-> sts[n.gw].ip] \in been'
        BY <3>1, HistoryGrows DEF HistoryTrue, HNext
    <3>4. n \in TrueNotice'
        BY <1>5, <3>1, <3>2, <3>3 DEF Worthy, TrueNotice, Available
    <3> QED
        BY <3>4 DEF n
  <2> QED
      BY <2>1, <2>2, Narrowed DEF NoticesTrue
<1>6. ASSUME NEW g \in Gateway, NEW kind \in {"added", "restarted", "failed", "deleted"},
             queue' = Append(queue, [kind |-> kind, gw |-> g]),
             kind \in {"failed", "deleted"} => GatewayFails(g) \/ GatewayDeleted(g)
      PROVE  NoticesTrue'
  <2>1. kind \in {"failed", "deleted"} => g \in lost'
      BY <1>6, LostAtOnce
  <2>2. [kind |-> kind, gw |-> g] \in TrueNotice'
      BY <2>1 DEF TrueNotice, Notice
  <2> QED
      BY <1>2, <1>6, <2>2, AppendProperties DEF NoticesTrue
<1> QED
    BY <1>3, <1>4, <1>5, <1>6, QueueMoves

-------------------------------------------------------------------------------
(* The names *)

\* What a step may do to the GatewayExIp, to its copy and to the builds.
LEMMA NamesMove ==
    ASSUME IInv, [Next]_vars
    PROVE  /\ \/ exip' = exip \/ exip' = None
              \/ pc \in {"create", "updateExIp"} /\ exip' = [gw |-> job.next, ip |-> job.ip]
           /\ seenExIp'.val \in {seenExIp.val, exip}
           /\ \A t \in Tunnel :
                \/ build'[t] \in {build[t], None}
                \/ /\ seenExIp.val # None
                   /\ build'[t] = [gw |-> seenExIp.val.gw, ip |-> seenSts[seenExIp.val.gw].ip]
<1>0. \A b \in BOOLEAN : [seenExIp EXCEPT !.fresh = b].val = seenExIp.val
    BY DEF IInv, TypeOK, Cached
<1>1. CASE Handler
  <2>1. CASE CreateExIp \/ DeleteExIp \/ UpdateExIp
    <3>1. build' = build
        BY <2>1 DEF CreateExIp, DeleteExIp, UpdateExIp, ExIpCurrent, ExIpRefused, Refused, api
    <3>2. seenExIp'.val = seenExIp.val
        BY <2>1, <1>0 DEF CreateExIp, DeleteExIp, UpdateExIp, ExIpCurrent, ExIpRefused,
                          Refused, seen
    <3>3. \/ exip' = exip \/ exip' = None
          \/ pc \in {"create", "updateExIp"} /\ exip' = [gw |-> job.next, ip |-> job.ip]
        BY <2>1 DEF CreateExIp, DeleteExIp, UpdateExIp, ExIpCurrent, ExIpRefused, Refused, api
    <3> QED
        BY <3>1, <3>2, <3>3
  <2>2. CASE ~(CreateExIp \/ DeleteExIp \/ UpdateExIp)
      BY <1>1, <2>2
         DEF Handler, HandleAddedUp, HandleAdded, HandleFailed, HandleRestarted,
             HandleDeleted, Local, UpdateVpc, Refused, ListTunnels, PatchTunnel, api, seen
  <2> QED
      BY <2>1, <2>2
<1>5. CASE Failure
    BY <1>5 DEF Failure, CallFails, ReadFails, Restart, api, seen
<1>2. CASE Sync
    BY <1>2 DEF Sync, SyncSts, SyncRoute, SyncExIp, SyncTunnel, Synced, api
<1>3. CASE Cluster
    BY <1>3 DEF Cluster, GatewayCreated, GatewayFails, GatewayDeleted, GatewayReturns,
           Becomes, TunnelBuilds, TunnelLabelled, TunnelReleased, seen, IInv, TypeOK
<1>4. CASE UNCHANGED vars
    BY <1>4 DEF vars, api, seen
<1> QED
    BY <1>1, <1>2, <1>3, <1>4, <1>5 DEF Next

\* What it may do to the running handler, if it does not begin one.
LEMMA JobMoves ==
    ASSUME IInv, [Next]_vars, pc # "idle", pc' # "idle"
    PROVE  /\ job'.next = job.next /\ job'.ip = job.ip
           /\ job'.kind = job.kind /\ job'.gw = job.gw
           /\ pc' \in {"updateVpc", "delete"} => pc' = pc
           /\ pc' = "updateExIp" => pc \in {"updateVpc", "updateExIp"}
<1> DEFINE Ends  == pc' \in {"list", "patch"} /\ job' = job
           Goes  == pc = "updateVpc" /\ pc' = "updateExIp" /\ job' = job
           Same  == /\ pc' = pc
                    /\ job' = job \/ (\E F : job' = [job EXCEPT !.fresh = F])
           Patch == /\ pc' = "patch"
                    /\ \E T : \/ job' = [job EXCEPT !.todo = T]
                             \/ \E F : job' = [job EXCEPT !.todo = T, !.fresh = F]
<1>1. Ends \/ Goes \/ Same \/ Patch
  <2>1. CASE CreateExIp \/ DeleteExIp \/ UpdateVpc \/ UpdateExIp
      BY <2>1 DEF CreateExIp, DeleteExIp, UpdateVpc, UpdateExIp, ExIpCurrent, ExIpRefused,
             Refused, Answer, Stop, AfterExIp, AfterList
  <2>2. CASE ListTunnels
      BY <2>2 DEF ListTunnels, Stop
  <2>3. ASSUME NEW t \in Tunnel, PatchTunnel(t)
        PROVE  Patch
      BY <2>3 DEF PatchTunnel, Refused, Answer, Stop, AfterList
  <2>4. CASE Failure \/ Sync \/ UNCHANGED vars
      BY <2>4 DEF Failure, CallFails, ReadFails, Restart, Stop, Sync, SyncSts, SyncRoute,
             SyncExIp, SyncTunnel, Synced, vars
  <2>5. CASE Cluster
      BY <2>5 DEF Cluster, GatewayCreated, GatewayFails, GatewayDeleted, GatewayReturns,
             Becomes, TunnelBuilds, TunnelLabelled, TunnelReleased
  <2>6. ASSUME NEW g \in Gateway,
               \/ HandleAddedUp(g) \/ HandleAdded(g) \/ HandleFailed(g)
               \/ HandleRestarted(g) \/ HandleDeleted(g)
        PROVE  FALSE
      BY <2>6 DEF HandleAddedUp, HandleAdded, HandleFailed, HandleRestarted, HandleDeleted,
             Takes
  <2> QED
      BY <2>1, <2>2, <2>3, <2>4, <2>5, <2>6 DEF Next, Handler
<1>2. job \in Job
    BY DEF IInv, TypeOK, JobOK
<1> QED
    BY <1>1, <1>2 DEF Job

LEMMA BeginWorthy ==
    ASSUME IInv, HistoryTrue, [Next]_vars, HNext,
           NEW kind \in {"addedUp", "failed", "restarted", "deleted"},
           NEW g \in Gateway, NEW next \in Gateway, NEW call,
           Begin(kind, g, next, call), UNCHANGED <<api, seen>>,
           next \in Worthy, kind \in {"failed", "deleted"} => g \in lost,
           call \in {"updateVpc", "updateExIp"} => kind # "addedUp",
           call = "delete" /\ exip # None => exip.gw \in lost
    PROVE  JobWorthy'
<1>1. been \subseteq been' /\ lost \subseteq lost' /\ exip' = exip
    BY DEF HNext, api
<1>2. /\ pc' = call /\ job'.next = next /\ job'.kind = kind /\ job'.gw = g
      /\ job'.ip = seenSts[next].ip
    BY DEF Begin
<1>3. next \in Worthy' /\ [gw |-> next, ip |-> seenSts[next].ip] \in been'
    BY <1>1, WorthyKept DEF Worthy
<1> QED
    BY <1>1, <1>2, <1>3 DEF JobWorthy

LEMMA TakesTrue ==
    ASSUME IInv, NoticesTrue, NEW kind, NEW g \in Gateway, Takes(kind, g)
    PROVE  /\ kind \in {"failed", "deleted"} => g \in lost
           /\ kind = "addedUp" => g \in Worthy
<1>1. [kind |-> kind, gw |-> g] \in TrueNotice
    BY HeadTailProperties DEF NoticesTrue, Takes
<1> QED
    BY <1>1 DEF TrueNotice

LEMMA HandlersWorthy ==
    ASSUME HIInv, [Next]_vars, HNext, NEW g \in Gateway,
           \/ HandleAddedUp(g) \/ HandleAdded(g) \/ HandleFailed(g)
           \/ HandleRestarted(g) \/ HandleDeleted(g)
    PROVE  JobWorthy'
<1>1. UNCHANGED <<api, seen>> /\ pc = "idle"
    BY DEF HandleAddedUp, HandleAdded, HandleFailed, HandleRestarted, HandleDeleted, Local,
           Takes
<1>2. IsPrimary(g) => g \in Worthy
    BY DEF HIInv, NamesWorthy, SeenWorthy, IsPrimary
<1>3. \A h \in Gateway : Available(seenSts, h) => h \in Worthy
    BY DEF HIInv, HistoryTrue, Worthy
<1>4. CASE Ignored
    BY <1>1, <1>4 DEF Ignored, JobWorthy
<1>5. CASE HandleAddedUp(g) /\ Begin("addedUp", g, g, "create")
  <2>1. g \in Worthy
      BY <1>5, TakesTrue DEF HandleAddedUp, HIInv
  <2> QED
      BY <1>1, <1>5, <2>1, BeginWorthy DEF HIInv
<1>6. ASSUME NEW h \in Standby(g), HandleFailed(g), Begin("failed", g, h, "updateVpc")
      PROVE  JobWorthy'
  <2>1. g \in lost
      BY <1>6, TakesTrue DEF HandleFailed, HIInv
  <2>2. h \in Gateway /\ h \in Worthy
      BY <1>3 DEF Standby
  <2> QED
      BY <1>1, <1>6, <2>1, <2>2, BeginWorthy DEF HIInv
<1>7. CASE HandleRestarted(g) /\ IsPrimary(g) /\ Begin("restarted", g, g, "updateExIp")
    BY <1>1, <1>2, <1>7, BeginWorthy DEF HIInv
<1>8. CASE HandleDeleted(g) /\ IsPrimary(g)
           /\ (\A h \in Gateway : ~Available(seenSts, h)) /\ Begin("deleted", g, g, "delete")
  <2>1. g \in lost
      BY <1>8, TakesTrue DEF HandleDeleted, HIInv
  <2>2. exip # None => exip.gw \in lost
      BY <1>8 DEF HIInv, NamesWorthy, ExIpWorthy, Worthy, IInv, TypeOK, Endpoint
  <2> QED
      BY <1>1, <1>2, <1>8, <2>1, <2>2, BeginWorthy DEF HIInv
<1>9. ASSUME NEW h \in Gateway, Available(seenSts, h), HandleDeleted(g),
             Begin("deleted", g, h, "updateVpc")
      PROVE  JobWorthy'
  <2>1. g \in lost
      BY <1>9, TakesTrue DEF HandleDeleted, HIInv
  <2> QED
      BY <1>1, <1>3, <1>9, <2>1, BeginWorthy DEF HIInv
<1> QED
    BY <1>4, <1>5, <1>6, <1>7, <1>8, <1>9
       DEF HandleAddedUp, HandleAdded, HandleFailed, HandleRestarted, HandleDeleted, FirstCall

LEMMA NamesInv ==
    ASSUME HIInv, IInv', [Next]_vars, HNext
    PROVE  NamesWorthy'
<1> USE DEF HIInv, NamesWorthy
<1>1. been \subseteq been' /\ lost \subseteq lost'
    BY DEF HNext
<1>2. Worthy \subseteq Worthy'
    BY WorthyKept
<1>3. ExIpWorthy'
    BY <1>2, NamesMove DEF ExIpWorthy, JobWorthy
<1>4. SeenWorthy'
    BY <1>2, NamesMove DEF SeenWorthy, ExIpWorthy
<1>5. BuildsBeen'
  <2> SUFFICES ASSUME NEW t \in Tunnel, build'[t] # None
               PROVE  build'[t] \in been'
      BY DEF BuildsBeen
  <2>1. CASE build'[t] = build[t]
      BY <1>1, <2>1 DEF BuildsBeen
  <2>2. CASE /\ seenExIp.val # None
             /\ build'[t] = [gw |-> seenExIp.val.gw, ip |-> seenSts[seenExIp.val.gw].ip]
      BY <1>1, <2>2 DEF SeenWorthy, Worthy
  <2> QED
      BY <2>1, <2>2, NamesMove
<1>6. CASE pc' = "idle"
    BY <1>6, <1>3, <1>4, <1>5 DEF JobWorthy
<1>7. CASE pc # "idle" /\ pc' # "idle"
  <2>1. /\ job'.next = job.next /\ job'.ip = job.ip
        /\ job'.kind = job.kind /\ job'.gw = job.gw
        /\ pc' \in {"updateVpc", "delete"} => pc' = pc
        /\ pc' = "updateExIp" => pc \in {"updateVpc", "updateExIp"}
      BY <1>7, JobMoves
  <2>2. pc' = "delete" /\ exip' # None => exip'.gw \in lost'
      BY <1>1, <2>1, NamesMove DEF JobWorthy
  <2>3. JobWorthy'
      BY <1>1, <1>2, <1>7, <2>1, <2>2 DEF JobWorthy
  <2> QED
      BY <1>3, <1>4, <1>5, <2>3
<1>8. CASE pc = "idle" /\ pc' # "idle"
  <2>1. PICK g \in Gateway :
           \/ HandleAddedUp(g) \/ HandleAdded(g) \/ HandleFailed(g)
           \/ HandleRestarted(g) \/ HandleDeleted(g)
      BY <1>8 DEF Next, Handler, CreateExIp, DeleteExIp, UpdateVpc, UpdateExIp, ListTunnels,
             PatchTunnel, Failure, CallFails, ReadFails, Restart, Stop,
             Sync, SyncSts, SyncRoute, SyncExIp, SyncTunnel, Synced,
             Cluster, GatewayCreated, GatewayFails, GatewayDeleted, GatewayReturns, Becomes,
             TunnelBuilds, TunnelLabelled, TunnelReleased, vars
  <2>2. JobWorthy'
      BY <2>1, HandlersWorthy
  <2> QED
      BY <1>3, <1>4, <1>5, <2>2
<1> QED
    BY <1>6, <1>7, <1>8

-------------------------------------------------------------------------------
(* The invariant holds *)

LEMMA HInitInv == HInit => HIInv
<1> SUFFICES ASSUME HInit PROVE HIInv
    OBVIOUS
<1>1. IInv
    BY InitInv DEF HInit
<1>2. HistoryTrue
  <2>1. been = UpNow(sts) /\ lost = {} /\ seenSts = sts /\ sts \in StatefulSets
      BY <1>1 DEF HInit, Init
  <2>2. been \in SUBSET Endpoint
      BY <2>1 DEF UpNow, Endpoint, StatefulSets
  <2>3. ASSUME NEW g \in Gateway
        PROVE  /\ Available(sts, g) => [gw |-> g, ip |-> sts[g].ip] \in been
               /\ \A i : [gw |-> g, ip |-> i] \in been => Available(sts, g)
      BY <2>1 DEF UpNow
  <2>4. ASSUME NEW g \in Gateway
        PROVE  [gw |-> g, ip |-> seenSts[g].ip] \in been => Available(sts, g)
      BY <2>3
  <2> QED
      BY <2>1, <2>2, <2>3, <2>4 DEF HistoryTrue
<1>3. NamesWorthy
    BY DEF HInit, Init, NamesWorthy, ExIpWorthy, SeenWorthy, BuildsBeen, JobWorthy
<1> QED
    BY <1>1, <1>2, <1>3, NoticesInit DEF HIInv

LEMMA HNextInv ==
    ASSUME HIInv, [HNext]_hvars
    PROVE  HIInv'
<1>1. CASE HNext
  <2>1. [Next]_vars /\ IInv'
      BY <1>1, NextInv DEF HNext, HIInv
  <2>2. HistoryTrue'
      BY <1>1, <2>1, HistoryInv DEF HIInv
  <2> QED
      BY <1>1, <2>1, <2>2, NoticesInv, NamesInv DEF HIInv
<1>2. CASE UNCHANGED hvars
  <2>1. IInv'
      BY <1>2, StutterInv DEF HIInv, hvars
  <2>2. Worthy' = Worthy
      BY <1>2 DEF Worthy, Available, hvars, vars, seen
  <2>3. TrueNotice' = TrueNotice
      BY <1>2, <2>2 DEF TrueNotice, hvars
  <2>4. HistoryTrue'
      BY <1>2 DEF HIInv, HistoryTrue, Available, hvars, vars, api, seen
  <2>5. NoticesTrue' /\ NamesWorthy'
      BY <1>2, <2>2, <2>3 DEF HIInv, NoticesTrue, NamesWorthy, ExIpWorthy, SeenWorthy,
             BuildsBeen, JobWorthy, hvars, vars, api, seen
  <2> QED
      BY <2>1, <2>4, <2>5 DEF HIInv
<1> QED
    BY <1>1, <1>2

LEMMA HInvariance == HSpec => []HIInv
<1>1. HIInv /\ [HNext]_hvars => HIInv'
    BY HNextInv
<1> QED
    BY HInitInv, <1>1, PTL DEF HSpec

-------------------------------------------------------------------------------
(* The refinement *)

LEMMA InitRefines == HInit => PG!Init
<1> SUFFICES ASSUME HInit PROVE PG!Init
    OBVIOUS
<1>1. been \in SUBSET Endpoint
    BY HInitInv DEF HIInv, HistoryTrue
<1> QED
    BY <1>1 DEF HInit, Init, PG!Init, PG!Endpoint, Endpoint

\* Steps that touch no gateway teach nothing.
LEMMA NothingNew ==
    ASSUME HIInv, HNext, sts' = sts
    PROVE  been' = been /\ lost' = lost
<1>1. UpNow(sts) \subseteq been
    BY DEF UpNow, HIInv, HistoryTrue
<1>2. LostNow = {}
    BY DEF LostNow
<1> QED
    BY <1>1, <1>2 DEF HNext

LEMMA GatewaysRefine ==
    ASSUME HIInv, HNext, NEW g \in Gateway,
           \/ GatewayCreated(g) \/ GatewayFails(g) \/ GatewayDeleted(g)
           \/ \E i \in IP : GatewayReturns(g, i)
    PROVE  PG!Next \/ UNCHANGED PG!vars
<1>1. UNCHANGED <<route, exip, tun>>
    BY DEF GatewayCreated, GatewayFails, GatewayDeleted, GatewayReturns, Becomes
<1>2. UpNow(sts) \subseteq been
    BY DEF UpNow, HIInv, HistoryTrue
<1>3. sts \in StatefulSets
    BY DEF HIInv, IInv, TypeOK
<1>4. ASSUME NEW st \in {"down", "absent"}, sts' = [sts EXCEPT ![g].st = st]
      PROVE  /\ been' = been
             /\ lost' = lost \cup (IF sts[g].st \in {"absent", st} THEN {} ELSE {g})
  <2>1. \A h \in Gateway : h # g => sts'[h] = sts[h]
      BY <1>3, <1>4 DEF StatefulSets
  <2>2. sts'[g].st = st
      BY <1>3, <1>4 DEF StatefulSets
  <2>3. UpNow(sts') \subseteq UpNow(sts)
      BY <2>1, <2>2 DEF UpNow, Available
  <2>4. LostNow = IF sts[g].st \in {"absent", st} THEN {} ELSE {g}
      BY <2>1, <2>2 DEF LostNow
  <2> QED
      BY <1>2, <2>3, <2>4 DEF HNext
<1>5. ASSUME NEW i \in IP, sts' = [sts EXCEPT ![g] = [st |-> "up", ip |-> i]]
      PROVE  been' = been \cup {[gw |-> g, ip |-> i]} /\ lost' = lost
  <2>1. \A h \in Gateway : h # g => sts'[h] = sts[h]
      BY <1>3, <1>5 DEF StatefulSets
  <2>2. sts'[g] = [st |-> "up", ip |-> i]
      BY <1>3, <1>5 DEF StatefulSets
  <2>3. UpNow(sts') \subseteq UpNow(sts) \cup {[gw |-> g, ip |-> i]}
      BY <2>1, <2>2 DEF UpNow, Available
  <2>4. [gw |-> g, ip |-> i] \in UpNow(sts')
      BY <2>2 DEF UpNow, Available
  <2>5. LostNow = {}
      BY <2>1, <2>2 DEF LostNow
  <2> QED
      BY <1>2, <2>3, <2>4, <2>5 DEF HNext
<1>6. ASSUME NEW i \in IP, GatewayReturns(g, i)
      PROVE  PG!Next
  <2>1. [gw |-> g, ip |-> i] \in PG!Endpoint
      BY DEF PG!Endpoint
  <2>2. PG!ComesUp([gw |-> g, ip |-> i])
      BY <1>1, <1>5, <1>6 DEF GatewayReturns, PG!ComesUp
  <2> QED
      BY <2>1, <2>2 DEF PG!Next
<1>7. CASE GatewayCreated(g) \/ GatewayFails(g) \/ GatewayDeleted(g)
  <2>1. PICK st \in {"down", "absent"} : sts' = [sts EXCEPT ![g].st = st]
      BY <1>7 DEF GatewayCreated, GatewayFails, GatewayDeleted, Becomes
  <2>2. been' = been /\ (lost' = lost \/ lost' = lost \cup {g})
      BY <1>4, <2>1
  <2> QED
      BY <1>1, <2>2 DEF PG!Next, PG!IsLost, PG!vars
<1> QED
    BY <1>6, <1>7
LEMMA HandlersRefine ==
    ASSUME HIInv, HNext, Handler
    PROVE  PG!Next \/ UNCHANGED PG!vars
<1> USE DEF HIInv
<1>1. been' = been /\ lost' = lost
  <2>1. sts' = sts
      BY DEF Handler, HandleAddedUp, HandleAdded, HandleFailed, HandleRestarted,
             HandleDeleted, Local, CreateExIp, DeleteExIp, UpdateVpc, UpdateExIp,
             ExIpCurrent, ExIpRefused, Refused, ListTunnels, PatchTunnel, api
  <2> QED
      BY <2>1, NothingNew
<1> DEFINE e == [gw |-> job.next, ip |-> job.ip]
<1>2. pc # "idle" => /\ e \in been /\ e \in PG!Endpoint /\ e.gw = job.next /\ e # None
                     /\ job.kind \in {"failed", "deleted"} => job.gw \in lost
    BY ConstantsOK DEF NamesWorthy, JobWorthy, HistoryTrue, Endpoint, PG!Endpoint
<1> HIDE DEF e
<1>3. CASE UNCHANGED <<route, exip, tun>>
    BY <1>1, <1>3 DEF PG!vars
<1>4. CASE CreateExIp /\ exip = None /\ exip' = e
  <2>1. PG!Announce(e)
      BY <1>1, <1>2, <1>4 DEF CreateExIp, PG!Announce
  <2> QED
      BY <1>2, <1>4, <2>1 DEF CreateExIp, PG!Next
<1>5. CASE DeleteExIp /\ exip # None
  <2>1. PG!Withdraw
      BY <1>1, <1>5 DEF DeleteExIp, PG!Withdraw, NamesWorthy, JobWorthy
  <2> QED
      BY <2>1 DEF PG!Next
<1>6. CASE UpdateVpc /\ route # None /\ route' = job.next
  <2>1. PG!Reroute(e)
      BY <1>1, <1>2, <1>6 DEF UpdateVpc, Refused, api, PG!Reroute, NamesWorthy, JobWorthy,
                               IInv, TypeOK, JobOK, Job, RouteReady
  <2> QED
      BY <1>2, <1>6, <2>1 DEF UpdateVpc, PG!Next
<1>7. CASE UpdateExIp /\ job.exip /\ exip' = e
  <2>1. /\ exip # None /\ exip.gw = job.gw /\ pc = "updateExIp"
        /\ UNCHANGED <<route, tun>>
      BY <1>7 DEF UpdateExIp, ExIpCurrent, ExIpRefused, Refused, api, IInv, ExIpHeld
  <2>2. CASE job.kind = "restarted"
    <3>1. PG!Readdress(e)
        BY <1>1, <1>2, <1>7, <2>1, <2>2 DEF PG!Readdress, IInv, RouteReady
    <3> QED
        BY <1>2, <2>1, <3>1 DEF PG!Next
  <2>3. CASE job.kind \in {"failed", "deleted"}
    <3>1. PG!TakeOver(e)
        BY <1>1, <1>2, <1>7, <2>1, <2>3 DEF PG!TakeOver, IInv, RouteReady
    <3> QED
        BY <1>2, <2>1, <3>1 DEF PG!Next
  <2>4. job.kind \in {"failed", "restarted", "deleted"}
      BY <2>1 DEF NamesWorthy, JobWorthy, IInv, TypeOK, JobOK, Job
  <2> QED
      BY <2>2, <2>3, <2>4
<1>8. ASSUME NEW t \in Tunnel, PatchTunnel(t), t \in job.fresh,
             tun' = [tun EXCEPT ![t] = Patched(t)]
      PROVE  PG!Next
  <2>1. /\ tun[t] # None /\ tun[t] \in Endpoint /\ exip = [gw |-> job.next, ip |-> job.ip]
        /\ pc = "patch" /\ job \in Job /\ UNCHANGED <<route, exip>>
      BY <1>8 DEF PatchTunnel, Refused, api, IInv, TypeOK, JobOK, TunnelsThere, Announced, Job
  <2>2. exip # None
      BY <2>1, ConstantsOK DEF Job, Endpoint
  <2>3. PICK g \in {tun[t].gw, job.next} : Patched(t) = [gw |-> g, ip |-> job.ip]
      BY <2>1 DEF Patched, Endpoint
  <2>4. PG!Follow(t, g)
      BY <1>1, <1>8, <2>1, <2>2, <2>3 DEF PG!Follow
  <2>5. g \in Gateway
      BY <2>1, <2>3 DEF Endpoint, Job
  <2> QED
      BY <2>4, <2>5 DEF PG!Next
<1>9. CASE CreateExIp \/ DeleteExIp
    BY <1>3, <1>4, <1>5, <1>9 DEF CreateExIp, DeleteExIp, Refused, api, e
<1>10. CASE UpdateVpc
    BY <1>3, <1>6, <1>10 DEF UpdateVpc, Refused, api
<1>11. CASE UpdateExIp
    BY <1>3, <1>7, <1>11 DEF UpdateExIp, ExIpCurrent, ExIpRefused, Refused, api, e
<1>12. ASSUME NEW t \in Tunnel, PatchTunnel(t) PROVE PG!Next \/ UNCHANGED PG!vars
    BY <1>3, <1>8, <1>12 DEF PatchTunnel, Refused, api
<1>13. CASE ~(CreateExIp \/ DeleteExIp \/ UpdateVpc \/ UpdateExIp)
            /\ \A t \in Tunnel : ~PatchTunnel(t)
    BY <1>3, <1>13 DEF Handler, HandleAddedUp, HandleAdded, HandleFailed, HandleRestarted,
           HandleDeleted, Local, ListTunnels, api
<1> QED
    BY <1>9, <1>10, <1>11, <1>12, <1>13

LEMMA NextRefines ==
    ASSUME HIInv, [HNext]_hvars
    PROVE  [PG!Next]_PG!vars
<1>1. CASE UNCHANGED hvars
    BY <1>1 DEF hvars, vars, api, PG!vars
<1>2. CASE HNext /\ (Sync \/ Failure)
  <2>1. UNCHANGED api
      BY <1>2 DEF Sync, SyncSts, SyncRoute, SyncExIp, SyncTunnel, Synced,
             Failure, CallFails, ReadFails, Restart
  <2> QED
      BY <1>2, <2>1, NothingNew DEF api, PG!vars
<1>3. ASSUME NEW t \in Tunnel, HNext, TunnelBuilds(t)
      PROVE  UNCHANGED PG!vars
    BY <1>3, NothingNew DEF TunnelBuilds, PG!vars
<1>4. ASSUME NEW t \in Tunnel, HNext, TunnelLabelled(t)
      PROVE  PG!Next
  <2>1. build[t] \in been /\ build[t] \in PG!Endpoint /\ tun[t] = None
      BY <1>4 DEF TunnelLabelled, HIInv, NamesWorthy, BuildsBeen, HistoryTrue, PG!Endpoint,
             Endpoint, IInv, TunnelsThere
  <2>2. PG!Label(t, build[t])
      BY <1>4, <2>1, NothingNew DEF TunnelLabelled, PG!Label
  <2> QED
      BY <2>1, <2>2 DEF PG!Next
<1>5. ASSUME NEW t \in Tunnel, HNext, TunnelReleased(t)
      PROVE  PG!Next \/ UNCHANGED PG!vars
  <2>1. UNCHANGED <<been, lost, route, exip>> /\ tun' = [tun EXCEPT ![t] = None]
      BY <1>5, NothingNew DEF TunnelReleased
  <2>2. CASE tun[t] = None
    <3>1. tun' = tun
        BY <2>1, <2>2 DEF HIInv, IInv, TypeOK
    <3> QED
        BY <2>1, <3>1 DEF PG!vars
  <2>3. CASE tun[t] # None
      BY <2>1, <2>3 DEF PG!Next, PG!Gone
  <2> QED
      BY <2>2, <2>3
<1> QED
    BY <1>1, <1>2, <1>3, <1>4, <1>5, HandlersRefine, GatewaysRefine DEF HNext, Next, Cluster

\* The informer is an implementation of the primary gateway: under stale reads,
\* refused updates, failed calls, lost answers, restarts and any outages, the
\* GatewayExIp leaves a gateway only if that gateway was lost, also when it is deleted
\* without a resourceVersion, and everything points to endpoints there really were.
THEOREM Refinement == HSpec => KeepsPrimary
<1>1. HIInv /\ [HNext]_hvars => [PG!Next]_PG!vars
    BY NextRefines
<1> QED
    BY HInvariance, InitRefines, <1>1, PTL DEF HSpec, KeepsPrimary, PG!Spec
===============================================================================
