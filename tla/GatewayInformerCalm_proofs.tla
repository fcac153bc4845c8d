--------------------- MODULE GatewayInformerCalm_proofs ----------------------
(***************************************************************************)
(* What the gateway informer achieves until something fails: once all      *)
(* events are handled, the GatewayExIp, the routes and the tunnels of a    *)
(* VPC agree on a gateway that is there.  For any finite set of gateways, any        *)
(* addresses and tunnels, and any number of outages, deletions and         *)
(* creations.                                                              *)
(***************************************************************************)
EXTENDS GatewayInformer_proofs

-------------------------------------------------------------------------------
(* The invariant *)

\* Every handler reads the present state, and gateways fail, go and come one at a time.
Calm == ~StaleReads /\ ~Overlap

Waiting(kind, g) == \E n \in 1..Len(queue) : queue[n] = [kind |-> kind, gw |-> g]

NobodyUp == \A g \in Gateway : sts[g].st # "up"

\* A cached object held to be current is current.
SeenCurrent ==
    /\ seenRoute.fresh => seenRoute.val = route
    /\ \A t \in Tunnel : seenTun[t].fresh => seenTun[t].val = tun[t]

\* The gateways listed at the start come first, and if one of them is down or gone by
\* then, it has failed or been deleted since.
AddedFirst ==
    \A m, n \in 1..Len(queue) :
        m < n /\ queue[n].kind = "addedUp" => queue[m].kind \in {"addedUp", "added"}

AddedDown ==
    \A g \in Gateway :
        Waiting("addedUp", g) =>
            /\ sts[g].st = "down" => Waiting("failed", g) \/ Waiting("deleted", g)
            /\ sts[g].st = "absent" => Waiting("deleted", g)

\* What the GatewayExIp is, or is about to be.
Named ==
    IF pc \in {"create", "updateVpc", "updateExIp"} THEN [gw |-> job.next, ip |-> job.ip]
      ELSE IF pc = "delete" THEN None ELSE exip

\* At the start several gateways may be down; the GatewayExIp names none of them, and a
\* gateway fails only while all are up.
OneDown ==
    \A g, h \in Gateway :
        sts[g].st = "down" /\ sts[h].st = "down" /\ g # h
        => ~Waiting("addedUp", g) /\ \A i \in IP : Named # [gw |-> g, ip |-> i]

\* If a gateway is not there, or not with the address, an event of it is waiting that
\* will tell; unless there is nobody to take over from it.
Answered(g, i) ==
    /\ sts[g].st = "absent" => Waiting("deleted", g)
    /\ sts[g].st = "down" => NobodyUp \/ Waiting("failed", g) \/ Waiting("deleted", g)
    /\ sts[g].st = "up" /\ sts[g].ip # i => Waiting("restarted", g)

NamedAnswered ==
    \A g \in Gateway, i \in IP : Named = [gw |-> g, ip |-> i] => Answered(g, i)

RoutesLead ==
    IF pc \in {"create", "updateExIp"} THEN route \in {None, job.next}
      ELSE exip # None => route \in {None, exip.gw}

\* The handler's copies are current to the end.
JobCurrent ==
    /\ pc = "create" => exip = None
    /\ pc = "updateVpc" => job.route
    /\ pc \in {"updateVpc", "updateExIp"} => job.exip /\ job.kind # "addedUp"
    /\ pc \in {"updateVpc", "updateExIp", "list"} => \A t \in Tunnel : seenTun[t].fresh
    /\ pc \in {"updateVpc", "updateExIp"} /\ job.kind = "failed"
       => job.fresh = Tunnel /\ job.todo = {t \in Tunnel : tun[t] # None}
    /\ pc = "patch" => job.todo \subseteq job.fresh

\* A tunnel is built where the GatewayExIp says, while nothing happens.
BuiltAsNamed ==
    \A t \in Tunnel : build[t] # None =>
        Quiet /\ build[t] = exip /\ \A g \in Gateway : sts[g].st # "down"

\* Once there are tunnels the GatewayExIp is not created again.
NothingToAdd ==
    (\E t \in Tunnel : tun[t] # None \/ build[t] # None)
    => pc # "create" /\ \A n \in 1..Len(queue) : queue[n].kind # "addedUp"

\* A tunnel is where the GatewayExIp says, or the handler is about to patch it.
TunnelsKnow ==
    exip # None =>
    \A t \in Tunnel :
        \/ tun[t] \in {None, exip}
        \/ /\ pc \in {"list", "patch"}
           /\ pc = "patch" => t \in job.todo
           /\ job.kind = "restarted" => tun[t].gw = exip.gw

Notices == OneDown /\ AddedFirst /\ AddedDown /\ NamedAnswered

Written ==
    /\ SeenCurrent /\ RoutesLead /\ JobCurrent /\ BuiltAsNamed /\ NothingToAdd
    /\ TunnelsKnow

CInv == IInv /\ Notices /\ Written

-------------------------------------------------------------------------------
(* The queue *)

LEMMA WaitingTail ==
    ASSUME TypeOK, queue # <<>>, queue' = Tail(queue), NEW kind, NEW g
    PROVE  /\ Waiting(kind, g)' => Waiting(kind, g)
           /\ Waiting(kind, g) /\ Head(queue) # [kind |-> kind, gw |-> g]
              => Waiting(kind, g)'
<1>1. /\ queue \in Seq(Notice) /\ Len(queue) \in Nat \ {0}
      /\ Len(queue') = Len(queue) - 1 /\ Head(queue) = queue[1]
      /\ \A n \in 1..Len(queue') : queue'[n] = queue[n + 1]
    BY HeadTailProperties, EmptySeq, LenProperties DEF TypeOK
<1>2. ASSUME NEW n \in 1..Len(queue), n # 1
      PROVE  n - 1 \in 1..Len(queue') /\ queue'[n - 1] = queue[n]
    BY <1>1, <1>2
<1>3. ASSUME NEW n \in 1..Len(queue')
      PROVE  n + 1 \in 1..Len(queue) /\ queue'[n] = queue[n + 1]
    BY <1>1
<1> QED
    BY <1>1, <1>2, <1>3 DEF Waiting

LEMMA WaitingAppend ==
    ASSUME TypeOK, NEW k, NEW h, queue' = Append(queue, [kind |-> k, gw |-> h]),
           NEW kind, NEW g
    PROVE  /\ Waiting(kind, g) => Waiting(kind, g)'
           /\ Waiting(k, h)'
           /\ Waiting(kind, g)' => Waiting(kind, g) \/ (kind = k /\ g = h)
<1>1. /\ Len(queue) \in Nat /\ Len(queue') = Len(queue) + 1
      /\ \A n \in 1..Len(queue) : queue'[n] = queue[n]
      /\ queue'[Len(queue) + 1] = [kind |-> k, gw |-> h]
    BY AppendProperties, LenProperties DEF TypeOK
<1> QED
    BY <1>1 DEF Waiting

LEMMA AddedFirstTail ==
    ASSUME TypeOK, AddedFirst, queue # <<>>, queue' = Tail(queue)
    PROVE  /\ AddedFirst'
           /\ Head(queue).kind \notin {"addedUp", "added"}
              => \A g \in Gateway : ~Waiting("addedUp", g)
<1>1. /\ queue \in Seq(Notice) /\ Len(queue) \in Nat \ {0}
      /\ Len(queue') = Len(queue) - 1 /\ Head(queue) = queue[1]
      /\ \A n \in 1..Len(queue') : queue'[n] = queue[n + 1]
    BY HeadTailProperties, EmptySeq, LenProperties DEF TypeOK
<1>2. AddedFirst'
  <2> SUFFICES ASSUME NEW m \in 1..Len(queue'), NEW n \in 1..Len(queue'),
                      m < n, queue'[n].kind = "addedUp"
               PROVE  queue'[m].kind \in {"addedUp", "added"}
      BY DEF AddedFirst
  <2> QED
      BY <1>1 DEF AddedFirst
<1>3. ASSUME NEW g \in Gateway, Waiting("addedUp", g)
      PROVE  Head(queue).kind \in {"addedUp", "added"}
    BY <1>1, <1>3 DEF AddedFirst, Waiting
<1> QED
    BY <1>2, <1>3

LEMMA AddedFirstAppend ==
    ASSUME TypeOK, AddedFirst, NEW k, NEW h, k # "addedUp",
           queue' = Append(queue, [kind |-> k, gw |-> h])
    PROVE  AddedFirst'
<1>1. /\ Len(queue) \in Nat /\ Len(queue') = Len(queue) + 1
      /\ \A n \in 1..Len(queue) : queue'[n] = queue[n]
      /\ queue'[Len(queue) + 1] = [kind |-> k, gw |-> h]
    BY AppendProperties, LenProperties DEF TypeOK
<1> QED
    BY <1>1 DEF AddedFirst

-------------------------------------------------------------------------------
(* Nothing fails *)

LEMMA AnswerCalm ==
    ASSUME TypeOK, faults' = 0, NEW next, NEW j, Answer(next, j)
    PROVE  IF next = "idle" THEN pc' = "idle" /\ job' = NoJob ELSE pc' = next /\ job' = j
    BY DEF Answer, Stop, Fault, TypeOK

LEMMA NoFailure ==
    ASSUME TypeOK, faults' = 0
    PROVE  ~Failure
    BY DEF Failure, CallFails, ReadFails, Restart, Fault, TypeOK

\* Faults are only added up.
LEMMA FaultsAddUp ==
    ASSUME TypeOK, [Next]_vars, faults' = 0
    PROVE  faults = 0
<1>1. ASSUME NEW next, NEW j, Answer(next, j) PROVE faults = 0
    BY <1>1 DEF Answer, Fault, TypeOK
<1>2. ASSUME CreateExIp \/ DeleteExIp \/ UpdateVpc \/ UpdateExIp \/ ListTunnels
             \/ \E t \in Tunnel : PatchTunnel(t)
      PROVE  faults = 0
    BY <1>1, <1>2 DEF CreateExIp, DeleteExIp, UpdateVpc, UpdateExIp, ListTunnels,
                      PatchTunnel, ExIpRefused, Refused
<1>3. ASSUME NEW g \in Gateway,
             \/ HandleAddedUp(g) \/ HandleAdded(g) \/ HandleFailed(g)
             \/ HandleRestarted(g) \/ HandleDeleted(g)
      PROVE  faults = 0
    BY <1>3 DEF HandleAddedUp, HandleAdded, HandleFailed, HandleRestarted,
                HandleDeleted, Local
<1>4. ASSUME Sync PROVE faults = 0
    BY <1>4 DEF Sync, SyncSts, SyncRoute, SyncExIp, SyncTunnel, Synced
<1>5. ASSUME Cluster PROVE faults = 0
    BY <1>5 DEF Cluster, GatewayCreated, GatewayFails, GatewayDeleted, GatewayReturns,
                Becomes, TunnelBuilds, TunnelLabelled, TunnelReleased
<1>6. CASE UNCHANGED vars
    BY <1>6 DEF vars
<1> QED
    BY <1>2, <1>3, <1>4, <1>5, <1>6, NoFailure DEF Next, Handler

\* What has been taken from the cache is the present state.
LEMMA CaughtUpCurrent ==
    ASSUME CInv, CaughtUp
    PROVE  /\ seenSts = sts /\ seenRoute.val = route /\ seenExIp.val = exip
           /\ \A t \in Tunnel : seenTun[t].val = tun[t] /\ seenTun[t].fresh
    BY DEF CInv, IInv, ExIpHeld, Written, SeenCurrent, CaughtUp

-------------------------------------------------------------------------------
(* The start *)

LEMMA RelistedAdded ==
    ASSUME NEW view \in StatefulSets, NEW q \in Relisted(view), NEW n \in 1..Len(q)
    PROVE  /\ q[n].kind \in {"addedUp", "added"}
           /\ q[n].kind = "addedUp" => view[q[n].gw].st = "up"
<1> DEFINE there == {g \in Gateway : view[g].st # "absent"}
<1> DEFINE c == Cardinality(there)
<1>1. c \in Nat
    BY ConstantsOK, FS_Subset, FS_CardinalityType
<1>2. PICK f \in [1..c -> there] :
          q = [i \in 1..c |-> [kind |-> IF Available(view, f[i]) THEN "addedUp" ELSE "added",
                               gw   |-> f[i]]]
    BY DEF Relisted
<1>3. \A i \in 1..c :
          q[i] = [kind |-> IF Available(view, f[i]) THEN "addedUp" ELSE "added", gw |-> f[i]]
    BY <1>2
<1>4. Len(q) = c
  <2> HIDE DEF c
  <2>1. q \in Seq(Notice)
      BY RelistedTyped
  <2>2. DOMAIN q = 1..c /\ DOMAIN q = 1..Len(q) /\ Len(q) \in Nat
      BY <1>2, <2>1, LenProperties
  <2> QED
      BY <1>1, <2>2
<1> QED
    BY <1>3, <1>4 DEF Available

LEMMA InitCalm == Init => CInv
<1> SUFFICES ASSUME Init PROVE CInv
    OBVIOUS
<1>1. IInv
    BY InitInv
<1>2. /\ sts \in StatefulSets /\ exip = None /\ pc = "idle"
      /\ \A t \in Tunnel : tun[t] = None /\ build[t] = None /\ seenTun[t].val = None
      /\ seenRoute.val = route
    BY DEF Init
<1>3. \A n \in 1..Len(queue) :
          /\ queue[n].kind \in {"addedUp", "added"}
          /\ queue[n].kind = "addedUp" => sts[queue[n].gw].st = "up"
    BY <1>2, RelistedAdded DEF Init
<1>4. \A g \in Gateway : Waiting("addedUp", g) => sts[g].st = "up"
    BY <1>3 DEF Waiting
<1>5. \A g \in Gateway, i \in IP : Named # [gw |-> g, ip |-> i]
    BY <1>2, ConstantsOK DEF Named, Endpoint
<1>6. AddedFirst
  <2>1. Len(queue) \in Nat
      BY <1>1, LenProperties DEF IInv, TypeOK
  <2> QED
      BY <1>3, <2>1 DEF AddedFirst
<1>7. Notices
    BY <1>4, <1>5, <1>6 DEF Notices, OneDown, AddedDown, NamedAnswered
<1>8. Written
    BY <1>2 DEF Written, SeenCurrent, RoutesLead, JobCurrent, BuiltAsNamed, NothingToAdd,
                TunnelsKnow
<1> QED
    BY <1>1, <1>7, <1>8 DEF CInv

-------------------------------------------------------------------------------
(* The handlers write *)

\* What the handler writes it has named before.
LEMMA NoticesKept ==
    ASSUME Notices, UNCHANGED <<sts, queue>>, Named' \in {Named, None}
    PROVE  Notices'
<1>1. /\ \A kind, g : Waiting(kind, g)' <=> Waiting(kind, g)
      /\ NobodyUp' <=> NobodyUp
    BY DEF Waiting, NobodyUp
<1>2. \A g \in Gateway, i \in IP :
          /\ Answered(g, i)' <=> Answered(g, i)
          /\ Named' = [gw |-> g, ip |-> i] => Named = [gw |-> g, ip |-> i]
  <2> SUFFICES ASSUME NEW g \in Gateway, NEW i \in IP
               PROVE  /\ Answered(g, i)' <=> Answered(g, i)
                      /\ Named' = [gw |-> g, ip |-> i] => Named = [gw |-> g, ip |-> i]
      OBVIOUS
  <2>1. [gw |-> g, ip |-> i] # None
      BY ConstantsOK DEF Endpoint
  <2> QED
      BY <1>1, <2>1 DEF Answered
<1>3. OneDown' /\ AddedDown'
    BY <1>1, <1>2 DEF Notices, OneDown, AddedDown
<1>4. AddedFirst'
    BY DEF Notices, AddedFirst
<1>5. NamedAnswered'
    BY <1>2 DEF Notices, NamedAnswered
<1> QED
    BY <1>3, <1>4, <1>5 DEF Notices

LEMMA CreateCalm ==
    ASSUME CInv, faults' = 0, CreateExIp
    PROVE  Notices' /\ Written'
<1>1. exip = None /\ route \in {None, job.next} /\ job \in Job
    BY DEF CreateExIp, CInv, IInv, TypeOK, JobOK, Written, JobCurrent, RoutesLead
<1>2. /\ pc' = "idle" /\ exip' = [gw |-> job.next, ip |-> job.ip]
      /\ UNCHANGED <<sts, route, tun, build, seenRoute, seenTun, queue>>
    BY <1>1, AnswerCalm DEF CreateExIp, CInv, IInv
<1>3. \A t \in Tunnel : tun[t] = None /\ build[t] = None
    BY DEF CreateExIp, CInv, Written, NothingToAdd
<1>4. Notices'
    BY <1>2, NoticesKept DEF CreateExIp, Named, CInv
<1>5. Written'
    BY <1>1, <1>2, <1>3 DEF CInv, Written, SeenCurrent, RoutesLead, JobCurrent,
                            BuiltAsNamed, NothingToAdd, TunnelsKnow
<1> QED
    BY <1>4, <1>5

\* Nothing is built while a handler runs.
LEMMA NotBuilt ==
    ASSUME CInv, ~Quiet
    PROVE  \A t \in Tunnel : build[t] = None
    BY DEF CInv, Written, BuiltAsNamed

LEMMA DeleteCalm ==
    ASSUME CInv, faults' = 0, DeleteExIp
    PROVE  Notices' /\ Written'
<1>1. /\ pc' = "idle" /\ exip' = None
      /\ UNCHANGED <<sts, route, tun, build, seenRoute, seenTun, queue>>
    BY AnswerCalm DEF DeleteExIp, CInv, IInv
<1>2. \A t \in Tunnel : build[t] = None
    BY NotBuilt DEF DeleteExIp, Quiet
<1>3. Notices'
    BY <1>1, NoticesKept DEF DeleteExIp, Named, CInv
<1>4. Written'
    BY <1>1, <1>2 DEF CInv, Written, SeenCurrent, RoutesLead, JobCurrent,
                      BuiltAsNamed, NothingToAdd, TunnelsKnow
<1> QED
    BY <1>3, <1>4

LEMMA VpcCalm ==
    ASSUME CInv, faults' = 0, UpdateVpc
    PROVE  Notices' /\ Written'
<1>1. pc = "updateVpc" /\ job.route /\ job.exip /\ job \in Job
    BY DEF UpdateVpc, CInv, IInv, TypeOK, JobOK, Written, JobCurrent
<1>2. /\ pc' = "updateExIp" /\ job' = job /\ route' \in {None, job.next}
      /\ UNCHANGED <<sts, exip, tun, build, seenTun, queue>>
    BY <1>1, AnswerCalm DEF UpdateVpc, CInv, IInv
<1>3. seenRoute'.fresh => seenRoute'.val = route'
    BY <1>1 DEF UpdateVpc, CInv, IInv, TypeOK, Cached, Written, SeenCurrent
<1>4. \A t \in Tunnel : build[t] = None
    BY <1>1, NotBuilt DEF Quiet
<1>5. Notices'
    BY <1>1, <1>2, NoticesKept DEF Named, CInv
<1>6. Written'
    BY <1>1, <1>2, <1>3, <1>4 DEF CInv, Written, SeenCurrent, RoutesLead, JobCurrent,
                                  BuiltAsNamed, NothingToAdd, TunnelsKnow
<1> QED
    BY <1>5, <1>6

LEMMA ExIpCalm ==
    ASSUME CInv, faults' = 0, UpdateExIp
    PROVE  Notices' /\ Written'
<1>1. /\ pc = "updateExIp" /\ job.exip /\ job \in Job /\ job.kind # "addedUp"
      /\ exip # None /\ exip.gw = job.gw /\ route \in {None, job.next}
      /\ job.kind = "restarted" => job.next = job.gw
    BY DEF UpdateExIp, CInv, IInv, TypeOK, JobOK, ExIpHeld, RouteReady,
           Written, JobCurrent, RoutesLead
<1>2. /\ IF AfterExIp = "idle" THEN pc' = "idle" ELSE pc' = AfterExIp /\ job' = job
      /\ exip' = [gw |-> job.next, ip |-> job.ip]
      /\ UNCHANGED <<sts, route, tun, build, seenRoute, seenTun, queue>>
    BY <1>1, AnswerCalm DEF UpdateExIp, ExIpCurrent, CInv, IInv
<1>3. \A t \in Tunnel : build[t] = None
    BY <1>1, NotBuilt DEF Quiet
<1>4. exip' # None
    BY <1>1, <1>2, ConstantsOK DEF Job, Endpoint
<1>5. Notices'
    BY <1>1, <1>2, NoticesKept DEF Named, AfterExIp, AfterList, CInv
<1>6. SeenCurrent' /\ RoutesLead' /\ BuiltAsNamed' /\ NothingToAdd'
    BY <1>1, <1>2, <1>3 DEF CInv, Written, SeenCurrent, RoutesLead, BuiltAsNamed,
                            NothingToAdd, AfterExIp, AfterList
<1>7. CASE job.kind # "failed"
  <2>1. pc' = "list" /\ job' = job
      BY <1>2, <1>7 DEF AfterExIp
  <2>2. JobCurrent'
      BY <1>1, <1>2, <2>1 DEF CInv, Written, JobCurrent
  <2>3. \A t \in Tunnel : tun[t] # None /\ job.kind = "restarted" => tun[t].gw = exip'.gw
      BY <1>1, <1>2 DEF CInv, Written, TunnelsKnow
  <2>4. TunnelsKnow'
      BY <1>2, <2>1, <2>3 DEF TunnelsKnow
  <2> QED
      BY <1>5, <1>6, <2>2, <2>4 DEF Written
<1>8. CASE job.kind = "failed"
  <2>1. job.fresh = Tunnel /\ job.todo = {t \in Tunnel : tun[t] # None}
      BY <1>1, <1>8 DEF CInv, Written, JobCurrent
  <2>2. IF job.todo = {} THEN pc' = "idle" ELSE pc' = "patch" /\ job' = job
      BY <1>2, <1>8 DEF AfterExIp, AfterList
  <2>3. JobCurrent'
      BY <2>1, <2>2 DEF JobCurrent
  <2>4. TunnelsKnow'
      BY <1>2, <1>8, <2>1, <2>2 DEF TunnelsKnow
  <2> QED
      BY <1>5, <1>6, <2>3, <2>4 DEF Written
<1> QED
    BY <1>7, <1>8

LEMMA ListCalm ==
    ASSUME CInv, ListTunnels
    PROVE  Notices' /\ Written'
<1>1. /\ pc = "list" /\ UNCHANGED <<queue, api, seen>>
      /\ \A t \in Tunnel : build[t] = None
      /\ \A t \in Tunnel : seenTun[t].fresh /\ seenTun[t].val = tun[t]
    BY NotBuilt DEF ListTunnels, Quiet, CInv, Written, JobCurrent, SeenCurrent
<1>2. Labelled = {t \in Tunnel : tun[t] # None}
    BY <1>1 DEF Labelled
<1>3. CASE Labelled = {}
  <2>1. pc' = "idle"
      BY <1>3 DEF ListTunnels, Stop
  <2>2. Notices'
      BY <1>1, <2>1, NoticesKept DEF Named, CInv, api
  <2> QED
      BY <1>1, <1>2, <1>3, <2>1, <2>2
         DEF CInv, Written, SeenCurrent, RoutesLead, JobCurrent, BuiltAsNamed,
             NothingToAdd, TunnelsKnow, api, seen
<1>4. CASE Labelled # {}
  <2>1. /\ pc' = "patch" /\ job'.todo = Labelled /\ job'.fresh = Tunnel
        /\ job'.kind = job.kind
    <3> DEFINE current == {t \in Tunnel : seenTun[t].fresh}
    <3>1. current = Tunnel
        BY <1>1
    <3>2. pc' = "patch" /\ job' = [job EXCEPT !.todo = Labelled, !.fresh = current]
        BY <1>4 DEF ListTunnels
    <3> HIDE DEF current
    <3> QED
        BY <1>1, <3>1, <3>2 DEF CInv, IInv, TypeOK, JobOK, Job
  <2>2. Notices'
      BY <1>1, <2>1, NoticesKept DEF Named, CInv, api
  <2>3. SeenCurrent' /\ RoutesLead' /\ BuiltAsNamed' /\ NothingToAdd' /\ JobCurrent'
      BY <1>1, <1>2, <2>1
         DEF CInv, Written, SeenCurrent, RoutesLead, JobCurrent, BuiltAsNamed,
             NothingToAdd, api, seen
  <2>4. TunnelsKnow'
      BY <1>1, <1>2, <2>1 DEF CInv, Written, TunnelsKnow, api
  <2> QED
      BY <2>2, <2>3, <2>4 DEF Written
<1> QED
    BY <1>3, <1>4

LEMMA PatchCalm ==
    ASSUME CInv, faults' = 0, NEW t \in Tunnel, PatchTunnel(t)
    PROVE  Notices' /\ Written'
<1>1. /\ pc = "patch" /\ t \in job.todo /\ t \in job.fresh /\ job \in Job
      /\ tun[t] # None /\ exip = [gw |-> job.next, ip |-> job.ip]
      /\ \A u \in Tunnel : build[u] = None
    BY NotBuilt DEF PatchTunnel, Quiet, CInv, IInv, TypeOK, JobOK, Announced, TunnelsThere,
                    Written, JobCurrent
<1> DEFINE rest == [job EXCEPT !.todo = @ \ {t}]
<1>2. /\ IF job.todo \ {t} = {} THEN pc' = "idle" ELSE pc' = "patch" /\ job' = rest
      /\ UNCHANGED <<sts, route, exip, build, seenRoute, queue>>
    BY <1>1, AnswerCalm DEF PatchTunnel, AfterList, CInv, IInv
<1>3. /\ rest.todo = job.todo \ {t} /\ rest.fresh = job.fresh /\ rest.kind = job.kind
    BY <1>1 DEF Job
<1> HIDE DEF rest
<1>4. tun[t] = exip \/ (job.kind = "restarted" => tun[t].gw = exip.gw)
    BY <1>1, ConstantsOK DEF CInv, IInv, TypeOK, Written, TunnelsKnow, Job, Endpoint
<1>5. tun' = [tun EXCEPT ![t] = Patched(t)] /\ tun \in [Tunnel -> Endpoint \cup {None}]
    BY <1>1 DEF PatchTunnel, CInv, IInv, TypeOK
<1>6. Patched(t) = exip
  <2>1. tun[t] \in Endpoint
      BY <1>1, <1>5
  <2>2. CASE job.kind = "restarted"
    <3>1. tun[t].gw = exip.gw
        BY <1>4, <2>2
    <3> QED
        BY <1>1, <2>1, <2>2, <3>1 DEF Patched, Endpoint
  <2>3. CASE job.kind # "restarted"
      BY <1>1, <2>3 DEF Patched
  <2> QED
      BY <2>2, <2>3
<1>7. Notices'
    BY <1>1, <1>2, NoticesKept DEF Named, CInv
<1>8. SeenCurrent'
  <2>1. seenTun' = [seenTun EXCEPT ![t].fresh = @ /\ tun' = tun]
      BY <1>1 DEF PatchTunnel
  <2> DEFINE b == seenTun[t].fresh /\ tun' = tun
  <2>2. seenTun' = [seenTun EXCEPT ![t].fresh = b]
      BY <2>1
  <2>3. b => seenTun[t].fresh /\ tun' = tun
      OBVIOUS
  <2> HIDE DEF b
  <2>4. ASSUME NEW u \in Tunnel, seenTun'[u].fresh
        PROVE  seenTun'[u].val = tun'[u]
    <3>1. CASE u = t
      <4>1. seenTun'[u].val = seenTun[u].val /\ seenTun'[u].fresh = b
          BY <2>2, <3>1 DEF CInv, IInv, TypeOK, Cached
      <4> QED
          BY <2>3, <2>4, <3>1, <4>1 DEF CInv, Written, SeenCurrent
    <3>2. CASE u # t
      <4>1. seenTun'[u] = seenTun[u] /\ tun'[u] = tun[u]
          BY <1>5, <2>2, <3>2 DEF CInv, IInv, TypeOK
      <4> QED
          BY <2>4, <4>1 DEF CInv, Written, SeenCurrent
    <3> QED
        BY <3>1, <3>2
  <2> QED
      BY <1>2, <2>4 DEF CInv, Written, SeenCurrent
<1>9. NothingToAdd'
    BY <1>1, <1>2 DEF CInv, Written, NothingToAdd
<1>10. RoutesLead' /\ JobCurrent' /\ BuiltAsNamed'
    BY <1>1, <1>2, <1>3 DEF CInv, Written, RoutesLead, JobCurrent, BuiltAsNamed
<1>11. TunnelsKnow'
    BY <1>1, <1>2, <1>3, <1>5, <1>6 DEF CInv, Written, TunnelsKnow
<1> QED
    BY <1>7, <1>8, <1>9, <1>10, <1>11 DEF Written

-------------------------------------------------------------------------------
(* The handlers begin *)

\* A handler takes its event and ignores it, or names a gateway the events that wait
\* will tell of.
LEMMA TakenNotices ==
    ASSUME CInv, NEW kind, NEW g, Takes(kind, g), UNCHANGED sts,
           \A h \in Gateway, i \in IP : Named' = [gw |-> h, ip |-> i] =>
               /\ Answered(h, i)'
               /\ sts[h].st = "down" =>
                    Waiting("addedUp", h) \/ \E j \in IP : Named = [gw |-> h, ip |-> j]
    PROVE  Notices'
<1>1. TypeOK /\ AddedFirst /\ queue # <<>> /\ queue' = Tail(queue)
    BY DEF CInv, IInv, Notices, Takes
<1>2. Head(queue) = [kind |-> kind, gw |-> g]
    BY DEF Takes
<1>3. OneDown'
  <2> SUFFICES ASSUME NEW h \in Gateway, NEW k \in Gateway, h # k,
                      sts[h].st = "down", sts[k].st = "down"
               PROVE  /\ ~Waiting("addedUp", h)'
                      /\ \A i \in IP : Named' # [gw |-> h, ip |-> i]
      BY DEF OneDown
  <2>1. ~Waiting("addedUp", h) /\ \A i \in IP : Named # [gw |-> h, ip |-> i]
      BY DEF CInv, Notices, OneDown
  <2> QED
      BY <1>1, <2>1, WaitingTail
<1>4. AddedFirst'
    BY <1>1, AddedFirstTail
<1>5. AddedDown'
  <2> SUFFICES ASSUME NEW h \in Gateway, Waiting("addedUp", h)'
               PROVE  /\ sts[h].st = "down" => Waiting("failed", h)' \/ Waiting("deleted", h)'
                      /\ sts[h].st = "absent" => Waiting("deleted", h)'
      BY DEF AddedDown
  <2>1. Waiting("addedUp", h)
      BY <1>1, WaitingTail
  <2>2. /\ sts[h].st = "down" => Waiting("failed", h) \/ Waiting("deleted", h)
        /\ sts[h].st = "absent" => Waiting("deleted", h)
      BY <2>1 DEF CInv, Notices, AddedDown
  <2>3. Head(queue).kind \in {"addedUp", "added"}
      BY <1>1, <2>1, AddedFirstTail
  <2>4. /\ Head(queue) # [kind |-> "failed", gw |-> h]
        /\ Head(queue) # [kind |-> "deleted", gw |-> h]
      BY <2>3
  <2> QED
      BY <1>1, <2>2, <2>4, WaitingTail
<1>6. NamedAnswered'
    BY DEF NamedAnswered
<1> QED
    BY <1>3, <1>4, <1>5, <1>6 DEF Notices

\* An answer that does not wait for this event goes on waiting.
LEMMA AnsweredTail ==
    ASSUME CInv, NEW kind, NEW g, Takes(kind, g), UNCHANGED sts,
           NEW h \in Gateway, NEW i \in IP, Answered(h, i),
           h = g /\ kind = "failed" /\ sts[h].st = "down" => NobodyUp,
           h = g => kind # "deleted",
           h = g /\ kind = "restarted" /\ sts[h].st = "up" => sts[h].ip = i
    PROVE  Answered(h, i)'
<1>1. /\ TypeOK /\ queue # <<>> /\ queue' = Tail(queue)
      /\ Head(queue) = [kind |-> kind, gw |-> g]
    BY DEF CInv, IInv, Takes
<1>2. \A k : Waiting(k, h) /\ (h = g => k # kind) => Waiting(k, h)'
  <2> SUFFICES ASSUME NEW k, Waiting(k, h), h = g => k # kind
               PROVE  Waiting(k, h)'
      OBVIOUS
  <2>1. Head(queue) # [kind |-> k, gw |-> h]
      BY <1>1
  <2> QED
      BY <1>1, <2>1, WaitingTail
<1>3. NobodyUp' <=> NobodyUp
    BY DEF NobodyUp
<1> QED
    BY <1>2, <1>3 DEF Answered

LEMMA IgnoredCalm ==
    ASSUME CInv, NEW kind, NEW g, Takes(kind, g), Ignored, Local,
           \A h \in Gateway, i \in IP :
               exip = [gw |-> h, ip |-> i] /\ Answered(h, i) => Answered(h, i)'
    PROVE  Notices' /\ Written'
<1>1. /\ pc = "idle" /\ queue # <<>> /\ queue' = Tail(queue)
      /\ UNCHANGED <<sts, route, exip, tun, build, seenRoute, seenTun, pc, job>>
    BY DEF Takes, Ignored, Local, api, seen
<1>2. Named' = Named /\ Named = exip
    BY <1>1 DEF Named
<1>3. Notices'
  <2>1. ASSUME NEW h \in Gateway, NEW i \in IP, Named = [gw |-> h, ip |-> i]
        PROVE  Answered(h, i)'
      BY <1>2, <2>1 DEF CInv, Notices, NamedAnswered
  <2> QED
      BY <1>1, <1>2, <2>1, TakenNotices
<1>4. \A t \in Tunnel : build[t] = None
    BY <1>1, NotBuilt DEF Quiet
<1>5. NothingToAdd'
  <2>1. /\ Len(queue) \in Nat \ {0} /\ Len(queue') = Len(queue) - 1
        /\ \A n \in 1..Len(queue') : queue'[n] = queue[n + 1]
      BY <1>1, HeadTailProperties, EmptySeq, LenProperties DEF CInv, IInv, TypeOK
  <2> QED
      BY <1>1, <2>1 DEF CInv, Written, NothingToAdd
<1> QED
    BY <1>1, <1>3, <1>4, <1>5
       DEF CInv, Written, SeenCurrent, RoutesLead, JobCurrent, BuiltAsNamed, TunnelsKnow

\* What a handler that begins has read is current.
LEMMA BeginWritten ==
    ASSUME Calm, CInv, NEW kind, NEW g, Takes(kind, g), Local,
           NEW next \in Gateway,
           NEW call \in {"create", "delete", "updateVpc", "updateExIp"},
           Begin(kind, g, next, call),
           call = "create" =>
               /\ exip = None /\ route \in {None, next}
               /\ \A t \in Tunnel : tun[t] = None,
           call = "updateExIp" => exip # None /\ exip.gw = next,
           call \in {"updateVpc", "updateExIp"} => kind # "addedUp"
    PROVE  Written'
<1>1. /\ pc = "idle" /\ queue # <<>> /\ queue' = Tail(queue) /\ CaughtUp
      /\ UNCHANGED <<sts, route, exip, tun, build, seenRoute, seenExIp, seenTun>>
    BY DEF Takes, Local, api, seen, Calm
<1>2. \A t \in Tunnel : build[t] = None
    BY <1>1, NotBuilt DEF Quiet
<1>3. \A t \in Tunnel : seenTun[t].fresh /\ seenTun[t].val = tun[t]
    BY <1>1, CaughtUpCurrent
<1>4. Labelled = {t \in Tunnel : tun[t] # None}
    BY <1>3 DEF Labelled
<1>5. /\ pc' = call /\ job'.next = next /\ job'.kind = kind
      /\ job'.route = seenRoute.fresh /\ job'.exip = seenExIp.fresh
      /\ job'.todo = IF kind = "failed" THEN Labelled ELSE {}
      /\ job'.fresh = {t \in Tunnel : seenTun[t].fresh}
    BY DEF Begin
<1>6. JobCurrent'
  <2>1. {t \in Tunnel : seenTun[t].fresh} = Tunnel
      BY <1>3
  <2>2. seenRoute.fresh /\ seenExIp.fresh
      BY <1>1 DEF CaughtUp
  <2> QED
      BY <1>1, <1>3, <1>4, <1>5, <2>1, <2>2 DEF JobCurrent
<1>7. RoutesLead'
    BY <1>1, <1>5 DEF CInv, Written, RoutesLead
<1>8. NothingToAdd'
  <2>1. /\ Len(queue) \in Nat \ {0} /\ Len(queue') = Len(queue) - 1
        /\ \A n \in 1..Len(queue') : queue'[n] = queue[n + 1]
      BY <1>1, HeadTailProperties, EmptySeq, LenProperties DEF CInv, IInv, TypeOK
  <2> QED
      BY <1>1, <1>2, <1>5, <2>1 DEF CInv, Written, NothingToAdd
<1>9. TunnelsKnow'
    BY <1>1, <1>5 DEF CInv, Written, TunnelsKnow
<1> QED
    BY <1>1, <1>2, <1>6, <1>7, <1>8, <1>9 DEF CInv, Written, SeenCurrent, BuiltAsNamed

LEMMA AddedUpCalm ==
    ASSUME Calm, CInv, NEW g \in Gateway, HandleAddedUp(g)
    PROVE  Notices' /\ Written'
<1>1. Takes("addedUp", g) /\ Local /\ CaughtUp /\ pc = "idle" /\ UNCHANGED sts
    BY DEF HandleAddedUp, Takes, Calm, Local, api
<1>2. /\ queue # <<>> /\ Head(queue) = [kind |-> "addedUp", gw |-> g]
      /\ seenSts = sts /\ seenRoute.val = route /\ seenExIp.val = exip
    BY <1>1, CaughtUpCurrent DEF Takes
<1>3. CASE Ignored
  <2>1. ASSUME NEW h \in Gateway, NEW i \in IP, Answered(h, i)
        PROVE  Answered(h, i)'
      BY <1>1, <2>1, AnsweredTail
  <2> QED
      BY <1>1, <1>3, <2>1, IgnoredCalm
<1>4. CASE /\ exip = None /\ route \in {None, g} /\ sts[g].st # "absent"
           /\ Begin("addedUp", g, g, "create")
  <2>1. Waiting("addedUp", g) /\ \E n \in 1..Len(queue) : queue[n].kind = "addedUp"
    <3>1. Len(queue) \in Nat \ {0} /\ queue[1] = [kind |-> "addedUp", gw |-> g]
        BY <1>2, HeadTailProperties, EmptySeq, LenProperties DEF CInv, IInv, TypeOK
    <3> QED
        BY <3>1 DEF Waiting
  <2>2. \A t \in Tunnel : tun[t] = None
      BY <2>1 DEF CInv, Written, NothingToAdd
  <2>3. Written'
      BY <1>1, <1>4, <2>2, BeginWritten
  <2>4. Named' = [gw |-> g, ip |-> sts[g].ip]
      BY <1>2, <1>4 DEF Begin, Named
  <2>5. Answered(g, sts[g].ip)
      BY <1>4, <2>1 DEF CInv, IInv, TypeOK, StatefulSets, Notices, AddedDown, Answered
  <2>6. Answered(g, sts[g].ip)'
    <3>1. sts[g].ip \in IP
        BY DEF CInv, IInv, TypeOK, StatefulSets
    <3>2. ASSUME NEW i \in IP, i = sts[g].ip
          PROVE  Answered(g, i)'
        BY <1>1, <2>5, <3>2, AnsweredTail
    <3> QED
        BY <1>1, <3>1, <3>2
  <2>7. ASSUME NEW h \in Gateway, NEW i \in IP, Named' = [gw |-> h, ip |-> i]
        PROVE  Answered(h, i)' /\ Waiting("addedUp", h)
    <3>1. h = g /\ i = sts[g].ip
        BY <2>4, <2>7
    <3> QED
        BY <1>1, <2>1, <2>6, <3>1
  <2> QED
      BY <1>1, <2>3, <2>7, TakenNotices
<1> QED
    BY <1>2, <1>3, <1>4 DEF HandleAddedUp

LEMMA AddedCalm ==
    ASSUME Calm, CInv, NEW g \in Gateway, HandleAdded(g)
    PROVE  Notices' /\ Written'
<1>1. Takes("added", g) /\ Local /\ Ignored /\ UNCHANGED sts
    BY DEF HandleAdded, Local, api
<1>2. ASSUME NEW h \in Gateway, NEW i \in IP, Answered(h, i)
      PROVE  Answered(h, i)'
    BY <1>1, <1>2, AnsweredTail
<1> QED
    BY <1>1, <1>2, IgnoredCalm

\* A standby that is up needs no event.
LEMMA StandbyNamed ==
    ASSUME Calm, CInv, NEW kind \in {"failed", "deleted"}, NEW g \in Gateway,
           Takes(kind, g), Local, NEW h \in Gateway, Available(sts, h), exip # None,
           Begin(kind, g, h, "updateVpc")
    PROVE  Notices' /\ Written'
<1>1. CaughtUp /\ UNCHANGED sts
    BY DEF Takes, Calm, Local, api
<1>2. Written'
    BY BeginWritten
<1>3. Named' = [gw |-> h, ip |-> sts[h].ip]
    BY <1>1, CaughtUpCurrent DEF Begin, Named
<1>4. ASSUME NEW k \in Gateway, NEW i \in IP, Named' = [gw |-> k, ip |-> i]
      PROVE  Answered(k, i)' /\ sts[k].st # "down"
    BY <1>1, <1>3, <1>4 DEF Available, Answered
<1> QED
    BY <1>1, <1>2, <1>4, TakenNotices

LEMMA FailedCalm ==
    ASSUME Calm, CInv, NEW g \in Gateway, HandleFailed(g)
    PROVE  Notices' /\ Written'
<1>1. Takes("failed", g) /\ Local /\ CaughtUp /\ UNCHANGED sts
    BY DEF HandleFailed, Takes, Calm, Local, api
<1>2. seenSts = sts /\ seenExIp.val = exip
    BY <1>1, CaughtUpCurrent
<1>3. CASE IsPrimary(g) /\ \E h \in Standby(g) : Begin("failed", g, h, FirstCall)
    BY <1>1, <1>2, <1>3, StandbyNamed DEF IsPrimary, Standby, FirstCall
<1>4. CASE ~(IsPrimary(g) /\ Standby(g) # {}) /\ Ignored
  <2>1. ASSUME NEW h \in Gateway, NEW i \in IP, exip = [gw |-> h, ip |-> i], Answered(h, i)
        PROVE  Answered(h, i)'
    <3>1. h = g /\ sts[h].st = "down" => NobodyUp
      <4> SUFFICES ASSUME h = g, sts[h].st = "down" PROVE NobodyUp
          OBVIOUS
      <4>1. exip # None
          BY <2>1, ConstantsOK DEF Endpoint
      <4>2. \A k \in Gateway \ {g} : ~Available(seenSts, k)
          BY <1>2, <1>4, <2>1, <4>1 DEF IsPrimary, Standby
      <4> QED
          BY <1>2, <4>2 DEF NobodyUp, Available
    <3> QED
        BY <1>1, <2>1, <3>1, AnsweredTail
  <2> QED
      BY <1>1, <1>4, <2>1, IgnoredCalm
<1> QED
    BY <1>3, <1>4 DEF HandleFailed

LEMMA RestartedCalm ==
    ASSUME Calm, CInv, NEW g \in Gateway, HandleRestarted(g)
    PROVE  Notices' /\ Written'
<1>1. Takes("restarted", g) /\ Local /\ CaughtUp /\ UNCHANGED sts /\ pc = "idle"
    BY DEF HandleRestarted, Takes, Calm, Local, api
<1>2. seenSts = sts /\ seenExIp.val = exip
    BY <1>1, CaughtUpCurrent
<1>3. CASE /\ IsPrimary(g) /\ seenSts[g].st # "absent"
           /\ Begin("restarted", g, g, "updateExIp")
  <2>1. exip # None /\ exip.gw = g
      BY <1>2, <1>3 DEF IsPrimary
  <2>2. Written'
      BY <1>1, <1>3, <2>1, BeginWritten
  <2>3. Named' = [gw |-> g, ip |-> sts[g].ip]
      BY <1>2, <1>3 DEF Begin, Named
  <2>4. PICK j \in IP : exip = [gw |-> g, ip |-> j]
      BY <2>1 DEF CInv, IInv, TypeOK, Endpoint
  <2>5. Named = [gw |-> g, ip |-> j]
      BY <1>1, <2>4 DEF Named
  <2>6. ASSUME NEW i \in IP, i = sts[g].ip
        PROVE  Answered(g, i)'
    <3>1. Answered(g, j)
        BY <2>5 DEF CInv, Notices, NamedAnswered
    <3>2. Answered(g, i)
        BY <2>6, <3>1 DEF Answered
    <3> QED
        BY <1>1, <2>6, <3>2, AnsweredTail
  <2>7. ASSUME NEW h \in Gateway, NEW i \in IP, Named' = [gw |-> h, ip |-> i]
        PROVE  Answered(h, i)' /\ Named = [gw |-> h, ip |-> j]
    <3>1. h = g /\ i = sts[g].ip
        BY <2>3, <2>7
    <3> QED
        BY <2>5, <2>6, <3>1
  <2> QED
      BY <1>1, <2>2, <2>7, TakenNotices
<1>4. CASE ~(IsPrimary(g) /\ seenSts[g].st = "up") /\ Ignored
  <2>1. ASSUME NEW h \in Gateway, NEW i \in IP, exip = [gw |-> h, ip |-> i], Answered(h, i)
        PROVE  Answered(h, i)'
    <3>1. exip # None
        BY <2>1, ConstantsOK DEF Endpoint
    <3>2. ~(h = g /\ sts[h].st = "up")
        BY <1>2, <1>4, <2>1, <3>1 DEF IsPrimary
    <3> QED
        BY <1>1, <2>1, <3>2, AnsweredTail
  <2> QED
      BY <1>1, <1>4, <2>1, IgnoredCalm
<1> QED
    BY <1>3, <1>4 DEF HandleRestarted

LEMMA DeletedCalm ==
    ASSUME Calm, CInv, NEW g \in Gateway, HandleDeleted(g)
    PROVE  Notices' /\ Written'
<1>1. Takes("deleted", g) /\ Local /\ CaughtUp /\ UNCHANGED sts
    BY DEF HandleDeleted, Takes, Calm, Local, api
<1>2. seenSts = sts /\ seenExIp.val = exip
    BY <1>1, CaughtUpCurrent
<1>3. CASE ~IsPrimary(g) /\ Ignored
  <2>1. ASSUME NEW h \in Gateway, NEW i \in IP, exip = [gw |-> h, ip |-> i], Answered(h, i)
        PROVE  Answered(h, i)'
    <3>1. h # g
        BY <1>2, <1>3, <2>1, ConstantsOK DEF IsPrimary, Endpoint
    <3> QED
        BY <1>1, <2>1, <3>1, AnsweredTail
  <2> QED
      BY <1>1, <1>3, <2>1, IgnoredCalm
<1>4. CASE Begin("deleted", g, g, "delete")
  <2>1. Written'
      BY <1>1, <1>4, BeginWritten
  <2>2. Named' = None
      BY <1>4 DEF Begin, Named
  <2>3. \A h \in Gateway, i \in IP : Named' # [gw |-> h, ip |-> i]
      BY <2>2, ConstantsOK DEF Endpoint
  <2> QED
      BY <1>1, <2>1, <2>3, TakenNotices
<1>5. CASE IsPrimary(g) /\ \E h \in Gateway : /\ Available(seenSts, h)
                                              /\ Begin("deleted", g, h, FirstCall)
    BY <1>1, <1>2, <1>5, StandbyNamed DEF IsPrimary, FirstCall
<1> QED
    BY <1>3, <1>4, <1>5 DEF HandleDeleted

-------------------------------------------------------------------------------
(* Gateways, the cache, and the tunnels *)

\* A gateway fails, goes or comes only while all are up and no tunnel is built.
LEMMA GatewaysCalm ==
    ASSUME Calm, CInv, NEW g \in Gateway,
           \/ GatewayCreated(g) \/ GatewayFails(g) \/ GatewayDeleted(g)
           \/ \E i \in IP : GatewayReturns(g, i)
    PROVE  Notices' /\ Written'
<1>1. /\ UNCHANGED <<route, exip, tun, build, seen, pc, job>>
      /\ TypeOK /\ sts \in StatefulSets
    BY DEF GatewayCreated, GatewayFails, GatewayDeleted, GatewayReturns, Becomes,
           CInv, IInv, TypeOK
<1>2. Named' = Named
    BY <1>1 DEF Named
<1>3. ASSUME NEW k \in {"added", "failed", "restarted", "deleted"},
             queue' = Append(queue, [kind |-> k, gw |-> g]),
             \A h \in Gateway \ {g} : sts'[h] = sts[h],
             \/ k = "restarted" /\ sts[g].st = "down" /\ sts'[g].st = "up"
             \/ /\ k # "restarted" /\ \A h \in Gateway : sts[h].st # "down"
                /\ \/ k = "added" /\ sts[g].st = "absent" /\ sts'[g].st = "down"
                   \/ k = "failed" /\ sts[g].st = "up" /\ sts'[g].st = "down"
                   \/ k = "deleted" /\ sts'[g].st = "absent"
      PROVE  Notices'
  <2>1. /\ Waiting(k, g)'
        /\ \A l, h : Waiting(l, h) => Waiting(l, h)'
        /\ \A h : Waiting("addedUp", h)' => Waiting("addedUp", h)
      BY <1>1, <1>3, WaitingAppend
  <2>2. AddedFirst'
      BY <1>1, <1>3, AddedFirstAppend DEF CInv, Notices
  <2>3. ASSUME NEW h \in Gateway, NEW i \in IP, Named = [gw |-> h, ip |-> i]
        PROVE  Answered(h, i)'
    <3>1. Answered(h, i)
        BY <2>3 DEF CInv, Notices, NamedAnswered
    <3>2. CASE h = g
        BY <1>3, <2>1, <3>1, <3>2 DEF Answered
    <3>3. CASE h # g
      <4>1. sts[h].st = "down" /\ NobodyUp => FALSE
        <5> SUFFICES ASSUME sts[h].st = "down", NobodyUp PROVE FALSE
            OBVIOUS
        <5>1. sts[g].st = "down"
            BY <1>3
        <5> QED
            BY <2>3, <3>3, <5>1 DEF CInv, Notices, OneDown
      <4> QED
          BY <1>3, <2>1, <3>1, <3>3, <4>1 DEF Answered
    <3> QED
        BY <3>2, <3>3
  <2>4. NamedAnswered'
      BY <1>2, <2>3 DEF NamedAnswered
  <2>5. OneDown'
      BY <1>2, <1>3, <2>1 DEF CInv, Notices, OneDown
  <2>6. AddedDown'
    <3> SUFFICES ASSUME NEW h \in Gateway, Waiting("addedUp", h)'
                 PROVE  /\ sts'[h].st = "down" => Waiting("failed", h)' \/ Waiting("deleted", h)'
                        /\ sts'[h].st = "absent" => Waiting("deleted", h)'
        BY DEF AddedDown
    <3>1. /\ sts[h].st = "down" => Waiting("failed", h) \/ Waiting("deleted", h)
          /\ sts[h].st = "absent" => Waiting("deleted", h)
        BY <2>1 DEF CInv, Notices, AddedDown
    <3> QED
        BY <1>3, <2>1, <3>1
  <2> QED
      BY <2>2, <2>4, <2>5, <2>6 DEF Notices
<1>4. PICK k \in {"added", "failed", "restarted", "deleted"} :
          /\ queue' = Append(queue, [kind |-> k, gw |-> g])
          /\ \A h \in Gateway \ {g} : sts'[h] = sts[h]
          /\ \/ k = "restarted" /\ sts[g].st = "down" /\ sts'[g].st = "up"
             \/ /\ k # "restarted" /\ May
                /\ \/ k = "added" /\ sts[g].st = "absent" /\ sts'[g].st = "down"
                   \/ k = "failed" /\ sts[g].st = "up" /\ sts'[g].st = "down"
                   \/ k = "deleted" /\ sts'[g].st = "absent"
  <2>1. ASSUME NEW st, sts' = [sts EXCEPT ![g].st = st]
        PROVE  sts'[g].st = st /\ \A h \in Gateway \ {g} : sts'[h] = sts[h]
      BY <1>1, <2>1 DEF StatefulSets
  <2>2. CASE GatewayCreated(g)
      BY <2>1, <2>2 DEF GatewayCreated, Becomes
  <2>3. CASE GatewayFails(g)
      BY <2>1, <2>3 DEF GatewayFails, Becomes, Available
  <2>4. CASE GatewayDeleted(g)
      BY <2>1, <2>4 DEF GatewayDeleted, Becomes
  <2>5. ASSUME NEW i \in IP, GatewayReturns(g, i)
        PROVE  /\ queue' = Append(queue, [kind |-> "restarted", gw |-> g])
               /\ \A h \in Gateway \ {g} : sts'[h] = sts[h]
               /\ sts[g].st = "down" /\ sts'[g].st = "up"
      BY <1>1, <2>5 DEF GatewayReturns, StatefulSets
  <2> QED
      BY <2>2, <2>3, <2>4, <2>5
<1>5. k # "restarted" => \A h \in Gateway : sts[h].st # "down"
    BY <1>4 DEF May, AllUp, Calm
<1>6. Notices'
    BY <1>3, <1>4, <1>5
<1>7. \A t \in Tunnel : build[t] = None
    BY <1>4 DEF May, NotBuilding, Calm, CInv, Written, BuiltAsNamed
<1>8. NothingToAdd'
  <2>1. /\ Len(queue) \in Nat /\ Len(queue') = Len(queue) + 1
        /\ \A n \in 1..Len(queue) : queue'[n] = queue[n]
        /\ queue'[Len(queue) + 1] = [kind |-> k, gw |-> g]
      BY <1>1, <1>4, AppendProperties, LenProperties DEF TypeOK
  <2> QED
      BY <1>1, <1>4, <2>1 DEF CInv, Written, NothingToAdd
<1> QED
    BY <1>1, <1>6, <1>7, <1>8
       DEF CInv, Written, SeenCurrent, RoutesLead, JobCurrent, BuiltAsNamed, TunnelsKnow, seen

LEMMA SyncCalm ==
    ASSUME CInv, Sync
    PROVE  Notices' /\ Written'
<1>1. UNCHANGED <<api, queue, pc, job>>
    BY DEF Sync, SyncSts, SyncRoute, SyncExIp, SyncTunnel, Synced
<1>2. Notices'
    BY <1>1, NoticesKept DEF Named, api, CInv
<1>3. /\ seenRoute'.fresh => seenRoute'.val = route
      /\ \A t \in Tunnel :
            seenTun'[t] = seenTun[t] \/ seenTun'[t] = [val |-> tun[t], fresh |-> TRUE]
  <2>1. CASE SyncSts \/ SyncRoute \/ SyncExIp
      BY <2>1 DEF SyncSts, SyncRoute, SyncExIp, CInv, Written, SeenCurrent
  <2>2. ASSUME NEW u \in Tunnel, SyncTunnel(u)
        PROVE  /\ seenRoute' = seenRoute
               /\ \A t \in Tunnel :
                    seenTun'[t] = seenTun[t] \/ seenTun'[t] = [val |-> tun[t], fresh |-> TRUE]
      BY <2>2 DEF SyncTunnel, CInv, IInv, TypeOK
  <2> QED
      BY <2>1, <2>2 DEF Sync, CInv, Written, SeenCurrent
<1>4. \A t \in Tunnel : /\ seenTun'[t].fresh => seenTun'[t].val = tun[t]
                        /\ seenTun[t].fresh => seenTun'[t].fresh
  <2> SUFFICES ASSUME NEW t \in Tunnel
               PROVE  /\ seenTun'[t].fresh => seenTun'[t].val = tun[t]
                      /\ seenTun[t].fresh => seenTun'[t].fresh
      OBVIOUS
  <2>1. CASE seenTun'[t] = seenTun[t]
      BY <2>1 DEF CInv, Written, SeenCurrent
  <2>2. CASE seenTun'[t] = [val |-> tun[t], fresh |-> TRUE]
      BY <2>2
  <2> QED
      BY <1>3, <2>1, <2>2
<1>5. SeenCurrent'
    BY <1>1, <1>3, <1>4 DEF SeenCurrent, api
<1>6. JobCurrent'
    BY <1>1, <1>4 DEF CInv, Written, JobCurrent, api
<1> QED
    BY <1>1, <1>2, <1>5, <1>6
       DEF CInv, Written, RoutesLead, BuiltAsNamed, NothingToAdd, TunnelsKnow, Quiet, api

LEMMA BuildsCalm ==
    ASSUME Calm, CInv, NEW t \in Tunnel, TunnelBuilds(t)
    PROVE  Notices' /\ Written'
<1>1. /\ Quiet /\ AllUp /\ CaughtUp /\ seenExIp.val # None
      /\ UNCHANGED <<sts, route, exip, tun, seen, queue, pc, job>>
    BY DEF TunnelBuilds, Calm
<1>2. seenSts = sts /\ seenExIp.val = exip /\ exip \in Endpoint
    BY <1>1, CaughtUpCurrent DEF CInv, IInv, TypeOK
<1>3. PICK g \in Gateway, i \in IP : exip = [gw |-> g, ip |-> i]
    BY <1>2 DEF Endpoint
<1>4. build' = [build EXCEPT ![t] = [gw |-> g, ip |-> sts[g].ip]]
    BY <1>2, <1>3 DEF TunnelBuilds
<1>5. sts[g].ip = i
  <2>1. Answered(g, i)
      BY <1>1, <1>3 DEF CInv, Notices, NamedAnswered, Named, Quiet
  <2>2. Len(queue) = 0 /\ \A k : ~Waiting(k, g)
      BY <1>1 DEF Quiet, Waiting
  <2> QED
      BY <1>1, <2>1, <2>2 DEF Answered, AllUp, CInv, IInv, TypeOK, StatefulSets
<1>6. \A u \in Tunnel : build'[u] = build[u] \/ build'[u] = exip
    BY <1>3, <1>4, <1>5 DEF CInv, IInv, TypeOK
<1>7. Notices'
    BY <1>1, NoticesKept DEF Named, CInv
<1>8. BuiltAsNamed'
    BY <1>1, <1>6 DEF CInv, Written, BuiltAsNamed, Quiet, AllUp
<1>9. NothingToAdd'
    BY <1>1 DEF NothingToAdd, Quiet
<1> QED
    BY <1>1, <1>7, <1>8, <1>9
       DEF CInv, Written, SeenCurrent, RoutesLead, JobCurrent, TunnelsKnow, seen

LEMMA LabelledCalm ==
    ASSUME CInv, NEW t \in Tunnel, TunnelLabelled(t)
    PROVE  Notices' /\ Written'
<1>1. /\ build[t] # None /\ build[t] = exip /\ Quiet
      /\ UNCHANGED <<sts, route, exip, seenRoute, queue, pc, job>>
      /\ tun' = [tun EXCEPT ![t] = build[t]] /\ build' = [build EXCEPT ![t] = None]
    BY DEF TunnelLabelled, Quiet, CInv, Written, BuiltAsNamed
<1>2. \A u \in Tunnel : /\ tun'[u] = tun[u] \/ tun'[u] = exip
                        /\ build'[u] = build[u] \/ build'[u] = None
    BY <1>1 DEF CInv, IInv, TypeOK
<1>3. Notices'
    BY <1>1, NoticesKept DEF Named, CInv
<1>4. SeenCurrent'
  <2>1. \A u \in Tunnel : u # t => tun'[u] = tun[u] /\ seenTun'[u] = seenTun[u]
      BY <1>1 DEF TunnelLabelled, CInv, IInv, TypeOK
  <2>2. ~seenTun'[t].fresh
      BY DEF TunnelLabelled, CInv, IInv, TypeOK, Cached
  <2> QED
      BY <1>1, <2>1, <2>2 DEF CInv, Written, SeenCurrent
<1>5. NothingToAdd'
    BY <1>1 DEF NothingToAdd, Quiet
<1>6. BuiltAsNamed' /\ TunnelsKnow'
    BY <1>1, <1>2 DEF CInv, Written, BuiltAsNamed, TunnelsKnow, Quiet
<1> QED
    BY <1>1, <1>3, <1>4, <1>5, <1>6 DEF CInv, Written, RoutesLead, JobCurrent, Quiet

LEMMA ReleasedCalm ==
    ASSUME Calm, CInv, NEW t \in Tunnel, TunnelReleased(t)
    PROVE  Notices' /\ Written'
<1>1. /\ pc = "idle"
      /\ UNCHANGED <<sts, route, exip, seenRoute, queue, pc, job>>
      /\ tun' = [tun EXCEPT ![t] = None] /\ build' = [build EXCEPT ![t] = None]
    BY DEF TunnelReleased, Calm
<1>2. \A u \in Tunnel : tun'[u] \in {tun[u], None} /\ build'[u] \in {build[u], None}
    BY <1>1 DEF CInv, IInv, TypeOK
<1>3. Notices'
    BY <1>1, NoticesKept DEF Named, CInv
<1>4. SeenCurrent'
  <2>1. \A u \in Tunnel : u # t => tun'[u] = tun[u] /\ seenTun'[u] = seenTun[u]
      BY <1>1 DEF TunnelReleased, CInv, IInv, TypeOK
  <2>2. seenTun'[t].fresh => seenTun'[t] = seenTun[t] /\ tun' = tun
      BY DEF TunnelReleased, CInv, IInv, TypeOK, Cached
  <2>3. seenTun'[t].fresh => seenTun'[t].val = tun'[t]
      BY <2>2 DEF CInv, Written, SeenCurrent
  <2> QED
      BY <1>1, <2>1, <2>3 DEF CInv, Written, SeenCurrent
<1>5. NothingToAdd' /\ BuiltAsNamed' /\ TunnelsKnow'
    BY <1>1, <1>2 DEF CInv, Written, NothingToAdd, BuiltAsNamed, TunnelsKnow, Quiet
<1> QED
    BY <1>1, <1>3, <1>4, <1>5 DEF CInv, Written, RoutesLead, JobCurrent

LEMMA StutterCalm ==
    ASSUME CInv, UNCHANGED vars
    PROVE  Notices' /\ Written'
<1>1. Notices'
    BY NoticesKept DEF Named, vars, api, CInv
<1> QED
    BY <1>1 DEF CInv, Written, SeenCurrent, RoutesLead, JobCurrent, BuiltAsNamed,
                NothingToAdd, TunnelsKnow, Quiet, vars, api, seen

LEMMA NextCalm ==
    ASSUME Calm, CInv, [Next]_vars, faults' = 0
    PROVE  CInv'
<1>1. IInv'
    BY NextInv DEF CInv
<1>2. ASSUME Handler PROVE Notices' /\ Written'
    BY <1>2, AddedUpCalm, AddedCalm, FailedCalm, RestartedCalm, DeletedCalm,
       CreateCalm, DeleteCalm, VpcCalm, ExIpCalm, ListCalm, PatchCalm DEF Handler
<1>3. ASSUME Cluster PROVE Notices' /\ Written'
    BY <1>3, GatewaysCalm, BuildsCalm, LabelledCalm, ReleasedCalm DEF Cluster
<1>4. ~Failure
    BY NoFailure DEF CInv, IInv
<1>5. Notices' /\ Written'
    BY <1>2, <1>3, <1>4, SyncCalm, StutterCalm DEF Next
<1> QED
    BY <1>1, <1>5 DEF CInv

UntilFault == IInv /\ (faults = 0 => CInv)

LEMMA CalmInvariance == Calm => (Spec => []UntilFault)
<1> SUFFICES ASSUME Calm PROVE Spec => []UntilFault
    OBVIOUS
<1> USE DEF UntilFault
<1>1. Init => UntilFault
    BY InitCalm DEF CInv
<1>2. UntilFault /\ [Next]_vars => UntilFault'
  <2> SUFFICES ASSUME UntilFault, [Next]_vars PROVE UntilFault'
      OBVIOUS
  <2>1. IInv'
      BY NextInv
  <2>2. ASSUME faults' = 0 PROVE CInv'
      BY <2>2, FaultsAddUp, NextCalm DEF IInv
  <2> QED
      BY <2>1, <2>2
<1> HIDE DEF UntilFault
<1> QED
    BY <1>1, <1>2, PTL DEF Spec

-------------------------------------------------------------------------------
(* Theorems *)

\* Until something fails, if gateways fail, go and come one at a time, a VPC that has a
\* GatewayExIp and an available gateway is served by one once all events are handled:
\* the GatewayExIp has its present address, and the static routes lead to it.
THEOREM CalmServed == Calm => (Spec => []Served)
<1>1. UntilFault => Served
  <2> SUFFICES ASSUME CInv, Quiet, exip # None, NEW k \in Gateway, Available(sts, k)
               PROVE  /\ Available(sts, exip.gw) /\ exip.ip = sts[exip.gw].ip
                      /\ route \in {None, exip.gw}
      BY DEF Served, UntilFault
  <2>1. PICK g \in Gateway, i \in IP : exip = [gw |-> g, ip |-> i]
      BY DEF CInv, IInv, TypeOK, Endpoint
  <2>2. Answered(g, i)
      BY <2>1 DEF CInv, Notices, NamedAnswered, Named, Quiet
  <2>3. \A kind : ~Waiting(kind, g)
      BY DEF Quiet, Waiting
  <2>4. sts[g].st = "up" /\ sts[g].ip = i
      BY <2>2, <2>3 DEF Answered, NobodyUp, Available, CInv, IInv, TypeOK, StatefulSets
  <2> QED
      BY <2>1, <2>4 DEF Available, Quiet, CInv, Written, RoutesLead
<1> QED
    BY CalmInvariance, <1>1, PTL

\* Under the same conditions every tunnel of the VPC is asked to be where the
\* GatewayExIp says.
THEOREM CalmFollowed == Calm => (Spec => []TunnelsFollow)
<1>1. UntilFault => TunnelsFollow
    BY DEF UntilFault, CInv, Written, TunnelsKnow, TunnelsFollow, Quiet
<1> QED
    BY CalmInvariance, <1>1, PTL
===============================================================================
