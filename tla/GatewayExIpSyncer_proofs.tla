----------------------- MODULE GatewayExIpSyncer_proofs -----------------------
(***************************************************************************)
(* The GatewayExIp syncer implements AddressFeed: the proof of             *)
(* Spec => FollowsFeed, and of the type invariant.                         *)
(***************************************************************************)
EXTENDS GatewayExIpSyncer, SequenceTheorems, TLAPS

\* A name of two labels, and what its head and its tail are.
LEMMA TwoLong ==
    ASSUME NEW S, NEW v \in Seq(S), NEW c \in S, v # <<>>,
           Len(Tail(v \o <<c>>)) = 1
    PROVE  Len(v) = 1 /\ Head(v \o <<c>>) = v[1] /\ Tail(v \o <<c>>)[1] = c
<1>1. PICK n \in Seq(S) : n = v \o <<c>>
  <2>1. <<c>> \in Seq(S)
    OBVIOUS
  <2>2. v \o <<c>> \in Seq(S)
    BY <2>1, ConcatProperties
  <2> QED
    BY <2>2
<1>2. Len(n) = Len(v) + 1 /\ Len(v) \in Nat /\ Len(v) # 0
  BY <1>1
<1>3. \A i \in 1..Len(v) : n[i] = v[i]
  BY <1>1
<1>4. n[Len(v) + 1] = c
  BY <1>1
<1>5. n # <<>>
  BY <1>2
<1>6. Len(Tail(n)) = Len(n) - 1
  BY <1>5
<1>7. Len(Tail(n)) = 1
  BY <1>1
<1>8. Len(v) = 1
  BY <1>2, <1>6, <1>7
<1>9. Head(n) = v[1]
  BY <1>3, <1>5, <1>8
<1>10. Tail(n)[1] = n[1 + 1]
  <2>1. \A i \in 1..Len(Tail(n)) : Tail(n)[i] = n[i + 1]
    BY <1>5, HeadTailProperties
  <2>2. 1 \in 1..1
    OBVIOUS
  <2>3. 1 \in 1..Len(Tail(n))
    BY <1>7, <2>2, Zenon
  <2> QED
    BY <2>1, <2>3, Zenon
<1>11. Tail(n)[1] = c
  BY <1>4, <1>8, <1>10, Zenon
<1> QED
  BY <1>1, <1>8, <1>9, <1>11, Zenon

\* The handler never takes a tunnel of one peer for one of another: the way it takes
\* a name apart may miss the tunnels of a VPC with a dot in its name, no more.
THEOREM NamesApart ==
    ASSUME NEW p \in Peer, NEW q \in Peer, Labels(p) = SplitN(Name(q))
    PROVE  p = q
<1>1. /\ p \in [vpc : Seq(Label) \ {<<>>}, cluster : Label]
      /\ q \in [vpc : Seq(Label) \ {<<>>}, cluster : Label]
  BY ConstantsOK
<1>2. /\ p.vpc = <<Head(q.vpc \o <<q.cluster>>)>>
      /\ <<p.cluster>> = Tail(q.vpc \o <<q.cluster>>)
  BY DEF Labels, SplitN, Name
<1>3. /\ p.vpc \in Seq(Label) /\ p.cluster \in Label
      /\ q.vpc \in Seq(Label) /\ q.vpc # <<>> /\ q.cluster \in Label
  BY <1>1
<1>4. PICK v \in Seq(Label), w \in Seq(Label), c \in Label, d \in Label :
         v = q.vpc /\ w = p.vpc /\ c = q.cluster /\ d = p.cluster
  BY <1>3
<1>5. v # <<>> /\ w = <<Head(v \o <<c>>)>> /\ <<d>> = Tail(v \o <<c>>)
  BY <1>2, <1>3, <1>4, Zenon
<1>6. w = v /\ d = c
  <2>1. Len(Tail(v \o <<c>>)) = 1
    <3>1. Len(<<d>>) = 1
      BY SMT
    <3> QED
      BY <1>5, <3>1, Zenon
  <2>2. Len(v) = 1 /\ Head(v \o <<c>>) = v[1] /\ Tail(v \o <<c>>)[1] = c
    BY <1>5, <2>1, TwoLong
  <2>3. <<d>>[1] = c
    BY <1>5, <2>2, Zenon
  <2>4. d = c
    BY <2>3
  <2>5. w = <<v[1]>>
    BY <1>5, <2>2, Zenon
  <2>6. Len(w) = 1 /\ w[1] = v[1]
    BY <2>5
  <2>7. w = v
    BY <2>2, <2>6, SeqEqual
  <2> QED
    BY <2>4, <2>7
<1>7. p.vpc = q.vpc /\ p.cluster = q.cluster
  BY <1>4, <1>6
<1> QED
  BY <1>1, <1>7

-------------------------------------------------------------------------------
(* The inductive invariant *)

\* What the transport holds is not ahead of what it has got it from.
FeedBehind ==
    \A p \in Peer :
        /\ copy[p].ver <= feed[p].ver /\ feed[p].ver <= Len(log[p])
        /\ p \in there => 1 <= Len(log[p])
        /\ feed[p].there => 1 <= feed[p].ver
        /\ copy[p].there => 1 <= copy[p].ver

\* A call of the handler works for the state that was just copied.
JobCopied == pc # "idle" => job.ver = copy[job.peer].ver /\ 1 <= job.ver

\* Addresses that have been seen here: a copy only gets newer.
Seen == {a \in [from : Peer, ver : Nat] : 1 <= a.ver /\ a.ver <= copy[a.from].ver}

At(o) == [from |-> o.from, ver |-> o.ver]

TunSeen == \A t \in Tunnel : tun[t] # None => At(tun[t]) \in Seen /\ tun[t].edit <= edits

\* A write under way is made from its base, or is a first one.
BuildSound ==
    \A t \in Tunnel : build[t] # None =>
        LET b == build[t].base
            n == build[t].new
        IN
        /\ At(n) \in Seen /\ n.edit <= edits
        /\ b = None => n.from = n.peer
        /\ b # None => /\ n = [b EXCEPT !.peer = n.peer, !.edit = n.edit]
                       /\ b.edit < n.edit

\* What is left to do are tunnels of the object that are not at its address.
TodoBehind ==
    pc = "update" => \A t \in job.todo :
        /\ job.held[t] # None /\ job.held[t].peer = job.peer
        /\ job.held[t].from = job.peer => job.held[t].ver # job.ver

IInv == TypeOK /\ FeedBehind /\ JobCopied /\ TunSeen /\ BuildSound /\ TodoBehind

-------------------------------------------------------------------------------
(* It holds at first *)

LEMMA InitInv == Init => IInv
<1> SUFFICES ASSUME Init PROVE IInv
  OBVIOUS
<1> USE DEF Init
<1>1. TypeOK
  BY ConstantsOK DEF TypeOK, GatewayExIp, NoJob
<1>2. FeedBehind
  BY DEF FeedBehind
<1>3. JobCopied /\ TunSeen /\ BuildSound /\ TodoBehind
  BY DEF JobCopied, TunSeen, BuildSound, TodoBehind
<1> QED
  BY <1>1, <1>2, <1>3 DEF IInv

-------------------------------------------------------------------------------
(* What the actions leave alone *)

\* Copies that do not change keep what has been seen.
LEMMA SeenKept ==
    ASSUME copy' = copy PROVE Seen' = Seen
BY DEF Seen

LEMMA StopDone ==
    ASSUME Stop PROVE JobCopied' /\ TodoBehind' /\ pc' = "idle" /\ job' = NoJob
BY DEF Stop, JobCopied, TodoBehind

\* Tunnels and what is being written to them are sound while they and the copies stay.
LEMMA TunnelsKept ==
    ASSUME IInv, UNCHANGED <<tun, build>>, edits' = edits, copy' = copy
    PROVE  TunSeen' /\ BuildSound'
<1>1. Seen' = Seen
  BY SeenKept
<1> QED
  BY <1>1 DEF IInv, TunSeen, BuildSound, At

\* The handler's part is sound while the handler and the copies stay.
LEMMA HandlerKept ==
    ASSUME IInv, UNCHANGED <<pc, job>>, copy' = copy
    PROVE  JobCopied' /\ TodoBehind'
BY DEF IInv, JobCopied, TodoBehind

-------------------------------------------------------------------------------
(* The peers and the transport *)

LEMMA AnnounceInv ==
    ASSUME IInv, NEW p \in Peer, NEW i \in IP, Announce(p, i)
    PROVE  IInv'
<1> USE DEF Announce, Move, tunnels
<1>1. /\ log \in [Peer -> Seq(IP)] /\ there \in SUBSET Peer /\ moves \in Nat
      /\ feed \in [Peer -> GatewayExIp] /\ copy \in [Peer -> GatewayExIp]
  BY DEF IInv, TypeOK
<1>2. log' = [log EXCEPT ![p] = Append(log[p], i)]
  OBVIOUS
<1>3. log' \in [Peer -> Seq(IP)]
  BY <1>1, <1>2
<1>4. \A q \in Peer : Len(log[q]) \in Nat /\ Len(log[q]) <= Len(log'[q])
  BY <1>1, <1>2
<1>5. Len(log'[p]) = Len(log[p]) + 1
  BY <1>1, <1>2
<1>6. TypeOK'
  BY <1>1, <1>3 DEF IInv, TypeOK
<1>7. FeedBehind'
  <2> SUFFICES ASSUME NEW q \in Peer
               PROVE  /\ copy[q].ver <= feed[q].ver /\ feed[q].ver <= Len(log'[q])
                      /\ q \in there' => 1 <= Len(log'[q])
                      /\ feed[q].there => 1 <= feed[q].ver
                      /\ copy[q].there => 1 <= copy[q].ver
    BY DEF FeedBehind
  <2>1. feed[q].ver \in Nat /\ copy[q].ver \in Nat
    BY <1>1 DEF GatewayExIp
  <2> QED
    BY <1>4, <1>5, <2>1 DEF IInv, FeedBehind
<1> QED
  BY <1>6, <1>7, TunnelsKept, HandlerKept DEF IInv

LEMMA WithdrawInv ==
    ASSUME IInv, NEW p \in Peer, Withdraw(p)
    PROVE  IInv'
<1> USE DEF Withdraw, Move, tunnels
<1>1. TypeOK'
  BY DEF IInv, TypeOK
<1>2. FeedBehind'
  BY DEF IInv, FeedBehind
<1> QED
  BY <1>1, <1>2, TunnelsKept, HandlerKept DEF IInv

LEMMA ArriveInv ==
    ASSUME IInv, NEW p \in Peer, Arrive(p)
    PROVE  IInv'
<1> USE DEF Arrive, peers, tunnels
<1>1. /\ log \in [Peer -> Seq(IP)] /\ feed \in [Peer -> GatewayExIp]
      /\ copy \in [Peer -> GatewayExIp]
  BY DEF IInv, TypeOK
<1>2. /\ \A q \in Peer : Len(log[q]) \in Nat
      /\ \A q \in Peer : copy[q].ver \in Nat /\ feed[q].ver \in Nat
  BY <1>1 DEF GatewayExIp
<1>3. /\ Present(p) \in GatewayExIp
      /\ copy[p].ver <= Present(p).ver /\ Present(p).ver <= Len(log[p])
      /\ Present(p).there => 1 <= Present(p).ver
  <2>1. CASE p \in there
    <3>1. Present(p) = [ver |-> Len(log[p]), there |-> TRUE]
      BY <2>1 DEF Present
    <3> QED
      BY <1>2, <2>1, <3>1 DEF IInv, FeedBehind, GatewayExIp
  <2>2. CASE p \notin there
    <3>1. Present(p) = [feed[p] EXCEPT !.there = FALSE]
      BY <2>2 DEF Present
    <3> QED
      BY <1>1, <1>2, <3>1 DEF IInv, FeedBehind, GatewayExIp
  <2> QED
    BY <2>1, <2>2
<1>4. feed' = [feed EXCEPT ![p] = Present(p)] /\ copy' = copy /\ log' = log
  OBVIOUS
<1>5. TypeOK'
  BY <1>1, <1>3, <1>4 DEF IInv, TypeOK
<1>6. FeedBehind'
  BY <1>1, <1>3, <1>4 DEF IInv, FeedBehind
<1> QED
  BY <1>5, <1>6, TunnelsKept, HandlerKept DEF IInv

LEMMA DeliverInv ==
    ASSUME IInv, NEW p \in Peer, Deliver(p)
    PROVE  IInv'
<1> USE DEF Deliver, peers, tunnels
<1>1. /\ feed \in [Peer -> GatewayExIp] /\ copy \in [Peer -> GatewayExIp]
      /\ \A q \in Peer : copy[q].ver \in Nat /\ feed[q].ver \in Nat
  BY DEF IInv, TypeOK, GatewayExIp
<1>2. /\ copy' = [copy EXCEPT ![p] = feed[p]] /\ pc' = "list"
      /\ job' = [peer |-> p, ver |-> feed[p].ver, todo |-> {},
                 held |-> [t \in Tunnel |-> None]]
  OBVIOUS
<1>3. job' \in Job
  BY <1>1, <1>2 DEF Job
<1>4. TypeOK'
  BY <1>1, <1>2, <1>3 DEF IInv, TypeOK
<1>5. FeedBehind'
  BY <1>1, <1>2 DEF IInv, FeedBehind
<1>6. JobCopied'
  <2>1. job'.peer = p /\ job'.ver = feed[p].ver /\ copy'[p] = feed[p]
    BY <1>1, <1>2
  <2>2. 1 <= feed[p].ver
    BY <1>1 DEF Passed, IInv, FeedBehind
  <2> QED
    BY <2>1, <2>2 DEF JobCopied
<1>7. \A q \in Peer : copy[q].ver <= copy'[q].ver /\ copy'[q].ver \in Nat
  BY <1>1, <1>2 DEF IInv, FeedBehind
<1>8. Seen \subseteq Seen'
  <2> SUFFICES ASSUME NEW a \in Seen PROVE a \in Seen'
    OBVIOUS
  <2>1. /\ a \in [from : Peer, ver : Nat]
        /\ 1 <= a.ver /\ a.ver <= copy[a.from].ver
    BY DEF Seen
  <2>2. a.from \in Peer /\ a.ver \in Nat
    BY <2>1
  <2>3. a.ver <= copy'[a.from].ver
    BY <1>1, <1>7, <2>1, <2>2
  <2> QED
    BY <2>1, <2>3 DEF Seen
<1>9. TunSeen' /\ BuildSound'
  BY <1>8 DEF IInv, TunSeen, BuildSound, At
<1>10. TodoBehind'
  BY <1>2 DEF TodoBehind
<1> QED
  BY <1>4, <1>5, <1>6, <1>9, <1>10 DEF IInv

-------------------------------------------------------------------------------
(* The handler *)

LEMMA ListInv ==
    ASSUME IInv, ListTunnels
    PROVE  IInv'
<1> USE DEF ListTunnels, peers, tunnels
<1>1. /\ job \in Job /\ cache \in [Tunnel -> Object \cup {None}]
      /\ log' = log /\ copy' = copy
  BY DEF IInv, TypeOK
<1>2. FeedBehind'
  BY DEF IInv, FeedBehind
<1>3. TunSeen' /\ BuildSound'
  BY TunnelsKept
<1>4. CASE Todo = {}
  <2>1. Stop
    BY <1>4
  <2>2. TypeOK'
    BY <2>1, StopDone DEF IInv, TypeOK
  <2> QED
    BY <1>2, <1>3, <2>1, <2>2, StopDone DEF IInv
<1>5. CASE Todo # {}
  <2>1. pc' = "update" /\ job' = [job EXCEPT !.todo = Todo, !.held = cache]
    BY <1>5
  <2>2. job' \in Job
    BY <1>1, <2>1 DEF Job, Todo, Listed
  <2>3. TypeOK'
    BY <2>1, <2>2 DEF IInv, TypeOK
  <2>4. /\ job'.peer = job.peer /\ job'.ver = job.ver
        /\ job'.todo = Todo /\ job'.held = cache
    BY <1>1, <2>1 DEF Job
  <2>5. JobCopied'
    BY <1>1, <2>4 DEF IInv, JobCopied
  <2>6. TodoBehind'
    <3> SUFFICES ASSUME NEW t \in Todo
                 PROVE  /\ cache[t] # None /\ cache[t].peer = job.peer
                        /\ cache[t].from = job.peer => cache[t].ver # job.ver
      BY <2>4 DEF TodoBehind
    <3>1. /\ t \in Tunnel /\ cache[t] # None
          /\ Labels(cache[t].peer) = SplitN(Name(job.peer))
          /\ log[cache[t].from][cache[t].ver] # log[job.peer][job.ver]
      BY DEF Todo, Listed, Behind, Address
    <3>2. cache[t].peer \in Peer /\ job.peer \in Peer
      BY <1>1, <3>1 DEF Object, Job
    <3>3. cache[t].peer = job.peer
      BY <3>1, <3>2, NamesApart
    <3> QED
      BY <3>1, <3>3
  <2> QED
    BY <1>2, <1>3, <2>3, <2>5, <2>6 DEF IInv
<1> QED
  BY <1>4, <1>5

\* What an update that is not refused writes.
LEMMA UpdateWrites ==
    ASSUME IInv, NEW t \in Tunnel, pc = "update", t \in job.todo, Accepted(t)
    PROVE  /\ tun[t] # None /\ tun[t] \in Object /\ tun[t].peer = job.peer
           /\ Updated(t) = [tun[t] EXCEPT !.from = tun[t].peer, !.ver = job.ver]
           /\ Updated(t) \in Object
           /\ job.ver \in Nat /\ 1 <= job.ver /\ job.ver = copy[job.peer].ver
           /\ tun[t].from = tun[t].peer => tun[t].ver < job.ver
<1>1. job \in Job /\ tun \in [Tunnel -> Object \cup {None}]
  BY DEF IInv, TypeOK
<1>2. tun[t] # None /\ job.held[t] = tun[t]
  BY DEF Accepted
<1>3. tun[t] \in Object /\ job.peer \in Peer /\ job.ver \in Nat
  BY <1>1, <1>2 DEF Job
<1>4. tun[t].peer = job.peer /\ (tun[t].from = job.peer => tun[t].ver # job.ver)
  BY <1>2 DEF IInv, TodoBehind
<1>5. job.ver = copy[job.peer].ver /\ 1 <= job.ver
  BY DEF IInv, JobCopied
<1>6. Updated(t) = [tun[t] EXCEPT !.from = tun[t].peer, !.ver = job.ver]
  BY <1>2, <1>4 DEF Updated
<1>7. Updated(t) \in Object
  BY <1>3, <1>4, <1>6 DEF Object
<1>8. tun[t].ver <= copy[tun[t].from].ver /\ tun[t].ver \in Nat
  BY <1>2, <1>3 DEF IInv, TunSeen, Seen, At, Object
<1>9. tun[t].from = tun[t].peer => tun[t].ver < job.ver
  BY <1>3, <1>4, <1>5, <1>8
<1> QED
  BY <1>2, <1>3, <1>4, <1>5, <1>6, <1>7, <1>9

LEMMA UpdateInv ==
    ASSUME IInv, NEW t \in Tunnel, UpdateTunnel(t)
    PROVE  IInv'
<1> USE DEF UpdateTunnel, peers
<1>1. /\ job \in Job /\ tun \in [Tunnel -> Object \cup {None}] /\ faults \in Nat
      /\ copy \in [Peer -> GatewayExIp]
      /\ copy' = copy /\ log' = log /\ build' = build /\ edits' = edits
  BY DEF IInv, TypeOK
<1>2. Seen' = Seen
  BY <1>1, SeenKept
<1>3. FeedBehind'
  BY DEF IInv, FeedBehind
<1>4. BuildSound'
  BY <1>1, <1>2 DEF IInv, BuildSound, At
<1>5. tun' \in [Tunnel -> Object \cup {None}] /\ TunSeen'
  <2>1. CASE Accepted(t)
    <3>1. tun' = [tun EXCEPT ![t] = Updated(t)]
      BY <2>1
    <3>2. /\ Updated(t) = [tun[t] EXCEPT !.from = tun[t].peer, !.ver = job.ver]
          /\ Updated(t) \in Object /\ tun[t] \in Object /\ tun[t] # None
          /\ tun[t].peer = job.peer
          /\ job.ver \in Nat /\ 1 <= job.ver /\ job.ver = copy[job.peer].ver
      BY <2>1, UpdateWrites
    <3>3. At(Updated(t)) = [from |-> job.peer, ver |-> job.ver]
          /\ Updated(t).edit = tun[t].edit
      BY <3>2 DEF At, Object
    <3>4. At(Updated(t)) \in Seen
      BY <1>1, <3>2, <3>3 DEF Seen, Job
    <3> QED
      BY <1>1, <1>2, <3>1, <3>2, <3>3, <3>4 DEF IInv, TunSeen, At
  <2>2. CASE ~Accepted(t)
    BY <1>1, <1>2, <2>2 DEF IInv, TunSeen, At
  <2> QED
    BY <2>1, <2>2
<1>6. faults' \in Nat
  BY <1>1 DEF Fault
<1>7. CASE Stop
  <2>1. TypeOK'
    BY <1>1, <1>5, <1>6, <1>7, StopDone DEF IInv, TypeOK, tunnels
  <2> QED
    BY <1>3, <1>4, <1>5, <1>7, <2>1, StopDone DEF IInv
<1>8. CASE pc' = pc /\ job' = [job EXCEPT !.todo = @ \ {t}]
  <2>1. job' \in Job
    BY <1>1, <1>8 DEF Job
  <2>2. TypeOK'
    BY <1>1, <1>5, <1>6, <1>8, <2>1 DEF IInv, TypeOK
  <2>3. /\ job'.peer = job.peer /\ job'.ver = job.ver
        /\ job'.todo \subseteq job.todo /\ job'.held = job.held
    BY <1>1, <1>8 DEF Job
  <2>4. JobCopied' /\ TodoBehind'
    BY <1>1, <1>8, <2>3 DEF IInv, JobCopied, TodoBehind
  <2> QED
    BY <1>3, <1>4, <1>5, <2>2, <2>4 DEF IInv
<1> QED
  BY <1>7, <1>8

LEMMA FailureInv ==
    ASSUME IInv, CallFails \/ Restart
    PROVE  IInv'
<1> USE DEF CallFails, Restart, peers
<1>1. /\ Stop /\ Fault /\ copy' = copy /\ log' = log /\ feed' = feed /\ there' = there
      /\ tun' = tun /\ edits' = edits /\ moves' = moves
  BY DEF tunnels
<1>2. /\ tun \in [Tunnel -> Object \cup {None}] /\ build \in [Tunnel -> Write \cup {None}]
      /\ cache \in [Tunnel -> Object \cup {None}] /\ faults \in Nat
  BY DEF IInv, TypeOK
<1>3. \/ build' = build /\ cache' = cache
      \/ build' = [t \in Tunnel |-> None] /\ cache' = tun
  BY DEF tunnels
<1>4. TypeOK'
  BY <1>1, <1>2, <1>3, StopDone DEF IInv, TypeOK, Fault
<1>5. FeedBehind'
  BY <1>1 DEF IInv, FeedBehind
<1>6. Seen' = Seen
  BY <1>1, SeenKept
<1>7. TunSeen' /\ BuildSound'
  BY <1>1, <1>3, <1>6 DEF IInv, TunSeen, BuildSound, At
<1> QED
  BY <1>1, <1>4, <1>5, <1>7, StopDone DEF IInv

LEMMA SyncInv ==
    ASSUME IInv, NEW t \in Tunnel, SyncTunnel(t)
    PROVE  IInv'
<1> USE DEF SyncTunnel, peers, tunnels
<1>1. TypeOK'
  BY DEF IInv, TypeOK
<1>2. FeedBehind'
  BY DEF IInv, FeedBehind
<1> QED
  BY <1>1, <1>2, TunnelsKept, HandlerKept DEF IInv

-------------------------------------------------------------------------------
(* The others *)

\* While others write, the handler's part and the copies stay.
LEMMA OthersKeep ==
    ASSUME IInv, UNCHANGED <<peers, feed, copy, cache, pc, job, faults>>,
           tun' \in [Tunnel -> Object \cup {None}],
           build' \in [Tunnel -> Write \cup {None}], edits' \in Nat,
           TunSeen', BuildSound'
    PROVE  IInv'
<1>1. TypeOK'
  BY DEF IInv, TypeOK, peers
<1>2. FeedBehind'
  BY DEF IInv, FeedBehind, peers
<1> QED
  BY <1>1, <1>2, HandlerKept DEF IInv

\* A write by one of the others, under way or done.
LEMMA BuildsKept ==
    ASSUME IInv, copy' = copy, build' = build, edits' = edits + 1
    PROVE  BuildSound'
<1>1. Seen' = Seen
  BY SeenKept
<1>2. \A t \in Tunnel : build[t] # None => build[t].new.edit \in Nat
  BY DEF IInv, TypeOK, Write, Object
<1>3. edits \in Nat
  BY DEF IInv, TypeOK
<1>4. \A t \in Tunnel : build[t] # None => build[t].new.edit <= edits'
  <2> SUFFICES ASSUME NEW t \in Tunnel, build[t] # None
               PROVE  build[t].new.edit <= edits + 1
    OBVIOUS
  <2>1. build[t].new.edit <= edits
    BY DEF IInv, BuildSound
  <2> QED
    BY <1>2, <1>3, <2>1
<1> QED
  BY <1>1, <1>4 DEF IInv, BuildSound, At

LEMMA EditedInv ==
    ASSUME IInv, NEW t \in Tunnel, Edited(t) \/ Deleted(t)
    PROVE  IInv'
<1> USE DEF Edited, Deleted, Written
<1>1. /\ tun \in [Tunnel -> Object \cup {None}] /\ edits \in Nat
      /\ build \in [Tunnel -> Write \cup {None}]
      /\ edits' = edits + 1 /\ build' = build /\ copy' = copy /\ tun[t] # None
  BY DEF IInv, TypeOK
<1>2. Seen' = Seen
  BY <1>1, SeenKept
<1>3. tun' = [tun EXCEPT ![t].edit = edits + 1] \/ tun' = [tun EXCEPT ![t] = None]
  OBVIOUS
<1>4. tun' \in [Tunnel -> Object \cup {None}]
  BY <1>1, <1>3 DEF Object
<1>5. TunSeen'
  <2> SUFFICES ASSUME NEW u \in Tunnel, tun'[u] # None
               PROVE  At(tun'[u]) \in Seen /\ tun'[u].edit <= edits + 1
    BY <1>1, <1>2 DEF TunSeen, At
  <2>1. tun[u] # None /\ tun[u] \in Object
    BY <1>1, <1>3
  <2>2. At(tun[u]) \in Seen /\ tun[u].edit <= edits /\ tun[u].edit \in Nat
    BY <2>1 DEF IInv, TunSeen, Object
  <2>3. /\ tun'[u].from = tun[u].from /\ tun'[u].ver = tun[u].ver
        /\ tun'[u].edit \in {tun[u].edit, edits + 1}
    BY <1>1, <1>3, <2>1 DEF Object
  <2> QED
    BY <1>1, <2>2, <2>3 DEF At
<1>6. BuildSound'
  BY <1>1, BuildsKept
<1>7. UNCHANGED <<peers, feed, copy, cache, pc, job, faults>>
  OBVIOUS
<1> QED
  BY <1>1, <1>4, <1>5, <1>6, <1>7, OthersKeep

LEMMA WritesInv ==
    ASSUME IInv, NEW t \in Tunnel, NEW p \in Peer,
           TunnelBuilds(t, p) \/ TunnelRepoints(t, p)
    PROVE  IInv'
<1> USE DEF TunnelBuilds, TunnelRepoints, Writes, Written
<1>1. /\ tun \in [Tunnel -> Object \cup {None}] /\ edits \in Nat
      /\ build \in [Tunnel -> Write \cup {None}] /\ copy \in [Peer -> GatewayExIp]
      /\ edits' = edits + 1 /\ tun' = tun /\ copy' = copy /\ copy[p].there
  BY DEF IInv, TypeOK
<1>2. Seen' = Seen
  BY <1>1, SeenKept
<1>3. None \notin Object
  BY ConstantsOK DEF Object
<1>4. PICK n \in Object :
         /\ build' = [build EXCEPT ![t] = [base |-> tun[t], new |-> n]]
         /\ At(n) \in Seen /\ n.edit = edits + 1
         /\ tun[t] = None => n.from = n.peer
         /\ tun[t] # None => /\ n = [tun[t] EXCEPT !.peer = n.peer, !.edit = n.edit]
                             /\ tun[t].edit < n.edit
  <2>1. CASE TunnelBuilds(t, p)
    <3> DEFINE n == [peer |-> p, from |-> p, ver |-> copy[p].ver, edit |-> edits + 1]
    <3>1. n \in Object
      BY <1>1 DEF Object, GatewayExIp
    <3>2. At(n) \in Seen
      BY <1>1 DEF At, Seen, GatewayExIp, IInv, FeedBehind
    <3> QED
      BY <2>1, <3>1, <3>2
  <2>2. CASE TunnelRepoints(t, p)
    <3> DEFINE n == [tun[t] EXCEPT !.peer = p, !.edit = edits + 1]
    <3>1. tun[t] \in Object /\ tun[t] # None
      BY <1>1, <2>2
    <3>2. n \in Object /\ n.peer = p /\ n.edit = edits + 1
      <4>1. PICK o \in Object : o = tun[t]
        BY <3>1
      <4>2. edits + 1 \in Nat
        BY <1>1
      <4>3. n = [o EXCEPT !.peer = p, !.edit = edits + 1]
        BY <4>1
      <4> HIDE DEF n
      <4> QED
        BY <4>2, <4>3 DEF Object
    <3>3. n.from = tun[t].from /\ n.ver = tun[t].ver
      BY <3>1 DEF Object
    <3>4. At(n) \in Seen
      BY <3>1, <3>3 DEF At, IInv, TunSeen
    <3>5. tun[t].edit < n.edit
      BY <1>1, <3>1, <3>2 DEF IInv, TunSeen, Object
    <3>6. build' = [build EXCEPT ![t] = [base |-> tun[t], new |-> n]]
      BY <2>2
    <3>7. n = [tun[t] EXCEPT !.peer = n.peer, !.edit = n.edit]
      BY <3>2
    <3> QED
      BY <3>1, <3>2, <3>4, <3>5, <3>6, <3>7
  <2> QED
    BY <2>1, <2>2
<1>5. build' \in [Tunnel -> Write \cup {None}]
  BY <1>1, <1>4 DEF Write
<1>6. TunSeen'
  <2>1. \A u \in Tunnel : tun[u] # None => tun[u].edit \in Nat
    BY <1>1 DEF Object
  <2> QED
    BY <1>1, <1>2, <2>1 DEF IInv, TunSeen, At
<1>7. BuildSound'
  <2> SUFFICES ASSUME NEW u \in Tunnel, build'[u] # None
               PROVE  LET b == build'[u].base
                          m == build'[u].new
                      IN
                      /\ At(m) \in Seen /\ m.edit <= edits + 1
                      /\ b = None => m.from = m.peer
                      /\ b # None => /\ m = [b EXCEPT !.peer = m.peer, !.edit = m.edit]
                                     /\ b.edit < m.edit
    BY <1>1, <1>2 DEF BuildSound, At
  <2>1. CASE u = t
    <3>1. build'[u].base = tun[t] /\ build'[u].new = n
      BY <1>1, <1>4, <2>1
    <3>2. n.edit <= edits + 1
      BY <1>1, <1>4
    <3> QED
      BY <1>4, <3>1, <3>2
  <2>2. CASE u # t
    <3>1. build'[u] = build[u] /\ build[u] \in Write
      BY <1>1, <1>4, <2>2
    <3>2. build[u].new.edit \in Nat
      BY <3>1 DEF Write, Object
    <3>3. build[u].new.edit <= edits
      BY <3>1 DEF IInv, BuildSound
    <3>4. build[u].new.edit <= edits + 1
      BY <1>1, <3>2, <3>3
    <3> QED
      BY <3>1, <3>4 DEF IInv, BuildSound
  <2> QED
    BY <2>1, <2>2
<1>8. UNCHANGED <<peers, feed, copy, cache, pc, job, faults>>
  OBVIOUS
<1>9. tun' \in [Tunnel -> Object \cup {None}] /\ edits' \in Nat
  BY <1>1
<1> QED
  BY <1>5, <1>6, <1>7, <1>8, <1>9, OthersKeep

LEMMA LabelledInv ==
    ASSUME IInv, NEW t \in Tunnel, TunnelLabelled(t)
    PROVE  IInv'
<1> USE DEF TunnelLabelled
<1>1. /\ tun \in [Tunnel -> Object \cup {None}] /\ edits \in Nat
      /\ build \in [Tunnel -> Write \cup {None}]
      /\ edits' = edits /\ copy' = copy /\ build[t] # None
      /\ build' = [build EXCEPT ![t] = None]
  BY DEF IInv, TypeOK
<1>2. Seen' = Seen
  BY <1>1, SeenKept
<1>3. tun' = tun \/ tun' = [tun EXCEPT ![t] = build[t].new]
  OBVIOUS
<1>4. build[t].new \in Object
  BY <1>1 DEF Write
<1>5. tun' \in [Tunnel -> Object \cup {None}]
  BY <1>1, <1>3, <1>4
<1>6. build' \in [Tunnel -> Write \cup {None}]
  BY <1>1
<1>7. TunSeen'
  <2>1. At(build[t].new) \in Seen /\ build[t].new.edit <= edits
    BY <1>1 DEF IInv, BuildSound
  <2> QED
    BY <1>1, <1>2, <1>3, <2>1 DEF IInv, TunSeen, At
<1>8. BuildSound'
  <2>1. \A u \in Tunnel : build'[u] # None => build'[u] = build[u]
    BY <1>1
  <2> QED
    BY <1>1, <1>2, <2>1 DEF IInv, BuildSound, At
<1>9. UNCHANGED <<peers, feed, copy, cache, pc, job, faults>> /\ edits' \in Nat
  BY <1>1
<1> QED
  BY <1>5, <1>6, <1>7, <1>8, <1>9, OthersKeep

-------------------------------------------------------------------------------
(* The invariant, and the type invariant as a part of it *)

LEMMA NextInv == IInv /\ [Next]_vars => IInv'
<1> SUFFICES ASSUME IInv, [Next]_vars PROVE IInv'
  OBVIOUS
<1>1. CASE UNCHANGED vars
  <2>1. TypeOK' /\ FeedBehind'
    BY <1>1 DEF vars, peers, tunnels, IInv, TypeOK, FeedBehind
  <2> QED
    BY <1>1, <2>1, TunnelsKept, HandlerKept DEF vars, tunnels, IInv
<1>2. CASE Next
  <2>1. CASE Transport
    BY <2>1, ArriveInv, DeliverInv DEF Transport
  <2>2. CASE Handler
    BY <2>2, ListInv, UpdateInv DEF Handler
  <2>3. CASE Failure
    BY <2>3, FailureInv DEF Failure
  <2>4. CASE \E p \in Peer : Withdraw(p) \/ \E i \in IP : Announce(p, i)
    BY <2>4, WithdrawInv, AnnounceInv
  <2>5. CASE \E t \in Tunnel : Edited(t) \/ Deleted(t) \/ TunnelLabelled(t) \/ SyncTunnel(t)
    BY <2>5, EditedInv, LabelledInv, SyncInv
  <2>6. CASE \E t \in Tunnel, p \in Peer : TunnelBuilds(t, p) \/ TunnelRepoints(t, p)
    BY <2>6, WritesInv
  <2> QED
    BY <1>2, <2>1, <2>2, <2>3, <2>4, <2>5, <2>6 DEF Next, Others
<1> QED
  BY <1>1, <1>2

LEMMA Invariance == Spec => []IInv
<1>1. Init => IInv
  BY InitInv
<1>2. IInv /\ [Next]_vars => IInv'
  BY NextInv
<1> QED
  BY <1>1, <1>2, PTL DEF Spec

\* Every reachable state of the syncer, its transport and the others who write tunnels
\* is well typed.
THEOREM TypeCorrect == Spec => []TypeOK
<1>1. IInv => TypeOK
  BY DEF IInv
<1> QED
  BY <1>1, Invariance, PTL

-------------------------------------------------------------------------------
(* The refinement *)

LEMMA UpdateRefines ==
    ASSUME IInv, NEW t \in Tunnel, UpdateTunnel(t)
    PROVE  [AF!Next]_(AF!vars)
<1>1. CASE Accepted(t)
  <2>1. /\ tun' = [tun EXCEPT ![t] = Updated(t)] /\ log' = log
        /\ pc = "update" /\ t \in job.todo
    BY <1>1 DEF UpdateTunnel, peers
  <2>2. tun'[t] = Updated(t)
    BY <2>1 DEF IInv, TypeOK
  <2>3. /\ tun[t] # None /\ tun[t] \in Object /\ tun[t].peer = job.peer
        /\ Updated(t) = [tun[t] EXCEPT !.from = tun[t].peer, !.ver = job.ver]
        /\ Updated(t) \in Object
        /\ job.ver \in Nat /\ 1 <= job.ver /\ job.ver = copy[job.peer].ver
        /\ tun[t].from = tun[t].peer => tun[t].ver < job.ver
    BY <1>1, <2>1, UpdateWrites
  <2>4. Updated(t).ver = job.ver
    BY <2>3 DEF Object
  <2>5. job.ver \in 1..Len(log[tun[t].peer])
    <3>1. /\ job.peer \in Peer /\ log \in [Peer -> Seq(IP)]
          /\ feed \in [Peer -> GatewayExIp]
      BY <2>3 DEF IInv, TypeOK, Object
    <3>2. Len(log[job.peer]) \in Nat /\ feed[job.peer].ver \in Nat
      BY <3>1 DEF GatewayExIp
    <3>3. /\ copy[job.peer].ver <= feed[job.peer].ver
          /\ feed[job.peer].ver <= Len(log[job.peer])
      BY <3>1 DEF IInv, FeedBehind
    <3> QED
      BY <2>3, <3>2, <3>3
  <2>6. AF!Forward(t)
    BY <2>2, <2>3, <2>4, <2>5 DEF AF!Forward, AF!Object, Object
  <2>7. AF!Change(t)
    BY <2>1, <2>2, <2>6 DEF AF!Change
  <2> QED
    BY <2>7 DEF AF!Next
<1>2. CASE ~Accepted(t)
  BY <1>2 DEF UpdateTunnel, peers, AF!vars
<1> QED
  BY <1>1, <1>2

LEMMA EditedRefines ==
    ASSUME IInv, NEW t \in Tunnel, Edited(t) \/ Deleted(t)
    PROVE  AF!Next
<1>1. /\ tun \in [Tunnel -> Object \cup {None}] /\ edits \in Nat
      /\ tun[t] # None /\ log' = log
  BY DEF Edited, Deleted, Written, peers, IInv, TypeOK
<1>2. tun[t] \in Object /\ tun[t].edit <= edits
  BY <1>1 DEF IInv, TunSeen
<1>3. CASE Edited(t)
  <2>1. tun' = [tun EXCEPT ![t].edit = edits + 1]
    BY <1>3 DEF Edited
  <2>2. tun'[t] = [tun[t] EXCEPT !.edit = edits + 1]
    BY <1>1, <2>1
  <2>3. PICK o \in Object : o = tun[t]
    BY <1>2
  <2> DEFINE p == [o EXCEPT !.edit = edits + 1]
  <2>4. p \in Object /\ p.edit = edits + 1
    BY <1>1 DEF Object
  <2>5. o.edit < p.edit /\ p = [o EXCEPT !.peer = p.peer, !.edit = p.edit]
    <3>1. p.peer = o.peer
      BY DEF Object
    <3>2. o.edit \in Nat /\ o.edit <= edits
      BY <1>2, <2>3 DEF Object
    <3>3. [o EXCEPT !.peer = o.peer, !.edit = edits + 1] = p
      BY DEF Object
    <3> QED
      BY <1>1, <2>4, <3>1, <3>2, <3>3
  <2> HIDE DEF p
  <2>6. tun'[t] = p
    BY <2>2, <2>3 DEF p
  <2>7. AF!Edit(t)
    BY <1>1, <2>3, <2>4, <2>5, <2>6 DEF AF!Edit, AF!Object, Object
  <2>8. tun' = [tun EXCEPT ![t] = tun'[t]]
    BY <1>1, <2>1, <2>2
  <2> QED
    BY <1>1, <2>7, <2>8 DEF AF!Next, AF!Change
<1>4. CASE Deleted(t)
  <2>1. tun' = [tun EXCEPT ![t] = None] /\ tun'[t] = None
    BY <1>1, <1>4 DEF Deleted
  <2> QED
    BY <1>1, <2>1 DEF AF!Next, AF!Change, AF!Remove
<1> QED
  BY <1>3, <1>4

LEMMA LabelledRefines ==
    ASSUME IInv, NEW t \in Tunnel, TunnelLabelled(t)
    PROVE  [AF!Next]_(AF!vars)
<1> DEFINE n == build[t].new
<1>1. /\ tun \in [Tunnel -> Object \cup {None}] /\ build \in [Tunnel -> Write \cup {None}]
      /\ log' = log /\ build[t] # None
      /\ tun' = IF tun[t] = build[t].base THEN [tun EXCEPT ![t] = n] ELSE tun
  BY DEF TunnelLabelled, peers, IInv, TypeOK
<1>2. n \in Object
  BY <1>1 DEF Write
<1>3. /\ At(n) \in Seen
      /\ build[t].base = None => n.from = n.peer
      /\ build[t].base # None =>
            /\ n = [build[t].base EXCEPT !.peer = n.peer, !.edit = n.edit]
            /\ build[t].base.edit < n.edit
  BY <1>1 DEF IInv, BuildSound
<1>4. n.ver \in 1..Len(log[n.from])
  <2>1. n.from \in Peer /\ n.ver \in Nat /\ 1 <= n.ver /\ n.ver <= copy[n.from].ver
    BY <1>2, <1>3 DEF Seen, At, Object
  <2>2. /\ log \in [Peer -> Seq(IP)] /\ feed \in [Peer -> GatewayExIp]
        /\ copy \in [Peer -> GatewayExIp]
    BY DEF IInv, TypeOK
  <2>3. /\ Len(log[n.from]) \in Nat /\ feed[n.from].ver \in Nat /\ copy[n.from].ver \in Nat
    BY <2>1, <2>2 DEF GatewayExIp
  <2>4. copy[n.from].ver <= feed[n.from].ver /\ feed[n.from].ver <= Len(log[n.from])
    BY <2>1 DEF IInv, FeedBehind
  <2> QED
    BY <2>1, <2>3, <2>4
<1> HIDE DEF n
<1>5. CASE tun[t] = build[t].base
  <2>1. tun' = [tun EXCEPT ![t] = n] /\ tun'[t] = n
    BY <1>1, <1>5
  <2>2. CASE tun[t] = None
    <3>1. AF!Attach(t)
      BY <1>2, <1>3, <1>4, <1>5, <2>1, <2>2 DEF AF!Attach, AF!Object, Object
    <3> QED
      BY <1>1, <2>1, <3>1 DEF AF!Next, AF!Change
  <2>3. CASE tun[t] # None
    <3>1. AF!Edit(t)
      BY <1>2, <1>3, <1>5, <2>1, <2>3 DEF AF!Edit, AF!Object, Object
    <3> QED
      BY <1>1, <2>1, <3>1 DEF AF!Next, AF!Change
  <2> QED
    BY <2>2, <2>3
<1>6. CASE tun[t] # build[t].base
  BY <1>1, <1>6 DEF AF!vars
<1> QED
  BY <1>5, <1>6

LEMMA NextRefines == IInv /\ [Next]_vars => [AF!Next]_(AF!vars)
<1> SUFFICES ASSUME IInv, [Next]_vars PROVE [AF!Next]_(AF!vars)
  OBVIOUS
<1> USE DEF AF!vars
<1>1. CASE UNCHANGED vars
  BY <1>1 DEF vars, peers, tunnels
<1>2. CASE Next
  <2>1. CASE Transport
    BY <2>1 DEF Transport, Arrive, Deliver, peers, tunnels
  <2>2. CASE ListTunnels
    BY <2>2 DEF ListTunnels, peers, tunnels
  <2>3. CASE \E t \in Tunnel : UpdateTunnel(t)
    BY <2>3, UpdateRefines
  <2>4. CASE Failure
    BY <2>4 DEF Failure, CallFails, Restart, peers, tunnels
  <2>5. CASE \E p \in Peer : Withdraw(p)
    BY <2>5 DEF Withdraw, tunnels
  <2>6. CASE \E p \in Peer, i \in IP : Announce(p, i)
    BY <2>6 DEF Announce, tunnels, AF!Next, AF!Announce
  <2>7. CASE \E t \in Tunnel : Edited(t) \/ Deleted(t)
    BY <2>7, EditedRefines
  <2>8. CASE \E t \in Tunnel : TunnelLabelled(t)
    BY <2>8, LabelledRefines
  <2>9. CASE \E t \in Tunnel : SyncTunnel(t)
    BY <2>9 DEF SyncTunnel, peers, tunnels
  <2>10. CASE \E t \in Tunnel, p \in Peer : TunnelBuilds(t, p) \/ TunnelRepoints(t, p)
    BY <2>10 DEF TunnelBuilds, TunnelRepoints, Writes, Written, peers
  <2> QED
    BY <1>2, <2>1, <2>2, <2>3, <2>4, <2>5, <2>6, <2>7, <2>8, <2>9, <2>10
       DEF Next, Handler, Others
<1> QED
  BY <1>1, <1>2

\* The remote end of a tunnel walks forward along what its peer has announced, and what
\* others write to it stays, whatever the handler reads from an old cache, whichever of
\* its updates is refused or lost and whenever the operator restarts.
THEOREM Refinement == Spec => FollowsFeed
<1>1. Init => AF!Init
  BY DEF Init, AF!Init
<1>2. IInv /\ [Next]_vars => [AF!Next]_(AF!vars)
  BY NextRefines
<1> QED
  BY <1>1, <1>2, Invariance, PTL DEF Spec, FollowsFeed, AF!Spec
===============================================================================
