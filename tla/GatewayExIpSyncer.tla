--------------------------- MODULE GatewayExIpSyncer ---------------------------
(***************************************************************************)
(* The GatewayExIp syncer: it copies the GatewayExIps of other clusters,   *)
(* the peers, from the broker and points the tunnels to them at the        *)
(* address they announce.                                                  *)
(*                                                                         *)
(* The transport is a library: it hands over the present state of an       *)
(* object, one object at a time, after every change and again at           *)
(* BrokerResyncPeriod.  The handler finds the tunnels of the object by     *)
(* their labels in the manager's cache, which lags, and updates them one   *)
(* after the other; it returns at the first error.                         *)
(*                                                                         *)
(* An address is known by its place in the peer's announcements, so that   *)
(* an address that was announced twice is told apart.                      *)
(***************************************************************************)
EXTENDS Naturals, Sequences

CONSTANTS
    Label,       \* what stands between the dots of a name
    Peer,        \* remote VPCs, by the name of the VPC and of its cluster
    IP,          \* ExternalIP of gateways
    Tunnel,      \* VpcNatTunnels of this cluster
    None,        \* absent value
    MaxMoves,    \* bound: announcements and withdrawals of all peers
    MaxEdits,    \* bound: writes of tunnels by others
    MaxFaults    \* bound: failed calls, lost answers and restarts of the operator

VARIABLES
    log,    \* addresses each peer has announced, the present one last
    there,  \* peers whose GatewayExIp exists in their cluster
    feed,   \* each GatewayExIp as the transport has it from the broker
    copy,   \* and its copy in this cluster
    tun,    \* tunnels that have their labels
    build,  \* what a reconcile is about to write to a tunnel
    cache,  \* tunnels in the manager's cache
    pc,     \* next call of the handler, "idle" if none
    job,    \* local variables of the handler
    moves, edits, faults

peers   == <<log, there, moves>>
tunnels == <<tun, build, edits>>
vars    == <<peers, feed, copy, tunnels, cache, pc, job, faults>>

-------------------------------------------------------------------------------
(* Names: a VPC's is one or more labels joined with dots, a cluster's is one. *)

ASSUME ConstantsOK ==
    /\ Peer \subseteq [vpc : Seq(Label) \ {<<>>}, cluster : Label]
    /\ None \notin [peer : Peer, from : Peer, ver : Nat, edit : Nat]
    /\ MaxMoves \in Nat /\ MaxEdits \in Nat /\ MaxFaults \in Nat

\* The name of the GatewayExIp.
Name(p) == p.vpc \o <<p.cluster>>

\* What the handler takes it apart into, and the labels of the tunnels.
SplitN(name) == [remoteVpc |-> <<Head(name)>>, remoteCluster |-> Tail(name)]

Labels(p) == [remoteVpc |-> p.vpc, remoteCluster |-> <<p.cluster>>]

-------------------------------------------------------------------------------
\* The peer by the labels, the announcement RemoteIP is from, and the last write by
\* anybody but the handler.  Objects never return to an earlier value, so two copies
\* are equal if and only if their resourceVersions are.
Object == [peer : Peer, from : Peer, ver : Nat, edit : Nat]

GatewayExIp == [ver : Nat, there : BOOLEAN]

Job == [peer : Peer, ver : Nat, todo : SUBSET Tunnel,
        held : [Tunnel -> Object \cup {None}]]

NoJob == None

Address(o) == log[o.from][o.ver]

Init ==
    /\ log = [p \in Peer |-> <<>>] /\ there = {}
    /\ feed = [p \in Peer |-> [ver |-> 0, there |-> FALSE]] /\ copy = feed
    /\ tun = [t \in Tunnel |-> None] /\ build = tun /\ cache = tun
    /\ pc = "idle" /\ job = NoJob
    /\ moves = 0 /\ edits = 0 /\ faults = 0

-------------------------------------------------------------------------------
(* The peers and the transport *)

Move == moves < MaxMoves /\ moves' = moves + 1

\* The informer of the peer's cluster creates or updates its GatewayExIp.
Announce(p, i) ==
    /\ p \in there => i # log[p][Len(log[p])]
    /\ log' = [log EXCEPT ![p] = Append(@, i)]
    /\ there' = there \cup {p}
    /\ Move /\ UNCHANGED <<feed, copy, tunnels, cache, pc, job, faults>>

Withdraw(p) ==
    /\ p \in there /\ there' = there \ {p}
    /\ Move /\ UNCHANGED <<log, feed, copy, tunnels, cache, pc, job, faults>>

\* Up to the broker and down again; of an object that is gone the last state is kept.
Present(p) ==
    IF p \in there THEN [ver |-> Len(log[p]), there |-> TRUE]
      ELSE [feed[p] EXCEPT !.there = FALSE]

Arrive(p) ==
    /\ feed[p] # Present(p)
    /\ feed' = [feed EXCEPT ![p] = Present(p)]
    /\ UNCHANGED <<peers, copy, tunnels, cache, pc, job, faults>>

-------------------------------------------------------------------------------
(* The handler *)

\* Mutant: the job is not dropped.
StopKeepsJob == pc' = "idle" /\ UNCHANGED job

Stop == pc' = "idle" /\ job' = NoJob

\* Mutant: objects that are gone are not passed on.
PassedLive(p) == feed[p].there

\* The transforms pass on every object.
Passed(p) == feed[p].there \/ copy[p].there

Fault == faults < MaxFaults /\ faults' = faults + 1

\* The copy is created, updated or deleted, and the handler is called, whichever of
\* the three it was and also when the copy has not changed.
Deliver(p) ==
    /\ pc = "idle" /\ Passed(p)
    /\ copy' = [copy EXCEPT ![p] = feed[p]]
    /\ pc' = "list"
    /\ job' = [peer |-> p, ver |-> feed[p].ver, todo |-> {},
               held |-> [t \in Tunnel |-> None]]
    /\ UNCHANGED <<peers, feed, tunnels, cache, faults>>

Listed ==
    {t \in Tunnel : cache[t] # None /\ Labels(cache[t].peer) = SplitN(Name(job.peer))}

\* Tunnels that seem to have the address already are left out.
Behind(t) == Address(cache[t]) # log[job.peer][job.ver]

\* Mutant: the first tunnel that has the address ends the loop.
TodoAll == IF \A t \in Listed : Behind(t) THEN Listed ELSE {}

Todo == {t \in Listed : Behind(t)}

ListTunnels ==
    /\ pc = "list"
    /\ IF Todo = {} THEN Stop
         ELSE pc' = "update" /\ job' = [job EXCEPT !.todo = Todo, !.held = cache]
    /\ UNCHANGED <<peers, feed, copy, tunnels, cache, faults>>

\* Mutant: an update does not look at the resourceVersion.
AcceptedAny(t) == tun[t] # None

Accepted(t) == tun[t] # None /\ job.held[t] = tun[t]

Updated(t) == [job.held[t] EXCEPT !.from = job.peer, !.ver = job.ver]

\* An update is carried out, and its answer arrives or is lost, or it is refused.
UpdateTunnel(t) ==
    /\ pc = "update" /\ t \in job.todo
    /\ \/ /\ Accepted(t)
          /\ tun' = [tun EXCEPT ![t] = Updated(t)]
          /\ \/ /\ IF job.todo = {t} THEN Stop
                     ELSE pc' = pc /\ job' = [job EXCEPT !.todo = @ \ {t}]
                /\ UNCHANGED faults
             \/ Stop /\ Fault
       \/ ~Accepted(t) /\ Stop /\ UNCHANGED <<tun, faults>>
    /\ UNCHANGED <<peers, feed, copy, build, edits, cache>>

CallFails ==
    /\ pc # "idle" /\ Stop /\ Fault
    /\ UNCHANGED <<peers, feed, copy, tunnels, cache>>

\* A restart of the operator.
Restart ==
    /\ Stop /\ Fault
    /\ cache' = tun /\ build' = [t \in Tunnel |-> None]
    /\ UNCHANGED <<peers, feed, copy, tun, edits>>

SyncTunnel(t) ==
    /\ cache[t] # tun[t]
    /\ cache' = [cache EXCEPT ![t] = tun[t]]
    /\ UNCHANGED <<peers, feed, copy, tunnels, pc, job, faults>>

-------------------------------------------------------------------------------
(* Others who write tunnels *)

Written == edits < MaxEdits /\ edits' = edits + 1
           /\ UNCHANGED <<peers, feed, copy, cache, pc, job, faults>>

\* Users, the informer or the reconciler write anything but RemoteIP and labels.
Edited(t) ==
    /\ tun[t] # None
    /\ tun' = [tun EXCEPT ![t].edit = edits + 1] /\ UNCHANGED build
    /\ Written

Deleted(t) ==
    /\ tun[t] # None
    /\ tun' = [tun EXCEPT ![t] = None] /\ UNCHANGED build
    /\ Written

Writes(t, new) ==
    /\ build[t] = None
    /\ build' = [build EXCEPT ![t] = [base |-> tun[t], new |-> new]]
    /\ UNCHANGED tun /\ Written

\* A reconcile builds the tunnel: it reads the address first and writes it, with the
\* labels, in the end.
TunnelBuilds(t, p) ==
    /\ tun[t] = None /\ copy[p].there
    /\ Writes(t, [peer |-> p, from |-> p, ver |-> copy[p].ver, edit |-> edits + 1])

\* It follows an edit of the peer: labels are written with the address it has read.
TunnelRepoints(t, p) ==
    /\ tun[t] # None /\ tun[t].peer # p /\ copy[p].there
    /\ Writes(t, [tun[t] EXCEPT !.peer = p, !.edit = edits + 1])

TunnelLabelled(t) ==
    /\ build[t] # None
    /\ tun' = IF tun[t] = build[t].base THEN [tun EXCEPT ![t] = build[t].new] ELSE tun
    /\ build' = [build EXCEPT ![t] = None]
    /\ UNCHANGED <<peers, feed, copy, edits, cache, pc, job, faults>>

-------------------------------------------------------------------------------
Transport == \E p \in Peer : Arrive(p) \/ Deliver(p)

Handler == ListTunnels \/ \E t \in Tunnel : UpdateTunnel(t)

Failure == CallFails \/ Restart

Others ==
    \/ \E p \in Peer : Withdraw(p) \/ \E i \in IP : Announce(p, i)
    \/ \E t \in Tunnel :
          \/ Edited(t) \/ Deleted(t) \/ TunnelLabelled(t) \/ SyncTunnel(t)
          \/ \E p \in Peer : TunnelBuilds(t, p) \/ TunnelRepoints(t, p)

Next == Transport \/ Handler \/ Failure \/ Others

Spec == Init /\ [][Next]_vars

\* The transport brings every change and hands over every object again; a call of the
\* handler returns; the watch of the cache delivers.
Fairness ==
    /\ \A p \in Peer : WF_vars(Arrive(p)) /\ SF_vars(Deliver(p))
    /\ WF_vars(Handler)
    /\ \A t \in Tunnel : WF_vars(SyncTunnel(t))

FairSpec == Spec /\ Fairness

-------------------------------------------------------------------------------
(* Properties *)

Write == [base : Object \cup {None}, new : Object]

TypeOK ==
    /\ log \in [Peer -> Seq(IP)] /\ there \in SUBSET Peer
    /\ feed \in [Peer -> GatewayExIp] /\ copy \in [Peer -> GatewayExIp]
    /\ tun \in [Tunnel -> Object \cup {None}]
    /\ build \in [Tunnel -> Write \cup {None}]
    /\ cache \in [Tunnel -> Object \cup {None}]
    /\ pc \in {"idle", "list", "update"}
    /\ IF pc = "idle" THEN job = NoJob ELSE job \in Job
    /\ moves \in Nat /\ edits \in Nat /\ faults \in Nat

AF == INSTANCE AddressFeed

\* The remote end of a tunnel only ever moves along what its peer has announced,
\* forward, and no update of the handler, made from whatever old copy, undoes what a
\* user, the informer or the reconciler has written.
FollowsFeed == AF!Spec

\* A tunnel whose peer stays announced ends at the address announced last, though a
\* handler that meets an error or a conflict leaves the remaining tunnels alone.
EventuallyLatest ==
    \A t \in Tunnel :
        (\A p \in Peer : <>[](p \in there))
        => <>[](tun[t] # None => Address(tun[t]) = log[tun[t].peer][Len(log[tun[t].peer])])

\* So does the copy, from which the tunnels to come are built; and it goes when the
\* peer's GatewayExIp is gone for good.
EventuallyCopied ==
    \A p \in Peer : <>[](/\ copy[p].there <=> p \in there
                         /\ copy[p].there => copy[p].ver = Len(log[p]))
===============================================================================
