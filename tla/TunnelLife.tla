------------------------------ MODULE TunnelLife ------------------------------
(***************************************************************************)
(* What the VpcNatTunnel reconciler promises to whoever watches the        *)
(* objects, without its copies, its commands and its failures.             *)
(*                                                                         *)
(* An object is created, gets its finalizer, is recorded as built, and     *)
(* gets its labels with the addresses it was built with; none of these is  *)
(* ever taken back.  From then on users and operator may ask for changes,  *)
(* and what is recorded changes at once to all that is asked for, but      *)
(* never to another type.  An object that is being deleted gets nothing    *)
(* recorded any more, it is only released.  Nothing is promised about      *)
(* when.                                                                   *)
(***************************************************************************)
CONSTANTS
    Tunnel, Type,
    Ends,   \* what users ask for besides the type: interface address, CIDR of the peer
    Place,  \* what the operator fills in: gateway, its address, address of the peer
    None    \* absent value

VARIABLE life  \* of each object its stage, what is asked for and what is recorded

Asked == [type : Type, ends : Ends, place : Place \cup {None}]

Recorded == [type : Type, ends : Ends, place : Place]

State(stage, d, a, r) ==
    [stage |-> stage, deleting |-> d, asked |-> a, recorded |-> r]

Absent == State("absent", FALSE, None, None)

Init == life = [t \in Tunnel |-> Absent]

Becomes(t, l) == life' = [life EXCEPT ![t] = l]

-------------------------------------------------------------------------------
(* The reconciler *)

\* An object that is not being deleted goes on from one stage to the next.
Advances(t, from, to, a, r) ==
    /\ life[t].stage = from /\ ~life[t].deleting
    /\ Becomes(t, State(to, life[t].deleting, a, r))

Own(t) == Advances(t, "new", "owned", life[t].asked, None)

Build(t) ==
    \E p \in Place :
        Advances(t, "owned", "built", life[t].asked, [life[t].asked EXCEPT !.place = p])

Label(t) == Advances(t, "built", "labelled", life[t].recorded, life[t].recorded)

Rebuild(t) ==
    /\ Advances(t, "labelled", "labelled", life[t].asked, life[t].asked)
    /\ life[t].asked.type = life[t].recorded.type

Release(t) == life[t].deleting /\ Becomes(t, Absent)

-------------------------------------------------------------------------------
(* The others *)

Create(t) ==
    /\ life[t].stage = "absent"
    /\ \E a \in Asked :
          /\ a.place = None
          /\ Becomes(t, State("new", FALSE, a, None))

\* A user edits the object, or the reconciler takes back an edit of its type.
Edit(t) ==
    /\ life[t].stage # "absent"
    /\ \E a \in Asked :
          a.place = life[t].asked.place /\ Becomes(t, [life[t] EXCEPT !.asked = a])

\* Informer and syncer find the object by its labels.
Patch(t) ==
    /\ life[t].stage = "labelled"
    /\ \E p \in Place : Becomes(t, [life[t] EXCEPT !.asked.place = p])

Delete(t) ==
    /\ life[t].stage # "absent" /\ ~life[t].deleting
    /\ Becomes(t, IF life[t].stage = "new" THEN Absent
                    ELSE State(life[t].stage, TRUE, life[t].asked, life[t].recorded))

Next ==
    \E t \in Tunnel :
        \/ Create(t) \/ Edit(t) \/ Patch(t) \/ Delete(t)
        \/ Own(t) \/ Build(t) \/ Label(t) \/ Rebuild(t) \/ Release(t)

Spec == Init /\ [][Next]_life
===============================================================================
