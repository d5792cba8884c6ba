--------------------------- MODULE DurableWrites ---------------------------
(***************************************************************************)
(* What Firestore promises of the writes of a device: a write that was     *)
(* accepted stays pending until it is decided, the writes of one user take *)
(* effect in the order they were made (again and again while they are      *)
(* pending), and are taken off the list in that order.                     *)
(***************************************************************************)
EXTENDS Naturals, Sequences

CONSTANT Users

VARIABLES owner,    \* owner[w] made write w
          pending,  \* the writes accepted and not decided
          applied,  \* the writes that took effect
          refused,  \* the writes that were refused
          content,  \* the write each user's data shows
          told      \* what completion handlers heard

vars == <<owner, pending, applied, refused, content, told>>

Init ==
    /\ owner = <<>>
    /\ pending = {} /\ applied = {} /\ refused = {}
    /\ content = [u \in Users |-> 0]
    /\ told = {}

\* The pending writes of the same user made before w.
Ahead(w) == {v \in pending : v < w /\ owner[v] = owner[w]}

Accept(u) ==
    /\ owner' = Append(owner, u)
    /\ pending' = pending \union {Len(owner) + 1}
    /\ UNCHANGED <<applied, refused, content, told>>

TakeEffect(w) ==
    /\ Ahead(w) \subseteq applied \union refused
    /\ applied' = applied \union {w}
    /\ content' = [content EXCEPT ![owner[w]] = w]
    /\ UNCHANGED <<owner, pending, refused, told>>

Refuse(w) ==
    /\ Ahead(w) \subseteq applied \union refused
    /\ refused' = refused \union {w}
    /\ UNCHANGED <<owner, pending, applied, content, told>>

Hears(w, status) == told' = told \union {[write |-> w, status |-> status]}

\* A success is heard of before or as the write leaves the list; after a
\* restart there is nobody left to hear.
Settle(w) ==
    /\ Ahead(w) = {}
    /\ w \in applied \union refused
    /\ \/ w \in applied /\ Hears(w, "ok") /\ pending' \in {pending, pending \ {w}}
       \/ Hears(w, "error") /\ pending' = pending \ {w}
       \/ UNCHANGED told /\ pending' = pending \ {w}
    /\ UNCHANGED <<owner, applied, refused, content>>

Next ==
    \/ \E u \in Users : Accept(u)
    \/ \E w \in pending : TakeEffect(w) \/ Refuse(w) \/ Settle(w)

Spec == Init /\ [][Next]_vars
=============================================================================
