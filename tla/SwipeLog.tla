------------------------------ MODULE SwipeLog ------------------------------
(***************************************************************************)
(* What updatePreferences promises, without the transaction: a requested   *)
(* right-swipe is appended to the swiper's list at most once, nothing else *)
(* ever changes a list, and a swipe is acknowledged only when it is in the *)
(* list, or when the swiper has no profile document to record it in.       *)
(***************************************************************************)
EXTENDS Sequences

CONSTANTS
  Ids,        \* profile ids
  Registered  \* the ids that have a profile document

VARIABLES
  prefs,      \* the list of every registered profile
  requested,  \* swipes updatePreferences was called for
  acked       \* swipes it returned from without an error

Swipes == Ids \X Ids
Has(list, t) == \E i \in DOMAIN list : list[i] = t

LogTypeOK ==
  /\ prefs \in [Registered -> Seq(Ids)]
  /\ requested \subseteq Swipes
  /\ acked \subseteq Swipes

LogInit ==
  /\ prefs = [p \in Registered |-> <<>>]
  /\ requested = {}
  /\ acked = {}

Request(p, t) ==
  /\ requested' = requested \cup {<<p, t>>}
  /\ UNCHANGED <<prefs, acked>>

Record(p, t) ==
  /\ <<p, t>> \in requested
  /\ p \in Registered
  /\ ~Has(prefs[p], t)
  /\ prefs' = [prefs EXCEPT ![p] = Append(@, t)]
  /\ UNCHANGED <<requested, acked>>

Acknowledge(p, t) ==
  /\ <<p, t>> \in requested
  /\ p \in Registered => Has(prefs[p], t)
  /\ acked' = acked \cup {<<p, t>>}
  /\ UNCHANGED <<prefs, requested>>

LogNext ==
  \E p, t \in Ids : Request(p, t) \/ Record(p, t) \/ Acknowledge(p, t)

LogSpec == LogInit /\ [][LogNext]_<<prefs, requested, acked>>
=============================================================================
