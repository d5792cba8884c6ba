----------------------------- MODULE MCMatcher -----------------------------
(***************************************************************************)
(* Instances of GaleShapleyMatcher for TLC.                                *)
(***************************************************************************)
EXTENDS GaleShapleyMatcher, SequencesExt

CONSTANTS a, b, c, d

\* Every list a user can build by swiping on the ids of S, none twice.
ListsOver(S) == UNION {{l \in [1..n -> S] : IsInjective(l)} : n \in 0..Cardinality(S)}

\* Documents come back in the order of their ids.
OrderAB == <<a, b>>
OrderABC == <<a, b, c>>
OrderABCD == <<a, b, c, d>>

\* Every combination of lists over all ids but one's own.
AnyPrefs ==
  {f \in [Registered -> ListsOver(Ids)] :
     \A p \in Registered : p \notin Listed(f[p])}
\* The classical setting: two sides, {a, c} and {b, d}, complete lists.
TwoSidedPrefs ==
  {f \in [Registered -> {<<a, c>>, <<c, a>>, <<b, d>>, <<d, b>>}] :
     \A p \in Registered : Listed(f[p]) = IF p \in {a, c} THEN {b, d} ELSE {a, c}}
\* Nobody has swiped yet.
NoPrefs == {[p \in Registered |-> <<>>]}
=============================================================================
