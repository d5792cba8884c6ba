---------------------- MODULE GaleShapleyMatcherProofs ----------------------
(***************************************************************************)
(* Proofs about GaleShapleyMatcher, for any set of profiles, any lists,    *)
(* any number of devices and any interleaving of runs and swipes.          *)
(***************************************************************************)
EXTENDS GaleShapleyMatcher, TLAPS

(* The inductive invariant, run by run.  s is the run's snapshot, m and k  *)
(* are its dictionaries matches and proposalIndices.                       *)

\* Whoever is matched is matched with someone who is matched too.
Closed(m) == \A x \in Ids : m[x] # None => m[m[x]] # None

\* An entry that is not returned was lost to someone better.
LostToBetter(m, s) ==
  \A x \in Ids : m[x] # None /\ m[m[x]] # x =>
    m[x] \in Listed(s.docs) /\ Prefers(s.prefs[m[x]], m[m[x]], x)

\* One of the two that an entry joins swiped on the other.
Joins(lists, x, y) == SwipedOn(lists, x, y) \/ SwipedOn(lists, y, x)
Backed(m, lists) == \A x \in Ids : m[x] # None => Joins(lists, x, m[x])

\* q is matched, is in the snapshot and does not want p instead.
TurnsDown(m, s, q, p) ==
  /\ m[q] # None
  /\ q \in Listed(s.docs)
  /\ ~Prefers(s.prefs[q], p, m[q])

\* Those whom an unmatched profile has proposed to so far turn it down now.
TurnedDown(m, k, s) ==
  \A p \in Listed(s.docs) : m[p] = None =>
    /\ k[p] <= Len(s.prefs[p])
    /\ \A i \in 1..k[p] : TurnsDown(m, s, s.prefs[p][i], p)

\* p is matched or has proposed to its whole list.
Done(m, k, s, p) == m[p] # None \/ k[p] >= Len(s.prefs[p])

RunInv(r) ==
  /\ Closed(matches[r])
  /\ pc[r] # "idle" => /\ LostToBetter(matches[r], snap[r])
                       /\ Backed(matches[r], snap[r].prefs)
                       /\ TurnedDown(matches[r], proposalIndices[r], snap[r])
  /\ pc[r] = "loop" /\ ~hasUnmatched[r] =>
       \A i \in DOMAIN snap[r].docs : i < cursor[r] =>
         Done(matches[r], proposalIndices[r], snap[r], snap[r].docs[i])
  /\ pc[r] = "save" =>
       \A p \in Docs(r) : Done(matches[r], proposalIndices[r], snap[r], p)

\* A list read earlier holds nothing that the list in the collection lacks.
Older(lists) == \A p \in Registered : Listed(lists[p]) \subseteq Listed(prefs[p])

DBInv ==
  /\ Backed(matchesDB, prefs)
  /\ \A r \in Matchers : Older(snap[r].prefs) /\ Older(cache[r].prefs)

IInv == TypeOK /\ DBInv /\ \A r \in Matchers : RunInv(r)
-----------------------------------------------------------------------------
(* Ranking by firstIndex is a strict order: what Displace may do over and  *)
(* over can be summed up in one comparison.                                *)
LEMMA PrefersTransitive ==
  ASSUME NEW L \in Seq(Ids), NEW x, NEW y, NEW z,
         Prefers(L, x, y), Prefers(L, y, z)
  PROVE  Prefers(L, x, z)
  <1>1. PICK i \in DOMAIN L : L[i] = x /\ \A n \in 1..i : L[n] # y
    BY DEF Prefers
  <1>2. PICK j \in DOMAIN L : L[j] = y /\ \A n \in 1..j : L[n] # z
    BY DEF Prefers
  <1>3. i \in Nat /\ j \in Nat /\ i >= 1 /\ j >= 1
    OBVIOUS
  <1>4. i < j
    BY <1>1, <1>2, <1>3
  <1>5. \A n \in 1..i : n \in 1..j
    BY <1>3, <1>4
  <1> QED
    BY <1>1, <1>2, <1>5 DEF Prefers

LEMMA PrefersIrreflexive ==
  ASSUME NEW L \in Seq(Ids), NEW x
  PROVE  ~Prefers(L, x, x)
  <1> SUFFICES ASSUME Prefers(L, x, x) PROVE FALSE
    OBVIOUS
  <1>1. PICK i \in DOMAIN L : L[i] = x /\ \A n \in 1..i : L[n] # x
    BY DEF Prefers
  <1>2. i \in 1..i
    OBVIOUS
  <1> QED
    BY <1>1, <1>2

\* Nobody whose list lacks x prefers x.
LEMMA PrefersListed ==
  ASSUME NEW L \in Seq(Ids), NEW x, NEW y, Prefers(L, x, y)
  PROVE  x \in Listed(L)
  BY DEF Prefers, Listed

\* Turning someone down is not revoked when one's own match improves.
LEMMA TurnsDownImproved ==
  ASSUME NEW L \in Seq(Ids), NEW x, NEW y, NEW p,
         ~Prefers(L, p, x), Prefers(L, y, x)
  PROVE  ~Prefers(L, p, y)
  BY PrefersTransitive
-----------------------------------------------------------------------------
(* Facts about snapshots that every step about the loop uses.              *)
LEMMA RegisteredIds == Registered \subseteq Ids
  BY DocOrderAssumption DEF Registered

LEMMA NoSnapshotType == NoSnapshot \in Snapshots
  BY DEF NoSnapshot, Snapshots

LEMMA SnapshotFacts ==
  ASSUME NEW s \in Snapshots
  PROVE  /\ s.docs \in Seq(Ids)
         /\ s.prefs \in [Registered -> Seq(Ids)]
         /\ Listed(s.docs) \subseteq Registered
         /\ Len(s.docs) <= Len(DocOrder)
  <1>1. /\ s.docs = DocOrder \/ s.docs = <<>>
        /\ s.prefs \in [Registered -> Seq(Ids)]
    BY DEF Snapshots
  <1>2. CASE s.docs = DocOrder
    BY <1>1, <1>2, DocOrderAssumption DEF Listed, Registered
  <1>3. CASE s.docs = <<>>
    <2>1. Len(s.docs) = 0 /\ DOMAIN s.docs = {} /\ s.docs \in Seq(Ids)
      BY <1>3
    <2>2. Listed(s.docs) = {}
      BY <2>1 DEF Listed
    <2> QED
      BY <1>1, <2>1, <2>2, DocOrderAssumption
  <1> QED
    BY <1>1, <1>2, <1>3

\* At a profile, the proposer is one of the snapshot's documents; when it
\* proposes, the target is the entry of its list at the proposal index.
LEMMA AtProfileFacts ==
  ASSUME TypeOK, NEW r \in Matchers, AtProfile(r)
  PROVE  /\ Proposer(r) \in Docs(r)
         /\ Proposer(r) \in Registered
         /\ Proposer(r) \in Ids
         /\ cursor[r] \in DOMAIN snap[r].docs
         /\ cursor[r] + 1 \in 1..(Len(DocOrder) + 1)
         /\ Index(r) \in Nat
         /\ List(r, Proposer(r)) \in Seq(Ids)
  <1>1. snap[r] \in Snapshots /\ cursor[r] \in 1..(Len(DocOrder) + 1)
    BY DEF TypeOK
  <1>2. cursor[r] \in DOMAIN snap[r].docs
    BY <1>1, SnapshotFacts DEF AtProfile
  <1>3. Proposer(r) \in Docs(r)
    BY <1>2 DEF Proposer, Docs, Listed
  <1>4. Proposer(r) \in Registered /\ Proposer(r) \in Ids
    BY <1>1, <1>3, SnapshotFacts, RegisteredIds DEF Docs
  <1>5. Index(r) \in Nat
    BY <1>4 DEF TypeOK, Index
  <1>6. List(r, Proposer(r)) \in Seq(Ids)
    BY <1>1, <1>4, SnapshotFacts DEF List
  <1>7. cursor[r] + 1 \in 1..(Len(DocOrder) + 1)
    BY <1>1, SnapshotFacts, DocOrderAssumption DEF AtProfile
  <1> QED
    BY <1>2, <1>3, <1>4, <1>5, <1>6, <1>7

LEMMA ProposingFacts ==
  ASSUME TypeOK, NEW r \in Matchers, Proposing(r)
  PROVE  /\ Index(r) + 1 \in DOMAIN List(r, Proposer(r))
         /\ Target(r) \in Listed(List(r, Proposer(r)))
         /\ Target(r) \in Ids
         /\ matches[r][Target(r)] \in Entry
  <1>1. AtProfile(r) /\ Index(r) < Len(List(r, Proposer(r)))
    BY DEF Proposing
  <1>2. Index(r) \in Nat /\ List(r, Proposer(r)) \in Seq(Ids)
    BY <1>1, AtProfileFacts
  <1>3. Index(r) + 1 \in DOMAIN List(r, Proposer(r))
    BY <1>1, <1>2
  <1>4. Target(r) \in Listed(List(r, Proposer(r))) /\ Target(r) \in Ids
    BY <1>2, <1>3 DEF Target, Listed
  <1> QED
    BY <1>3, <1>4 DEF TypeOK
-----------------------------------------------------------------------------
(* Type correctness.                                                       *)
LEMMA TypeInit == Init => TypeOK
  <1> SUFFICES ASSUME Init PROVE TypeOK
    OBVIOUS
  <1>1. NoMatches \in [Ids -> Entry] /\ NoIndices \in [Ids -> Nat]
    BY DEF NoMatches, NoIndices, Entry
  <1>2. Len(DocOrder) \in Nat /\ 1 \in 1..(Len(DocOrder) + 1)
    BY DocOrderAssumption
  <1>3. prefs \in [Registered -> Seq(Ids)]
    BY InitPrefsAssumption DEF Init
  <1> QED
    BY <1>1, <1>2, <1>3, NoSnapshotType DEF Init, TypeOK

LEMMA TypeNext == TypeOK /\ [Next]_vars => TypeOK'
  <1> SUFFICES ASSUME TypeOK, [Next]_vars PROVE TypeOK'
    OBVIOUS
  <1> USE DEF locals
  <1>0. 1 \in 1..(Len(DocOrder) + 1)
    BY DocOrderAssumption
  <1>1. ASSUME NEW p \in Registered, NEW t \in Ids, Swipe(p, t) PROVE TypeOK'
    BY <1>1 DEF TypeOK, Swipe
  <1>2. ASSUME NEW r \in Matchers, NEW s \in Snapshots, BeginRun(r, s),
               cache' \in [Matchers -> Snapshots]
        PROVE  TypeOK'
    BY <1>2, <1>0 DEF TypeOK, BeginRun, NoMatches, NoIndices, Entry
  <1>3. ASSUME NEW r \in Matchers, Fetch(r) PROVE TypeOK'
    <2>1. [docs |-> DocOrder, prefs |-> prefs] \in Snapshots
      BY DEF TypeOK, Snapshots
    <2> QED
      BY <1>2, <1>3, <2>1 DEF Fetch, TypeOK
  <1>4. ASSUME NEW r \in Matchers, FetchOffline(r) PROVE TypeOK'
    BY <1>2, <1>4 DEF FetchOffline, TypeOK
  <1>5. ASSUME NEW r \in Matchers, AtProfile(r), NextProfile(r),
               matches' \in [Matchers -> [Ids -> Entry]],
               proposalIndices' \in [Matchers -> [Ids -> Nat]],
               hasUnmatched' \in [Matchers -> BOOLEAN]
        PROVE  TypeOK'
    BY <1>5, AtProfileFacts DEF TypeOK, NextProfile
  <1>6. ASSUME NEW r \in Matchers, SkipMatched(r) \/ SkipExhausted(r)
        PROVE  TypeOK'
    BY <1>5, <1>6 DEF SkipMatched, SkipExhausted, TypeOK
  <1>7. ASSUME NEW r \in Matchers, Propose(r),
               matches' \in [Matchers -> [Ids -> Entry]],
               proposalIndices' \in [Matchers -> [Ids -> Nat]]
        PROVE  TypeOK'
    BY <1>5, <1>7 DEF Propose, Proposing, TypeOK
  <1>8. ASSUME NEW r \in Matchers, NEW p \in Ids, NEW t \in Ids, MatchUp(r, p, t)
        PROVE  matches' \in [Matchers -> [Ids -> Entry]]
    BY <1>8 DEF MatchUp, TypeOK, Entry
  <1>9. ASSUME NEW r \in Matchers, NEW p \in Ids, AdvanceIndex(r, p)
        PROVE  proposalIndices' \in [Matchers -> [Ids -> Nat]]
    BY <1>9 DEF AdvanceIndex, TypeOK
  <1>10. ASSUME NEW r \in Matchers, Propose(r)
         PROVE  Proposer(r) \in Ids /\ Target(r) \in Ids
    BY <1>10, AtProfileFacts, ProposingFacts DEF Propose, Proposing
  <1>11. ASSUME NEW r \in Matchers, ProposeToUnmatched(r) PROVE TypeOK'
    BY <1>7, <1>8, <1>10, <1>11 DEF ProposeToUnmatched, TypeOK
  <1>12. ASSUME NEW r \in Matchers, ProposeToMissing(r) PROVE TypeOK'
    BY <1>7, <1>12 DEF ProposeToMissing, TypeOK
  <1>13. ASSUME NEW r \in Matchers, Displace(r) PROVE TypeOK'
    <2>1. matches[r][Target(r)] \in Ids
      BY <1>13, ProposingFacts DEF Displace, Propose, Entry
    <2> QED
      BY <1>7, <1>8, <1>9, <1>10, <1>13, <2>1 DEF Displace
  <1>14. ASSUME NEW r \in Matchers, Reject(r) PROVE TypeOK'
    BY <1>7, <1>9, <1>10, <1>14 DEF Reject, TypeOK
  <1>15. ASSUME NEW r \in Matchers, NextPass(r) PROVE TypeOK'
    BY <1>0, <1>15 DEF NextPass, TypeOK
  <1>16. ASSUME NEW r \in Matchers, LeaveLoop(r) PROVE TypeOK'
    BY <1>16 DEF LeaveLoop, TypeOK
  <1>17. ASSUME NEW r \in Matchers, EndRun(r), matchesDB' \in [Ids -> Entry],
                matches' \in [Matchers -> [Ids -> Entry]],
                proposalIndices' \in [Matchers -> [Ids -> Nat]]
         PROVE  TypeOK'
    BY <1>0, <1>17, NoSnapshotType DEF EndRun, TypeOK
  <1>18. ASSUME NEW r \in Matchers, Save(r) PROVE TypeOK'
    <2>1. matchesDB' \in [Ids -> Entry]
      BY <1>18 DEF Save, WriteBatch, TypeOK
    <2> QED
      BY <1>17, <1>18, <2>1 DEF Save, TypeOK
  <1>19. ASSUME NEW r \in Matchers, SaveFails(r) PROVE TypeOK'
    BY <1>17, <1>19 DEF SaveFails, TypeOK
  <1>20. ASSUME NEW r \in Matchers, Crash(r) PROVE TypeOK'
    <2>1. /\ matches' \in [Matchers -> [Ids -> Entry]]
          /\ proposalIndices' \in [Matchers -> [Ids -> Nat]]
      BY <1>20 DEF Crash, TypeOK, NoMatches, NoIndices, Entry
    <2> QED
      BY <1>17, <1>20, <2>1 DEF Crash, TypeOK
  <1>21. CASE UNCHANGED vars
    BY <1>21 DEF vars, TypeOK
  <1> QED
    BY <1>1, <1>3, <1>4, <1>6, <1>11, <1>12, <1>13, <1>14, <1>15, <1>16,
       <1>18, <1>19, <1>20, <1>21 DEF Next, Run, LoopStep

(* Every variable keeps its declared type, and the loop never indexes      *)
(* outside the snapshot or a list, whatever the other devices and the      *)
(* users do meanwhile (GaleMatching.swift:65-130).                         *)
THEOREM TypeCorrect == Spec => []TypeOK
  BY TypeInit, TypeNext, PTL DEF Spec
-----------------------------------------------------------------------------
(* What one proposal does to the dictionaries.  NewPair: m2 is m after     *)
(* p and t were matched up; p was unmatched.                               *)
NewPair(m, m2, p, t) ==
  /\ m \in [Ids -> Entry] /\ m2 \in [Ids -> Entry]
  /\ p \in Ids /\ t \in Ids
  /\ m[p] = None
  /\ m2[p] = t /\ m2[t] = p
  /\ \A x \in Ids : x # p /\ x # t => m2[x] = m[x]

LEMMA NewPairClosed ==
  ASSUME NEW m, NEW m2, NEW p, NEW t, NewPair(m, m2, p, t), Closed(m)
  PROVE  Closed(m2)
  BY NoneAssumption DEF NewPair, Closed, Entry

LEMMA NewPairBacked ==
  ASSUME NEW m, NEW m2, NEW p, NEW t, NEW lists, NewPair(m, m2, p, t),
         Backed(m, lists), SwipedOn(lists, p, t)
  PROVE  Backed(m2, lists)
  BY NoneAssumption DEF NewPair, Backed, Joins, Entry

\* t was unmatched: nobody pointed at it, nor at p.
LEMMA FirstPairLostToBetter ==
  ASSUME NEW m, NEW m2, NEW p, NEW t, NEW s \in Snapshots,
         NewPair(m, m2, p, t), m[t] = None, Closed(m), LostToBetter(m, s)
  PROVE  LostToBetter(m2, s)
  <1> SUFFICES ASSUME NEW x \in Ids, m2[x] # None, m2[m2[x]] # x
               PROVE  m2[x] \in Listed(s.docs) /\ Prefers(s.prefs[m2[x]], m2[m2[x]], x)
    BY DEF LostToBetter
  <1>1. x # p /\ x # t
    BY DEF NewPair
  <1>2. m2[x] = m[x] /\ m[x] \in Ids
    BY <1>1 DEF NewPair, Entry
  <1>3. m[m[x]] # None
    BY <1>2 DEF Closed
  <1>4. m[x] # p /\ m[x] # t
    BY <1>3 DEF NewPair
  <1>5. m2[m2[x]] = m[m[x]]
    BY <1>2, <1>4 DEF NewPair
  <1> QED
    BY <1>2, <1>5 DEF LostToBetter

\* t leaves its partner for p: those whom t had passed over stay so.
LEMMA DisplacedLostToBetter ==
  ASSUME NEW m, NEW m2, NEW p, NEW t, NEW s \in Snapshots,
         NewPair(m, m2, p, t), m[t] # None, Closed(m), LostToBetter(m, s),
         t \in Listed(s.docs), Prefers(s.prefs[t], p, m[t])
  PROVE  LostToBetter(m2, s)
  <1> SUFFICES ASSUME NEW x \in Ids, m2[x] # None, m2[m2[x]] # x
               PROVE  m2[x] \in Listed(s.docs) /\ Prefers(s.prefs[m2[x]], m2[m2[x]], x)
    BY DEF LostToBetter
  <1>1. x # p /\ x # t
    BY DEF NewPair
  <1>2. m2[x] = m[x] /\ m[x] \in Ids
    BY <1>1 DEF NewPair, Entry
  <1>3. m[m[x]] # None
    BY <1>2 DEF Closed
  <1>4. m[x] # p
    BY <1>3 DEF NewPair
  <1>5. s.prefs[t] \in Seq(Ids)
    BY SnapshotFacts
  <1>6. CASE m[x] # t
    <2>1. m2[m2[x]] = m[m[x]]
      BY <1>2, <1>4, <1>6 DEF NewPair
    <2> QED
      BY <1>2, <2>1 DEF LostToBetter
  <1>7. CASE m[x] = t
    <2>1. m2[m2[x]] = p
      BY <1>2, <1>7 DEF NewPair
    <2>2. CASE m[t] = x
      BY <1>2, <1>7, <2>1, <2>2
    <2>3. CASE m[t] # x
      <3>1. Prefers(s.prefs[t], m[t], x)
        BY <1>2, <1>7, <2>3 DEF LostToBetter
      <3>2. Prefers(s.prefs[t], p, x)
        BY <1>5, <3>1, PrefersTransitive
      <3> QED
        BY <1>2, <1>7, <2>1, <3>2
    <2> QED
      BY <2>2, <2>3
  <1> QED
    BY <1>6, <1>7

\* The indices of unmatched profiles stay put, and whoever turned one of
\* them down has the same match or one it prefers.
LEMMA NewPairTurnedDown ==
  ASSUME NEW m, NEW m2, NEW k, NEW k2, NEW p, NEW t, NEW s \in Snapshots,
         NewPair(m, m2, p, t), TurnedDown(m, k, s),
         m[t] = None \/ Prefers(s.prefs[t], p, m[t]),
         k \in [Ids -> Nat], \A x \in Ids : m2[x] = None => k2[x] = k[x]
  PROVE  TurnedDown(m2, k2, s)
  <1> SUFFICES ASSUME NEW x \in Listed(s.docs), m2[x] = None
               PROVE  /\ k2[x] <= Len(s.prefs[x])
                      /\ \A i \in 1..k2[x] : TurnsDown(m2, s, s.prefs[x][i], x)
    BY DEF TurnedDown
  <1>1. x \in Ids /\ x \in Registered /\ s.prefs[x] \in Seq(Ids)
    BY SnapshotFacts, RegisteredIds
  <1>2. x # p /\ x # t
    BY NoneAssumption DEF NewPair
  <1>3. m[x] = None /\ k2[x] = k[x]
    BY <1>1, <1>2 DEF NewPair
  <1>4. /\ k2[x] <= Len(s.prefs[x])
        /\ \A i \in 1..k[x] : TurnsDown(m, s, s.prefs[x][i], x)
    BY <1>3 DEF TurnedDown
  <1>5. ASSUME NEW q \in Ids, TurnsDown(m, s, q, x) PROVE TurnsDown(m2, s, q, x)
    <2>1. /\ m[q] # None /\ q \in Listed(s.docs) /\ ~Prefers(s.prefs[q], x, m[q])
          /\ s.prefs[q] \in Seq(Ids)
      BY <1>5, SnapshotFacts DEF TurnsDown
    <2>2. q # p
      BY <2>1 DEF NewPair
    <2>3. CASE q = t
      <3>1. ~Prefers(s.prefs[q], x, p)
        BY <2>1, <2>3, TurnsDownImproved
      <3> QED
        BY <2>1, <2>3, <3>1, NoneAssumption DEF TurnsDown, NewPair
    <2>4. CASE q # t
      BY <2>1, <2>2, <2>4 DEF TurnsDown, NewPair
    <2> QED
      BY <2>3, <2>4
  <1>6. \A i \in 1..k[x] : s.prefs[x][i] \in Ids
    BY <1>1, <1>3, <1>4
  <1> QED
    BY <1>3, <1>4, <1>5, <1>6

\* A rejected proposer has one more id on its list that turns it down.
LEMMA RejectedTurnedDown ==
  ASSUME NEW m, NEW k, NEW k2, NEW s \in Snapshots, NEW p \in Registered,
         TurnedDown(m, k, s), k \in [Ids -> Nat], k[p] < Len(s.prefs[p]),
         TurnsDown(m, s, s.prefs[p][k[p] + 1], p),
         k2 = [k EXCEPT ![p] = @ + 1]
  PROVE  TurnedDown(m, k2, s)
  <1> SUFFICES ASSUME NEW x \in Listed(s.docs), m[x] = None
               PROVE  /\ k2[x] <= Len(s.prefs[x])
                      /\ \A i \in 1..k2[x] : TurnsDown(m, s, s.prefs[x][i], x)
    BY DEF TurnedDown
  <1>1. x \in Ids /\ p \in Ids /\ s.prefs[x] \in Seq(Ids)
    BY SnapshotFacts, RegisteredIds
  <1>2. /\ k[x] <= Len(s.prefs[x])
        /\ \A i \in 1..k[x] : TurnsDown(m, s, s.prefs[x][i], x)
    BY DEF TurnedDown
  <1>3. CASE x # p
    BY <1>1, <1>2, <1>3
  <1>4. CASE x = p
    <2>1. k2[x] = k[x] + 1 /\ k[x] \in Nat /\ Len(s.prefs[x]) \in Nat
      BY <1>1, <1>4
    <2>2. \A i \in 1..k2[x] : i \in 1..k[x] \/ i = k[p] + 1
      BY <1>4, <2>1
    <2> QED
      BY <1>2, <1>4, <2>1, <2>2
  <1> QED
    BY <1>3, <1>4
-----------------------------------------------------------------------------
(* The invariant of one run.                                               *)

\* The run of q sees nothing of a step that leaves its variables alone.
RunUnchanged(q) ==
  /\ pc'[q] = pc[q]
  /\ snap'[q] = snap[q]
  /\ matches'[q] = matches[q]
  /\ proposalIndices'[q] = proposalIndices[q]
  /\ cursor'[q] = cursor[q]
  /\ hasUnmatched'[q] = hasUnmatched[q]

LEMMA RunInvUnchanged ==
  ASSUME NEW q \in Matchers, RunInv(q), RunUnchanged(q)
  PROVE  RunInv(q)'
  BY DEF RunInv, RunUnchanged, Docs, Closed, LostToBetter, Backed, TurnedDown,
         Done, TurnsDown, Joins, SwipedOn, Listed, Prefers

LEMMA OthersUnchanged ==
  ASSUME TypeOK, NEW r \in Matchers, NEW q \in Matchers, q # r, Run(r)
  PROVE  RunUnchanged(q)
  <1> USE DEF TypeOK, RunUnchanged, locals
  <1>1. CASE Fetch(r)
    BY <1>1 DEF Fetch, BeginRun
  <1>2. CASE FetchOffline(r)
    BY <1>2 DEF FetchOffline, BeginRun
  <1>3. CASE SkipMatched(r)
    BY <1>3 DEF SkipMatched, NextProfile
  <1>4. CASE SkipExhausted(r)
    BY <1>4 DEF SkipExhausted, NextProfile
  <1>5. CASE ProposeToUnmatched(r)
    BY <1>5 DEF ProposeToUnmatched, Propose, NextProfile, MatchUp
  <1>6. CASE ProposeToMissing(r)
    BY <1>6 DEF ProposeToMissing, Propose, NextProfile
  <1>7. CASE Displace(r)
    BY <1>7 DEF Displace, Propose, NextProfile, MatchUp, AdvanceIndex
  <1>8. CASE Reject(r)
    BY <1>8 DEF Reject, Propose, NextProfile, AdvanceIndex
  <1>9. CASE NextPass(r)
    BY <1>9 DEF NextPass
  <1>10. CASE LeaveLoop(r)
    BY <1>10 DEF LeaveLoop
  <1>11. CASE Save(r)
    BY <1>11 DEF Save, EndRun
  <1>12. CASE SaveFails(r)
    BY <1>12 DEF SaveFails, EndRun
  <1>13. CASE Crash(r)
    BY <1>13 DEF Crash, EndRun
  <1> QED
    BY <1>1, <1>2, <1>3, <1>4, <1>5, <1>6, <1>7, <1>8, <1>9, <1>10, <1>11,
       <1>12, <1>13 DEF Run, LoopStep

\* RunInv of the state after a step, from what the run's variables became.
LEMMA RunInvFrom ==
  ASSUME NEW r \in Matchers, NEW m, NEW k, NEW s, NEW i, NEW w, NEW h,
         m = matches'[r], k = proposalIndices'[r], s = snap'[r],
         i = cursor'[r], w = pc'[r], h = hasUnmatched'[r],
         Closed(m),
         w # "idle" => LostToBetter(m, s) /\ Backed(m, s.prefs) /\ TurnedDown(m, k, s),
         w = "loop" /\ ~h =>
           \A j \in DOMAIN s.docs : j < i => Done(m, k, s, s.docs[j]),
         w = "save" => \A p \in Listed(s.docs) : Done(m, k, s, p)
  PROVE  RunInv(r)'
  BY DEF RunInv, Docs, Closed, LostToBetter, Backed, TurnedDown,
         Done, TurnsDown, Joins, SwipedOn, Listed, Prefers

LEMMA BeginRunInv ==
  ASSUME TypeOK, NEW r \in Matchers, NEW s \in Snapshots, BeginRun(r, s)
  PROVE  RunInv(r)'
  <1>1. /\ pc'[r] = "loop" /\ snap'[r] = s /\ matches'[r] = NoMatches
        /\ proposalIndices'[r] = NoIndices /\ cursor'[r] = 1
        /\ hasUnmatched'[r] = FALSE
    BY DEF BeginRun, TypeOK
  <1>2. /\ Closed(NoMatches) /\ LostToBetter(NoMatches, s)
        /\ Backed(NoMatches, s.prefs)
    BY DEF NoMatches, Closed, LostToBetter, Backed
  <1>3. TurnedDown(NoMatches, NoIndices, s)
    <2> SUFFICES ASSUME NEW p \in Listed(s.docs)
                 PROVE  /\ NoIndices[p] <= Len(s.prefs[p])
                        /\ 1..NoIndices[p] = {}
      BY DEF TurnedDown
    <2>1. NoIndices[p] = 0 /\ Len(s.prefs[p]) \in Nat
      BY SnapshotFacts, RegisteredIds DEF NoIndices
    <2> QED
      BY <2>1
  <1>4. \A j \in DOMAIN s.docs : ~(j < 1)
    BY SnapshotFacts
  <1> QED
    BY <1>1, <1>2, <1>3, <1>4, RunInvFrom

LEMMA SkipRunInv ==
  ASSUME TypeOK, NEW r \in Matchers, RunInv(r), SkipMatched(r) \/ SkipExhausted(r)
  PROVE  RunInv(r)'
  <1> DEFINE m == matches[r]
             k == proposalIndices[r]
             s == snap[r]
  <1>1. /\ pc'[r] = "loop" /\ pc[r] = "loop" /\ snap'[r] = s /\ matches'[r] = m
        /\ proposalIndices'[r] = k /\ cursor'[r] = cursor[r] + 1
        /\ hasUnmatched'[r] = hasUnmatched[r] /\ AtProfile(r)
    BY DEF SkipMatched, SkipExhausted, NextProfile, AtProfile, TypeOK
  <1>2. Done(m, k, s, s.docs[cursor[r]])
    BY DEF SkipMatched, SkipExhausted, Done, Proposer, Index, List
  <1>3. /\ Closed(m) /\ LostToBetter(m, s) /\ Backed(m, s.prefs)
        /\ TurnedDown(m, k, s)
    BY <1>1 DEF RunInv
  <1>4. ASSUME ~hasUnmatched[r], NEW j \in DOMAIN s.docs, j < cursor[r] + 1
        PROVE  Done(m, k, s, s.docs[j])
    <2>1. j \in Nat /\ cursor[r] \in Nat
      BY <1>1, AtProfileFacts, SnapshotFacts DEF TypeOK
    <2>2. j < cursor[r] \/ j = cursor[r]
      BY <1>4, <2>1
    <2> QED
      BY <1>1, <1>2, <1>4, <2>2 DEF RunInv
  <1> QED
    BY <1>1, <1>3, <1>4, RunInvFrom

\* After a proposal the pass is not quiet, so only the dictionaries matter.
LEMMA ProposeRunInv ==
  ASSUME TypeOK, NEW r \in Matchers, Propose(r), NEW m, NEW k,
         matches'[r] = m, proposalIndices'[r] = k,
         Closed(m), LostToBetter(m, snap[r]), Backed(m, snap[r].prefs),
         TurnedDown(m, k, snap[r])
  PROVE  RunInv(r)'
  <1>1. /\ pc'[r] = "loop" /\ snap'[r] = snap[r] /\ hasUnmatched'[r] = TRUE
    BY DEF Propose, Proposing, AtProfile, NextProfile, TypeOK
  <1> QED
    BY <1>1, RunInvFrom

LEMMA MatchUpNewPair ==
  ASSUME TypeOK, NEW r \in Matchers, Proposing(r),
         MatchUp(r, Proposer(r), Target(r))
  PROVE  NewPair(matches[r], matches'[r], Proposer(r), Target(r))
  <1>1. Proposer(r) \in Ids /\ Target(r) \in Ids /\ matches[r][Proposer(r)] = None
    BY AtProfileFacts, ProposingFacts DEF Proposing
  <1> QED
    BY <1>1 DEF NewPair, MatchUp, TypeOK, Entry

\* The facts of RunInv that hold of a run in its loop.
LEMMA LoopFacts ==
  ASSUME TypeOK, NEW r \in Matchers, RunInv(r), Proposing(r)
  PROVE  /\ snap[r] \in Snapshots
         /\ proposalIndices[r] \in [Ids -> Nat]
         /\ Closed(matches[r])
         /\ LostToBetter(matches[r], snap[r])
         /\ Backed(matches[r], snap[r].prefs)
         /\ TurnedDown(matches[r], proposalIndices[r], snap[r])
         /\ SwipedOn(snap[r].prefs, Proposer(r), Target(r))
  <1>1. pc[r] = "loop" /\ AtProfile(r)
    BY DEF Proposing, AtProfile
  <1>2. SwipedOn(snap[r].prefs, Proposer(r), Target(r))
    BY <1>1, AtProfileFacts, ProposingFacts DEF SwipedOn, List
  <1> QED
    BY <1>1, <1>2 DEF RunInv, TypeOK

LEMMA ProposeToUnmatchedRunInv ==
  ASSUME TypeOK, NEW r \in Matchers, RunInv(r), ProposeToUnmatched(r)
  PROVE  RunInv(r)'
  <1>1. /\ Proposing(r) /\ Propose(r)
        /\ matches[r][Target(r)] = None
        /\ proposalIndices'[r] = proposalIndices[r]
        /\ NewPair(matches[r], matches'[r], Proposer(r), Target(r))
    BY MatchUpNewPair DEF ProposeToUnmatched, Propose
  <1>2. Closed(matches'[r]) /\ Backed(matches'[r], snap[r].prefs)
    BY <1>1, LoopFacts, NewPairClosed, NewPairBacked
  <1>3. LostToBetter(matches'[r], snap[r])
    BY <1>1, LoopFacts, FirstPairLostToBetter
  <1>4. TurnedDown(matches'[r], proposalIndices[r], snap[r])
    BY <1>1, LoopFacts, NewPairTurnedDown
  <1> QED
    BY <1>1, <1>2, <1>3, <1>4, ProposeRunInv

LEMMA DisplaceRunInv ==
  ASSUME TypeOK, NEW r \in Matchers, RunInv(r), Displace(r)
  PROVE  RunInv(r)'
  <1> DEFINE p == Proposer(r)
             t == Target(r)
             c == matches[r][t]
  <1>1. /\ Proposing(r) /\ Propose(r)
        /\ c # None /\ t \in Listed(snap[r].docs)
        /\ Prefers(snap[r].prefs[t], p, c)
        /\ NewPair(matches[r], matches'[r], p, t)
    BY MatchUpNewPair DEF Displace, Propose, Docs, List
  <1>2. Closed(matches'[r]) /\ Backed(matches'[r], snap[r].prefs)
    BY <1>1, LoopFacts, NewPairClosed, NewPairBacked
  <1>3. LostToBetter(matches'[r], snap[r])
    BY <1>1, LoopFacts, DisplacedLostToBetter
  <1>4. t \in Ids /\ c \in Ids
    BY <1>1, ProposingFacts DEF Entry
  <1>5. matches[r][c] # None
    BY <1>1, <1>4, LoopFacts DEF Closed
  <1>6. matches'[r][c] # None
    BY <1>1, <1>4, <1>5, NoneAssumption DEF NewPair
  <1>7. proposalIndices'[r] = [proposalIndices[r] EXCEPT ![c] = @ + 1]
    BY DEF Displace, AdvanceIndex, TypeOK
  <1>8. \A x \in Ids : matches'[r][x] = None
                        => proposalIndices'[r][x] = proposalIndices[r][x]
    BY <1>4, <1>6, <1>7, LoopFacts, <1>1
  <1>9. TurnedDown(matches'[r], proposalIndices'[r], snap[r])
    BY <1>1, <1>8, LoopFacts, NewPairTurnedDown
  <1> QED
    BY <1>1, <1>2, <1>3, <1>9, ProposeRunInv

LEMMA RejectRunInv ==
  ASSUME TypeOK, NEW r \in Matchers, RunInv(r), Reject(r)
  PROVE  RunInv(r)'
  <1> DEFINE p == Proposer(r)
             t == Target(r)
  <1>1. /\ Proposing(r) /\ Propose(r) /\ AtProfile(r)
        /\ matches'[r] = matches[r]
        /\ TurnsDown(matches[r], snap[r], t, p)
    BY DEF Reject, Propose, Proposing, Docs, List, TurnsDown
  <1>2. proposalIndices'[r] = [proposalIndices[r] EXCEPT ![p] = @ + 1]
    BY DEF Reject, AdvanceIndex, TypeOK
  <1>3. /\ p \in Registered
        /\ proposalIndices[r][p] < Len(snap[r].prefs[p])
        /\ t = snap[r].prefs[p][proposalIndices[r][p] + 1]
    BY <1>1, AtProfileFacts DEF Proposing, Index, List, Target
  <1>4. TurnedDown(matches[r], proposalIndices'[r], snap[r])
    BY <1>1, <1>2, <1>3, LoopFacts, RejectedTurnedDown
  <1> QED
    BY <1>1, <1>4, LoopFacts, ProposeRunInv

LEMMA NextPassRunInv ==
  ASSUME TypeOK, NEW r \in Matchers, RunInv(r), NextPass(r)
  PROVE  RunInv(r)'
  <1>1. /\ pc'[r] = "loop" /\ pc[r] = "loop" /\ snap'[r] = snap[r]
        /\ matches'[r] = matches[r] /\ proposalIndices'[r] = proposalIndices[r]
        /\ cursor'[r] = 1
    BY DEF NextPass, PassDone, TypeOK
  <1>2. \A j \in DOMAIN snap[r].docs : ~(j < 1)
    BY SnapshotFacts DEF TypeOK
  <1>3. /\ Closed(matches[r]) /\ LostToBetter(matches[r], snap[r])
        /\ Backed(matches[r], snap[r].prefs)
        /\ TurnedDown(matches[r], proposalIndices[r], snap[r])
    BY <1>1 DEF RunInv
  <1> QED
    BY <1>1, <1>2, <1>3, RunInvFrom

\* A pass without a proposal has seen every document done.
LEMMA LeaveLoopRunInv ==
  ASSUME TypeOK, NEW r \in Matchers, RunInv(r), LeaveLoop(r)
  PROVE  RunInv(r)'
  <1>1. /\ pc'[r] = "save" /\ pc[r] = "loop" /\ snap'[r] = snap[r]
        /\ matches'[r] = matches[r] /\ proposalIndices'[r] = proposalIndices[r]
        /\ ~hasUnmatched[r] /\ cursor[r] > Len(snap[r].docs)
    BY DEF LeaveLoop, PassDone, locals, TypeOK
  <1>2. /\ Closed(matches[r]) /\ LostToBetter(matches[r], snap[r])
        /\ Backed(matches[r], snap[r].prefs)
        /\ TurnedDown(matches[r], proposalIndices[r], snap[r])
    BY <1>1 DEF RunInv
  <1>3. \A j \in DOMAIN snap[r].docs : j < cursor[r]
    BY <1>1, SnapshotFacts DEF TypeOK
  <1>4. \A p \in Listed(snap[r].docs) :
          Done(matches[r], proposalIndices[r], snap[r], p)
    BY <1>1, <1>3 DEF RunInv, Listed
  <1> QED
    BY <1>1, <1>2, <1>4, RunInvFrom

LEMMA EndRunInv ==
  ASSUME TypeOK, NEW r \in Matchers, EndRun(r),
         matches'[r] = matches[r] \/ matches'[r] = NoMatches, RunInv(r)
  PROVE  RunInv(r)'
  <1>1. pc'[r] = "idle"
    BY DEF EndRun, TypeOK
  <1>2. Closed(matches'[r])
    BY DEF RunInv, NoMatches, Closed
  <1> QED
    BY <1>1, <1>2, RunInvFrom

LEMMA RunInvNext ==
  ASSUME IInv, [Next]_vars, NEW q \in Matchers
  PROVE  RunInv(q)'
  <1>1. TypeOK /\ RunInv(q)
    BY DEF IInv
  <1>2. ASSUME RunUnchanged(q) PROVE RunInv(q)'
    BY <1>1, <1>2, RunInvUnchanged
  <1>3. CASE UNCHANGED vars
    BY <1>2, <1>3 DEF vars, RunUnchanged
  <1>4. ASSUME NEW p \in Registered, NEW t \in Ids, Swipe(p, t) PROVE RunInv(q)'
    BY <1>2, <1>4 DEF Swipe, RunUnchanged, locals
  <1>5. ASSUME NEW r \in Matchers, Run(r), r # q PROVE RunInv(q)'
    BY <1>1, <1>2, <1>5, OthersUnchanged
  <1>6. CASE Run(q)
    <2>1. CASE Fetch(q)
      <3>1. [docs |-> DocOrder, prefs |-> prefs] \in Snapshots
        BY <1>1 DEF TypeOK, Snapshots
      <3> QED
        BY <1>1, <2>1, <3>1, BeginRunInv DEF Fetch
    <2>2. CASE FetchOffline(q)
      BY <1>1, <2>2, BeginRunInv DEF FetchOffline, TypeOK
    <2>3. CASE SkipMatched(q) \/ SkipExhausted(q)
      BY <1>1, <2>3, SkipRunInv
    <2>4. CASE ProposeToUnmatched(q)
      BY <1>1, <2>4, ProposeToUnmatchedRunInv
    <2>5. CASE ProposeToMissing(q)
      <3>1. /\ Propose(q) /\ Proposing(q) /\ matches'[q] = matches[q]
            /\ proposalIndices'[q] = proposalIndices[q]
        BY <2>5 DEF ProposeToMissing, Propose
      <3> QED
        BY <1>1, <3>1, LoopFacts, ProposeRunInv
    <2>6. CASE Displace(q)
      BY <1>1, <2>6, DisplaceRunInv
    <2>7. CASE Reject(q)
      BY <1>1, <2>7, RejectRunInv
    <2>8. CASE NextPass(q)
      BY <1>1, <2>8, NextPassRunInv
    <2>9. CASE LeaveLoop(q)
      BY <1>1, <2>9, LeaveLoopRunInv
    <2>10. CASE Save(q) \/ SaveFails(q)
      BY <1>1, <2>10, EndRunInv DEF Save, SaveFails
    <2>11. CASE Crash(q)
      <3>1. matches'[q] = NoMatches
        BY <1>1, <2>11 DEF Crash, TypeOK
      <3> QED
        BY <1>1, <2>11, <3>1, EndRunInv DEF Crash
    <2> QED
      BY <1>6, <2>1, <2>2, <2>3, <2>4, <2>5, <2>6, <2>7, <2>8, <2>9, <2>10,
         <2>11 DEF Run, LoopStep
  <1> QED
    BY <1>3, <1>4, <1>5, <1>6 DEF Next
-----------------------------------------------------------------------------
(* The collections.  Lists only grow, so what a snapshot backs stays       *)
(* backed, however late it is written.                                     *)
LEMMA ListedAppend ==
  ASSUME NEW L \in Seq(Ids), NEW t \in Ids
  PROVE  Listed(L) \subseteq Listed(Append(L, t))
  <1>1. \A i \in DOMAIN L : i \in DOMAIN Append(L, t) /\ Append(L, t)[i] = L[i]
    OBVIOUS
  <1> QED
    BY <1>1 DEF Listed

LEMMA BackedGrows ==
  ASSUME NEW m, NEW old, NEW new, Backed(m, old),
         \A p \in Registered : Listed(old[p]) \subseteq Listed(new[p])
  PROVE  Backed(m, new)
  BY DEF Backed, Joins, SwipedOn

LEMMA SwipeGrows ==
  ASSUME TypeOK, NEW p \in Registered, NEW t \in Ids, Swipe(p, t)
  PROVE  \A x \in Registered : Listed(prefs[x]) \subseteq Listed(prefs'[x])
  <1> SUFFICES ASSUME NEW x \in Registered
               PROVE  Listed(prefs[x]) \subseteq Listed(prefs'[x])
    OBVIOUS
  <1>1. CASE x # p
    BY <1>1 DEF Swipe, TypeOK
  <1>2. CASE x = p
    BY <1>2, ListedAppend DEF Swipe, TypeOK
  <1> QED
    BY <1>1, <1>2

LEMMA DBInvNext ==
  ASSUME IInv, [Next]_vars
  PROVE  DBInv'
  <1>1. /\ TypeOK /\ Backed(matchesDB, prefs)
        /\ \A q \in Matchers : Older(snap[q].prefs) /\ Older(cache[q].prefs)
    BY DEF IInv, DBInv
  <1>2. ASSUME NEW r \in Matchers, Run(r)
        PROVE  /\ prefs' = prefs
               /\ \A q \in Matchers : \/ snap'[q] = snap[q]
                                      \/ snap'[q] = cache[q]
                                      \/ snap'[q].prefs = prefs
                                      \/ snap'[q] = NoSnapshot
               /\ \A q \in Matchers : cache'[q] = cache[q] \/ cache'[q].prefs = prefs
               /\ matchesDB' = matchesDB \/ Save(r)
    <2> USE <1>1 DEF TypeOK, locals
    <2>1. CASE Fetch(r)
      BY <2>1 DEF Fetch, BeginRun
    <2>2. CASE FetchOffline(r)
      BY <2>2 DEF FetchOffline, BeginRun
    <2>3. CASE LoopStep(r)
      BY <2>3 DEF LoopStep, SkipMatched, SkipExhausted, ProposeToUnmatched,
         ProposeToMissing, Displace, Reject, Propose, NextProfile, NextPass, LeaveLoop
    <2>4. CASE Save(r)
      BY <2>4 DEF Save, EndRun
    <2>5. CASE SaveFails(r)
      BY <2>5 DEF SaveFails, EndRun
    <2>6. CASE Crash(r)
      BY <2>6 DEF Crash, EndRun
    <2> QED
      BY <1>2, <2>1, <2>2, <2>3, <2>4, <2>5, <2>6 DEF Run
  <1>3. ASSUME NEW lists, NEW lists2,
               lists2 = lists \/ lists2 = prefs \/ lists2 = NoSnapshot.prefs,
               Older(lists),
               \A x \in Registered : Listed(prefs[x]) \subseteq Listed(prefs'[x])
        PROVE  \A x \in Registered : Listed(lists2[x]) \subseteq Listed(prefs'[x])
    <2>1. \A x \in Registered : Listed(NoSnapshot.prefs[x]) = {}
      BY DEF NoSnapshot, Listed
    <2> QED
      BY <1>3, <2>1 DEF Older
  <1>4. ASSUME NEW r \in Matchers, Save(r) PROVE Backed(matchesDB', prefs)
    <2>1. Backed(matches[r], snap[r].prefs) /\ Older(snap[r].prefs)
      BY <1>1, <1>4 DEF IInv, RunInv, Save
    <2>2. Backed(matches[r], prefs)
      BY <2>1, BackedGrows DEF Older
    <2> QED
      BY <1>1, <1>4, <2>2 DEF Save, WriteBatch, Backed
  <1>5. ASSUME NEW r \in Matchers, Run(r) PROVE DBInv'
    <2>1. Backed(matchesDB', prefs')
      BY <1>1, <1>2, <1>4, <1>5
    <2>2. ASSUME NEW q \in Matchers
          PROVE  \A x \in Registered :
                   /\ Listed(snap'[q].prefs[x]) \subseteq Listed(prefs'[x])
                   /\ Listed(cache'[q].prefs[x]) \subseteq Listed(prefs'[x])
      BY <1>1, <1>2, <1>3, <1>5
    <2> QED
      BY <2>1, <2>2 DEF DBInv, Older, Backed, Joins, SwipedOn, Listed
  <1>6. ASSUME NEW p \in Registered, NEW t \in Ids, Swipe(p, t) PROVE DBInv'
    <2>1. \A x \in Registered : Listed(prefs[x]) \subseteq Listed(prefs'[x])
      BY <1>1, <1>6, SwipeGrows
    <2>2. matchesDB' = matchesDB /\ snap' = snap /\ cache' = cache
      BY <1>6 DEF Swipe, locals
    <2>3. Backed(matchesDB', prefs')
      BY <1>1, <2>1, <2>2, BackedGrows
    <2>4. ASSUME NEW q \in Matchers
          PROVE  \A x \in Registered :
                   /\ Listed(snap'[q].prefs[x]) \subseteq Listed(prefs'[x])
                   /\ Listed(cache'[q].prefs[x]) \subseteq Listed(prefs'[x])
      BY <1>1, <1>3, <2>1, <2>2
    <2> QED
      BY <2>3, <2>4 DEF DBInv, Older, Backed, Joins, SwipedOn, Listed
  <1>7. CASE UNCHANGED vars
    <2>1. matchesDB' = matchesDB /\ snap' = snap /\ cache' = cache /\ prefs' = prefs
      BY <1>7 DEF vars
    <2> QED
      BY <1>1, <2>1 DEF DBInv, Older, Backed, Joins, SwipedOn
  <1> QED
    BY <1>5, <1>6, <1>7 DEF Next
-----------------------------------------------------------------------------
LEMMA InitIInv == Init => IInv
  <1> SUFFICES ASSUME Init PROVE IInv
    OBVIOUS
  <1>1. TypeOK
    BY TypeInit
  <1>2. \A p \in Registered : Listed(NoSnapshot.prefs[p]) = {}
    BY DEF NoSnapshot, Listed
  <1>3. DBInv
    BY <1>2 DEF Init, DBInv, Older, Backed, NoMatches
  <1>4. \A r \in Matchers : RunInv(r)
    BY DEF Init, RunInv, Closed, NoMatches
  <1> QED
    BY <1>1, <1>3, <1>4 DEF IInv

LEMMA NextIInv == IInv /\ [Next]_vars => IInv'
  <1> SUFFICES ASSUME IInv, [Next]_vars PROVE IInv'
    OBVIOUS
  <1>1. TypeOK'
    BY TypeNext DEF IInv
  <1> QED
    BY <1>1, DBInvNext, RunInvNext DEF IInv

LEMMA InvariantHolds == Spec => []IInv
  BY InitIInv, NextIInv, PTL DEF Spec

(* Whoever is matched is matched with someone who is matched too, in the   *)
(* dictionary of every device (GaleMatching.swift:113-114, 122-123).       *)
THEOREM PartnersAlwaysMatched == Spec => []PartnersAreMatched
  <1>1. IInv => PartnersAreMatched
    BY DEF IInv, RunInv, Closed, PartnersAreMatched
  <1> QED
    BY <1>1, InvariantHolds, PTL

(* A match that is not returned was lost to someone its target strictly    *)
(* prefers: the stale entries that displacement leaves (lines 111-115) are *)
(* the only way the dictionary is not symmetric.                           *)
THEOREM StaleOnlyWhenPassedOver == Spec => []PassedOver
  <1>1. IInv => PassedOver
    BY DEF IInv, RunInv, LostToBetter, PassedOver, Docs, List
  <1> QED
    BY <1>1, InvariantHolds, PTL

(* When a run leaves its loop nobody it left unmatched has a claim: each   *)
(* profile on its list is matched and does not rank it higher (line 76).   *)
THEOREM NoClaimLeft == Spec => []UnmatchedHaveNoClaim
  <1>1. IInv => UnmatchedHaveNoClaim
    <2> SUFFICES ASSUME IInv, NEW r \in Matchers, pc[r] = "save",
                        NEW p \in Docs(r), matches[r][p] = None,
                        NEW q \in Listed(List(r, p))
                 PROVE  TurnsDown(matches[r], snap[r], q, p)
      BY DEF UnmatchedHaveNoClaim, TurnsDown, Docs, List
    <2>1. /\ TurnedDown(matches[r], proposalIndices[r], snap[r])
          /\ Done(matches[r], proposalIndices[r], snap[r], p)
          /\ snap[r] \in Snapshots /\ proposalIndices[r] \in [Ids -> Nat]
      BY DEF IInv, RunInv, TypeOK
    <2>2. p \in Registered /\ p \in Ids /\ snap[r].prefs[p] \in Seq(Ids)
      BY <2>1, SnapshotFacts, RegisteredIds DEF Docs
    <2>3. \A i \in DOMAIN snap[r].prefs[p] : i \in 1..proposalIndices[r][p]
      BY <2>1, <2>2 DEF Done
    <2>4. PICK i \in DOMAIN snap[r].prefs[p] : q = snap[r].prefs[p][i]
      BY DEF Listed, List
    <2> QED
      BY <2>1, <2>3, <2>4 DEF TurnedDown, Docs
  <1> QED
    BY <1>1, InvariantHolds, PTL

(* Every document of the matches collection joins two profiles one of      *)
(* which swiped on the other, with any number of devices, stale snapshots  *)
(* and late batches (saveMatches, lines 134-142).                          *)
THEOREM SavedMatchesAlwaysSwiped == Spec => []SavedMatchesSwiped
  <1>1. IInv => SavedMatchesSwiped
    BY DEF IInv, DBInv, Backed, Joins, SavedMatchesSwiped
  <1> QED
    BY <1>1, InvariantHolds, PTL

(* While a run is in its loop no entry is withdrawn, and an entry changes  *)
(* only to someone its owner ranks strictly higher (lines 106-115).        *)
THEOREM MatchesAlwaysImprove == Spec => MatchesOnlyImprove
  <1> DEFINE A == \A r \in Matchers, x \in Ids :
                    pc[r] = "loop" /\ pc'[r] # "idle" => OnlyImproves(r, x)
  <1>1. TypeOK /\ [Next]_vars => [A]_vars
    <2> SUFFICES ASSUME TypeOK, Next, NEW q \in Matchers, NEW x \in Ids,
                        pc[q] = "loop", pc'[q] # "idle",
                        matches'[q][x] # matches[q][x], matches[q][x] # None
                 PROVE  /\ x \in Docs(q)
                        /\ Prefers(List(q, x), matches'[q][x], matches[q][x])
      BY DEF OnlyImproves
    <2>1. ASSUME RunUnchanged(q) PROVE FALSE
      BY <2>1 DEF RunUnchanged
    <2>2. Run(q)
      BY <2>1, OthersUnchanged DEF Next, Swipe, locals, RunUnchanged
    <2>3. ProposeToUnmatched(q) \/ Displace(q)
      BY <2>2 DEF Run, LoopStep, Fetch, FetchOffline, BeginRun, Save, SaveFails,
         Crash, EndRun, SkipMatched, SkipExhausted, ProposeToMissing, Reject,
         NextPass, LeaveLoop, locals, TypeOK
    <2>4. /\ Proposing(q)
          /\ NewPair(matches[q], matches'[q], Proposer(q), Target(q))
      BY <2>3, MatchUpNewPair DEF ProposeToUnmatched, Displace, Propose
    <2>5. x = Target(q) /\ matches'[q][x] = Proposer(q)
      BY <2>4 DEF NewPair
    <2>6. Displace(q)
      BY <2>3, <2>5 DEF ProposeToUnmatched
    <2> QED
      BY <2>5, <2>6 DEF Displace
  <1> QED
    BY <1>1, TypeCorrect, PTL DEF Spec, MatchesOnlyImprove
=============================================================================
