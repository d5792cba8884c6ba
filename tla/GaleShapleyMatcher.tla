------------------------- MODULE GaleShapleyMatcher -------------------------
(***************************************************************************)
(* The matching engine (class GaleShapleyMatcher, GaleMatching.swift).     *)
(*                                                                         *)
(* Firestore holds two collections: "profiles", one document per           *)
(* registered profile with its ordered list of right-swipes, and           *)
(* "matches", one document per matched profile.  Users append to their     *)
(* lists (updatePreferences, here one atomic step: SwipeTransaction shows  *)
(* that the transaction implements it).  Any number of devices run         *)
(* runMatching: each one reads the whole collection once, proposes in      *)
(* memory over that snapshot, and writes the outcome back in one batch.    *)
(* Between its read and its write swipes go on and other devices run too.  *)
(***************************************************************************)
EXTENDS Integers, Sequences, FiniteSets

CONSTANTS
  Ids,        \* profile ids that may occur in a list, registered or not
  DocOrder,   \* ids with a profile document, in the order a query returns them
  InitPrefs,  \* the contents the profiles collection may start with
  Matchers,   \* devices that run the matcher, one GaleShapleyMatcher each
  MaxPrefs,   \* bound: the longest list a swipe of the model produces
  None        \* no entry in a dictionary or no document in a collection

Registered == {DocOrder[i] : i \in DOMAIN DocOrder}

Listed(list) == {list[i] : i \in DOMAIN list}

ASSUME DocOrderAssumption ==
  /\ DocOrder \in Seq(Ids)
  /\ \A i, j \in DOMAIN DocOrder : DocOrder[i] = DocOrder[j] => i = j

ASSUME InitPrefsAssumption == InitPrefs \subseteq [Registered -> Seq(Ids)]

ASSUME MaxPrefsAssumption == MaxPrefs \in Nat

ASSUME NoneAssumption == None \notin Ids

VARIABLES
  prefs,            \* "profiles": the preferences field of every document
  matchesDB,        \* "matches": the matchedWith field of every document
  cache,            \* per device: the profiles query in Firestore's local cache
  pc,               \* per device: where its runMatching is
  snap,             \* per device: the local constant profiles
  matches,          \* per device: the dictionary matches
  proposalIndices,  \* per device: the dictionary proposalIndices (0-based)
  cursor,           \* per device: position of the for loop (1-based)
  hasUnmatched      \* per device: the local variable hasUnmatchedProfiles

vars == <<prefs, matchesDB, cache, pc, snap, matches, proposalIndices, cursor,
          hasUnmatched>>
locals == <<snap, matches, proposalIndices, cursor, hasUnmatched>>
-----------------------------------------------------------------------------
Entry == Ids \cup {None}
NoMatches == [x \in Ids |-> None]
NoIndices == [x \in Ids |-> 0]
NoSnapshot == [docs |-> <<>>, prefs |-> [p \in Registered |-> <<>>]]

\* What a profiles query yields: the documents in order, and their lists.
Snapshots == [docs : {DocOrder, <<>>}, prefs : [Registered -> Seq(Ids)]]

\* The profile document of q ranks a before b: firstIndex(of: a) ?? Int.max
\* is smaller than firstIndex(of: b) ?? Int.max.
Prefers(list, a, b) ==
  \E i \in DOMAIN list : list[i] = a /\ \A j \in 1..i : list[j] # b

Init ==
  /\ prefs \in InitPrefs
  /\ matchesDB = NoMatches
  /\ cache = [r \in Matchers |-> NoSnapshot]
  /\ pc = [r \in Matchers |-> "idle"]
  /\ snap = [r \in Matchers |-> NoSnapshot]
  /\ matches = [r \in Matchers |-> NoMatches]
  /\ proposalIndices = [r \in Matchers |-> NoIndices]
  /\ cursor = [r \in Matchers |-> 1]
  /\ hasUnmatched = [r \in Matchers |-> FALSE]
-----------------------------------------------------------------------------
(* updatePreferences: p swipes right on t.  A repeated swipe and a swipe   *)
(* of a profile without a document change nothing: they are stutters here. *)
Swipe(p, t) ==
  /\ t \notin Listed(prefs[p])
  /\ Len(prefs[p]) < MaxPrefs
  /\ prefs' = [prefs EXCEPT ![p] = Append(@, t)]
  /\ UNCHANGED <<matchesDB, cache, pc, locals>>

\* Mutant of BeginRun: the dictionaries of the previous run are kept.
BeginRunKeepsState(r, s) ==
  /\ pc[r] = "idle"
  /\ pc' = [pc EXCEPT ![r] = "loop"]
  /\ snap' = [snap EXCEPT ![r] = s]
  /\ cursor' = [cursor EXCEPT ![r] = 1]
  /\ hasUnmatched' = [hasUnmatched EXCEPT ![r] = FALSE]
  /\ UNCHANGED <<prefs, matchesDB, matches, proposalIndices>>

(* runMatching up to the loop: the query's result s becomes the local      *)
(* profiles, the dictionaries are reset and the first pass begins.         *)
BeginRun(r, s) ==
  /\ pc[r] = "idle"
  /\ pc' = [pc EXCEPT ![r] = "loop"]
  /\ snap' = [snap EXCEPT ![r] = s]
  /\ matches' = [matches EXCEPT ![r] = NoMatches]
  /\ proposalIndices' = [proposalIndices EXCEPT ![r] = NoIndices]
  /\ cursor' = [cursor EXCEPT ![r] = 1]
  /\ hasUnmatched' = [hasUnmatched EXCEPT ![r] = FALSE]
  /\ UNCHANGED <<prefs, matchesDB>>

\* getDocuments answered by the server, which also refreshes the local cache.
Fetch(r) ==
  LET s == [docs |-> DocOrder, prefs |-> prefs]
  IN  BeginRun(r, s) /\ cache' = [cache EXCEPT ![r] = s]

\* getDocuments while the device is offline: the cached result of the last
\* query, an empty one if there was none.  A failed query leaves no trace.
FetchOffline(r) == BeginRun(r, cache[r]) /\ UNCHANGED cache
-----------------------------------------------------------------------------
(* One iteration of the for loop.  Each action below is one path through   *)
(* its body; nothing in the loop awaits, so other actors cannot touch      *)
(* the dictionaries in between, but they may change both collections.      *)
Docs(r) == Listed(snap[r].docs)
List(r, p) == snap[r].prefs[p]
Proposer(r) == snap[r].docs[cursor[r]]
Index(r) == proposalIndices[r][Proposer(r)]
Target(r) == List(r, Proposer(r))[Index(r) + 1]

AtProfile(r) == pc[r] = "loop" /\ cursor[r] <= Len(snap[r].docs)
Proposing(r) ==
  /\ AtProfile(r)
  /\ matches[r][Proposer(r)] = None
  /\ Index(r) < Len(List(r, Proposer(r)))

NextProfile(r) ==
  /\ cursor' = [cursor EXCEPT ![r] = @ + 1]
  /\ UNCHANGED <<prefs, matchesDB, cache, pc, snap>>

SkipMatched(r) ==
  /\ AtProfile(r)
  /\ matches[r][Proposer(r)] # None
  /\ NextProfile(r)
  /\ UNCHANGED <<matches, proposalIndices, hasUnmatched>>

\* Mutant of SkipExhausted: the last entry of the list is never tried.
SkipBeforeLast(r) ==
  /\ AtProfile(r)
  /\ matches[r][Proposer(r)] = None
  /\ Index(r) + 1 >= Len(List(r, Proposer(r)))
  /\ NextProfile(r)
  /\ UNCHANGED <<matches, proposalIndices, hasUnmatched>>

SkipExhausted(r) ==
  /\ AtProfile(r)
  /\ matches[r][Proposer(r)] = None
  /\ Index(r) >= Len(List(r, Proposer(r)))
  /\ NextProfile(r)
  /\ UNCHANGED <<matches, proposalIndices, hasUnmatched>>

Propose(r) ==
  /\ Proposing(r)
  /\ hasUnmatched' = [hasUnmatched EXCEPT ![r] = TRUE]
  /\ NextProfile(r)

\* Mutant of MatchUp: only the proposer's entry is written.
MatchOneSide(r, p, t) == matches' = [matches EXCEPT ![r][p] = t]

MatchUp(r, p, t) == matches' = [matches EXCEPT ![r][t] = p, ![r][p] = t]
AdvanceIndex(r, p) ==
  proposalIndices' = [proposalIndices EXCEPT ![r][p] = @ + 1]

ProposeToUnmatched(r) ==
  /\ Propose(r)
  /\ matches[r][Target(r)] = None
  /\ MatchUp(r, Proposer(r), Target(r))
  /\ UNCHANGED proposalIndices

\* The target is matched but has no profile in the snapshot: "continue",
\* with the proposal index where it was.
ProposeToMissing(r) ==
  /\ Propose(r)
  /\ matches[r][Target(r)] # None
  /\ Target(r) \notin Docs(r)
  /\ UNCHANGED <<matches, proposalIndices>>

\* Mutant of Displace: the new proposer always wins.
DisplaceAlways(r) ==
  LET p == Proposer(r)
      t == Target(r)
      currentMatch == matches[r][t]
  IN  /\ Propose(r)
      /\ currentMatch # None
      /\ t \in Docs(r)
      /\ MatchUp(r, p, t)
      /\ AdvanceIndex(r, currentMatch)

\* Mutant of Displace: the proposer is given the displaced partner.
DisplaceSwaps(r) ==
  LET p == Proposer(r)
      t == Target(r)
      currentMatch == matches[r][t]
  IN  /\ Propose(r)
      /\ currentMatch # None
      /\ t \in Docs(r)
      /\ Prefers(List(r, t), p, currentMatch)
      /\ matches' = [matches EXCEPT ![r][t] = p, ![r][p] = currentMatch]
      /\ AdvanceIndex(r, currentMatch)

\* The target takes the proposer; the dictionary entry of the partner it
\* leaves is not removed, only that partner's proposal index moves on.
Displace(r) ==
  LET p == Proposer(r)
      t == Target(r)
      currentMatch == matches[r][t]
  IN  /\ Propose(r)
      /\ currentMatch # None
      /\ t \in Docs(r)
      /\ Prefers(List(r, t), p, currentMatch)
      /\ MatchUp(r, p, t)
      /\ AdvanceIndex(r, currentMatch)

\* Mutant of Reject: the proposal index is left where it was.
RejectKeepsIndex(r) ==
  /\ Propose(r)
  /\ matches[r][Target(r)] # None
  /\ Target(r) \in Docs(r)
  /\ ~Prefers(List(r, Target(r)), Proposer(r), matches[r][Target(r)])
  /\ UNCHANGED <<matches, proposalIndices>>

Reject(r) ==
  LET p == Proposer(r)
      t == Target(r)
      currentMatch == matches[r][t]
  IN  /\ Propose(r)
      /\ currentMatch # None
      /\ t \in Docs(r)
      /\ ~Prefers(List(r, t), p, currentMatch)
      /\ AdvanceIndex(r, p)
      /\ UNCHANGED matches

\* The end of the for loop and the test of the while loop.
PassDone(r) == pc[r] = "loop" /\ cursor[r] > Len(snap[r].docs)

\* Mutant of NextPass: the next pass starts one position too early.
NextPassFromZero(r) ==
  /\ PassDone(r)
  /\ hasUnmatched[r]
  /\ cursor' = [cursor EXCEPT ![r] = 0]
  /\ hasUnmatched' = [hasUnmatched EXCEPT ![r] = FALSE]
  /\ UNCHANGED <<prefs, matchesDB, cache, pc, snap, matches, proposalIndices>>

NextPass(r) ==
  /\ PassDone(r)
  /\ hasUnmatched[r]
  /\ cursor' = [cursor EXCEPT ![r] = 1]
  /\ hasUnmatched' = [hasUnmatched EXCEPT ![r] = FALSE]
  /\ UNCHANGED <<prefs, matchesDB, cache, pc, snap, matches, proposalIndices>>

LeaveLoop(r) ==
  /\ PassDone(r)
  /\ ~hasUnmatched[r]
  /\ pc' = [pc EXCEPT ![r] = "save"]
  /\ UNCHANGED <<prefs, matchesDB, cache, locals>>
-----------------------------------------------------------------------------
(* saveMatches: one batch that sets a document for every dictionary entry. *)
(* While pc is "save" the batch is in the client's write queue; it reaches *)
(* the server once the device is online, however much later that is.       *)
EndRun(r) ==
  /\ pc' = [pc EXCEPT ![r] = "idle"]
  /\ snap' = [snap EXCEPT ![r] = NoSnapshot]
  /\ cursor' = [cursor EXCEPT ![r] = 1]
  /\ hasUnmatched' = [hasUnmatched EXCEPT ![r] = FALSE]
  /\ UNCHANGED <<prefs, cache>>

WriteBatch(r) ==
  matchesDB' = [x \in Ids |-> IF matches[r][x] # None THEN matches[r][x]
                                                      ELSE matchesDB[x]]

Save(r) ==
  /\ pc[r] = "save"
  /\ WriteBatch(r)
  /\ EndRun(r)
  /\ UNCHANGED <<matches, proposalIndices>>

\* The commit is refused: runMatching throws and nothing is written.
SaveFails(r) ==
  /\ pc[r] = "save"
  /\ EndRun(r)
  /\ UNCHANGED <<matchesDB, matches, proposalIndices>>

\* The app is killed in the loop and restarts: only the cache survives.
Crash(r) ==
  /\ pc[r] = "loop"
  /\ EndRun(r)
  /\ matches' = [matches EXCEPT ![r] = NoMatches]
  /\ proposalIndices' = [proposalIndices EXCEPT ![r] = NoIndices]
  /\ UNCHANGED matchesDB
-----------------------------------------------------------------------------
LoopStep(r) ==
  \/ SkipMatched(r)
  \/ SkipExhausted(r)
  \/ ProposeToUnmatched(r)
  \/ ProposeToMissing(r)
  \/ Displace(r)
  \/ Reject(r)
  \/ NextPass(r)
  \/ LeaveLoop(r)

Run(r) ==
  \/ Fetch(r)
  \/ FetchOffline(r)
  \/ LoopStep(r)
  \/ Save(r)
  \/ SaveFails(r)
  \/ Crash(r)

Next ==
  \/ \E p \in Registered, t \in Ids : Swipe(p, t)
  \/ \E r \in Matchers : Run(r)

Spec == Init /\ [][Next]_vars

\* The loop is straight-line code on one thread: it does not stop by itself.
FairSpec == Spec /\ \A r \in Matchers : WF_vars(LoopStep(r))
-----------------------------------------------------------------------------
(* Every variable has the type its Swift declaration gives it, and the     *)
(* loop position stays within the snapshot (GaleMatching.swift:16-20, 67-81).*)
TypeOK ==
  /\ prefs \in [Registered -> Seq(Ids)]
  /\ matchesDB \in [Ids -> Entry]
  /\ cache \in [Matchers -> Snapshots]
  /\ pc \in [Matchers -> {"idle", "loop", "save"}]
  /\ snap \in [Matchers -> Snapshots]
  /\ matches \in [Matchers -> [Ids -> Entry]]
  /\ proposalIndices \in [Matchers -> [Ids -> Nat]]
  /\ cursor \in [Matchers -> 1..(Len(DocOrder) + 1)]
  /\ hasUnmatched \in [Matchers -> BOOLEAN]

SwipedOn(lists, x, y) == x \in Registered /\ y \in Listed(lists[x])

(* Whoever is matched is matched with someone who is matched too: no       *)
(* sequence of displacements leaves an entry that points at a profile      *)
(* without an entry (the two writes of lines 111-112 and 122-123).         *)
PartnersAreMatched ==
  \A r \in Matchers, x \in Ids :
    matches[r][x] # None => matches[r][matches[r][x]] # None

(* An entry that is not returned was lost to someone better: if x is       *)
(* matched with y but y with another, then y prefers that other to x.      *)
(* Stale entries (displaced partners are never removed, lines 111-115)     *)
(* are the only ones that are not mutual.                                  *)
PassedOver ==
  \A r \in Matchers, x \in Ids :
    LET y == matches[r][x]
    IN  (pc[r] # "idle" /\ y # None /\ matches[r][y] # x)
          => /\ y \in Docs(r)
             /\ Prefers(List(r, y), matches[r][y], x)

(* When the loop ends, a profile without a match has nothing to reclaim:   *)
(* everyone it swiped on is matched and does not rank it above the match   *)
(* it has.  This is what "exhausted their preferences" (line 76) has to    *)
(* mean for a correct outcome; it spans the whole run of every proposer.   *)
UnmatchedHaveNoClaim ==
  \A r \in Matchers : pc[r] = "save" =>
    \A p \in Docs(r) : matches[r][p] = None =>
      \A q \in Listed(List(r, p)) :
        /\ matches[r][q] # None
        /\ q \in Docs(r)
        /\ ~Prefers(List(r, q), p, matches[r][q])

(* No document of the matches collection joins two profiles neither of     *)
(* which swiped on the other, whichever devices wrote it, however late its *)
(* batch arrived and however stale the snapshot it was computed from.      *)
SavedMatchesSwiped ==
  \A x \in Ids : matchesDB[x] # None =>
    \/ SwipedOn(prefs, x, matchesDB[x])
    \/ SwipedOn(prefs, matchesDB[x], x)

(* Within a run an entry is never withdrawn, and it only changes to        *)
(* someone its owner ranks strictly higher (lines 106-115).                *)
OnlyImproves(r, x) ==
  matches'[r][x] # matches[r][x] /\ matches[r][x] # None =>
    /\ x \in Docs(r)
    /\ Prefers(List(r, x), matches'[r][x], matches[r][x])

MatchesOnlyImprove ==
  [][\A r \in Matchers, x \in Ids :
       pc[r] = "loop" /\ pc'[r] # "idle" => OnlyImproves(r, x)]_vars

\* Every id in the lists of the snapshot has a document in it.
Complete(r) == \A p \in Docs(r) : Listed(List(r, p)) \subseteq Docs(r)

(* A run over complete lists leaves its loop: every proposal moves an      *)
(* index on or matches a profile that was not matched (lines 76-126).      *)
CompleteRunEnds ==
  \A r \in Matchers : pc[r] = "loop" /\ Complete(r) ~> pc[r] # "loop"
-----------------------------------------------------------------------------
(* Properties the repository claims and the code does not have.            *)

(* The comment of line 76, "Continue until all profiles are matched or     *)
(* have exhausted their preferences": a run that has started its loop      *)
(* leaves it.                                                              *)
RunEnds == \A r \in Matchers : pc[r] = "loop" ~> pc[r] # "loop"

(* GaleMatching.swift:12, "Gale-Shapley Algorithm": no two profiles that   *)
(* swiped on each other both prefer the other to the match they are given. *)
NoBlockingPair ==
  \A r \in Matchers : pc[r] = "save" =>
    ~\E a, b \in Docs(r) :
        /\ a # b
        /\ Prefers(List(r, a), b, matches[r][a])
        /\ Prefers(List(r, b), a, matches[r][b])
=============================================================================
