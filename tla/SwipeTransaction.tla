-------------------------- MODULE SwipeTransaction --------------------------
(***************************************************************************)
(* updatePreferences (GaleMatching.swift:25-62) on Firestore's optimistic  *)
(* transactions: the update block reads the profile document, appends the  *)
(* target if it is not there, and commits on the condition that the        *)
(* version it read is still current; the client library runs the block     *)
(* again after a conflict or a transport error, a bounded number of times. *)
(* Several devices may swipe for the same profile.  A commit that its      *)
(* sender has given up on may still reach the server, however late.        *)
(***************************************************************************)
EXTENDS Integers, Sequences, FiniteSets

CONSTANTS
  Ids,          \* profile ids
  Registered,   \* the ids that have a profile document
  Clients,      \* devices
  MaxAttempts,  \* runs of the update block per call (Firestore's default: 5)
  MaxCalls,     \* bound: calls of updatePreferences per device
  None          \* no answer yet

ASSUME RegisteredAssumption == Registered \subseteq Ids
ASSUME AttemptsAssumption == MaxAttempts \in Nat \ {0}
ASSUME CallsAssumption == MaxCalls \in Nat
ASSUME NoAnswerAssumption == None \notin {"ok", "aborted"}

VARIABLES
  docs,       \* the profiles collection: version and list (version 0: no document)
  st,         \* per device: "idle", "run" (about to read), "commit" (waiting)
  calls,      \* per device: calls made so far
  left,       \* per device: attempts_remaining_
  swipe,      \* per device: the arguments <<profileId, targetId>> of the call
  sent,       \* per device: the commit it waits for
  answer,     \* per device: the server's answer to that commit, if any
  commits,    \* commits on their way to the server
  requested,  \* history: swipes asked for
  acked       \* history: swipes reported as done

vars == <<docs, st, calls, left, swipe, sent, answer, commits, requested, acked>>
-----------------------------------------------------------------------------
Has(list, t) == \E i \in DOMAIN list : list[i] = t

Swipes == Ids \X Ids
Commits == [client : Clients, call : 0..MaxCalls, left : 0..(MaxAttempts - 1),
            swipe : Swipes, version : Nat, base : Seq(Ids), write : BOOLEAN]

Init ==
  /\ docs = [p \in Ids |-> [version |-> IF p \in Registered THEN 1 ELSE 0,
                            prefs |-> <<>>]]
  /\ st = [c \in Clients |-> "idle"]
  /\ calls = [c \in Clients |-> 0]
  /\ left = [c \in Clients |-> 0]
  /\ swipe = [c \in Clients |-> <<>>]
  /\ sent = [c \in Clients |-> None]
  /\ answer = [c \in Clients |-> None]
  /\ commits = {}
  /\ requested = {}
  /\ acked = {}

(* updatePreferences(for: p, swipedRightOn: t): runTransaction starts its  *)
(* first run of the update block.                                          *)
Begin(c, p, t) ==
  /\ st[c] = "idle"
  /\ calls[c] < MaxCalls
  /\ calls' = [calls EXCEPT ![c] = @ + 1]
  /\ st' = [st EXCEPT ![c] = "run"]
  /\ left' = [left EXCEPT ![c] = MaxAttempts - 1]
  /\ swipe' = [swipe EXCEPT ![c] = <<p, t>>]
  /\ requested' = requested \cup {<<p, t>>}
  /\ UNCHANGED <<docs, sent, answer, commits, acked>>

\* The call is over: its continuation is resumed, or nobody is left to resume.
Finish(c) ==
  /\ st' = [st EXCEPT ![c] = "idle"]
  /\ left' = [left EXCEPT ![c] = 0]
  /\ swipe' = [swipe EXCEPT ![c] = <<>>]
  /\ sent' = [sent EXCEPT ![c] = None]
  /\ answer' = [answer EXCEPT ![c] = None]

\* Mutant: one run of the block too many.
RetryAtZero(c) ==
  IF left[c] >= 0
  THEN /\ st' = [st EXCEPT ![c] = "run"]
       /\ left' = [left EXCEPT ![c] = @ - 1]
       /\ sent' = [sent EXCEPT ![c] = None]
       /\ answer' = [answer EXCEPT ![c] = None]
       /\ UNCHANGED swipe
  ELSE Finish(c)

\* Mutant: the attempts that remain are not counted down.
RetryForever(c) ==
  /\ st' = [st EXCEPT ![c] = "run"]
  /\ sent' = [sent EXCEPT ![c] = None]
  /\ answer' = [answer EXCEPT ![c] = None]
  /\ UNCHANGED <<left, swipe>>

\* An attempt failed with an error that may be retried.
HandleTransactionError(c) ==
  IF left[c] > 0
  THEN /\ st' = [st EXCEPT ![c] = "run"]
       /\ left' = [left EXCEPT ![c] = @ - 1]
       /\ sent' = [sent EXCEPT ![c] = None]
       /\ answer' = [answer EXCEPT ![c] = None]
       /\ UNCHANGED swipe
  ELSE Finish(c)

(* The update block: getDocument, then the three ways out of it.  Without  *)
(* a document, and with the target already listed, nothing is written and  *)
(* the commit only verifies that the document is as it was read.           *)
UpdateBlock(c) ==
  LET p == swipe[c][1]
      t == swipe[c][2]
      m == [client |-> c, call |-> calls[c], left |-> left[c], swipe |-> swipe[c],
            version |-> docs[p].version, base |-> docs[p].prefs,
            write |-> docs[p].version # 0 /\ ~Has(docs[p].prefs, t)]
  IN  /\ st[c] = "run"
      /\ commits' = commits \cup {m}
      /\ sent' = [sent EXCEPT ![c] = m]
      /\ st' = [st EXCEPT ![c] = "commit"]
      /\ UNCHANGED <<docs, calls, left, swipe, answer, requested, acked>>

\* getDocument fails with a transport error, which the block hands over.
ReadFails(c) ==
  /\ st[c] = "run"
  /\ HandleTransactionError(c)
  /\ UNCHANGED <<docs, calls, commits, requested, acked>>

\* An error that is not retried: the read or the commit is refused, or the
\* profile cannot be encoded.
PermanentError(c) ==
  /\ st[c] = "run" \/ (st[c] = "commit" /\ sent[c] \in commits)
  /\ commits' = commits \ {sent[c]}
  /\ Finish(c)
  /\ UNCHANGED <<docs, calls, requested, acked>>
-----------------------------------------------------------------------------
\* Mutant of Current: the commit carries no precondition.
Unconditional(m) == m.version <= docs[m.swipe[1]].version

(* The server takes a commit: it applies it if the version it was based on *)
(* is the current one.  Its sender may have given up on it meanwhile.      *)
Current(m) == docs[m.swipe[1]].version = m.version

Apply(m) ==
  IF Current(m) /\ m.write
  THEN docs' = [docs EXCEPT ![m.swipe[1]] =
                  [version |-> @.version + 1, prefs |-> Append(m.base, m.swipe[2])]]
  ELSE UNCHANGED docs

ServerCommit(m) ==
  /\ Apply(m)
  /\ commits' = commits \ {m}
  /\ answer' = IF st[m.client] = "commit" /\ sent[m.client] = m
               THEN [answer EXCEPT ![m.client] = IF Current(m) THEN "ok" ELSE "aborted"]
               ELSE answer
  /\ UNCHANGED <<st, calls, left, swipe, sent, requested, acked>>

\* A commit that never arrives.
LoseCommit(m) ==
  /\ commits' = commits \ {m}
  /\ UNCHANGED <<docs, st, calls, left, swipe, sent, answer, requested, acked>>

(* DispatchResult: the answer arrives and is handed to the continuation.   *)
Succeed(c) ==
  /\ st[c] = "commit"
  /\ answer[c] = "ok"
  /\ acked' = acked \cup {swipe[c]}
  /\ Finish(c)
  /\ UNCHANGED <<docs, calls, commits, requested>>

Conflict(c) ==
  /\ st[c] = "commit"
  /\ answer[c] = "aborted"
  /\ HandleTransactionError(c)
  /\ UNCHANGED <<docs, calls, commits, requested, acked>>

\* The connection breaks before the answer arrives, whatever the server did
\* or will do with the commit.
AnswerLost(c) ==
  /\ st[c] = "commit"
  /\ HandleTransactionError(c)
  /\ UNCHANGED <<docs, calls, commits, requested, acked>>

\* The app is killed: the call is forgotten, a commit it sent is not.
Killed(c) ==
  /\ st[c] # "idle"
  /\ Finish(c)
  /\ UNCHANGED <<docs, calls, commits, requested, acked>>
-----------------------------------------------------------------------------
Attempt(c) ==
  \/ UpdateBlock(c)
  \/ ReadFails(c)
  \/ PermanentError(c)
  \/ Succeed(c)
  \/ Conflict(c)
  \/ AnswerLost(c)

Next ==
  \/ \E c \in Clients, p, t \in Ids : Begin(c, p, t)
  \/ \E c \in Clients : Attempt(c) \/ Killed(c)
  \/ \E m \in commits : ServerCommit(m) \/ LoseCommit(m)

Spec == Init /\ [][Next]_vars

\* The client library keeps going and a broken connection is noticed; the
\* server and the network promise nothing.
FairSpec == Spec /\ \A c \in Clients : WF_vars(Attempt(c))
-----------------------------------------------------------------------------
OfAttempt(m, c) ==
  m.client = c /\ m.call = calls[c] /\ m.left = left[c] /\ m.swipe = swipe[c]

(* Every variable has its type; a waiting device waits for a commit of its *)
(* own current attempt, with the arguments of its call                     *)
(* (transaction_runner.cc:60-106).                                         *)
TypeOK ==
  /\ docs \in [Ids -> [version : Nat, prefs : Seq(Ids)]]
  /\ st \in [Clients -> {"idle", "run", "commit"}]
  /\ calls \in [Clients -> 0..MaxCalls]
  /\ left \in [Clients -> 0..(MaxAttempts - 1)]
  /\ swipe \in [Clients -> Swipes \cup {<<>>}]
  /\ \A c \in Clients : st[c] # "idle" => swipe[c] \in Swipes
  /\ sent \in [Clients -> Commits \cup {None}]
  /\ \A c \in Clients : st[c] = "commit" => sent[c] \in Commits /\ OfAttempt(sent[c], c)
  /\ answer \in [Clients -> {"ok", "aborted", None}]
  /\ commits \subseteq Commits
  /\ requested \subseteq Swipes
  /\ acked \subseteq Swipes

(* The transaction implements the abstract log: lists only grow, one       *)
(* requested swipe at a time and never twice, and an acknowledged swipe is *)
(* in the list whatever conflicts, retries and late commits happened.      *)
Log == INSTANCE SwipeLog WITH prefs <- [p \in Registered |-> docs[p].prefs]
ImplementsLog == Log!LogSpec

(* A call that is not killed is answered, with success or an error: the    *)
(* continuation of lines 28-61 is always resumed.                          *)
CallsReturn == \A c \in Clients : st[c] # "idle" ~> st[c] = "idle"
=============================================================================
