----------------------- MODULE SwipeTransactionProofs -----------------------
(***************************************************************************)
(* Proof that SwipeTransaction implements SwipeLog, for any number of      *)
(* devices, attempts and calls.                                            *)
(***************************************************************************)
EXTENDS SwipeTransaction, TLAPS

\* What is known of a commit, sent or still on its way: if the version it
\* was based on is still current, so is the list it was based on.
CommitInv(m) ==
  /\ m.swipe \in requested
  /\ m.version <= docs[m.swipe[1]].version
  /\ m.version = docs[m.swipe[1]].version => m.base = docs[m.swipe[1]].prefs
  /\ m.write <=> (m.version # 0 /\ ~Has(m.base, m.swipe[2]))

\* What is known of a call: an answer "ok" means that the swipe is recorded.
CallInv(c) ==
  /\ st[c] # "idle" => swipe[c] \in requested
  /\ answer[c] # None => st[c] = "commit"
  /\ answer[c] = "ok" /\ swipe[c][1] \in Registered =>
       Has(docs[swipe[c][1]].prefs, swipe[c][2])

TInv ==
  /\ TypeOK
  /\ \A p \in Ids : docs[p].version = 0 <=> p \notin Registered
  /\ \A m \in commits : CommitInv(m)
  /\ \A c \in Clients : CallInv(c)
-----------------------------------------------------------------------------
LEMMA TypeInit == Init => TypeOK
  BY AttemptsAssumption, CallsAssumption, RegisteredAssumption DEF Init, TypeOK

LEMMA FinishType ==
  ASSUME TypeOK, NEW c \in Clients, Finish(c),
         docs' = docs, calls' = calls, requested' = requested,
         acked' \subseteq Swipes, commits' \subseteq Commits
  PROVE  TypeOK'
  BY AttemptsAssumption DEF TypeOK, OfAttempt, Finish

LEMMA RetryType ==
  ASSUME TypeOK, NEW c \in Clients, HandleTransactionError(c), st[c] # "idle",
         docs' = docs, calls' = calls, requested' = requested,
         acked' = acked, commits' = commits
  PROVE  TypeOK'
  <1>1. CASE left[c] > 0
    <2>1. left[c] - 1 \in 0..(MaxAttempts - 1)
      BY <1>1, AttemptsAssumption DEF TypeOK
    <2>2. \A d \in Clients : st'[d] = "commit" =>
              sent'[d] \in Commits /\ OfAttempt(sent[d], d)'
      <3> SUFFICES ASSUME NEW d \in Clients, st'[d] = "commit"
                   PROVE  sent'[d] \in Commits /\ OfAttempt(sent[d], d)'
        OBVIOUS
      <3>1. d # c /\ st[d] = "commit"
        BY <1>1 DEF TypeOK, HandleTransactionError
      <3>2. /\ sent'[d] = sent[d] /\ left'[d] = left[d]
            /\ swipe'[d] = swipe[d] /\ calls'[d] = calls[d]
        BY <1>1, <3>1 DEF TypeOK, HandleTransactionError
      <3> QED
        BY <3>1, <3>2 DEF TypeOK, OfAttempt
    <2> QED
      BY <1>1, <2>1, <2>2 DEF TypeOK, HandleTransactionError
  <1>2. CASE ~(left[c] > 0)
    BY <1>2, FinishType DEF HandleTransactionError, TypeOK
  <1> QED
    BY <1>1, <1>2

\* The commit an update block sends.
BlockCommit(c) ==
  [client |-> c, call |-> calls[c], left |-> left[c], swipe |-> swipe[c],
   version |-> docs[swipe[c][1]].version, base |-> docs[swipe[c][1]].prefs,
   write |-> docs[swipe[c][1]].version # 0
             /\ ~Has(docs[swipe[c][1]].prefs, swipe[c][2])]

LEMMA TypeNext == TypeOK /\ [Next]_vars => TypeOK'
  <1> SUFFICES ASSUME TypeOK, [Next]_vars PROVE TypeOK'
    OBVIOUS
  <1>1. ASSUME NEW c \in Clients, NEW p \in Ids, NEW t \in Ids, Begin(c, p, t)
        PROVE  TypeOK'
    <2>1. /\ calls[c] + 1 \in 0..MaxCalls
          /\ MaxAttempts - 1 \in 0..(MaxAttempts - 1)
          /\ <<p, t>> \in Swipes
      BY <1>1, AttemptsAssumption, CallsAssumption DEF Begin, TypeOK, Swipes
    <2> QED
      BY <1>1, <2>1 DEF Begin, TypeOK, OfAttempt
  <1>2. ASSUME NEW c \in Clients, UpdateBlock(c) PROVE TypeOK'
    <2>1. swipe[c] \in Swipes /\ swipe[c][1] \in Ids
      BY <1>2 DEF UpdateBlock, TypeOK, Swipes
    <2>2. calls[c] \in 0..MaxCalls
      BY <1>2 DEF UpdateBlock, TypeOK
    <2>3. BlockCommit(c) \in Commits
      BY <2>1, <2>2 DEF BlockCommit, Commits, TypeOK
    <2>4. /\ commits' = commits \cup {BlockCommit(c)}
          /\ sent' = [sent EXCEPT ![c] = BlockCommit(c)]
      BY <1>2 DEF UpdateBlock, BlockCommit
    <2>5. OfAttempt(BlockCommit(c), c)
      BY DEF OfAttempt, BlockCommit
    <2> QED
      BY <1>2, <2>1, <2>3, <2>4, <2>5 DEF UpdateBlock, TypeOK, OfAttempt
  <1>3. ASSUME NEW c \in Clients, ReadFails(c) \/ Conflict(c) \/ AnswerLost(c)
        PROVE  TypeOK'
    BY <1>3, RetryType DEF ReadFails, Conflict, AnswerLost
  <1>4. ASSUME NEW c \in Clients, PermanentError(c) \/ Killed(c) PROVE TypeOK'
    BY <1>4, FinishType DEF PermanentError, Killed, TypeOK
  <1>5. ASSUME NEW c \in Clients, Succeed(c) PROVE TypeOK'
    BY <1>5, FinishType DEF Succeed, TypeOK
  <1>6. ASSUME NEW m \in commits, ServerCommit(m) PROVE TypeOK'
    <2>1. m \in Commits
      BY DEF TypeOK
    <2>2. /\ m.swipe[1] \in Ids /\ m.swipe[2] \in Ids /\ m.base \in Seq(Ids)
          /\ m.client \in Clients
      BY <2>1 DEF Commits, Swipes
    <2>3. docs' \in [Ids -> [version : Nat, prefs : Seq(Ids)]]
      <3>1. /\ docs[m.swipe[1]].version + 1 \in Nat
            /\ Append(m.base, m.swipe[2]) \in Seq(Ids)
        BY <2>2 DEF TypeOK
      <3>2. [version |-> docs[m.swipe[1]].version + 1,
             prefs |-> Append(m.base, m.swipe[2])] \in [version : Nat, prefs : Seq(Ids)]
        BY <3>1
      <3> QED
        BY <1>6, <2>2, <3>2 DEF ServerCommit, Apply, TypeOK
    <2>4. answer' \in [Clients -> {"ok", "aborted", None}]
      BY <1>6, <2>2 DEF ServerCommit, TypeOK
    <2> QED
      BY <1>6, <2>3, <2>4 DEF ServerCommit, TypeOK, OfAttempt
  <1>7. ASSUME NEW m \in commits, LoseCommit(m) PROVE TypeOK'
    BY <1>7 DEF LoseCommit, TypeOK, OfAttempt
  <1>8. CASE UNCHANGED vars
    BY <1>8 DEF vars, TypeOK, OfAttempt
  <1> QED
    BY <1>1, <1>2, <1>3, <1>4, <1>5, <1>6, <1>7, <1>8 DEF Next, Attempt

-----------------------------------------------------------------------------
LEMMA HasAppend ==
  ASSUME NEW L \in Seq(Ids), NEW t \in Ids
  PROVE  /\ Has(Append(L, t), t)
         /\ \A x : Has(L, x) => Has(Append(L, t), x)
  <1>1. Len(L) + 1 \in DOMAIN Append(L, t) /\ Append(L, t)[Len(L) + 1] = t
    OBVIOUS
  <1>2. \A i \in DOMAIN L : i \in DOMAIN Append(L, t) /\ Append(L, t)[i] = L[i]
    OBVIOUS
  <1> QED
    BY <1>1, <1>2 DEF Has

\* The facts about a commit in flight, with its types.
LEMMA CommitFacts ==
  ASSUME TInv, NEW m \in commits
  PROVE  /\ m \in Commits /\ CommitInv(m)
         /\ m.client \in Clients /\ m.swipe \in Swipes
         /\ m.swipe[1] \in Ids /\ m.swipe[2] \in Ids
         /\ m.swipe = <<m.swipe[1], m.swipe[2]>>
         /\ m.version \in Nat /\ m.base \in Seq(Ids) /\ m.write \in BOOLEAN
         /\ docs[m.swipe[1]].version \in Nat
         /\ docs[m.swipe[1]].prefs \in Seq(Ids)
         /\ docs[m.swipe[1]] = [version |-> docs[m.swipe[1]].version,
                                prefs |-> docs[m.swipe[1]].prefs]
  <1>1. m \in Commits /\ CommitInv(m)
    BY DEF TInv, TypeOK
  <1>2. /\ m.client \in Clients /\ m.swipe \in Swipes /\ m.version \in Nat
        /\ m.base \in Seq(Ids) /\ m.write \in BOOLEAN
    BY <1>1 DEF Commits
  <1>3. /\ m.swipe[1] \in Ids /\ m.swipe[2] \in Ids
        /\ m.swipe = <<m.swipe[1], m.swipe[2]>>
    BY <1>2 DEF Swipes
  <1> QED
    BY <1>1, <1>2, <1>3 DEF TInv, TypeOK

\* What ServerCommit does to the collection: nothing, or one append to the
\* list as it is now.
LEMMA ServerCommitDocs ==
  ASSUME TInv, NEW m \in commits, ServerCommit(m)
  PROVE  \/ /\ docs' = docs
            /\ Current(m) => ~m.write
         \/ /\ Current(m)
            /\ m.swipe[1] \in Registered
            /\ ~Has(docs[m.swipe[1]].prefs, m.swipe[2])
            /\ docs' = [docs EXCEPT ![m.swipe[1]] =
                          [version |-> docs[m.swipe[1]].version + 1,
                           prefs |-> Append(docs[m.swipe[1]].prefs, m.swipe[2])]]
  <1>1. CASE Current(m) /\ m.write
    <2>1. /\ m.base = docs[m.swipe[1]].prefs
          /\ m.version # 0 /\ ~Has(m.base, m.swipe[2])
          /\ m.version = docs[m.swipe[1]].version
      BY <1>1, CommitFacts DEF CommitInv, Current
    <2>2. m.swipe[1] \in Registered
      BY <2>1, CommitFacts DEF TInv
    <2> QED
      BY <1>1, <2>1, <2>2 DEF ServerCommit, Apply
  <1>2. CASE ~(Current(m) /\ m.write)
    BY <1>2 DEF ServerCommit, Apply
  <1> QED
    BY <1>1, <1>2

\* Lists only grow and versions only rise, whatever the step.
LEMMA DocsGrow ==
  ASSUME TInv, [Next]_vars, NEW p \in Ids
  PROVE  /\ docs'[p].version >= docs[p].version
         /\ docs'[p].version = docs[p].version => docs'[p] = docs[p]
         /\ docs'[p].version = 0 <=> docs[p].version = 0
         /\ \A x : Has(docs[p].prefs, x) => Has(docs'[p].prefs, x)
  <1>1. docs[p].version \in Nat /\ docs[p].prefs \in Seq(Ids)
    BY DEF TInv, TypeOK
  <1>2. CASE docs' = docs
    BY <1>1, <1>2
  <1>3. ASSUME NEW m \in commits, ServerCommit(m), docs' # docs
        PROVE  /\ docs'[p].version >= docs[p].version
               /\ docs'[p].version = docs[p].version => docs'[p] = docs[p]
               /\ docs'[p].version = 0 <=> docs[p].version = 0
               /\ \A x : Has(docs[p].prefs, x) => Has(docs'[p].prefs, x)
    <2>1. /\ Current(m) /\ m.swipe[1] \in Registered
          /\ docs' = [docs EXCEPT ![m.swipe[1]] =
                        [version |-> docs[m.swipe[1]].version + 1,
                         prefs |-> Append(docs[m.swipe[1]].prefs, m.swipe[2])]]
      BY <1>3, ServerCommitDocs
    <2>2. CASE p # m.swipe[1]
      BY <1>1, <2>1, <2>2 DEF TInv, TypeOK
    <2>3. CASE p = m.swipe[1]
      <3>1. /\ docs'[p].version = docs[p].version + 1
            /\ docs'[p].prefs = Append(docs[p].prefs, m.swipe[2])
        BY <2>1, <2>3 DEF TInv, TypeOK
      <3>2. docs[p].version # 0
        BY <2>1, <2>3 DEF TInv
      <3>3. \A x : Has(docs[p].prefs, x) => Has(docs'[p].prefs, x)
        <4>1. m.swipe[2] \in Ids
          BY CommitFacts
        <4>2. \A x : Has(docs[p].prefs, x) => Has(Append(docs[p].prefs, m.swipe[2]), x)
          BY <1>1, <4>1, HasAppend
        <4> QED
          BY <3>1, <4>2
      <3> QED
        BY <1>1, <3>1, <3>2, <3>3
    <2> QED
      BY <2>2, <2>3
  <1>4. docs' = docs \/ \E m \in commits : ServerCommit(m)
    BY DEF Next, vars, Begin, Attempt, UpdateBlock, ReadFails, PermanentError,
       Succeed, Conflict, AnswerLost, Killed, LoseCommit
  <1> QED
    BY <1>2, <1>3, <1>4

LEMMA RequestedGrows ==
  ASSUME [Next]_vars
  PROVE  requested \subseteq requested'
  BY DEF Next, vars, Begin, Attempt, UpdateBlock, ReadFails, PermanentError,
     Succeed, Conflict, AnswerLost, Killed, ServerCommit, LoseCommit

\* A commit in flight stays consistent with a collection that grows.
LEMMA CommitInvKept ==
  ASSUME TInv, [Next]_vars, NEW m \in commits
  PROVE  CommitInv(m)'
  <1>1. /\ m.swipe[1] \in Ids /\ m.version \in Nat /\ CommitInv(m)
        /\ docs[m.swipe[1]].version \in Nat
    BY CommitFacts
  <1>2. docs'[m.swipe[1]].version \in Nat
    BY <1>1, TypeNext DEF TInv, TypeOK
  <1>3. /\ docs'[m.swipe[1]].version >= docs[m.swipe[1]].version
        /\ docs'[m.swipe[1]].version = docs[m.swipe[1]].version
             => docs'[m.swipe[1]] = docs[m.swipe[1]]
    BY <1>1, DocsGrow
  <1>4. m.swipe \in requested'
    BY <1>1, RequestedGrows DEF CommitInv
  <1>5. m.version <= docs'[m.swipe[1]].version
    BY <1>1, <1>2, <1>3 DEF CommitInv
  <1>6. ASSUME m.version = docs'[m.swipe[1]].version
        PROVE  m.base = docs'[m.swipe[1]].prefs
    <2>1. docs'[m.swipe[1]].version = docs[m.swipe[1]].version
      BY <1>1, <1>2, <1>3, <1>6 DEF CommitInv
    <2> QED
      BY <1>1, <1>3, <1>6, <2>1 DEF CommitInv
  <1>7. m.write <=> (m.version # 0 /\ ~Has(m.base, m.swipe[2]))
    BY <1>1 DEF CommitInv
  <1> QED
    BY <1>4, <1>5, <1>6, <1>7 DEF CommitInv, Has

LEMMA BlockCommitInv ==
  ASSUME TInv, NEW c \in Clients, UpdateBlock(c), NEW m, m = BlockCommit(c)
  PROVE  CommitInv(m)'
  <1>1. swipe[c] \in requested /\ swipe[c] \in Swipes /\ swipe[c][1] \in Ids
    BY DEF TInv, CallInv, UpdateBlock, TypeOK, Swipes
  <1>2. docs' = docs /\ requested' = requested
    BY DEF UpdateBlock
  <1>3. docs[swipe[c][1]].version \in Nat
    BY <1>1 DEF TInv, TypeOK
  <1>4. CommitInv(m)
    <2>1. /\ m.swipe = swipe[c]
          /\ m.version = docs[swipe[c][1]].version
          /\ m.base = docs[swipe[c][1]].prefs
      BY DEF BlockCommit
    <2>2. m.write = (/\ docs[swipe[c][1]].version # 0
                     /\ ~Has(docs[swipe[c][1]].prefs, swipe[c][2]))
      BY Zenon DEF BlockCommit
    <2>3. m.write <=> (m.version # 0 /\ ~Has(m.base, m.swipe[2]))
      BY <2>1, <2>2
    <2> QED
      BY <1>1, <1>3, <2>1, <2>3 DEF CommitInv
  <1> QED
    BY <1>2, <1>4 DEF CommitInv, Has

LEMMA CommitsNext ==
  ASSUME TInv, [Next]_vars
  PROVE  \A m \in commits' : CommitInv(m)'
  <1>1. ASSUME NEW c \in Clients, UpdateBlock(c), NEW m \in commits'
        PROVE  CommitInv(m)'
    <2>1. m \in commits \/ m = BlockCommit(c)
      BY <1>1 DEF UpdateBlock, BlockCommit
    <2> QED
      BY <1>1, <2>1, BlockCommitInv, CommitInvKept
  <1>2. commits' \subseteq commits \/ \E c \in Clients : UpdateBlock(c)
    BY DEF Next, vars, Begin, Attempt, ReadFails, PermanentError, Succeed,
       Conflict, AnswerLost, Killed, ServerCommit, LoseCommit
  <1> QED
    BY <1>1, <1>2, CommitInvKept
-----------------------------------------------------------------------------
\* A call that is neither started nor ended nor answered stays as it is.
LEMMA CallInvKept ==
  ASSUME TInv, [Next]_vars, NEW c \in Clients, st'[c] = st[c],
         swipe'[c] = swipe[c], answer'[c] = answer[c]
  PROVE  CallInv(c)'
  <1>1. CallInv(c) /\ TypeOK
    BY DEF TInv
  <1>2. ASSUME answer[c] = "ok", swipe[c][1] \in Registered
        PROVE  Has(docs'[swipe[c][1]].prefs, swipe[c][2])
    BY <1>1, <1>2, DocsGrow, RegisteredAssumption DEF CallInv
  <1>3. st[c] # "idle" => swipe[c] \in requested'
    BY <1>1, RequestedGrows DEF CallInv
  <1> QED
    BY <1>1, <1>2, <1>3 DEF CallInv, Has

LEMMA FinishInv ==
  ASSUME TInv, NEW c \in Clients, Finish(c)
  PROVE  CallInv(c)'
  BY NoAnswerAssumption DEF CallInv, Finish, TInv, TypeOK

LEMMA RetryInv ==
  ASSUME TInv, [Next]_vars, NEW c \in Clients, HandleTransactionError(c), st[c] # "idle"
  PROVE  CallInv(c)'
  <1>1. CASE left[c] > 0
    <2>1. st'[c] = "run" /\ answer'[c] = None /\ swipe'[c] = swipe[c]
      BY <1>1 DEF HandleTransactionError, TInv, TypeOK
    <2>2. swipe[c] \in requested'
      BY RequestedGrows DEF TInv, CallInv
    <2> QED
      BY <2>1, <2>2, NoAnswerAssumption DEF CallInv
  <1>2. CASE ~(left[c] > 0)
    BY <1>2, FinishInv DEF HandleTransactionError
  <1> QED
    BY <1>1, <1>2

\* An answer "ok" means that the swipe is in the list.
LEMMA ServerCommitInv ==
  ASSUME TInv, [Next]_vars, NEW m \in commits, ServerCommit(m),
         st[m.client] = "commit", sent[m.client] = m
  PROVE  CallInv(m.client)'
  <1> DEFINE c == m.client
             p == m.swipe[1]
             t == m.swipe[2]
  <1>1. c \in Clients /\ CallInv(c) /\ swipe[c] = m.swipe /\ TypeOK
    BY CommitFacts DEF TInv, CallInv, TypeOK, OfAttempt
  <1>2. /\ st'[c] = "commit" /\ swipe'[c] = swipe[c] /\ sent'[c] = sent[c]
        /\ answer'[c] = IF Current(m) THEN "ok" ELSE "aborted"
        /\ requested' = requested
    BY <1>1 DEF ServerCommit, TypeOK
  <1>3. ASSUME Current(m), p \in Registered PROVE Has(docs'[p].prefs, t)
    <2>1. CASE docs' = docs /\ ~m.write
      <3>1. /\ m.version = docs[p].version /\ docs[p].version # 0
            /\ m.base = docs[p].prefs
        BY <1>3, CommitFacts DEF Current, CommitInv, TInv
      <3> QED
        BY <2>1, <3>1, CommitFacts DEF CommitInv
    <2>2. CASE docs' = [docs EXCEPT ![p] = [version |-> docs[p].version + 1,
                                            prefs |-> Append(docs[p].prefs, t)]]
      <3>1. docs'[p].prefs = Append(docs[p].prefs, t)
        BY <2>2, CommitFacts DEF TInv, TypeOK
      <3>2. docs[p].prefs \in Seq(Ids) /\ t \in Ids
        BY CommitFacts
      <3> QED
        BY <3>1, <3>2, HasAppend
    <2> QED
      BY <1>3, <2>1, <2>2, ServerCommitDocs
  <1>4. swipe'[c] \in requested'
    BY <1>1, <1>2 DEF CallInv
  <1>5. answer'[c] = "ok" /\ swipe'[c][1] \in Registered
          => Has(docs'[swipe'[c][1]].prefs, swipe'[c][2])
    BY <1>1, <1>2, <1>3
  <1> QED
    BY <1>2, <1>4, <1>5 DEF CallInv, Has

LEMMA CallsNext ==
  ASSUME TInv, [Next]_vars, NEW c \in Clients
  PROVE  CallInv(c)'
  <1>0. TypeOK /\ CallInv(c)
    BY DEF TInv
  <1>1. ASSUME NEW d \in Clients, NEW p \in Ids, NEW t \in Ids, Begin(d, p, t)
        PROVE  CallInv(c)'
    <2>1. CASE d = c
      <3>1. /\ st'[c] = "run" /\ swipe'[c] = <<p, t>> /\ <<p, t>> \in requested'
            /\ answer'[c] = answer[c] /\ st[c] = "idle"
        BY <1>0, <1>1, <2>1 DEF Begin, TypeOK
      <3>2. answer[c] = None
        BY <1>0, <3>1 DEF CallInv
      <3> QED
        BY <3>1, <3>2, NoAnswerAssumption DEF CallInv
    <2>2. CASE d # c
      BY <1>0, <1>1, <2>2, CallInvKept DEF Begin, TypeOK
    <2> QED
      BY <2>1, <2>2
  <1>2. ASSUME NEW d \in Clients, UpdateBlock(d) PROVE CallInv(c)'
    <2>1. CASE d = c
      <3>1. /\ st'[c] = "commit" /\ swipe'[c] = swipe[c] /\ requested' = requested
            /\ answer'[c] = answer[c] /\ st[c] = "run"
        BY <1>0, <1>2, <2>1 DEF UpdateBlock, TypeOK
      <3>2. answer[c] = None /\ swipe[c] \in requested
        BY <1>0, <3>1 DEF CallInv
      <3> QED
        BY <3>1, <3>2, NoAnswerAssumption DEF CallInv
    <2>2. CASE d # c
      BY <1>0, <1>2, <2>2, CallInvKept DEF UpdateBlock, TypeOK
    <2> QED
      BY <2>1, <2>2
  <1>3. ASSUME NEW d \in Clients, Finish(d) PROVE CallInv(c)'
    BY <1>0, <1>3, FinishInv, CallInvKept DEF Finish, TypeOK
  <1>4. ASSUME NEW d \in Clients, HandleTransactionError(d), st[d] # "idle"
        PROVE  CallInv(c)'
    <2>1. CASE d = c
      BY <1>4, <2>1, RetryInv
    <2>2. CASE d # c
      BY <1>0, <1>4, <2>2, CallInvKept DEF HandleTransactionError, Finish, TypeOK
    <2> QED
      BY <2>1, <2>2
  <1>5. ASSUME NEW m \in commits, ServerCommit(m) PROVE CallInv(c)'
    <2>1. CASE m.client = c /\ st[c] = "commit" /\ sent[c] = m
      BY <1>5, <2>1, ServerCommitInv
    <2>2. CASE ~(m.client = c /\ st[c] = "commit" /\ sent[c] = m)
      BY <1>0, <1>5, <2>2, CallInvKept, CommitFacts DEF ServerCommit, TypeOK
    <2> QED
      BY <2>1, <2>2
  <1>6. ASSUME NEW m \in commits, LoseCommit(m) PROVE CallInv(c)'
    BY <1>6, CallInvKept DEF LoseCommit
  <1>7. CASE UNCHANGED vars
    BY <1>7, CallInvKept DEF vars
  <1> QED
    BY <1>1, <1>2, <1>3, <1>4, <1>5, <1>6, <1>7 DEF Next, Attempt, ReadFails,
       PermanentError, Succeed, Conflict, AnswerLost, Killed

LEMMA InitTInv == Init => TInv
  <1> SUFFICES ASSUME Init PROVE TInv
    OBVIOUS
  <1>1. \A p \in Ids : docs[p].version = 0 <=> p \notin Registered
    BY DEF Init
  <1>2. \A c \in Clients : CallInv(c)
    BY NoAnswerAssumption DEF Init, CallInv
  <1> QED
    BY <1>1, <1>2, TypeInit DEF Init, TInv

LEMMA NextTInv == TInv /\ [Next]_vars => TInv'
  <1> SUFFICES ASSUME TInv, [Next]_vars PROVE TInv'
    OBVIOUS
  <1>1. TypeOK'
    BY TypeNext DEF TInv
  <1>2. \A p \in Ids : docs'[p].version = 0 <=> p \notin Registered
    BY DocsGrow DEF TInv
  <1> QED
    BY <1>1, <1>2, CommitsNext, CallsNext DEF TInv

(* The variables of every device and of the collection keep their types, a *)
(* retry never runs the update block more often than MaxAttempts allows,   *)
(* and a waiting device waits for a commit of its own current attempt      *)
(* (transaction_runner.cc:60-106).                                         *)
THEOREM TypeCorrect == Spec => []TypeOK
  BY TypeInit, TypeNext, PTL DEF Spec

LEMMA InvariantHolds == Spec => []TInv
  BY InitTInv, NextTInv, PTL DEF Spec
-----------------------------------------------------------------------------
\* The lists as the abstract log sees them.
lists == [p \in Registered |-> docs[p].prefs]

LEMMA LogInitHolds == Init => Log!LogInit
  BY RegisteredAssumption DEF Init, Log!LogInit

LEMMA LogUnchanged ==
  ASSUME docs' = docs, requested' = requested, acked' = acked
  PROVE  UNCHANGED <<lists, requested, acked>>
  BY DEF lists

LEMMA BeginIsRequest ==
  ASSUME NEW c \in Clients, NEW p \in Ids, NEW t \in Ids, Begin(c, p, t)
  PROVE  Log!Request(p, t)
  BY DEF Begin, Log!Request

LEMMA SucceedIsAcknowledge ==
  ASSUME TInv, NEW c \in Clients, Succeed(c)
  PROVE  Log!Acknowledge(swipe[c][1], swipe[c][2])
  <1>1. /\ swipe[c] \in requested /\ swipe[c] \in Swipes
        /\ swipe[c][1] \in Registered => Has(docs[swipe[c][1]].prefs, swipe[c][2])
    BY DEF TInv, CallInv, TypeOK, Succeed
  <1>2. swipe[c] = <<swipe[c][1], swipe[c][2]>>
    BY <1>1 DEF Swipes
  <1> QED
    BY <1>1, <1>2 DEF Succeed, Log!Acknowledge, Log!Has, Has

LEMMA ServerCommitIsRecord ==
  ASSUME TInv, NEW m \in commits, ServerCommit(m), docs' # docs
  PROVE  Log!Record(m.swipe[1], m.swipe[2])
  <1> DEFINE p == m.swipe[1]
             t == m.swipe[2]
  <1>1. /\ p \in Registered /\ ~Has(docs[p].prefs, t)
        /\ docs' = [docs EXCEPT ![p] = [version |-> docs[p].version + 1,
                                        prefs |-> Append(docs[p].prefs, t)]]
        /\ requested' = requested /\ acked' = acked
    BY ServerCommitDocs DEF ServerCommit
  <1>2. <<p, t>> \in requested /\ p \in Ids
    BY CommitFacts DEF CommitInv
  <1>3. lists' = [lists EXCEPT ![p] = Append(lists[p], t)]
    <2>1. \A q \in Registered :
            docs'[q].prefs = IF q = p THEN Append(docs[p].prefs, t) ELSE docs[q].prefs
      BY <1>1, <1>2, RegisteredAssumption DEF TInv, TypeOK
    <2> QED
      BY <1>1, <2>1 DEF lists
  <1> QED
    BY <1>1, <1>2, <1>3 DEF Log!Record, Log!Has, Has, lists

(* updatePreferences implements the abstract log: for any number of        *)
(* devices that swipe for the same or different profiles, of attempts, of  *)
(* conflicts, lost answers and late commits, lists only grow, each swipe   *)
(* is recorded at most once and an acknowledged swipe of a registered      *)
(* profile is in its list (GaleMatching.swift:25-62).                      *)
THEOREM TransactionImplementsLog == Spec => ImplementsLog
  <1>1. TInv /\ [Next]_vars => [Log!LogNext]_<<lists, requested, acked>>
    <2> SUFFICES ASSUME TInv, [Next]_vars
                 PROVE  Log!LogNext \/ UNCHANGED <<lists, requested, acked>>
      OBVIOUS
    <2>1. ASSUME NEW c \in Clients, NEW p \in Ids, NEW t \in Ids, Begin(c, p, t)
          PROVE  Log!LogNext
      BY <2>1, BeginIsRequest DEF Log!LogNext
    <2>2. ASSUME NEW c \in Clients, Succeed(c) PROVE Log!LogNext
      <3>1. swipe[c] \in Swipes
        BY <2>2 DEF Succeed, TInv, TypeOK
      <3> QED
        BY <2>2, <3>1, SucceedIsAcknowledge DEF Log!LogNext, Swipes
    <2>3. ASSUME NEW m \in commits, ServerCommit(m), docs' # docs PROVE Log!LogNext
      BY <2>3, ServerCommitIsRecord, CommitFacts DEF Log!LogNext
    <2>4. ASSUME NEW m \in commits, ServerCommit(m), docs' = docs
          PROVE  UNCHANGED <<lists, requested, acked>>
      BY <2>4, LogUnchanged DEF ServerCommit
    <2>5. ASSUME docs' = docs /\ requested' = requested /\ acked' = acked
          PROVE  UNCHANGED <<lists, requested, acked>>
      BY <2>5, LogUnchanged
    <2> QED
      BY <2>1, <2>2, <2>3, <2>4, <2>5 DEF Next, vars, Attempt, UpdateBlock,
         ReadFails, PermanentError, Conflict, AnswerLost, Killed, LoseCommit
  <1> QED
    BY <1>1, LogInitHolds, InvariantHolds, PTL DEF Spec, ImplementsLog, Log!LogSpec, lists
=============================================================================
