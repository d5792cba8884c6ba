------------------------ MODULE WritePipelineProofs ------------------------
(***************************************************************************)
(* Theorems about WritePipeline, for any users, any number of writes and   *)
(* any pipeline length: whatever the network, the server, the app and the  *)
(* system do.                                                              *)
(*                                                                         *)
(* Responses carry no batch id, so everything rests on positions. The      *)
(* pipeline is the front of the current user's queue (FrontOf):            *)
(* fill_pipeline asks for the batch after the last one it has, which the   *)
(* ranks of the rows make precise. An open call carries that pipeline      *)
(* (Aligned): responses not yet read are for its first batches, requests   *)
(* not yet served for the next ones. AnswersOK says what the server did    *)
(* for the responses on their way. A user's pending writes are the user's  *)
(* newest (QueueOK), so a batch that is sent again has only pending writes *)
(* to undo. Every action replaces the RemoteStore as a whole; the lemmas   *)
(* follow the operators that compute it.                                   *)
(***************************************************************************)
EXTENDS WritePipeline, FiniteSetTheorems, FunctionTheorems, TLAPS

-----------------------------------------------------------------------------
(* Ranks: what BatchesAfter counts.                                        *)

\* Rows with ids of their own.
Distinct(rows) ==
    /\ IsFiniteSet(rows)
    /\ \A r \in rows : r.id \in Nat
    /\ \A r, s \in rows : r.id = s.id => r = s

RankIn(rows, r) == Cardinality({x \in rows : x.id <= r.id})

(* Rows with ids of their own are numbered 1, 2, 3, ... by their ranks.    *)
LEMMA RanksNumberRows ==
    ASSUME NEW rows, Distinct(rows)
    PROVE  /\ Cardinality(rows) \in Nat
           /\ \A r \in rows : RankIn(rows, r) \in 1 .. Cardinality(rows)
           /\ \A r, s \in rows : r.id < s.id => RankIn(rows, r) < RankIn(rows, s)
           /\ \A i \in 1 .. Cardinality(rows) : \E r \in rows : RankIn(rows, r) = i
<1> DEFINE UpTo(r) == {x \in rows : x.id <= r.id}
           n == Cardinality(rows)
           f == [r \in rows |-> RankIn(rows, r)]
<1>1. n \in Nat
    BY FS_CardinalityType DEF Distinct
<1>2. ASSUME NEW r \in rows
      PROVE  IsFiniteSet(UpTo(r)) /\ Cardinality(UpTo(r)) \in Nat
             /\ Cardinality(UpTo(r)) \in 1 .. n
    <2>1. UpTo(r) \in SUBSET rows /\ r \in UpTo(r)
        BY DEF Distinct
    <2>2. IsFiniteSet(UpTo(r)) /\ Cardinality(UpTo(r)) <= n
        BY <2>1, FS_Subset DEF Distinct
    <2>3. Cardinality(UpTo(r)) \in Nat /\ Cardinality(UpTo(r)) # 0
        BY <2>1, <2>2, FS_CardinalityType, FS_EmptySet
    <2> QED BY <1>1, <2>2, <2>3
<1>2a. \A r \in rows : RankIn(rows, r) = Cardinality(UpTo(r))
    BY DEF RankIn
<1>2b. \A r \in rows : RankIn(rows, r) \in Nat /\ RankIn(rows, r) \in 1 .. n
    <2> HIDE DEF n, UpTo
    <2> QED BY <1>2, <1>2a
<1>3. ASSUME NEW r \in rows, NEW s \in rows, r.id < s.id
      PROVE  RankIn(rows, r) < RankIn(rows, s)
    <2>1. UpTo(r) \in SUBSET UpTo(s)
        BY <1>3 DEF Distinct
    <2>2. s \in UpTo(s) /\ s \notin UpTo(r)
        BY <1>3 DEF Distinct
    <2>3. /\ Cardinality(UpTo(r)) <= Cardinality(UpTo(s))
          /\ Cardinality(UpTo(r)) # Cardinality(UpTo(s))
        BY <1>2, <2>1, <2>2, FS_Subset
    <2>4. RankIn(rows, r) \in Nat /\ RankIn(rows, s) \in Nat
        BY <1>2b
    <2> QED BY <2>3, <2>4 DEF RankIn
<1>4. f \in Injection(rows, 1 .. n)
    <2>1. f \in [rows -> 1 .. n]
        BY <1>2b
    <2>2. \A r, s \in rows : RankIn(rows, r) = RankIn(rows, s) => r = s
        <3> TAKE r, s \in rows
        <3>1. r.id < s.id \/ s.id < r.id \/ r.id = s.id
            BY DEF Distinct
        <3> QED BY <1>2b, <1>3, <3>1 DEF Distinct
    <2> QED BY <2>1, <2>2 DEF Injection, IsInjective
<1>5. IsFiniteSet(1 .. n) /\ Cardinality(1 .. n) = n
    BY <1>1, FS_Interval
<1>6. f \in Surjection(rows, 1 .. n)
    BY <1>4, <1>5, FS_Injection
<1>7. \A i \in 1 .. n : \E r \in rows : f[r] = i
    BY <1>6 DEF Surjection
<1> QED BY <1>1, <1>2b, <1>3, <1>7

(* One row has the highest id.                                             *)
LEMMA HighestRow ==
    ASSUME NEW rows, Distinct(rows), rows # {}
    PROVE  \E r \in rows : \A s \in rows : s.id <= r.id
<1>1. Cardinality(rows) \in Nat /\ Cardinality(rows) # 0
    BY RanksNumberRows, FS_EmptySet DEF Distinct
<1>2. PICK r \in rows : RankIn(rows, r) = Cardinality(rows)
    BY <1>1, RanksNumberRows
<1>3. \A s \in rows : ~ (r.id < s.id)
    BY <1>1, <1>2, RanksNumberRows
<1> QED BY <1>3 DEF Distinct

\* The rows of a user behind n.
Later(rows, u, n) == {r \in rows : r.user = u /\ r.id > n}

(* The batches BatchesAfter returns: rows of the user behind n, in the     *)
(* order of their ids, none left out, and some if there are any.           *)
LEMMA BatchesAfterProps ==
    ASSUME NEW rows, Distinct(rows), NEW u, NEW n \in Nat, NEW k \in Nat,
           NEW B, B = BatchesAfter(rows, u, n, k)
    PROVE  /\ B \in Seq(Later(rows, u, n))
           /\ Len(B) <= k
           /\ \A i, j \in 1 .. Len(B) : i < j => B[i].id < B[j].id
           /\ \A i \in 1 .. Len(B), r \in Later(rows, u, n) :
                  r.id <= B[i].id => \E j \in 1 .. i : B[j] = r
           /\ Later(rows, u, n) # {} /\ k # 0 => B # <<>>
<1> DEFINE later == Later(rows, u, n)
           c == Cardinality(later)
           count == IF c < k THEN c ELSE k
<1>0. Distinct(later)
    <2>1. later \in SUBSET rows
        BY DEF Later
    <2> QED BY <2>1, FS_Subset DEF Distinct
<1> HIDE DEF later
<1>1. c \in Nat /\ count \in Nat /\ count <= c /\ count <= k
    BY <1>0, RanksNumberRows
<1>2. B = [i \in 1 .. count |-> CHOOSE r \in later : RankIn(later, r) = i]
    BY DEF BatchesAfter, RankIn, later, Later
<1>3. \A i \in 1 .. count : B[i] \in later /\ RankIn(later, B[i]) = i
    <2> TAKE i \in 1 .. count
    <2>1. \E r \in later : RankIn(later, r) = i
        <3>1. i \in 1 .. c
            BY <1>1
        <3> QED BY <1>0, <3>1, RanksNumberRows
    <2>2. B[i] = CHOOSE r \in later : RankIn(later, r) = i
        BY <1>2
    <2> QED BY <2>1, <2>2
<1>4. B \in Seq(later) /\ Len(B) = count
    <2>1. B \in [1 .. count -> later]
        BY <1>2, <1>3
    <2> HIDE DEF count
    <2> QED BY <1>1, <2>1
<1>5. ASSUME NEW i \in 1 .. count, NEW r \in later, r.id <= B[i].id
      PROVE  \E j \in 1 .. i : B[j] = r
    <2>1. RankIn(later, r) <= i /\ RankIn(later, r) \in 1 .. c
        <3>1. r.id = B[i].id \/ r.id < B[i].id
            BY <1>0, <1>3, <1>5 DEF Distinct
        <3>2. CASE r.id = B[i].id
            BY <1>0, <1>3, <3>2, RanksNumberRows DEF Distinct
        <3>3. CASE r.id < B[i].id
            <4>1. RankIn(later, r) < RankIn(later, B[i])
                BY <1>0, <1>3, <3>3, RanksNumberRows
            <4> QED BY <1>0, <1>1, <1>3, <4>1, RanksNumberRows
        <3> QED BY <3>1, <3>2, <3>3
    <2> DEFINE j == RankIn(later, r)
    <2>2. j \in 1 .. i /\ j \in 1 .. count
        BY <1>1, <2>1
    <2>3. B[j] \in later /\ RankIn(later, B[j]) = j
        BY <1>3, <2>2
    <2>4. B[j].id = r.id
        <3>1. ~(B[j].id < r.id) /\ ~(r.id < B[j].id)
            BY <1>0, <1>1, <2>1, <2>3, RanksNumberRows
        <3> QED BY <1>0, <2>3, <3>1 DEF Distinct
    <2> QED BY <1>0, <2>2, <2>3, <2>4 DEF Distinct
<1>6. ASSUME NEW i \in 1 .. count, NEW j \in 1 .. count, i < j
      PROVE  B[i].id < B[j].id
    <2>1. ~(B[j].id < B[i].id) /\ B[j].id # B[i].id
        BY <1>0, <1>1, <1>3, <1>6, RanksNumberRows DEF Distinct
    <2> QED BY <1>0, <1>3, <2>1 DEF Distinct
<1>7. later # {} /\ k # 0 => B # <<>>
    <2>1. later # {} => c # 0
        BY <1>0, FS_EmptySet DEF Distinct
    <2> QED BY <1>1, <1>4, <2>1
<1> QED BY <1>1, <1>4, <1>5, <1>6, <1>7 DEF later

(* waitForPendingWrites takes the highest id there is.                     *)
LEMMA HighestIdProps ==
    ASSUME NEW rows, Distinct(rows), rows # {}
    PROVE  LET h == GetHighestUnacknowledgedBatchId(rows)
           IN  (\E r \in rows : r.id = h) /\ (\A r \in rows : r.id <= h)
<1> DEFINE ids == {r.id : r \in rows}
<1>1. \E h \in ids : \A r \in rows : r.id <= h
    BY HighestRow
<1>2. GetHighestUnacknowledgedBatchId(rows) = CHOOSE h \in ids : \A r \in rows : r.id <= h
    BY DEF GetHighestUnacknowledgedBatchId
<1>3. /\ GetHighestUnacknowledgedBatchId(rows) \in ids
      /\ \A r \in rows : r.id <= GetHighestUnacknowledgedBatchId(rows)
    BY <1>1, <1>2
<1> QED BY <1>3

(* The next batch id is beyond every row of every user, and as low as that *)
(* allows.                                                                 *)
LEMMA LoadNextProps ==
    ASSUME NEW rows, Distinct(rows)
    PROVE  /\ LoadNextBatchId(rows) \in Nat \ {0}
           /\ \A r \in rows : r.id < LoadNextBatchId(rows)
           /\ LoadNextBatchId(rows) = 1 \/ \E r \in rows : LoadNextBatchId(rows) = r.id + 1
<1> DEFINE ids == {r.id : r \in rows} \union {0}
           m == CHOOSE h \in ids : \A r \in rows : r.id <= h
<1>1. \E h \in ids : \A r \in rows : r.id <= h
    BY HighestRow
<1>2. m \in ids /\ \A r \in rows : r.id <= m
    BY <1>1
<1>3. LoadNextBatchId(rows) = 1 + m
    BY DEF LoadNextBatchId
<1>4. m \in Nat /\ (m = 0 \/ \E r \in rows : m = r.id)
    BY <1>2 DEF Distinct
<1> HIDE DEF m
<1> QED BY <1>2, <1>3, <1>4 DEF Distinct

-----------------------------------------------------------------------------
(* The invariant of the RemoteStore.                                       *)

Streams == {"Initial", "Starting", "Backoff", "Open", "Error"}

Calls(W) == [up : Seq(W), down : Seq(W), status : Closings \union {"none", "open"},
             readSince : BOOLEAN]

Remotes(W) == [enabled : BOOLEAN, pipeline : Seq(Row), stream : Streams,
               handshake : BOOLEAN, idle : BOOLEAN, closes : Nat,
               requests : SUBSET Nat, call : Calls(W)]

\* How the stream, its close count and its timers go together.
StreamOK(r) ==
    /\ r.requests \subseteq 0 .. r.closes
    /\ r.closes \in r.requests => r.stream = "Starting"
    /\ ~IsOpen(r) => r.call = NoCall /\ ~r.handshake /\ ~r.idle
    /\ IsStarted(r) /\ ~r.handshake => r.pipeline # <<>>
    /\ ~r.enabled => r.pipeline = <<>> /\ ~IsStarted(r)
    /\ r.idle => r.handshake /\ r.pipeline = <<>>
    /\ r.call.readSince => r.call.status \in Closings

\* The pipeline is the front of the user's queue, in its order.
FrontOf(p, u, rows) ==
    /\ Len(p) <= MaxPendingWrites
    /\ \A i \in 1 .. Len(p) : p[i] \in rows /\ p[i].user = u
    /\ \A i, j \in 1 .. Len(p) : i < j => p[i].id < p[j].id
    /\ \A i \in 1 .. Len(p), x \in rows :
           x.user = u /\ x.id <= p[i].id => \E j \in 1 .. i : p[j] = x

\* Before the handshake nothing else is said.
Greeting(c) ==
    \/ c.up = <<Handshake>> /\ c.down = <<>>
    \/ c.up = <<>> /\ c.down = <<Handshake>> /\ c.status # "permanent"

\* After it, the call carries the pipeline.
Aligned(down, up, status, p) ==
    /\ Len(down) + Len(up) <= Len(p)
    /\ \A i \in 1 .. Len(down) : down[i] = p[i].write
    /\ status = "open" =>
           /\ Len(p) = Len(down) + Len(up)
           /\ \A i \in 1 .. Len(up) : up[i] = p[Len(down) + i].write

CallOK(r) ==
    /\ IsOpen(r) /\ ~r.handshake => Greeting(r.call)
    /\ r.handshake => Aligned(r.call.down, r.call.up, r.call.status, r.pipeline)

\* What the server has done for the responses that are on their way: a are
\* the writes it applied, f the ones it refused, c what it shows.
AnswersOK(r, u, a, f, c) ==
    /\ \A i \in 1 .. Len(r.call.down) :
           r.call.down[i] \in a \union {Handshake} /\ r.call.down[i] <= c[u]
    /\ r.handshake /\ r.call.status = "permanent" =>
           /\ Len(r.call.down) < Len(r.pipeline)
           /\ r.pipeline[Len(r.call.down) + 1].write \in f

RemoteOK(r, u, rows, a, f, c) ==
    StreamOK(r) /\ FrontOf(r.pipeline, u, rows) /\ CallOK(r) /\ AnswersOK(r, u, a, f, c)

(* A stream that is not open has nothing on its way.                       *)
LEMMA QuietOK ==
    ASSUME NEW W, NEW r \in Remotes(W), StreamOK(r), ~IsOpen(r),
           NEW u, NEW rows, NEW a, NEW f, NEW c, FrontOf(r.pipeline, u, rows)
    PROVE  RemoteOK(r, u, rows, a, f, c)
<1>1. ~r.handshake /\ r.call.down = <<>> /\ ~IsOpen(r)
    BY DEF StreamOK, NoCall
<1> QED BY <1>1 DEF RemoteOK, CallOK, AnswersOK

(* Stream::Start, at once or after a backoff, leaves the pipeline alone.   *)
LEMMA StartStreamOK ==
    ASSUME NEW W, NEW r \in Remotes(W), StreamOK(r), ~IsStarted(r), r.enabled,
           r.pipeline # <<>>
    PROVE  LET s == StartStream(r)
           IN  /\ s \in Remotes(W) /\ StreamOK(s) /\ ~IsOpen(s)
               /\ s.pipeline = r.pipeline /\ s.enabled
<1> DEFINE s == StartStream(r)
<1>0. ~IsOpen(r) /\ r.stream \in {"Initial", "Error"} /\ r.stream # "Starting"
    BY DEF IsStarted, IsOpen, Remotes, Streams
<1>1. CASE r.stream = "Error"
    <2>1. s = [r EXCEPT !.stream = "Backoff"]
        BY <1>1 DEF StartStream
    <2> QED BY <1>0, <2>1 DEF Remotes, Streams, StreamOK, IsOpen, IsStarted
<1>2. CASE r.stream # "Error"
    <2>1. s = [r EXCEPT !.stream = "Starting", !.requests = @ \union {r.closes}]
        BY <1>2 DEF StartStream
    <2>2. /\ s.stream = "Starting" /\ s.call = r.call
          /\ s.pipeline = r.pipeline /\ s.enabled = r.enabled /\ s.idle = r.idle
          /\ s.handshake = r.handshake /\ s.closes = r.closes
          /\ s.requests = r.requests \union {r.closes} /\ r.closes \in Nat
        BY <2>1 DEF Remotes
    <2>3. r.requests \union {r.closes} \in SUBSET Nat /\ "Starting" \in Streams
        BY DEF Remotes, Streams
    <2>4. s \in Remotes(W)
        BY <2>1, <2>3 DEF Remotes
    <2> QED BY <1>0, <2>2, <2>4 DEF StreamOK, IsOpen, IsStarted
<1> QED BY <1>1, <1>2

(* So does StartIfNeeded, which may do nothing.                            *)
LEMMA StartIfNeededOK ==
    ASSUME NEW W, NEW r \in Remotes(W), StreamOK(r), ~IsOpen(r)
    PROVE  LET s == StartWriteStreamIfNeeded(r)
           IN  /\ s \in Remotes(W) /\ StreamOK(s) /\ ~IsOpen(s)
               /\ s.pipeline = r.pipeline /\ s.enabled = r.enabled
<1>1. CASE ShouldStartWriteStream(r)
    <2>1. r.enabled /\ ~IsStarted(r) /\ r.pipeline # <<>>
        BY <1>1 DEF ShouldStartWriteStream
    <2>2. r.enabled = TRUE /\ StartStream(r).enabled = TRUE
        BY <2>1, StartStreamOK DEF Remotes
    <2> QED BY <1>1, <2>1, <2>2, StartStreamOK DEF StartWriteStreamIfNeeded
<1>2. CASE ~ShouldStartWriteStream(r)
    BY <1>2 DEF StartWriteStreamIfNeeded
<1> QED BY <1>1, <1>2

(* The call of a stream that is not open.                                  *)
LEMMA NoCallType == ASSUME NEW W PROVE NoCall \in Calls(W)
BY DEF NoCall, Calls

(* Stream::Close takes the call and its timers down, and keeps the         *)
(* pipeline.                                                               *)
LEMMA CloseOK ==
    ASSUME NEW W, NEW r \in Remotes(W), StreamOK(r), NEW state \in {"Initial", "Error"}
    PROVE  LET s == Close(r, state)
           IN  /\ s \in Remotes(W) /\ StreamOK(s) /\ s.stream = state
               /\ s.pipeline = r.pipeline /\ s.enabled = r.enabled
<1> DEFINE s == Close(r, state)
<1>0. NoCall \in Calls(W) /\ state \in Streams /\ r.closes \in Nat /\ r.closes + 1 \in Nat
    BY NoCallType DEF Remotes, Streams
<1>1. /\ s.stream = state /\ s.call = NoCall
      /\ s.pipeline = r.pipeline /\ s.enabled = r.enabled /\ ~s.idle
      /\ ~s.handshake /\ s.closes = r.closes + 1
      /\ s.requests = r.requests /\ r.closes \in Nat
    BY <1>0 DEF Remotes, Close
<1>1a. s \in Remotes(W)
    BY <1>0 DEF Remotes, Close
<1>2. s.closes \notin s.requests /\ s.requests \subseteq 0 .. s.closes
    BY <1>1 DEF StreamOK
<1>3. ~IsStarted(s) /\ ~IsOpen(s) /\ ~s.call.readSince
    BY <1>1 DEF IsStarted, IsOpen, NoCall
<1> QED BY <1>1, <1>1a, <1>2, <1>3 DEF StreamOK

(* So does Stream::Stop.                                                   *)
LEMMA StopOK ==
    ASSUME NEW W, NEW r \in Remotes(W), StreamOK(r)
    PROVE  LET s == Stop(r)
           IN  /\ s \in Remotes(W) /\ StreamOK(s) /\ ~IsStarted(s)
               /\ s.pipeline = r.pipeline /\ s.enabled = r.enabled
BY CloseOK DEF Stop, IsStarted

-----------------------------------------------------------------------------
(* Filling the pipeline.                                                   *)

\* Rows as they are on disk: W are the writes made so far, and 0.
RowsOK(rows, W) ==
    /\ Distinct(rows) /\ rows \subseteq Row
    /\ \A x \in rows : x.id # 0 /\ x.write \in W

(* What FillWritePipeline adds continues the front of the queue.           *)
LEMMA FillFront ==
    ASSUME NEW W, NEW rows, RowsOK(rows, W), NEW u, NEW p \in Seq(Row), FrontOf(p, u, rows),
           NEW k \in Nat, k + Len(p) <= MaxPendingWrites, NEW n,
           n = IF p = <<>> THEN 0 ELSE p[Len(p)].id
    PROVE  LET B == BatchesAfter(rows, u, n, k)
           IN  /\ B \in Seq(rows) /\ B \in Seq(Row) /\ p \o B \in Seq(Row)
               /\ FrontOf(p \o B, u, rows)
<1> DEFINE B == BatchesAfter(rows, u, n, k)
           later == Later(rows, u, n)
           q == p \o B
<1>0. n \in Nat /\ Distinct(rows) /\ rows \subseteq Row /\ Len(p) \in Nat
    <2>1. CASE p = <<>>
        BY <2>1 DEF RowsOK
    <2>2. CASE p # <<>>
        <3>1. Len(p) \in 1 .. Len(p) /\ p[Len(p)] \in Row
            BY <2>2
        <3> QED BY <2>2, <3>1 DEF RowsOK, Row
    <2> QED BY <2>1, <2>2
<1> HIDE DEF B, later
<1>1. /\ B \in Seq(later) /\ Len(B) <= k
      /\ \A i, j \in 1 .. Len(B) : i < j => B[i].id < B[j].id
      /\ \A i \in 1 .. Len(B), r \in later :
             r.id <= B[i].id => \E j \in 1 .. i : B[j] = r
    BY <1>0, BatchesAfterProps DEF B, later
<1>2. Len(B) \in Nat /\ \A i \in 1 .. Len(B) : B[i] \in later
    BY <1>1
<1>2a. \A x : x \in later <=> x \in rows /\ x.user = u /\ x.id > n
    BY DEF later, Later
<1>3. B \in Seq(rows) /\ B \in Seq(Row)
    <2>1. later \subseteq rows
        BY <1>2a
    <2>2. B \in [1 .. Len(B) -> rows]
        BY <1>1, <1>2, <2>1
    <2> QED BY <1>0, <1>2, <2>2
<1>4. /\ q \in Seq(Row) /\ Len(q) = Len(p) + Len(B)
      /\ \A i \in 1 .. Len(p) : q[i] = p[i]
      /\ \A i \in 1 .. Len(B) : q[Len(p) + i] = B[i]
    BY <1>3
<1>5. \A i \in 1 .. Len(q) :
          i \in 1 .. Len(p) \/ (i - Len(p) \in 1 .. Len(B) /\ q[i] = B[i - Len(p)])
    BY <1>0, <1>2, <1>4
<1>6. \A i \in 1 .. Len(p) : p[i] \in rows /\ p[i].user = u /\ p[i].id \in Nat /\ p[i].id <= n
    <2> TAKE i \in 1 .. Len(p)
    <2>1. Len(p) \in 1 .. Len(p) /\ n = p[Len(p)].id
        BY <1>0
    <2>2. p[i] \in rows /\ p[i].user = u /\ p[i].id \in Nat
        BY <1>0 DEF FrontOf, Row
    <2>3. CASE i = Len(p)
        BY <1>0, <2>1, <2>2, <2>3
    <2>4. CASE i < Len(p)
        BY <1>0, <2>1, <2>2, <2>4 DEF FrontOf
    <2> QED BY <1>0, <2>2, <2>3, <2>4
<1>7. Len(q) <= MaxPendingWrites
    BY <1>0, <1>1, <1>2, <1>4, PipelineAssumption
<1>8. \A i \in 1 .. Len(q) : q[i] \in rows /\ q[i].user = u
    BY <1>2, <1>2a, <1>4, <1>5, <1>6
<1>9. ASSUME NEW i \in 1 .. Len(q), NEW j \in 1 .. Len(q), i < j
      PROVE  q[i].id < q[j].id
    <2>1. CASE j \in 1 .. Len(p)
        <3>1. i \in 1 .. Len(p)
            BY <1>0, <1>9, <2>1
        <3> QED BY <1>4, <1>9, <2>1, <3>1 DEF FrontOf
    <2>2. CASE j \notin 1 .. Len(p)
        <3>1. j - Len(p) \in 1 .. Len(B) /\ q[j] = B[j - Len(p)]
            BY <1>5, <2>2
        <3>2. q[j].id \in Nat /\ q[j].id > n
            BY <1>0, <1>2, <1>2a, <3>1 DEF Row
        <3>3. CASE i \in 1 .. Len(p)
            BY <1>0, <1>4, <1>6, <3>2, <3>3
        <3>4. CASE i \notin 1 .. Len(p)
            <4>1. i - Len(p) \in 1 .. Len(B) /\ q[i] = B[i - Len(p)]
                BY <1>5, <3>4
            <4>2. i - Len(p) < j - Len(p)
                BY <1>0, <1>4, <1>2, <1>9
            <4> QED BY <1>1, <3>1, <4>1, <4>2
        <3> QED BY <3>3, <3>4
    <2> QED BY <2>1, <2>2
<1>10. ASSUME NEW i \in 1 .. Len(q), NEW x \in rows, x.user = u, x.id <= q[i].id
       PROVE  \E j \in 1 .. i : q[j] = x
    <2>0. x.id \in Nat /\ x.id # 0
        BY DEF RowsOK, Row
    <2>1. CASE i \in 1 .. Len(p)
        <3>1. PICK j \in 1 .. i : p[j] = x
            BY <1>4, <1>10, <2>1 DEF FrontOf
        <3>2. j \in 1 .. Len(p)
            BY <1>0, <2>1
        <3> QED BY <1>4, <3>1, <3>2
    <2>2. CASE i \notin 1 .. Len(p)
        <3>1. i - Len(p) \in 1 .. Len(B) /\ q[i] = B[i - Len(p)]
            BY <1>5, <2>2
        <3>2. CASE x.id > n
            <4>1. x \in later
                BY <1>2a, <1>10, <3>2
            <4>2. PICK j \in 1 .. (i - Len(p)) : B[j] = x
                BY <1>1, <1>10, <3>1, <4>1
            <4>3. j \in 1 .. Len(B) /\ Len(p) + j \in 1 .. i
                BY <1>0, <1>2, <3>1
            <4> QED BY <1>4, <4>2, <4>3
        <3>3. CASE x.id <= n
            <4>1. p # <<>>
                BY <2>0, <3>3
            <4>2. Len(p) \in 1 .. Len(p) /\ n = p[Len(p)].id
                BY <1>0, <4>1
            <4>3. PICK j \in 1 .. Len(p) : p[j] = x
                BY <1>10, <3>3, <4>2 DEF FrontOf
            <4>4. j \in 1 .. i
                BY <1>0, <2>2
            <4> QED BY <1>4, <4>3, <4>4
        <3> QED BY <1>0, <2>0, <3>2, <3>3
    <2> QED BY <2>1, <2>2
<1>11. FrontOf(q, u, rows)
    BY <1>7, <1>8, <1>9, <1>10 DEF FrontOf
<1> QED BY <1>3, <1>4, <1>11 DEF B

(* The messages of a run of batches, in their order.                       *)
LEMMA WritesOfProps ==
    ASSUME NEW W, NEW B \in Seq(Row), \A i \in 1 .. Len(B) : B[i].write \in W
    PROVE  /\ WritesOf(B) \in Seq(W) /\ Len(WritesOf(B)) = Len(B)
           /\ \A i \in 1 .. Len(B) : WritesOf(B)[i] = B[i].write
           /\ WritesOf(B) = <<>> <=> B = <<>>
<1>1. WritesOf(B) = [i \in 1 .. Len(B) |-> B[i].write] /\ Len(B) \in Nat
    BY DEF WritesOf
<1>2. WritesOf(B) \in [1 .. Len(B) -> W]
    BY <1>1
<1>3. WritesOf(B) \in Seq(W) /\ Len(WritesOf(B)) = Len(B)
    BY <1>1, <1>2
<1> QED BY <1>1, <1>3

(* What a concatenation holds.                                             *)
LEMMA ConcatProps ==
    ASSUME NEW S, NEW s \in Seq(S), NEW t \in Seq(S)
    PROVE  /\ s \o t \in Seq(S) /\ Len(s \o t) = Len(s) + Len(t)
           /\ \A i \in 1 .. Len(s) : (s \o t)[i] = s[i]
           /\ \A i \in 1 .. Len(t) : (s \o t)[Len(s) + i] = t[i]
OBVIOUS

(* Messages that continue the pipeline keep the call aligned with it.      *)
LEMMA WriteAligned ==
    ASSUME NEW W, NEW down \in Seq(W), NEW up \in Seq(W), NEW status,
           NEW p \in Seq(Row), NEW B \in Seq(Row), NEW m \in Seq(W),
           Aligned(down, up, status, p), Len(m) = Len(B),
           \A i \in 1 .. Len(B) : m[i] = B[i].write
    PROVE  Aligned(down, up \o m, status, p \o B)
<1> DEFINE q == p \o B
           v == up \o m
<1>0. Len(p) \in Nat /\ Len(B) \in Nat /\ Len(up) \in Nat /\ Len(down) \in Nat
    OBVIOUS
<1>1. Len(v) = Len(up) + Len(B)
    <2>1. Len(v) = Len(up) + Len(m)
        BY ConcatProps
    <2> QED BY <2>1
<1>1a. \A i \in 1 .. Len(up) : v[i] = up[i]
    BY ConcatProps
<1>1b. \A i \in 1 .. Len(B) : v[Len(up) + i] = B[i].write
    BY ConcatProps
<1>2. Len(q) = Len(p) + Len(B)
    BY ConcatProps
<1>2a. \A i \in 1 .. Len(p) : q[i] = p[i]
    BY ConcatProps
<1>2b. \A i \in 1 .. Len(B) : q[Len(p) + i] = B[i]
    BY ConcatProps
<1>2c. Len(v) \in Nat /\ Len(q) \in Nat
    BY <1>0, <1>1, <1>2
<1> HIDE DEF q, v
<1>3. Len(down) + Len(v) <= Len(q)
    BY <1>0, <1>1, <1>2 DEF Aligned
<1>4. \A i \in 1 .. Len(down) : down[i] = q[i].write
    <2> TAKE i \in 1 .. Len(down)
    <2>1. down[i] = p[i].write /\ i \in 1 .. Len(p)
        BY <1>0 DEF Aligned
    <2> QED BY <1>2a, <2>1
<1>5. ASSUME status = "open"
      PROVE  /\ Len(q) = Len(down) + Len(v)
             /\ \A i \in 1 .. Len(v) : v[i] = q[Len(down) + i].write
    <2>1. Len(p) = Len(down) + Len(up)
        BY <1>5 DEF Aligned
    <2>2. Len(q) = Len(down) + Len(v)
        BY <1>0, <1>1, <1>2, <1>2c, <2>1
    <2>3. ASSUME NEW i \in 1 .. Len(v)
          PROVE  v[i] = q[Len(down) + i].write
        <3>1. CASE i \in 1 .. Len(up)
            <4>1. v[i] = p[Len(down) + i].write
                BY <1>1a, <1>5, <3>1 DEF Aligned
            <4>2. Len(down) + i \in 1 .. Len(p)
                BY <1>0, <2>1, <3>1
            <4> QED BY <1>2a, <4>1, <4>2
        <3>2. CASE i \notin 1 .. Len(up)
            <4> DEFINE k == i - Len(up)
            <4>1. k \in 1 .. Len(B) /\ i = Len(up) + k /\ Len(down) + i = Len(p) + k
                <5>1. k \in 1 .. Len(B) /\ i = Len(up) + k
                    BY <1>0, <1>1, <3>2
                <5>2. Len(down) + (Len(up) + k) = Len(p) + k
                    BY <1>0, <2>1, <5>1
                <5> QED BY <5>1, <5>2
            <4> HIDE DEF k
            <4>2. v[i] = B[k].write
                BY <1>1b, <4>1
            <4>3. q[Len(down) + i] = B[k]
                BY <1>2b, <4>1
            <4> QED BY <4>2, <4>3
        <3> QED BY <3>1, <3>2
    <2> QED BY <2>2, <2>3
<1>6. Aligned(down, v, status, q)
    BY <1>3, <1>4, <1>5 DEF Aligned
<1> QED BY <1>6 DEF q, v

(* FillWritePipeline keeps everything in order: new batches are sent when  *)
(* and only when the stream has shaken hands, and a stream is started for  *)
(* them when there is none.                                                *)
LEMMA FillOK ==
    ASSUME NEW W, NEW rows, RowsOK(rows, W), NEW u, NEW a, NEW f, NEW c,
           NEW r \in Remotes(W), RemoteOK(r, u, rows, a, f, c)
    PROVE  /\ FillWritePipeline(r, u, rows) \in Remotes(W)
           /\ RemoteOK(FillWritePipeline(r, u, rows), u, rows, a, f, c)
<1> DEFINE B == BatchesAfter(rows, u, LastBatchId(r), Room(r))
           filled == [r EXCEPT !.pipeline = @ \o B]
           sent == IF IsOpen(r) /\ r.handshake THEN Write(filled, WritesOf(B)) ELSE filled
           marked == IF r.enabled /\ sent.pipeline = <<>> THEN MarkIdle(sent) ELSE sent
           p == r.pipeline
           q == p \o B
<1>0. FillWritePipeline(r, u, rows) = StartWriteStreamIfNeeded(marked)
    BY DEF FillWritePipeline
<1>1. /\ p \in Seq(Row) /\ Len(p) \in Nat /\ r.call \in Calls(W) /\ r.enabled \in BOOLEAN
      /\ StreamOK(r) /\ FrontOf(p, u, rows) /\ CallOK(r) /\ AnswersOK(r, u, a, f, c)
    BY DEF Remotes, RemoteOK
<1>2. Room(r) \in Nat /\ Room(r) + Len(p) <= MaxPendingWrites
    <2>1. Len(p) <= MaxPendingWrites /\ (~r.enabled => p = <<>>)
        BY <1>1 DEF FrontOf, StreamOK
    <2>2. CASE r.enabled
        <3>1. Room(r) = MaxPendingWrites - Len(p)
            BY <2>2 DEF Room
        <3> QED BY <1>1, <2>1, <3>1, PipelineAssumption
    <2>3. CASE ~r.enabled
        <3>1. Room(r) = 0 /\ Len(p) = 0
            BY <2>1, <2>3 DEF Room
        <3> QED BY <3>1, PipelineAssumption
    <2> QED BY <2>2, <2>3
<1>3. /\ B \in Seq(rows) /\ B \in Seq(Row) /\ q \in Seq(Row) /\ FrontOf(q, u, rows)
    BY <1>1, <1>2, FillFront DEF LastBatchId
<1>4. ~r.enabled => B = <<>>
    <2>1. ~r.enabled => Room(r) = 0
        BY DEF Room
    <2>2. LastBatchId(r) \in Nat
        <3>1. CASE p = <<>>
            BY <3>1 DEF LastBatchId
        <3>2. CASE p # <<>>
            <4>1. p[Len(p)] \in Row
                BY <1>1, <3>2
            <4> QED BY <3>2, <4>1 DEF LastBatchId, Row
        <3> QED BY <3>1, <3>2
    <2>3. Len(B) <= Room(r)
        BY <1>2, <2>2, BatchesAfterProps DEF RowsOK
    <2> QED BY <1>3, <2>1, <2>3
<1> HIDE DEF B
<1>5. /\ WritesOf(B) \in Seq(W) /\ Len(WritesOf(B)) = Len(B)
      /\ \A i \in 1 .. Len(B) : WritesOf(B)[i] = B[i].write
      /\ WritesOf(B) = <<>> <=> B = <<>>
    <2>1. \A i \in 1 .. Len(B) : B[i].write \in W
        BY <1>3 DEF RowsOK
    <2> QED BY <1>3, <2>1, WritesOfProps
<1>6. /\ filled \in Remotes(W) /\ filled.pipeline = q
      /\ filled.stream = r.stream /\ filled.call = r.call /\ filled.enabled = r.enabled
      /\ filled.idle = r.idle /\ filled.handshake = r.handshake
      /\ filled.closes = r.closes /\ filled.requests = r.requests
    BY <1>3 DEF Remotes
<1>7. (q = <<>> <=> p = <<>> /\ B = <<>>) /\ Len(q) = Len(p) + Len(B)
      /\ \A i \in 1 .. Len(p) : q[i] = p[i]
    BY <1>1, <1>3
<1> HIDE DEF filled, q
<1>8. CASE ~IsOpen(r)
    <2>1. StreamOK(filled) /\ ~IsOpen(filled)
        BY <1>1, <1>4, <1>6, <1>7, <1>8 DEF StreamOK, IsOpen, IsStarted
    <2>2. sent = filled /\ marked = filled
        BY <1>8, <2>1 DEF MarkIdle
    <2>3. LET s == StartWriteStreamIfNeeded(filled)
          IN  s \in Remotes(W) /\ StreamOK(s) /\ ~IsOpen(s) /\ s.pipeline = q
        BY <1>6, <2>1, StartIfNeededOK
    <2> QED BY <1>0, <1>3, <2>2, <2>3, QuietOK DEF q
<1>9. CASE IsOpen(r) /\ ~r.handshake
    <2>1. p # <<>>
        BY <1>1, <1>9 DEF StreamOK, IsOpen, IsStarted
    <2>2. sent = filled /\ marked = filled
        BY <1>6, <1>7, <1>9, <2>1
    <2>3. FillWritePipeline(r, u, rows) = filled
        BY <1>0, <1>6, <1>9, <2>2
        DEF StartWriteStreamIfNeeded, ShouldStartWriteStream, IsStarted, IsOpen
    <2>4. StreamOK(filled) /\ CallOK(filled)
        BY <1>1, <1>4, <1>6, <1>7, <1>9 DEF StreamOK, CallOK, IsOpen, IsStarted
    <2>5. AnswersOK(filled, u, a, f, c)
        BY <1>1, <1>6, <1>9 DEF AnswersOK
    <2> QED BY <1>3, <1>6, <2>3, <2>4, <2>5 DEF RemoteOK, q
<1>10. CASE IsOpen(r) /\ r.handshake
    <2>1. sent \in Remotes(W) /\ sent.pipeline = q /\ sent.stream = r.stream
          /\ sent.enabled = r.enabled /\ sent.handshake = r.handshake
          /\ sent.closes = r.closes /\ sent.requests = r.requests
          /\ sent.call.up = r.call.up \o WritesOf(B) /\ sent.call.down = r.call.down
          /\ sent.call.status = r.call.status /\ sent.call.readSince = r.call.readSince
          /\ (sent.idle => r.idle /\ B = <<>>)
        <3>1. CASE B = <<>>
            <4>1. sent = filled
                BY <1>5, <1>10, <3>1 DEF Write
            <4>2. r.call.up \o WritesOf(B) = r.call.up
                BY <1>1, <1>5, <3>1 DEF Calls
            <4> QED BY <1>6, <3>1, <4>1, <4>2
        <3>2. CASE B # <<>>
            <4>1. sent = [filled EXCEPT !.call.up = @ \o WritesOf(B), !.idle = FALSE]
                BY <1>5, <1>10, <3>2 DEF Write
            <4>2. r.call.up \o WritesOf(B) \in Seq(W)
                BY <1>1, <1>5 DEF Calls
            <4>3. [filled.call EXCEPT !.up = @ \o WritesOf(B)] \in Calls(W)
                BY <1>1, <1>6, <4>2 DEF Calls
            <4>4. sent = [filled EXCEPT !.call = [filled.call EXCEPT !.up = @ \o WritesOf(B)],
                                        !.idle = FALSE]
                BY <4>1
            <4>5. sent \in Remotes(W)
                BY <1>6, <4>3, <4>4 DEF Remotes
            <4>6. /\ sent.pipeline = q /\ sent.stream = r.stream
                  /\ sent.enabled = r.enabled /\ sent.handshake = r.handshake
                  /\ sent.closes = r.closes /\ sent.requests = r.requests /\ ~sent.idle
                  /\ sent.call = [r.call EXCEPT !.up = @ \o WritesOf(B)]
                BY <1>6, <4>4 DEF Remotes
            <4>7. /\ sent.call.up = r.call.up \o WritesOf(B)
                  /\ sent.call.down = r.call.down /\ sent.call.status = r.call.status
                  /\ sent.call.readSince = r.call.readSince
                BY <1>1, <4>6 DEF Calls
            <4> QED BY <4>5, <4>6, <4>7
        <3> QED BY <3>1, <3>2
    <2> HIDE DEF sent
    <2>2. Aligned(sent.call.down, sent.call.up, sent.call.status, q)
        <3>1. Aligned(r.call.down, r.call.up, r.call.status, p)
            BY <1>1, <1>10 DEF CallOK
        <3>2. r.call.down \in Seq(W) /\ r.call.up \in Seq(W)
            BY <1>1 DEF Calls
        <3>3. Aligned(r.call.down, r.call.up \o WritesOf(B), r.call.status, q)
            BY <1>1, <1>3, <1>5, <3>1, <3>2, WriteAligned DEF q
        <3> QED BY <2>1, <3>3
    <2>3. marked \in Remotes(W) /\ marked.pipeline = q /\ marked.stream = r.stream
          /\ marked.enabled = r.enabled /\ marked.handshake = r.handshake
          /\ marked.closes = r.closes /\ marked.requests = r.requests
          /\ marked.call = sent.call /\ (marked.idle => q = <<>>)
        <3>1. CASE q = <<>>
            <4>1. marked = [sent EXCEPT !.idle = TRUE] \/ marked = sent
                BY DEF MarkIdle
            <4> QED BY <2>1, <3>1, <4>1 DEF Remotes
        <3>2. CASE q # <<>>
            <4>1. marked = sent
                BY <2>1, <3>2
            <4>2. ~sent.idle
                BY <1>1, <1>7, <2>1, <3>2 DEF StreamOK
            <4> QED BY <2>1, <4>1, <4>2
        <3> QED BY <3>1, <3>2
    <2> HIDE DEF marked
    <2>4. FillWritePipeline(r, u, rows) = marked
        BY <1>0, <1>10, <2>3
        DEF StartWriteStreamIfNeeded, ShouldStartWriteStream, IsStarted, IsOpen
    <2>5. StreamOK(marked)
        BY <1>1, <1>10, <2>1, <2>3 DEF StreamOK, IsOpen, IsStarted
    <2>6. CallOK(marked)
        BY <1>10, <2>2, <2>3 DEF CallOK
    <2>7. AnswersOK(marked, u, a, f, c)
        <3>1. Len(r.call.down) \in Nat
            BY <1>1 DEF Calls
        <3>2. r.call.status = "permanent" =>
                  Len(r.call.down) + 1 \in 1 .. Len(p) /\ Len(r.call.down) < Len(p) + Len(B)
            BY <1>1, <1>3, <1>10, <3>1 DEF AnswersOK
        <3> QED BY <1>1, <1>7, <1>10, <2>1, <2>3, <3>2 DEF AnswersOK
    <2> QED BY <1>3, <2>3, <2>4, <2>5, <2>6, <2>7 DEF RemoteOK, q
<1> QED BY <1>8, <1>9, <1>10

-----------------------------------------------------------------------------
(* The network going and coming.                                           *)

(* An empty pipeline is the front of any queue.                            *)
LEMMA EmptyFront ==
    ASSUME NEW u, NEW rows
    PROVE  <<>> \in Seq(Row) /\ FrontOf(<<>>, u, rows)
BY PipelineAssumption DEF FrontOf

(* Disabling the network stops the stream and empties the pipeline.        *)
LEMMA DisableOK ==
    ASSUME NEW W, NEW r \in Remotes(W), StreamOK(r)
    PROVE  LET s == DisableNetworkInternal(r)
           IN  /\ s \in Remotes(W) /\ StreamOK(s) /\ ~IsStarted(s)
               /\ s.pipeline = <<>> /\ ~s.enabled
<1> DEFINE off == [r EXCEPT !.enabled = FALSE]
           t == Stop(off)
           s == [t EXCEPT !.pipeline = <<>>]
<1>0. DisableNetworkInternal(r) = s
    BY DEF DisableNetworkInternal
<1>1. /\ off \in Remotes(W) /\ off.stream = r.stream /\ off.pipeline = r.pipeline
      /\ off.call = r.call /\ off.handshake = r.handshake /\ off.idle = r.idle
      /\ off.closes = r.closes /\ off.requests = r.requests /\ off.enabled = FALSE
    BY DEF Remotes
<1> HIDE DEF off
<1>2. CASE IsStarted(r)
    <2>1. t = Close(off, "Initial")
        BY <1>1, <1>2 DEF Stop, IsStarted
    <2>2. t \in Remotes(W) /\ t.stream = "Initial" /\ t.enabled = FALSE /\ t.call = NoCall
          /\ ~t.handshake /\ ~t.idle /\ t.closes = r.closes + 1 /\ t.requests = r.requests
        <3>1. NoCall \in Calls(W) /\ "Initial" \in Streams /\ r.closes \in Nat
              /\ r.closes + 1 \in Nat
            BY NoCallType DEF Remotes, Streams
        <3>2. t \in Remotes(W)
            <4>1. off \in Remotes(W) /\ off.closes + 1 \in Nat
                BY <1>1, <3>1
            <4> QED BY <2>1, <3>1, <4>1 DEF Remotes, Close
        <3> QED BY <1>1, <2>1, <3>1, <3>2 DEF Remotes, Close
    <2>3. r.closes \in Nat /\ t.closes \notin t.requests /\ t.requests \subseteq 0 .. t.closes
        BY <2>2 DEF StreamOK, Remotes
    <2> HIDE DEF t
    <2>3a. s \in Remotes(W)
        <3>1. t \in Remotes(W) /\ <<>> \in Seq(Row)
            BY <2>2
        <3> QED BY <3>1 DEF Remotes
    <2>4. s.stream = "Initial" /\ s.enabled = FALSE /\ s.call = NoCall
          /\ ~s.handshake /\ ~s.idle /\ s.closes = t.closes /\ s.requests = t.requests
          /\ s.pipeline = <<>>
        BY <2>2 DEF Remotes
    <2>5. StreamOK(s) /\ ~IsStarted(s)
        BY <2>3, <2>4 DEF StreamOK, IsOpen, IsStarted, NoCall
    <2> QED BY <1>0, <2>3a, <2>4, <2>5
<1>3. CASE ~IsStarted(r)
    <2>1. t = off
        BY <1>1, <1>3 DEF Stop, IsStarted
    <2>1a. s \in Remotes(W)
        <3>1. off \in Remotes(W) /\ <<>> \in Seq(Row)
            BY <1>1
        <3> QED BY <2>1, <3>1 DEF Remotes
    <2>2. s.stream = r.stream /\ s.enabled = FALSE /\ s.call = r.call
          /\ s.handshake = r.handshake /\ s.idle = r.idle /\ s.closes = r.closes
          /\ s.requests = r.requests /\ s.pipeline = <<>>
        BY <1>1, <2>1 DEF Remotes
    <2> HIDE DEF s
    <2>3. StreamOK(s) /\ ~IsStarted(s)
        BY <1>3, <2>2 DEF StreamOK, IsOpen, IsStarted, NoCall
    <2> QED BY <1>0, <2>1a, <2>2, <2>3 DEF s
<1> QED BY <1>2, <1>3

(* A backoff that is inhibited leaves a stopped stream stopped.            *)
LEMMA InhibitOK ==
    ASSUME NEW W, NEW r \in Remotes(W), StreamOK(r), ~IsStarted(r)
    PROVE  LET s == InhibitBackoff(r)
           IN  /\ s \in Remotes(W) /\ StreamOK(s) /\ ~IsStarted(s)
               /\ s.pipeline = r.pipeline /\ s.enabled = r.enabled
<1> DEFINE s == InhibitBackoff(r)
<1>1. /\ s \in Remotes(W) /\ s.stream = "Initial" /\ s.pipeline = r.pipeline
      /\ s.call = r.call /\ s.handshake = r.handshake /\ s.idle = r.idle
      /\ s.closes = r.closes /\ s.requests = r.requests /\ s.enabled = r.enabled
    BY DEF InhibitBackoff, Remotes, Streams
<1> HIDE DEF s
<1>2. StreamOK(s) /\ ~IsStarted(s)
    BY <1>1 DEF StreamOK, IsOpen, IsStarted
<1> QED BY <1>1, <1>2 DEF s

(* The network comes up on a stopped stream: whoever the user is, the      *)
(* pipeline is filled from that user's queue.                              *)
LEMMA EnableOK ==
    ASSUME NEW W, NEW rows, RowsOK(rows, W), NEW u, NEW a, NEW f, NEW c,
           NEW r \in Remotes(W), StreamOK(r), ~IsStarted(r), r.pipeline = <<>>
    PROVE  /\ EnableNetwork(r, u, rows) \in Remotes(W)
           /\ RemoteOK(EnableNetwork(r, u, rows), u, rows, a, f, c)
<1> DEFINE s == [r EXCEPT !.enabled = TRUE]
<1>1. /\ s \in Remotes(W) /\ s.stream = r.stream /\ s.pipeline = r.pipeline
      /\ s.call = r.call /\ s.handshake = r.handshake /\ s.idle = r.idle
      /\ s.closes = r.closes /\ s.requests = r.requests /\ s.enabled = TRUE
    BY DEF Remotes
<1>0. EnableNetwork(r, u, rows) = FillWritePipeline(s, u, rows)
    BY DEF EnableNetwork
<1> HIDE DEF s
<1>2. StreamOK(s) /\ ~IsOpen(s)
    BY <1>1 DEF StreamOK, IsOpen, IsStarted
<1>3. FrontOf(s.pipeline, u, rows)
    BY <1>1, EmptyFront
<1>4. RemoteOK(s, u, rows, a, f, c)
    BY <1>1, <1>2, <1>3, QuietOK
<1> QED BY <1>0, <1>1, <1>4, FillOK

(* Disabled and enabled again, the store refills its pipeline from the     *)
(* queue.                                                                  *)
LEMMA RestartOK ==
    ASSUME NEW W, NEW rows, RowsOK(rows, W), NEW u, NEW a, NEW f, NEW c,
           NEW r \in Remotes(W), StreamOK(r)
    PROVE  /\ RestartNetwork(r, u, rows) \in Remotes(W)
           /\ RemoteOK(RestartNetwork(r, u, rows), u, rows, a, f, c)
<1> DEFINE d == DisableNetworkInternal(r)
           s == InhibitBackoff(d)
<1>1. d \in Remotes(W) /\ StreamOK(d) /\ ~IsStarted(d) /\ d.pipeline = <<>>
    BY DisableOK
<1> HIDE DEF d
<1>2. s \in Remotes(W) /\ StreamOK(s) /\ ~IsStarted(s) /\ s.pipeline = <<>>
    BY <1>1, InhibitOK
<1>3. RestartNetwork(r, u, rows) = EnableNetwork(s, u, rows)
    BY DEF RestartNetwork, d
<1> HIDE DEF s
<1> QED BY <1>2, <1>3, EnableOK

(* So does the store of a new process.                                     *)
LEMMA NewRemoteOK ==
    ASSUME NEW W, NEW rows, RowsOK(rows, W), NEW u, NEW a, NEW f, NEW c
    PROVE  /\ NewRemoteStore(u, rows) \in Remotes(W)
           /\ RemoteOK(NewRemoteStore(u, rows), u, rows, a, f, c)
<1> DEFINE s == [enabled |-> FALSE, pipeline |-> <<>>, stream |-> "Initial",
                 handshake |-> FALSE, idle |-> FALSE, closes |-> 0,
                 requests |-> {}, call |-> NoCall]
<1>1. s \in Remotes(W)
    BY NoCallType DEF Remotes, Streams
<1>2. StreamOK(s) /\ ~IsStarted(s) /\ s.pipeline = <<>>
    BY DEF StreamOK, IsOpen, IsStarted, NoCall
<1>3. NewRemoteStore(u, rows) = EnableNetwork(s, u, rows)
    BY DEF NewRemoteStore
<1> HIDE DEF s
<1> QED BY <1>1, <1>2, <1>3, EnableOK

-----------------------------------------------------------------------------
(* Requests and responses moving along the call.                           *)

(* What a tail holds.                                                      *)
LEMMA TailProps ==
    ASSUME NEW S, NEW s \in Seq(S), s # <<>>
    PROVE  /\ Len(s) \in Nat \ {0} /\ Head(s) = s[1] /\ Head(s) \in S
           /\ Tail(s) \in Seq(S) /\ Len(Tail(s)) = Len(s) - 1
           /\ \A i \in 1 .. Len(s) - 1 : Tail(s)[i] = s[i + 1]
OBVIOUS

(* What an extended sequence holds.                                        *)
LEMMA AppendProps ==
    ASSUME NEW S, NEW s \in Seq(S), NEW e \in S
    PROVE  /\ Append(s, e) \in Seq(S) /\ Len(Append(s, e)) = Len(s) + 1
           /\ \A i \in 1 .. Len(s) : Append(s, e)[i] = s[i]
           /\ Append(s, e)[Len(s) + 1] = e
OBVIOUS

(* The front of the pipeline is the oldest row of its user; without it the *)
(* rest of the pipeline is the front of the rest of the queue.             *)
LEMMA PopFront ==
    ASSUME NEW u, NEW rows, Distinct(rows), NEW p \in Seq(Row), FrontOf(p, u, rows), p # <<>>
    PROVE  /\ Head(p) \in rows /\ Head(p).user = u
           /\ \A x \in rows : x.user = u => Head(p).id <= x.id
           /\ FrontOf(Tail(p), u, rows \ {Head(p)})
<1> DEFINE t == Tail(p)
           n == Len(p)
<1>0. /\ n \in Nat \ {0} /\ Head(p) = p[1] /\ t \in Seq(Row) /\ Len(t) = n - 1
      /\ \A i \in 1 .. n - 1 : t[i] = p[i + 1]
    BY TailProps
<1> HIDE DEF t, n
<1>1. /\ n <= MaxPendingWrites
      /\ \A i \in 1 .. n : p[i] \in rows /\ p[i].user = u
      /\ \A i, j \in 1 .. n : i < j => p[i].id < p[j].id
      /\ \A i \in 1 .. n, x \in rows :
             x.user = u /\ x.id <= p[i].id => \E j \in 1 .. i : p[j] = x
    BY DEF FrontOf, n
<1>2. 1 \in 1 .. n /\ p[1] \in rows /\ p[1].user = u /\ p[1].id \in Nat
    BY <1>0, <1>1 DEF Distinct
<1>3. ASSUME NEW x \in rows, x.user = u
      PROVE  p[1].id <= x.id
    <2>1. x.id \in Nat
        BY DEF Distinct
    <2>2. CASE x.id <= p[1].id
        <3>1. PICK j \in 1 .. 1 : p[j] = x
            BY <1>1, <1>2, <1>3, <2>2
        <3> QED BY <1>2, <3>1
    <2> QED BY <1>2, <2>1, <2>2
<1>4. \A i \in 1 .. Len(t) : i + 1 \in 1 .. n /\ t[i] = p[i + 1] /\ p[1].id < p[i + 1].id
    <2> TAKE i \in 1 .. Len(t)
    <2>1. i \in 1 .. n - 1 /\ i + 1 \in 1 .. n /\ 1 < i + 1
        BY <1>0
    <2> QED BY <1>0, <1>1, <1>2, <2>1
<1>5. \A i \in 1 .. Len(t) : t[i] \in rows \ {p[1]} /\ t[i].user = u
    BY <1>1, <1>2, <1>4
<1>6. ASSUME NEW i \in 1 .. Len(t), NEW j \in 1 .. Len(t), i < j
      PROVE  t[i].id < t[j].id
    <2>1. i + 1 \in 1 .. n /\ j + 1 \in 1 .. n /\ i + 1 < j + 1
        BY <1>0, <1>6
    <2>2. p[i + 1].id < p[j + 1].id
        BY <1>1, <2>1
    <2> QED BY <1>4, <2>2
<1>7. ASSUME NEW i \in 1 .. Len(t), NEW x \in rows \ {p[1]}, x.user = u, x.id <= t[i].id
      PROVE  \E j \in 1 .. i : t[j] = x
    <2>1. PICK j \in 1 .. i + 1 : p[j] = x
        BY <1>1, <1>4, <1>7
    <2>2. j # 1 /\ j - 1 \in 1 .. i /\ j - 1 \in 1 .. n - 1 /\ (j - 1) + 1 = j
        BY <1>0, <1>7, <2>1
    <2>3. t[j - 1] = x
        BY <1>0, <2>1, <2>2
    <2> QED BY <2>2, <2>3
<1>8. Len(t) <= MaxPendingWrites
    BY <1>0, <1>1, PipelineAssumption
<1>9. FrontOf(t, u, rows \ {p[1]})
    BY <1>5, <1>6, <1>7, <1>8 DEF FrontOf
<1> QED BY <1>0, <1>2, <1>3, <1>9 DEF t

(* A newer row does not disturb the front.                                 *)
LEMMA GrowFront ==
    ASSUME NEW u, NEW rows, NEW p, FrontOf(p, u, rows), NEW row,
           row.id \in Nat, \A x \in rows : x.id \in Nat /\ x.id < row.id
    PROVE  FrontOf(p, u, rows \union {row})
<1>1. \A i \in 1 .. Len(p) : p[i] \in rows /\ ~(row.id <= p[i].id)
    BY DEF FrontOf
<1> QED BY <1>1 DEF FrontOf

(* A response that has been read leaves the call aligned with what         *)
(* remains.                                                                *)
LEMMA PopAligned ==
    ASSUME NEW W, NEW down \in Seq(W), NEW up \in Seq(W), NEW status,
           NEW p \in Seq(Row), Aligned(down, up, status, p), down # <<>>
    PROVE  p # <<>> /\ Aligned(Tail(down), up, status, Tail(p))
<1> DEFINE d == Tail(down)
           t == Tail(p)
<1>0. Len(down) \in Nat \ {0} /\ Len(up) \in Nat /\ Len(p) \in Nat
    BY TailProps
<1>1. p # <<>>
    BY <1>0 DEF Aligned
<1>2. Len(d) = Len(down) - 1 /\ Len(t) = Len(p) - 1
    BY <1>1, TailProps
<1>3. /\ \A i \in 1 .. Len(down) - 1 : d[i] = down[i + 1]
      /\ \A i \in 1 .. Len(p) - 1 : t[i] = p[i + 1]
    BY <1>1, TailProps
<1> HIDE DEF d, t
<1>4. Len(d) + Len(up) <= Len(t)
    BY <1>0, <1>2 DEF Aligned
<1>5. \A i \in 1 .. Len(d) : d[i] = t[i].write
    <2> TAKE i \in 1 .. Len(d)
    <2>1. i \in 1 .. Len(down) - 1 /\ i + 1 \in 1 .. Len(down) /\ i \in 1 .. Len(p) - 1
        BY <1>0, <1>2 DEF Aligned
    <2>2. down[i + 1] = p[i + 1].write
        BY <2>1 DEF Aligned
    <2> QED BY <1>3, <2>1, <2>2
<1>6. ASSUME status = "open"
      PROVE  /\ Len(t) = Len(d) + Len(up)
             /\ \A i \in 1 .. Len(up) : up[i] = t[Len(d) + i].write
    <2>1. Len(p) = Len(down) + Len(up)
        BY <1>6 DEF Aligned
    <2>2. Len(t) = Len(d) + Len(up)
        BY <1>0, <1>2, <2>1
    <2>3. ASSUME NEW i \in 1 .. Len(up)
          PROVE  up[i] = t[Len(d) + i].write
        <3>1. Len(d) + i \in 1 .. Len(p) - 1 /\ (Len(d) + i) + 1 = Len(down) + i
            BY <1>0, <1>2, <2>1
        <3>2. t[Len(d) + i] = p[Len(down) + i]
            BY <1>3, <3>1
        <3> QED BY <1>6, <3>2 DEF Aligned
    <2> QED BY <2>2, <2>3
<1>7. Aligned(d, up, status, t)
    BY <1>4, <1>5, <1>6 DEF Aligned
<1> QED BY <1>1, <1>7 DEF d, t

(* The request at hand is for the batch behind the ones answered, and the  *)
(* call stays aligned when it is answered.                                 *)
LEMMA ShiftAligned ==
    ASSUME NEW W, NEW down \in Seq(W), NEW up \in Seq(W),
           NEW p \in Seq(Row), Aligned(down, up, "open", p), up # <<>>
    PROVE  /\ Len(down) + 1 \in 1 .. Len(p)
           /\ Head(up) = p[Len(down) + 1].write
           /\ Len(down) + Len(Tail(up)) <= Len(p)
           /\ Aligned(Append(down, Head(up)), Tail(up), "open", p)
<1> DEFINE d == Append(down, Head(up))
           v == Tail(up)
<1>0. Len(up) \in Nat \ {0} /\ Len(down) \in Nat /\ Len(p) \in Nat
      /\ Head(up) = up[1] /\ Head(up) \in W
    BY TailProps
<1>1. Len(v) = Len(up) - 1 /\ Len(d) = Len(down) + 1
    BY <1>0, TailProps, AppendProps
<1>2. \A i \in 1 .. Len(up) - 1 : v[i] = up[i + 1]
    BY TailProps
<1>3. /\ \A i \in 1 .. Len(down) : d[i] = down[i]
      /\ d[Len(down) + 1] = Head(up)
    BY <1>0, AppendProps
<1> HIDE DEF d, v
<1>4. Len(p) = Len(down) + Len(up)
    BY DEF Aligned
<1>5. Len(down) + 1 \in 1 .. Len(p) /\ 1 \in 1 .. Len(up)
    BY <1>0, <1>4
<1>6. Head(up) = p[Len(down) + 1].write
    BY <1>0, <1>5 DEF Aligned
<1>7. Len(p) = Len(d) + Len(v) /\ Len(down) + Len(v) <= Len(p) /\ Len(d) + Len(v) <= Len(p)
    BY <1>0, <1>1, <1>4
<1>8. \A i \in 1 .. Len(d) : d[i] = p[i].write
    <2> TAKE i \in 1 .. Len(d)
    <2>1. i \in 1 .. Len(down) \/ i = Len(down) + 1
        BY <1>0, <1>1
    <2> QED BY <1>3, <1>6, <2>1 DEF Aligned
<1>9. \A i \in 1 .. Len(v) : v[i] = p[Len(d) + i].write
    <2> TAKE i \in 1 .. Len(v)
    <2>1. i \in 1 .. Len(up) - 1 /\ i + 1 \in 1 .. Len(up)
          /\ Len(down) + (i + 1) = Len(d) + i
        BY <1>0, <1>1
    <2>2. up[i + 1] = p[Len(down) + (i + 1)].write
        BY <2>1 DEF Aligned
    <2> QED BY <1>2, <2>1, <2>2
<1>10. Aligned(d, v, "open", p)
    BY <1>7, <1>8, <1>9 DEF Aligned
<1> QED BY <1>5, <1>6, <1>7, <1>10 DEF d, v

-----------------------------------------------------------------------------
(* What the steps of the stream and of the server do to the RemoteStore.   *)

\* Newer ids are newer writes, and no write has the number of the handshake.
InOrder(rows) ==
    /\ \A x \in rows : x.write \in Nat \ {0}
    /\ \A x, y \in rows : x.id < y.id => x.write < y.write

(* Only an open stream has messages, a handshake or an idle timer.         *)
LEMMA OnlyOpenCalls ==
    ASSUME NEW W, NEW r \in Remotes(W), StreamOK(r),
           r.call.up # <<>> \/ r.call.down # <<>> \/ r.call.status # "none" \/ r.handshake
           \/ r.idle
    PROVE  IsOpen(r)
BY DEF StreamOK, NoCall

(* The types of a call and of the pipeline.                                *)
LEMMA CallFields ==
    ASSUME NEW W, NEW r \in Remotes(W)
    PROVE  /\ r.call \in Calls(W) /\ r.call.up \in Seq(W) /\ r.call.down \in Seq(W)
           /\ r.pipeline \in Seq(Row) /\ Len(r.pipeline) \in Nat
           /\ Len(r.call.up) \in Nat /\ Len(r.call.down) \in Nat
<1>1. r.call \in Calls(W) /\ r.pipeline \in Seq(Row)
    BY DEF Remotes
<1>2. r.call.up \in Seq(W) /\ r.call.down \in Seq(W)
    BY <1>1 DEF Calls
<1> QED BY <1>1, <1>2

\* Everything but the call stays.
SameButCall(s, r) ==
    /\ s.enabled = r.enabled /\ s.pipeline = r.pipeline /\ s.stream = r.stream
    /\ s.handshake = r.handshake /\ s.idle = r.idle
    /\ s.closes = r.closes /\ s.requests = r.requests

(* What happens on the call leaves the stream in order.                    *)
LEMMA SameButCallOK ==
    ASSUME NEW r, NEW s, StreamOK(r), IsOpen(r), SameButCall(s, r),
           s.call.readSince => s.call.status \in Closings
    PROVE  StreamOK(s) /\ IsOpen(s)
BY DEF StreamOK, SameButCall, IsOpen, IsStarted

(* The handshake is answered before anything else is sent.                 *)
LEMMA ShakeOK ==
    ASSUME NEW W, Handshake \in W, NEW rows, InOrder(rows), NEW u, NEW a, NEW f, NEW c,
           c[u] \in Nat,
           NEW r \in Remotes(W), RemoteOK(r, u, rows, a, f, c),
           r.call.status = "open", r.call.up # <<>>, Head(r.call.up) = Handshake
    PROVE  LET s == [r EXCEPT !.call.up = Tail(@), !.call.down = Append(@, Handshake)]
           IN  s \in Remotes(W) /\ RemoteOK(s, u, rows, a, f, c)
<1> DEFINE s == [r EXCEPT !.call.up = Tail(@), !.call.down = Append(@, Handshake)]
<1>0. /\ StreamOK(r) /\ FrontOf(r.pipeline, u, rows) /\ CallOK(r) /\ IsOpen(r)
    BY OnlyOpenCalls DEF RemoteOK
<1>1. /\ r.call \in Calls(W) /\ r.call.up \in Seq(W) /\ r.call.down \in Seq(W)
      /\ r.pipeline \in Seq(Row)
    BY CallFields
<1>2. ~r.handshake
    <2> SUFFICES ASSUME r.handshake PROVE FALSE
        OBVIOUS
    <2>1. Aligned(r.call.down, r.call.up, "open", r.pipeline)
        BY <1>0 DEF CallOK
    <2>2. /\ Len(r.call.down) + 1 \in 1 .. Len(r.pipeline)
          /\ Head(r.call.up) = r.pipeline[Len(r.call.down) + 1].write
        BY <1>1, <2>1, ShiftAligned
    <2>3. r.pipeline[Len(r.call.down) + 1] \in rows
        BY <1>0, <2>2 DEF FrontOf
    <2> QED BY <2>2, <2>3 DEF InOrder, Handshake
<1>3. r.call.up = <<Handshake>> /\ r.call.down = <<>>
    BY <1>0, <1>2 DEF CallOK, Greeting
<1>4. s = [r EXCEPT !.call = [r.call EXCEPT !.up = <<>>, !.down = <<Handshake>>]]
    <2>1. Tail(r.call.up) = <<>> /\ Append(r.call.down, Handshake) = <<Handshake>>
        BY <1>3
    <2> QED BY <2>1
<1>5. [r.call EXCEPT !.up = <<>>, !.down = <<Handshake>>] \in Calls(W)
    <2>1. <<>> \in Seq(W) /\ <<Handshake>> \in Seq(W)
        OBVIOUS
    <2> QED BY <1>1, <2>1 DEF Calls
<1>6. s \in Remotes(W)
    BY <1>4, <1>5 DEF Remotes
<1>7. SameButCall(s, r) /\ s.call = [r.call EXCEPT !.up = <<>>, !.down = <<Handshake>>]
    BY <1>4 DEF Remotes, SameButCall
<1> HIDE DEF s
<1>8. s.call.up = <<>> /\ s.call.down = <<Handshake>> /\ s.call.status = "open"
      /\ s.call.readSince = r.call.readSince
    BY <1>1, <1>7 DEF Calls
<1>9. StreamOK(s) /\ IsOpen(s)
    BY <1>0, <1>7, <1>8, SameButCallOK DEF StreamOK
<1>10. CallOK(s) /\ ~s.handshake
    BY <1>2, <1>7, <1>8 DEF CallOK, Greeting, SameButCall
<1>11. AnswersOK(s, u, a, f, c)
    BY <1>8, <1>10 DEF AnswersOK, Handshake
<1> QED BY <1>0, <1>6, <1>7, <1>9, <1>10, <1>11 DEF RemoteOK, SameButCall, s

\* The write at hand: the batch of the pipeline behind the answered ones.
AtHand(r) == r.pipeline[Len(r.call.down) + 1]

(* The request at hand is a write: it is the pipeline's next batch.        *)
LEMMA AtHandProps ==
    ASSUME NEW W, NEW rows, NEW u, NEW a, NEW f, NEW c,
           NEW r \in Remotes(W), RemoteOK(r, u, rows, a, f, c),
           r.call.status = "open", r.call.up # <<>>, Head(r.call.up) # Handshake
    PROVE  /\ IsOpen(r) /\ r.handshake
           /\ Aligned(r.call.down, r.call.up, "open", r.pipeline)
           /\ Len(r.call.down) + 1 \in 1 .. Len(r.pipeline)
           /\ AtHand(r) \in rows /\ AtHand(r).user = u
           /\ Head(r.call.up) = AtHand(r).write
           /\ Head(r.call.up) \in W
           /\ Len(r.call.down) + Len(Tail(r.call.up)) <= Len(r.pipeline)
           /\ Aligned(Append(r.call.down, Head(r.call.up)), Tail(r.call.up), "open", r.pipeline)
<1>0. /\ StreamOK(r) /\ FrontOf(r.pipeline, u, rows) /\ CallOK(r) /\ IsOpen(r)
    BY OnlyOpenCalls DEF RemoteOK
<1>1. /\ r.call \in Calls(W) /\ r.call.up \in Seq(W) /\ r.call.down \in Seq(W)
      /\ r.pipeline \in Seq(Row) /\ Head(r.call.up) \in W
    BY CallFields, TailProps
<1>2. r.handshake
    BY <1>0 DEF CallOK, Greeting
<1>3. Aligned(r.call.down, r.call.up, "open", r.pipeline)
    BY <1>0, <1>2 DEF CallOK
<1>4. /\ Len(r.call.down) + 1 \in 1 .. Len(r.pipeline)
      /\ Head(r.call.up) = AtHand(r).write
      /\ Len(r.call.down) + Len(Tail(r.call.up)) <= Len(r.pipeline)
      /\ Aligned(Append(r.call.down, Head(r.call.up)), Tail(r.call.up), "open", r.pipeline)
    BY <1>1, <1>3, ShiftAligned DEF AtHand
<1>5. AtHand(r) \in rows /\ AtHand(r).user = u
    BY <1>0, <1>4 DEF FrontOf, AtHand
<1> QED BY <1>0, <1>1, <1>2, <1>3, <1>4, <1>5

(* A write takes effect: everything answered before it is older.           *)
LEMMA ApplyOK ==
    ASSUME NEW W, NEW rows, rows \subseteq Row, InOrder(rows), NEW u, NEW a, NEW f,
           NEW c, NEW d,
           NEW r \in Remotes(W), RemoteOK(r, u, rows, a, f, c),
           r.call.status = "open", r.call.up # <<>>, Head(r.call.up) # Handshake,
           d[u] = Head(r.call.up)
    PROVE  LET s == [r EXCEPT !.call.up = Tail(@), !.call.down = Append(@, Head(r.call.up))]
           IN  /\ s \in Remotes(W)
               /\ RemoteOK(s, u, rows, a \union {Head(r.call.up)}, f, d)
<1> DEFINE w == Head(r.call.up)
           s == [r EXCEPT !.call.up = Tail(@), !.call.down = Append(@, w)]
           call == [r.call EXCEPT !.up = Tail(@), !.down = Append(@, w)]
<1>0. /\ StreamOK(r) /\ FrontOf(r.pipeline, u, rows) /\ AnswersOK(r, u, a, f, c)
    BY DEF RemoteOK
<1>1. /\ r.call \in Calls(W) /\ r.call.up \in Seq(W) /\ r.call.down \in Seq(W)
      /\ r.pipeline \in Seq(Row) /\ Len(r.call.down) \in Nat
    BY CallFields
<1>1a. /\ IsOpen(r) /\ r.handshake
       /\ Aligned(r.call.down, r.call.up, "open", r.pipeline)
       /\ Len(r.call.down) + 1 \in 1 .. Len(r.pipeline)
       /\ AtHand(r) \in rows /\ AtHand(r).user = u
       /\ Head(r.call.up) = AtHand(r).write
       /\ Head(r.call.up) \in W
       /\ Len(r.call.down) + Len(Tail(r.call.up)) <= Len(r.pipeline)
       /\ Aligned(Append(r.call.down, Head(r.call.up)), Tail(r.call.up), "open", r.pipeline)
    <2> HIDE DEF s, call
    <2> QED BY AtHandProps
<1>2. /\ IsOpen(r) /\ r.handshake /\ w \in W
      /\ Aligned(r.call.down, r.call.up, "open", r.pipeline)
      /\ Len(r.call.down) + 1 \in 1 .. Len(r.pipeline)
      /\ AtHand(r) \in rows /\ w = AtHand(r).write
      /\ Aligned(Append(r.call.down, w), Tail(r.call.up), "open", r.pipeline)
    BY <1>1a
<1>3. Append(r.call.down, w) \in Seq(W) /\ Tail(r.call.up) \in Seq(W)
    BY <1>1, <1>2, TailProps, AppendProps
<1> HIDE DEF w
<1>4. call \in Calls(W) /\ call.up = Tail(r.call.up) /\ call.down = Append(r.call.down, w)
      /\ call.status = "open" /\ call.readSince = r.call.readSince
    BY <1>1, <1>3 DEF Calls
<1>5. s = [r EXCEPT !.call = call]
    OBVIOUS
<1> HIDE DEF call
<1>6. s \in Remotes(W) /\ SameButCall(s, r) /\ s.call = call
    BY <1>4, <1>5 DEF Remotes, SameButCall
<1> HIDE DEF s
<1>7. StreamOK(s) /\ IsOpen(s)
    BY <1>0, <1>2, <1>4, <1>6, SameButCallOK DEF StreamOK
<1>8. CallOK(s)
    BY <1>2, <1>4, <1>6 DEF CallOK, SameButCall
<1>9. w \in Nat /\ \A i \in 1 .. Len(r.call.down) : r.call.down[i] <= w
    <2>1. w \in Nat
        BY <1>2 DEF InOrder
    <2>2. ASSUME NEW i \in 1 .. Len(r.call.down)
          PROVE  r.call.down[i] <= w
        <3>1. r.call.down[i] = r.pipeline[i].write
            BY <1>2 DEF Aligned
        <3>2. i \in 1 .. Len(r.pipeline) /\ i < Len(r.call.down) + 1
            BY <1>1, <1>2
        <3>3. r.pipeline[i] \in rows /\ r.pipeline[i].id < AtHand(r).id
            BY <1>0, <1>2, <3>2 DEF FrontOf, AtHand
        <3>4. r.pipeline[i].write < AtHand(r).write /\ r.pipeline[i].write \in Nat
            BY <1>2, <3>3 DEF InOrder
        <3> QED BY <1>2, <2>1, <3>1, <3>4
    <2> QED BY <2>1, <2>2
<1>10. AnswersOK(s, u, a \union {w}, f, d)
    <2>1. ASSUME NEW i \in 1 .. Len(s.call.down)
          PROVE  s.call.down[i] \in a \union {w} \union {Handshake} /\ s.call.down[i] <= d[u]
        <3>1. i \in 1 .. Len(r.call.down) \/ i = Len(r.call.down) + 1
            BY <1>1, <1>2, <1>4, <1>6, AppendProps
        <3>2. CASE i \in 1 .. Len(r.call.down)
            <4>1. s.call.down[i] = r.call.down[i]
                BY <1>1, <1>2, <1>4, <1>6, <3>2, AppendProps
            <4> QED BY <1>0, <1>9, <3>2, <4>1 DEF AnswersOK, w
        <3>3. CASE i = Len(r.call.down) + 1
            <4>1. s.call.down[i] = w
                BY <1>1, <1>2, <1>4, <1>6, <3>3, AppendProps
            <4> QED BY <1>9, <4>1 DEF w
        <3> QED BY <3>1, <3>2, <3>3
    <2>2. s.call.status # "permanent"
        BY <1>4, <1>6
    <2> QED BY <2>1, <2>2 DEF AnswersOK
<1>11. RemoteOK(s, u, rows, a \union {w}, f, d)
    BY <1>0, <1>6, <1>7, <1>8, <1>10 DEF RemoteOK, SameButCall
<1> QED BY <1>6, <1>11 DEF s, w

(* A write is refused: the call ends, and the batch behind the answered    *)
(* ones is the refused one.                                                *)
LEMMA RefuseOK ==
    ASSUME NEW W, NEW rows, NEW u, NEW a, NEW f, NEW c,
           NEW r \in Remotes(W), RemoteOK(r, u, rows, a, f, c),
           r.call.status = "open", r.call.up # <<>>, Head(r.call.up) # Handshake
    PROVE  LET s == [r EXCEPT !.call.up = Tail(@), !.call.status = "permanent"]
           IN  /\ s \in Remotes(W)
               /\ RemoteOK(s, u, rows, a, f \union {Head(r.call.up)}, c)
<1> DEFINE w == Head(r.call.up)
           s == [r EXCEPT !.call.up = Tail(@), !.call.status = "permanent"]
           call == [r.call EXCEPT !.up = Tail(@), !.status = "permanent"]
<1>0. /\ StreamOK(r) /\ FrontOf(r.pipeline, u, rows) /\ AnswersOK(r, u, a, f, c)
    BY DEF RemoteOK
<1>1. /\ r.call \in Calls(W) /\ r.call.up \in Seq(W) /\ r.call.down \in Seq(W)
      /\ r.pipeline \in Seq(Row) /\ Len(r.call.down) \in Nat /\ Len(r.pipeline) \in Nat
    BY CallFields
<1>1a. /\ IsOpen(r) /\ r.handshake
       /\ Aligned(r.call.down, r.call.up, "open", r.pipeline)
       /\ Len(r.call.down) + 1 \in 1 .. Len(r.pipeline)
       /\ AtHand(r) \in rows /\ AtHand(r).user = u
       /\ Head(r.call.up) = AtHand(r).write
       /\ Head(r.call.up) \in W
       /\ Len(r.call.down) + Len(Tail(r.call.up)) <= Len(r.pipeline)
       /\ Aligned(Append(r.call.down, Head(r.call.up)), Tail(r.call.up), "open", r.pipeline)
    <2> HIDE DEF s, call
    <2> QED BY AtHandProps
<1>2. /\ IsOpen(r) /\ r.handshake
      /\ Aligned(r.call.down, r.call.up, "open", r.pipeline)
      /\ Len(r.call.down) + 1 \in 1 .. Len(r.pipeline)
      /\ w = AtHand(r).write
      /\ Len(r.call.down) + Len(Tail(r.call.up)) <= Len(r.pipeline)
    BY <1>1a
<1>3. Tail(r.call.up) \in Seq(W)
    BY <1>1, TailProps
<1> HIDE DEF w
<1>4. call \in Calls(W) /\ call.up = Tail(r.call.up) /\ call.down = r.call.down
      /\ call.status = "permanent" /\ call.readSince = r.call.readSince
    BY <1>1, <1>3 DEF Calls, Closings
<1>5. s = [r EXCEPT !.call = call]
    OBVIOUS
<1> HIDE DEF call
<1>6. s \in Remotes(W) /\ SameButCall(s, r) /\ s.call = call
    BY <1>4, <1>5 DEF Remotes, SameButCall
<1> HIDE DEF s
<1>7. StreamOK(s) /\ IsOpen(s)
    BY <1>0, <1>2, <1>4, <1>6, SameButCallOK DEF Closings
<1>8. CallOK(s)
    <2>1. Aligned(r.call.down, Tail(r.call.up), "permanent", r.pipeline)
        BY <1>2 DEF Aligned
    <2> QED BY <1>2, <1>4, <1>6, <2>1 DEF CallOK, SameButCall
<1>9. AnswersOK(s, u, a, f \union {w}, c)
    <2>1. Len(r.call.down) < Len(r.pipeline)
        BY <1>1, <1>2
    <2> QED BY <1>0, <1>2, <1>4, <1>6, <2>1 DEF AnswersOK, SameButCall, AtHand
<1>10. RemoteOK(s, u, rows, a, f \union {w}, c)
    BY <1>0, <1>6, <1>7, <1>8, <1>9 DEF RemoteOK, SameButCall
<1> QED BY <1>6, <1>10 DEF s, w

(* The server ends the call.  A permanent error is about the handshake.    *)
LEMMA ServerClosesOK ==
    ASSUME NEW W, NEW rows, InOrder(rows), NEW u, NEW a, NEW f, NEW c,
           NEW r \in Remotes(W), RemoteOK(r, u, rows, a, f, c), NEW status \in Closings,
           r.call.status = "open",
           status = "permanent" => r.call.up # <<>> /\ Head(r.call.up) = Handshake
    PROVE  LET s == [r EXCEPT !.call.status = status]
           IN  s \in Remotes(W) /\ RemoteOK(s, u, rows, a, f, c)
<1> DEFINE s == [r EXCEPT !.call.status = status]
           call == [r.call EXCEPT !.status = status]
<1>0. /\ StreamOK(r) /\ FrontOf(r.pipeline, u, rows) /\ AnswersOK(r, u, a, f, c)
      /\ CallOK(r) /\ IsOpen(r)
    BY OnlyOpenCalls DEF RemoteOK
<1>1. /\ r.call \in Calls(W) /\ r.call.up \in Seq(W) /\ r.call.down \in Seq(W)
      /\ r.pipeline \in Seq(Row)
    BY CallFields
<1>2. status = "permanent" => ~r.handshake
    <2> SUFFICES ASSUME status = "permanent", r.handshake PROVE FALSE
        OBVIOUS
    <2>1. Aligned(r.call.down, r.call.up, "open", r.pipeline)
        BY <1>0 DEF CallOK
    <2>2. /\ Len(r.call.down) + 1 \in 1 .. Len(r.pipeline)
          /\ Head(r.call.up) = r.pipeline[Len(r.call.down) + 1].write
        BY <1>1, <2>1, ShiftAligned
    <2>3. r.pipeline[Len(r.call.down) + 1] \in rows
        BY <1>0, <2>2 DEF FrontOf
    <2> QED BY <2>2, <2>3 DEF InOrder, Handshake
<1>3. call \in Calls(W) /\ call.up = r.call.up /\ call.down = r.call.down
      /\ call.status = status /\ call.readSince = r.call.readSince
    BY <1>1 DEF Calls
<1>4. s = [r EXCEPT !.call = call]
    OBVIOUS
<1> HIDE DEF call
<1>5. s \in Remotes(W) /\ SameButCall(s, r) /\ s.call = call
    BY <1>3, <1>4 DEF Remotes, SameButCall
<1> HIDE DEF s
<1>6. StreamOK(s) /\ IsOpen(s)
    BY <1>0, <1>3, <1>5, SameButCallOK
<1>7. CallOK(s)
    <2>1. CASE r.handshake
        <3>1. Aligned(r.call.down, r.call.up, "open", r.pipeline) /\ status # "open"
            BY <1>0, <2>1 DEF CallOK, Closings
        <3>2. Aligned(r.call.down, r.call.up, status, r.pipeline)
            BY <3>1 DEF Aligned
        <3> QED BY <1>3, <1>5, <2>1, <3>2 DEF CallOK, SameButCall
    <2>2. CASE ~r.handshake
        <3>1. Greeting(r.call)
            BY <1>0, <2>2 DEF CallOK
        <3>2. Greeting(call)
            BY <1>3, <3>1 DEF Greeting
        <3> QED BY <1>3, <1>5, <2>2, <3>2 DEF CallOK, SameButCall
    <2> QED BY <2>1, <2>2
<1>8. AnswersOK(s, u, a, f, c)
    BY <1>0, <1>2, <1>3, <1>5 DEF AnswersOK, SameButCall
<1> QED BY <1>0, <1>5, <1>6, <1>7, <1>8 DEF RemoteOK, SameButCall, s

(* The handshake is read: the whole pipeline is sent, and nothing before.  *)
LEMMA HandshakeOK ==
    ASSUME NEW W, NEW rows, RowsOK(rows, W), NEW u, NEW a, NEW f, NEW c,
           NEW r \in Remotes(W), RemoteOK(r, u, rows, a, f, c),
           r.call.down # <<>>, ~r.handshake
    PROVE  LET s == Write([Read(r) EXCEPT !.handshake = TRUE], WritesOf(r.pipeline))
           IN  s \in Remotes(W) /\ RemoteOK(s, u, rows, a, f, c)
<1> DEFINE m == WritesOf(r.pipeline)
           t == [Read(r) EXCEPT !.handshake = TRUE]
           s == Write(t, m)
           since == r.call.status \in Closings
           call == [r.call EXCEPT !.down = <<>>, !.up = m, !.readSince = since]
<1>0. /\ StreamOK(r) /\ FrontOf(r.pipeline, u, rows) /\ CallOK(r) /\ IsOpen(r)
    BY OnlyOpenCalls DEF RemoteOK
<1>1. /\ r.call \in Calls(W) /\ r.pipeline \in Seq(Row) /\ r.pipeline # <<>>
      /\ Len(r.pipeline) \in Nat
    BY <1>0, CallFields DEF StreamOK, IsStarted, IsOpen
<1>2. r.call.up = <<>> /\ r.call.down = <<Handshake>> /\ r.call.status # "permanent"
    BY <1>0 DEF CallOK, Greeting
<1>3. /\ m \in Seq(W) /\ Len(m) = Len(r.pipeline) /\ m # <<>>
      /\ \A i \in 1 .. Len(r.pipeline) : m[i] = r.pipeline[i].write
    <2>1. \A i \in 1 .. Len(r.pipeline) : r.pipeline[i].write \in W
        BY <1>0 DEF FrontOf, RowsOK
    <2> QED BY <1>1, <2>1, WritesOfProps
<1> HIDE DEF m
<1>4. Tail(r.call.down) = <<>> /\ r.call.up \o m = m
    BY <1>2, <1>3
<1>5. s = [r EXCEPT !.call = call, !.handshake = TRUE, !.idle = FALSE]
    <2>1. Read(r) = [r EXCEPT !.call = [r.call EXCEPT !.down = <<>>, !.readSince = since]]
        BY <1>4 DEF Read
    <2>2. t = [r EXCEPT !.call = [r.call EXCEPT !.down = <<>>, !.readSince = since],
                        !.handshake = TRUE]
        BY <2>1
    <2>3. s = [t EXCEPT !.call.up = @ \o m, !.idle = FALSE]
        BY <1>3 DEF Write
    <2>4. t.call = [r.call EXCEPT !.down = <<>>, !.readSince = since]
        BY <2>2 DEF Remotes
    <2>5. [t.call EXCEPT !.up = @ \o m] = call
        BY <1>1, <1>4, <2>4 DEF Calls
    <2>6. s = [t EXCEPT !.call = [t.call EXCEPT !.up = @ \o m], !.idle = FALSE]
        BY <2>3
    <2>7. s = [t EXCEPT !.call = call, !.idle = FALSE]
        BY <2>5, <2>6
    <2> HIDE DEF s, t, call
    <2> QED BY <2>2, <2>7 DEF Remotes
<1>5a. since \in BOOLEAN
    OBVIOUS
<1> HIDE DEF since
<1>5b. call \in Calls(W)
    <2>1. <<>> \in Seq(W)
        OBVIOUS
    <2> QED BY <1>1, <1>3, <1>5a, <2>1 DEF Calls
<1>6. call.up = m /\ call.down = <<>> /\ call.status = r.call.status
      /\ call.readSince = since
    BY <1>1 DEF Calls
<1> HIDE DEF call
<1>7. s \in Remotes(W)
    BY <1>5, <1>5b DEF Remotes
<1>8. /\ s.call = call /\ s.handshake = TRUE /\ s.idle = FALSE /\ s.stream = r.stream
      /\ s.pipeline = r.pipeline /\ s.enabled = r.enabled
      /\ s.closes = r.closes /\ s.requests = r.requests
    BY <1>5 DEF Remotes
<1> HIDE DEF s
<1>9. StreamOK(s) /\ IsOpen(s)
    BY <1>0, <1>6, <1>8 DEF StreamOK, IsOpen, IsStarted, since
<1>10. Aligned(<<>>, m, r.call.status, r.pipeline)
    <2>1. Len(<<>>) = 0 /\ \A i \in 1 .. Len(r.pipeline) : 0 + i = i
        OBVIOUS
    <2> QED BY <1>1, <1>3, <2>1 DEF Aligned
<1>11. CallOK(s) /\ AnswersOK(s, u, a, f, c)
    BY <1>2, <1>6, <1>8, <1>10 DEF CallOK, AnswersOK
<1> QED BY <1>0, <1>7, <1>8, <1>9, <1>11 DEF RemoteOK, s, m

(* Credentials arrive for a start that still counts: the call opens with   *)
(* the handshake.                                                          *)
LEMMA ResumeOK ==
    ASSUME NEW W, Handshake \in W, NEW rows, NEW u, NEW a, NEW f, NEW c,
           NEW r \in Remotes(W), RemoteOK(r, u, rows, a, f, c), r.closes \in r.requests
    PROVE  LET s == Write([r EXCEPT !.requests = @ \ {r.closes}, !.stream = "Open",
                                    !.call = [NoCall EXCEPT !.status = "open"]],
                          <<Handshake>>)
           IN  s \in Remotes(W) /\ RemoteOK(s, u, rows, a, f, c)
<1> DEFINE t == [r EXCEPT !.requests = @ \ {r.closes}, !.stream = "Open",
                          !.call = [NoCall EXCEPT !.status = "open"]]
           s == Write(t, <<Handshake>>)
           new == [NoCall EXCEPT !.status = "open"]
           call == [new EXCEPT !.up = @ \o <<Handshake>>]
<1>0. /\ StreamOK(r) /\ FrontOf(r.pipeline, u, rows) /\ r.stream = "Starting"
    BY DEF RemoteOK, StreamOK
<1>1. ~r.handshake /\ ~r.idle /\ r.pipeline # <<>> /\ r.enabled
    BY <1>0 DEF StreamOK, IsStarted, IsOpen
<1>2. /\ new \in Calls(W) /\ new.up = <<>> /\ new.down = <<>> /\ new.status = "open"
      /\ new.readSince = FALSE
    BY NoCallType DEF NoCall, Calls
<1> HIDE DEF new
<1>3. s = [r EXCEPT !.requests = @ \ {r.closes}, !.stream = "Open", !.call = call,
                    !.idle = FALSE]
    <2>1. t.call = new
        BY DEF Remotes, new
    <2>2. s = [t EXCEPT !.call.up = @ \o <<Handshake>>, !.idle = FALSE]
        BY DEF Write
    <2>3. s = [t EXCEPT !.call = [t.call EXCEPT !.up = @ \o <<Handshake>>], !.idle = FALSE]
        BY <2>2
    <2>4. s = [t EXCEPT !.call = call, !.idle = FALSE]
        BY <2>1, <2>3
    <2> HIDE DEF s, call
    <2> QED BY <2>4 DEF Remotes
<1>4. /\ call \in Calls(W) /\ call.up = <<Handshake>> /\ call.down = <<>>
      /\ call.status = "open" /\ ~call.readSince
    <2>1. new.up \o <<Handshake>> = <<Handshake>> /\ <<Handshake>> \in Seq(W)
        BY <1>2
    <2> QED BY <1>2, <2>1 DEF Calls
<1> HIDE DEF call
<1>5. s \in Remotes(W)
    BY <1>3, <1>4 DEF Remotes, Streams
<1>6. /\ s.call = call /\ s.handshake = r.handshake /\ s.idle = FALSE /\ s.stream = "Open"
      /\ s.pipeline = r.pipeline /\ s.enabled = r.enabled
      /\ s.closes = r.closes /\ s.requests = r.requests \ {r.closes}
    BY <1>3 DEF Remotes
<1> HIDE DEF s
<1>7. StreamOK(s) /\ IsOpen(s)
    BY <1>0, <1>1, <1>4, <1>6 DEF StreamOK, IsOpen, IsStarted
<1>8. CallOK(s) /\ AnswersOK(s, u, a, f, c)
    BY <1>1, <1>4, <1>6 DEF CallOK, AnswersOK, Greeting
<1> QED BY <1>0, <1>5, <1>6, <1>7, <1>8 DEF RemoteOK, s, new

(* A request for credentials is dropped.                                   *)
LEMMA DropRequestOK ==
    ASSUME NEW W, NEW rows, NEW u, NEW a, NEW f, NEW c,
           NEW r \in Remotes(W), RemoteOK(r, u, rows, a, f, c), NEW n
    PROVE  LET s == [r EXCEPT !.requests = @ \ {n}]
           IN  s \in Remotes(W) /\ RemoteOK(s, u, rows, a, f, c)
<1> DEFINE s == [r EXCEPT !.requests = @ \ {n}]
<1>1. s \in Remotes(W)
    BY DEF Remotes
<1>2. /\ s.call = r.call /\ s.handshake = r.handshake /\ s.idle = r.idle
      /\ s.stream = r.stream /\ s.pipeline = r.pipeline /\ s.enabled = r.enabled
      /\ s.closes = r.closes /\ s.requests = r.requests \ {n}
    BY DEF Remotes
<1> HIDE DEF s
<1>3. StreamOK(s) /\ CallOK(s)
    BY <1>2 DEF RemoteOK, StreamOK, CallOK, IsOpen, IsStarted
<1>4. AnswersOK(s, u, a, f, c)
    BY <1>2 DEF RemoteOK, AnswersOK
<1> QED BY <1>1, <1>2, <1>3, <1>4 DEF RemoteOK, s

(* The stream starts when its backoff is over.                             *)
LEMMA BackoffOK ==
    ASSUME NEW W, NEW rows, NEW u, NEW a, NEW f, NEW c,
           NEW r \in Remotes(W), RemoteOK(r, u, rows, a, f, c), r.stream = "Backoff"
    PROVE  LET s == StartStream([r EXCEPT !.stream = "Initial"])
           IN  s \in Remotes(W) /\ RemoteOK(s, u, rows, a, f, c)
<1> DEFINE t == [r EXCEPT !.stream = "Initial"]
           s == StartStream(t)
<1>0. /\ StreamOK(r) /\ FrontOf(r.pipeline, u, rows)
      /\ ~r.handshake /\ r.pipeline # <<>> /\ r.enabled
    BY DEF RemoteOK, StreamOK, IsOpen, IsStarted
<1>1. t \in Remotes(W)
    BY DEF Remotes, Streams
<1>2. /\ t.call = r.call /\ t.handshake = r.handshake /\ t.idle = r.idle
      /\ t.stream = "Initial" /\ t.pipeline = r.pipeline /\ t.enabled = r.enabled
      /\ t.closes = r.closes /\ t.requests = r.requests
    BY DEF Remotes
<1> HIDE DEF t
<1>3. StreamOK(t) /\ ~IsStarted(t)
    BY <1>0, <1>2 DEF StreamOK, IsOpen, IsStarted
<1>4. s \in Remotes(W) /\ StreamOK(s) /\ ~IsOpen(s) /\ s.pipeline = r.pipeline
    BY <1>0, <1>1, <1>2, <1>3, StartStreamOK
<1> QED BY <1>0, <1>4, QuietOK DEF t

(* A response is read and its batch leaves the pipeline.                   *)
LEMMA PopReadOK ==
    ASSUME NEW W, NEW rows, Distinct(rows), NEW u, NEW a, NEW f, NEW c,
           NEW r \in Remotes(W), RemoteOK(r, u, rows, a, f, c),
           r.call.down # <<>>, r.handshake
    PROVE  LET s == [Read(r) EXCEPT !.pipeline = Tail(@)]
           IN  /\ r.pipeline # <<>> /\ s \in Remotes(W)
               /\ RemoteOK(s, u, rows \ {Head(r.pipeline)}, a, f, c)
<1> DEFINE s == [Read(r) EXCEPT !.pipeline = Tail(@)]
           since == r.call.status \in Closings
           call == [r.call EXCEPT !.down = Tail(@), !.readSince = since]
           t == Tail(r.pipeline)
           left == rows \ {Head(r.pipeline)}
<1>0. /\ StreamOK(r) /\ FrontOf(r.pipeline, u, rows) /\ CallOK(r) /\ IsOpen(r)
      /\ AnswersOK(r, u, a, f, c)
    BY OnlyOpenCalls DEF RemoteOK
<1>1. /\ r.call \in Calls(W) /\ r.call.up \in Seq(W) /\ r.call.down \in Seq(W)
      /\ r.pipeline \in Seq(Row) /\ Len(r.pipeline) \in Nat /\ Len(r.call.down) \in Nat
    BY CallFields
<1>2. Aligned(r.call.down, r.call.up, r.call.status, r.pipeline)
    BY <1>0 DEF CallOK
<1>3. /\ r.pipeline # <<>>
      /\ Aligned(Tail(r.call.down), r.call.up, r.call.status, t)
    BY <1>1, <1>2, PopAligned
<1>4. /\ t \in Seq(Row) /\ FrontOf(t, u, left)
    BY <1>0, <1>1, <1>3, PopFront, TailProps
<1>5. /\ Tail(r.call.down) \in Seq(W) /\ Len(Tail(r.call.down)) = Len(r.call.down) - 1
      /\ \A i \in 1 .. Len(r.call.down) - 1 : Tail(r.call.down)[i] = r.call.down[i + 1]
    BY <1>1, TailProps
<1>6. /\ Len(t) = Len(r.pipeline) - 1
      /\ \A i \in 1 .. Len(r.pipeline) - 1 : t[i] = r.pipeline[i + 1]
    BY <1>1, <1>3, TailProps
<1> HIDE DEF t
<1>6a. since \in BOOLEAN
    OBVIOUS
<1> HIDE DEF since
<1>7. call \in Calls(W) /\ call.up = r.call.up /\ call.down = Tail(r.call.down)
      /\ call.status = r.call.status /\ call.readSince = since
    BY <1>1, <1>5, <1>6a DEF Calls
<1>8. s = [r EXCEPT !.call = call, !.pipeline = t]
    <2>1. Read(r) = [r EXCEPT !.call = call]
        BY DEF Read, since
    <2> HIDE DEF call
    <2>2. Read(r).pipeline = r.pipeline
        BY <2>1 DEF Remotes
    <2> QED BY <2>1, <2>2 DEF t, Remotes
<1> HIDE DEF call
<1>9. s \in Remotes(W)
    BY <1>4, <1>7, <1>8 DEF Remotes
<1>10. /\ s.call = call /\ s.handshake = r.handshake /\ s.idle = r.idle
       /\ s.stream = r.stream /\ s.pipeline = t /\ s.enabled = r.enabled
       /\ s.closes = r.closes /\ s.requests = r.requests
    BY <1>8 DEF Remotes
<1> HIDE DEF s
<1>11. StreamOK(s) /\ IsOpen(s)
    BY <1>0, <1>3, <1>7, <1>10 DEF StreamOK, IsOpen, IsStarted, since
<1>12. CallOK(s)
    BY <1>3, <1>7, <1>10 DEF CallOK
<1>13. AnswersOK(s, u, a, f, c)
    <2>0. s.call.down = Tail(r.call.down) /\ s.call.status = r.call.status
        BY <1>7, <1>10
    <2>0a. Len(s.call.down) = Len(r.call.down) - 1
        BY <1>5, <2>0
    <2>1. ASSUME NEW i \in 1 .. Len(s.call.down)
          PROVE  s.call.down[i] \in a \union {Handshake} /\ s.call.down[i] <= c[u]
        <3>1. i \in 1 .. Len(r.call.down) - 1 /\ i + 1 \in 1 .. Len(r.call.down)
            BY <1>1, <2>0a
        <3>2. s.call.down[i] = r.call.down[i + 1]
            BY <1>5, <2>0, <3>1
        <3> QED BY <1>0, <3>1, <3>2 DEF AnswersOK
    <2>2. ASSUME s.call.status = "permanent"
          PROVE  /\ Len(s.call.down) < Len(t)
                 /\ t[Len(s.call.down) + 1].write \in f
        <3>1. /\ Len(r.call.down) < Len(r.pipeline)
              /\ r.pipeline[Len(r.call.down) + 1].write \in f
            BY <1>0, <1>7, <1>10, <2>2 DEF AnswersOK
        <3>2. Len(r.call.down) \in 1 .. Len(r.pipeline) - 1
              /\ Len(s.call.down) + 1 = Len(r.call.down) /\ Len(s.call.down) < Len(t)
            <4>1. Len(r.call.down) # 0
                BY <1>1
            <4> QED BY <1>1, <1>6, <2>0a, <3>1, <4>1
        <3>3. t[Len(r.call.down)] = r.pipeline[Len(r.call.down) + 1]
            BY <1>6, <3>2
        <3> QED BY <3>1, <3>2, <3>3
    <2> QED BY <1>10, <2>1, <2>2 DEF AnswersOK
<1> QED BY <1>3, <1>4, <1>9, <1>10, <1>11, <1>12, <1>13 DEF RemoteOK, s

(* After an error, a batch leaves the pipeline of the closed stream.       *)
LEMMA PopFailedOK ==
    ASSUME NEW W, NEW rows, Distinct(rows), NEW u, NEW a, NEW f, NEW c,
           NEW r \in Remotes(W), StreamOK(r), FrontOf(r.pipeline, u, rows), r.pipeline # <<>>
    PROVE  LET s == InhibitBackoff([Close(r, "Error") EXCEPT !.pipeline = Tail(@)])
           IN  /\ s \in Remotes(W)
               /\ RemoteOK(s, u, rows \ {Head(r.pipeline)}, a, f, c)
<1> DEFINE k == Close(r, "Error")
           t == [k EXCEPT !.pipeline = Tail(@)]
           s == InhibitBackoff(t)
<1>1. k \in Remotes(W) /\ StreamOK(k) /\ k.stream = "Error" /\ k.pipeline = r.pipeline
      /\ k.enabled = r.enabled
    BY CloseOK
<1>2. r.pipeline \in Seq(Row) /\ Tail(r.pipeline) \in Seq(Row)
      /\ FrontOf(Tail(r.pipeline), u, rows \ {Head(r.pipeline)})
    BY CallFields, TailProps, PopFront
<1> HIDE DEF k
<1>3. t \in Remotes(W)
    BY <1>1, <1>2 DEF Remotes
<1>4. /\ t.call = k.call /\ t.handshake = k.handshake /\ t.idle = k.idle
      /\ t.stream = "Error" /\ t.pipeline = Tail(r.pipeline) /\ t.enabled = k.enabled
      /\ t.closes = k.closes /\ t.requests = k.requests
    BY <1>1 DEF Remotes
<1> HIDE DEF t
<1>5. StreamOK(t) /\ ~IsStarted(t)
    BY <1>1, <1>4 DEF StreamOK, IsOpen, IsStarted
<1>6. s \in Remotes(W) /\ StreamOK(s) /\ ~IsStarted(s) /\ s.pipeline = Tail(r.pipeline)
    BY <1>3, <1>4, <1>5, InhibitOK
<1>7. ~IsOpen(s)
    BY <1>6 DEF IsOpen, IsStarted
<1> QED BY <1>2, <1>6, <1>7, QuietOK DEF k, t

-----------------------------------------------------------------------------
(* The inductive invariant.                                                *)

\* The types of what is not the RemoteStore's or the queue's.
StateOK ==
    /\ owner \in Seq(Users) /\ Len(owner) <= MaxWrites
    /\ currentUser \in Users
    /\ nextBatchId \in Nat \ {0} /\ nextBatchId <= Len(owner) + 1
    /\ waiters \subseteq [id : 1 .. MaxWrites, writes : SUBSET DOMAIN owner]
    /\ applied \subseteq DOMAIN owner /\ refused \subseteq DOMAIN owner
    /\ content \in [Users -> Responses]
    /\ told \subseteq [write : DOMAIN owner, status : {"ok", "error"}]
    /\ released \subseteq SUBSET DOMAIN owner

\* The rows carry the writes of their users, the newer the higher the id; a
\* user's pending writes are the newest; handlers wait for pending writes.
QueueOK ==
    /\ RowsOK(mutations, Responses) /\ InOrder(mutations)
    /\ \A r \in mutations :
           /\ r.id < nextBatchId /\ r.id <= r.write
           /\ r.write \in DOMAIN owner /\ owner[r.write] = r.user
    /\ \A r \in mutations, w \in DOMAIN owner :
           owner[w] = r.user /\ w > r.write => w \in Pending(r.user)
    /\ callbacks \subseteq mutations

RemoteInv ==
    /\ remote \in Remotes(Responses)
    /\ RemoteOK(remote, currentUser, mutations, applied, refused, content)

\* A handler that is kept has heard nothing.
HandlersKept == \A c \in callbacks, t \in told : c.write # t.write

\* What a waiter waits for is decided, or queued not behind its batch.
WaitersKept ==
    \A x \in waiters : \A w \in x.writes :
        \/ w \in applied \union refused
        \/ \E r \in mutations : r.user = currentUser /\ r.write = w /\ r.id <= x.id

IInv == /\ StateOK /\ QueueOK /\ RemoteInv /\ HandlersKept /\ WaitersKept /\ sound
        /\ NoneUndone /\ HandlersHearTheTruth /\ WaitersHeldBack

(* The invariant gives the state its type.                                 *)
LEMMA IInvTypeOK == IInv => TypeOK
<1> SUFFICES ASSUME IInv PROVE TypeOK
    OBVIOUS
<1>0. MaxWrites \in Nat /\ MaxPendingWrites \in Nat
    BY PipelineAssumption
<1>1. Len(owner) \in Nat /\ DOMAIN owner = 1 .. Len(owner) /\ Len(owner) <= MaxWrites
    BY DEF IInv, StateOK
<1>2. ASSUME NEW r \in mutations
      PROVE  r \in [user : Users, id : 1 .. MaxWrites, write : DOMAIN owner]
    <2>1. r \in Row /\ r.id # 0 /\ r.id <= r.write /\ r.write \in DOMAIN owner
        BY DEF IInv, QueueOK, RowsOK
    <2>2. r.id \in 1 .. MaxWrites
        BY <1>0, <1>1, <2>1 DEF Row
    <2> QED BY <2>1, <2>2 DEF Row
<1>3. nextBatchId \in 1 .. MaxWrites + 1
    BY <1>0, <1>1 DEF IInv, StateOK
<1>4. /\ remote.stream \in Streams /\ remote.closes \in Nat
      /\ remote.requests \subseteq 0 .. remote.closes
      /\ remote.enabled \in BOOLEAN /\ remote.handshake \in BOOLEAN /\ remote.idle \in BOOLEAN
    BY DEF IInv, RemoteInv, RemoteOK, StreamOK, Remotes
<1>5. /\ remote.call \in Calls(Responses)
      /\ remote.call.readSince => remote.call.status \in Closings
    BY DEF IInv, RemoteInv, RemoteOK, StreamOK, Remotes
<1>6. /\ remote.call.up \in Seq(Responses) /\ remote.call.down \in Seq(Responses)
      /\ remote.call.status \in Closings \union {"none", "open"}
    BY <1>5 DEF Calls
<1>7. remote.pipeline \in Seq(mutations) /\ Len(remote.pipeline) <= MaxPendingWrites
    <2>1. /\ remote.pipeline \in Seq(Row) /\ Len(remote.pipeline) <= MaxPendingWrites
          /\ \A i \in 1 .. Len(remote.pipeline) : remote.pipeline[i] \in mutations
        BY DEF IInv, RemoteInv, RemoteOK, FrontOf, Remotes
    <2> QED BY <2>1
<1>8. sound \in BOOLEAN
    BY DEF IInv
<1>9. /\ mutations \subseteq [user : Users, id : 1 .. MaxWrites, write : DOMAIN owner]
      /\ callbacks \subseteq [user : Users, id : 1 .. MaxWrites, write : DOMAIN owner]
    BY <1>2 DEF IInv, QueueOK
<1> QED BY <1>3, <1>4, <1>5, <1>6, <1>7, <1>8, <1>9 DEF TypeOK, IInv, StateOK, Streams

(* Whatever only moves the RemoteStore keeps the rest.                     *)
LEMMA RemoteOnly ==
    ASSUME IInv, UNCHANGED <<mutations, client, server, owner, app>>, sound',
           remote' \in Remotes(Responses),
           RemoteOK(remote', currentUser, mutations, applied, refused, content)
    PROVE  IInv'
<1>0. /\ mutations' = mutations /\ currentUser' = currentUser /\ nextBatchId' = nextBatchId
      /\ callbacks' = callbacks /\ waiters' = waiters /\ applied' = applied
      /\ refused' = refused /\ content' = content /\ owner' = owner /\ told' = told
      /\ released' = released
    BY DEF client, server, app
<1>1. RemoteInv'
    BY <1>0 DEF RemoteInv, Responses
<1>2. StateOK' /\ QueueOK' /\ HandlersKept' /\ WaitersKept'
    BY <1>0 DEF IInv, StateOK, QueueOK, HandlersKept, WaitersKept, Responses, Pending, RowsOf
<1>3. NoneUndone' /\ HandlersHearTheTruth' /\ WaitersHeldBack'
    BY <1>0 DEF IInv, NoneUndone, HandlersHearTheTruth, WaitersHeldBack, Pending, RowsOf
<1> QED BY <1>1, <1>2, <1>3 DEF IInv

(* The steps that move only the RemoteStore.                               *)
LEMMA StreamStepsKeepIInv ==
    ASSUME IInv,
           \/ ConnectivityChanged \/ SwitchNetwork \/ BackoffElapsed \/ IdleTimeout
           \/ ServerShakesHands \/ OnWriteStreamHandshakeComplete \/ CredentialsFail
           \/ \E n \in remote.requests : ResumeStartWithCredentials(n)
           \/ \E status \in Closings : ServerCloses(status)
    PROVE  IInv'
<1> DEFINE W == Responses
           Good(s) == /\ s \in Remotes(W)
                      /\ RemoteOK(s, currentUser, mutations, applied, refused, content)
<1>0. /\ RowsOK(mutations, W) /\ InOrder(mutations) /\ Good(remote) /\ sound
      /\ Handshake \in W /\ content[currentUser] \in Nat
    <2>1. content[currentUser] \in W /\ DOMAIN owner \subseteq Nat
        BY DEF IInv, StateOK
    <2> QED BY <2>1 DEF IInv, QueueOK, RemoteInv, Responses, Handshake
<1>0a. StreamOK(remote) /\ FrontOf(remote.pipeline, currentUser, mutations)
    BY <1>0 DEF RemoteOK
<1> HIDE DEF W
<1>1. ASSUME Good(remote'), sound', UNCHANGED <<mutations, client, server, owner, app>>
      PROVE  IInv'
    BY <1>1, RemoteOnly DEF W
<1>2. CASE ConnectivityChanged
    <2>1. Good(RestartNetwork(remote, currentUser, mutations))
        BY <1>0, <1>0a, RestartOK
    <2> QED BY <1>0, <1>1, <1>2, <2>1 DEF ConnectivityChanged
<1>3. CASE SwitchNetwork
    <2>1. CASE remote.enabled
        <3> DEFINE s == DisableNetworkInternal(remote)
        <3>1. s \in Remotes(W) /\ StreamOK(s) /\ ~IsStarted(s) /\ s.pipeline = <<>>
            BY <1>0, <1>0a, DisableOK
        <3> HIDE DEF s
        <3>2. ~IsOpen(s) /\ FrontOf(s.pipeline, currentUser, mutations)
            BY <3>1, EmptyFront DEF IsOpen, IsStarted
        <3>3. Good(s)
            BY <3>1, <3>2, QuietOK
        <3> QED BY <1>0, <1>1, <1>3, <2>1, <3>3 DEF SwitchNetwork, s
    <2>2. CASE ~remote.enabled
        <3>1. ~IsStarted(remote) /\ remote.pipeline = <<>>
            BY <1>0a, <2>2 DEF StreamOK
        <3>2. Good(EnableNetwork(remote, currentUser, mutations))
            BY <1>0, <1>0a, <3>1, EnableOK
        <3> QED BY <1>0, <1>1, <1>3, <2>2, <3>2 DEF SwitchNetwork
    <2> QED BY <2>1, <2>2
<1>4. CASE BackoffElapsed
    <2>1. remote.stream = "Backoff"
        BY <1>4 DEF BackoffElapsed
    <2>2. Good(StartStream([remote EXCEPT !.stream = "Initial"]))
        BY <1>0, <2>1, BackoffOK
    <2> QED BY <1>0, <1>1, <1>4, <2>2 DEF BackoffElapsed
<1>5. CASE IdleTimeout
    <2> DEFINE t == Stop(remote)
               s == StartWriteStreamIfNeeded(t)
    <2>1. t \in Remotes(W) /\ StreamOK(t) /\ ~IsStarted(t) /\ t.pipeline = remote.pipeline
        BY <1>0, <1>0a, StopOK
    <2>2. remote.pipeline = <<>>
        BY <1>0a, <1>5 DEF IdleTimeout, StreamOK
    <2> HIDE DEF t
    <2>3. ~ShouldStartWriteStream(t) /\ ~IsOpen(t)
        BY <2>1, <2>2 DEF ShouldStartWriteStream, IsOpen, IsStarted
    <2>4. s \in Remotes(W) /\ StreamOK(s) /\ ~IsOpen(s) /\ s.pipeline = remote.pipeline
        BY <2>1, <2>3, StartIfNeededOK
    <2> HIDE DEF s
    <2>5. Good(s)
        BY <1>0a, <2>4, QuietOK
    <2>6. sound' /\ remote' = s /\ UNCHANGED <<mutations, client, server, owner, app>>
        BY <1>0, <1>5, <2>3 DEF IdleTimeout, s, t
    <2> QED BY <1>1, <2>5, <2>6
<1>6. CASE ServerShakesHands
    <2>1. remote.call.status = "open" /\ remote.call.up # <<>>
          /\ Head(remote.call.up) = Handshake
        BY <1>6 DEF ServerShakesHands, ServerReady
    <2>2. Good([remote EXCEPT !.call.up = Tail(@), !.call.down = Append(@, Handshake)])
        BY <1>0, <2>1, ShakeOK
    <2> QED BY <1>0, <1>1, <1>6, <2>2 DEF ServerShakesHands
<1>7. CASE OnWriteStreamHandshakeComplete
    <2>1. remote.call.down # <<>> /\ ~remote.handshake
        BY <1>7 DEF OnWriteStreamHandshakeComplete
    <2>2. Good(Write([Read(remote) EXCEPT !.handshake = TRUE], WritesOf(remote.pipeline)))
        BY <1>0, <2>1, HandshakeOK
    <2> QED BY <1>0, <1>1, <1>7, <2>2 DEF OnWriteStreamHandshakeComplete
<1>8. CASE CredentialsFail
    <2> DEFINE t == [remote EXCEPT !.requests = @ \ {remote.closes}]
               k == Close(t, "Error")
               s == StartWriteStreamIfNeeded(k)
    <2>1. Good(t)
        BY <1>0, DropRequestOK
    <2>2. t.pipeline = remote.pipeline
        BY <1>0 DEF Remotes
    <2> HIDE DEF t
    <2>3. t \in Remotes(W) /\ StreamOK(t)
        BY <2>1 DEF RemoteOK
    <2>4. k \in Remotes(W) /\ StreamOK(k) /\ k.stream = "Error" /\ k.pipeline = remote.pipeline
        BY <2>2, <2>3, CloseOK
    <2> HIDE DEF k
    <2>5. ~IsOpen(k)
        BY <2>4 DEF IsOpen
    <2>6. s \in Remotes(W) /\ StreamOK(s) /\ ~IsOpen(s) /\ s.pipeline = remote.pipeline
        BY <2>4, <2>5, StartIfNeededOK
    <2> HIDE DEF s
    <2>7. Good(s)
        BY <1>0a, <2>6, QuietOK
    <2>8. remote.stream = "Starting"
        BY <1>0a, <1>8 DEF CredentialsFail, StreamOK
    <2>9. sound' /\ remote' = s /\ UNCHANGED <<mutations, client, server, owner, app>>
        BY <1>0, <1>8, <2>8 DEF CredentialsFail, s, k, t
    <2> QED BY <1>1, <2>7, <2>9
<1>9. ASSUME NEW n \in remote.requests, ResumeStartWithCredentials(n)
      PROVE  IInv'
    <2>0. UNCHANGED <<mutations, client, server, owner, app>>
        BY <1>9 DEF ResumeStartWithCredentials
    <2>1. CASE Outdated(n)
        <3>1. remote' = [remote EXCEPT !.requests = @ \ {n}] /\ sound'
            BY <1>0, <1>9, <2>1 DEF ResumeStartWithCredentials
        <3>2. Good([remote EXCEPT !.requests = @ \ {n}])
            BY <1>0, DropRequestOK
        <3> QED BY <1>1, <2>0, <3>1, <3>2
    <2>2. CASE ~Outdated(n)
        <3>1. n = remote.closes /\ remote.closes \in remote.requests
            BY <2>2 DEF Outdated
        <3>2. remote.stream = "Starting"
            BY <1>0a, <3>1 DEF StreamOK
        <3> DEFINE r == [remote EXCEPT !.requests = @ \ {n}]
                   s == Write([r EXCEPT !.stream = "Open",
                                        !.call = [NoCall EXCEPT !.status = "open"]],
                              <<Handshake>>)
                   q == [remote EXCEPT !.requests = @ \ {remote.closes}, !.stream = "Open",
                                       !.call = [NoCall EXCEPT !.status = "open"]]
        <3>3. remote' = s /\ sound'
            BY <1>0, <1>9, <2>2, <3>2 DEF ResumeStartWithCredentials
        <3>4. [r EXCEPT !.stream = "Open", !.call = [NoCall EXCEPT !.status = "open"]] = q
            BY <1>0, <3>1 DEF Remotes
        <3>5. s = Write(q, <<Handshake>>)
            BY <3>4
        <3>6. Good(Write(q, <<Handshake>>))
            BY <1>0, <3>1, ResumeOK
        <3> QED BY <1>1, <2>0, <3>3, <3>5, <3>6
    <2> QED BY <2>1, <2>2
<1>10. ASSUME NEW status \in Closings, ServerCloses(status)
       PROVE  IInv'
    <2>1. /\ remote.call.status = "open"
          /\ status = "permanent" => remote.call.up # <<>> /\ Head(remote.call.up) = Handshake
        BY <1>10 DEF ServerCloses, ServerReady
    <2>2. Good([remote EXCEPT !.call.status = status])
        BY <1>0, <2>1, ServerClosesOK
    <2> QED BY <1>0, <1>1, <1>10, <2>2 DEF ServerCloses
<1> QED BY <1>2, <1>3, <1>4, <1>5, <1>6, <1>7, <1>8, <1>9, <1>10

-----------------------------------------------------------------------------
(* The steps that decide a batch.                                          *)

(* Removing rows keeps rows in order.                                      *)
LEMMA FewerRowsOK ==
    ASSUME NEW W, NEW rows, RowsOK(rows, W), NEW some, some \subseteq rows
    PROVE  RowsOK(some, W) /\ Distinct(some)
<1>1. IsFiniteSet(some)
    BY FS_Subset DEF RowsOK, Distinct
<1> QED BY <1>1 DEF RowsOK, Distinct

\* The batch at the front of the pipeline.
Front == Head(remote.pipeline)

(* The front of the pipeline is on disk under its key, alone, and so is    *)
(* its handler if it has one; it is the current user's oldest row.         *)
LEMMA FrontProps ==
    ASSUME IInv, remote.pipeline # <<>>
    PROVE  /\ Front \in mutations /\ Front.user = currentUser
           /\ \A x \in mutations : x.user = currentUser => Front.id <= x.id
           /\ Keyed(mutations, currentUser, Front.id) = {Front}
           /\ Keyed(callbacks, currentUser, Front.id) = callbacks \intersect {Front}
           /\ Front.write \in DOMAIN owner /\ owner[Front.write] = currentUser
           /\ Front.write \in Nat /\ Front.id \in Nat
<1>1. /\ RowsOK(mutations, Responses) /\ callbacks \subseteq mutations
      /\ \A x \in mutations : x.write \in DOMAIN owner /\ owner[x.write] = x.user
    BY DEF IInv, QueueOK
<1>2. Distinct(mutations)
    BY <1>1 DEF RowsOK
<1>3. remote.pipeline \in Seq(Row) /\ FrontOf(remote.pipeline, currentUser, mutations)
    BY DEF IInv, RemoteInv, RemoteOK, Remotes
<1>4. /\ Front \in mutations /\ Front.user = currentUser
      /\ \A x \in mutations : x.user = currentUser => Front.id <= x.id
    BY <1>2, <1>3, PopFront DEF Front
<1>5. \A x \in mutations : x.id = Front.id => x = Front
    BY <1>2, <1>4 DEF Distinct
<1>6. Keyed(mutations, currentUser, Front.id) = {Front}
    BY <1>4, <1>5 DEF Keyed
<1>7. Keyed(callbacks, currentUser, Front.id) = callbacks \intersect {Front}
    BY <1>1, <1>4, <1>5 DEF Keyed
<1>8. Front.write \in DOMAIN owner /\ owner[Front.write] = currentUser
    BY <1>1, <1>4
<1>9. Front.write \in Nat /\ Front.id \in Nat
    BY <1>1, <1>4 DEF RowsOK, Row
<1> QED BY <1>4, <1>6, <1>7, <1>8, <1>9

(* A decided batch leaves the disk, its handler hears and the waiters for  *)
(* it are answered.                                                        *)
LEMMA SettlingKeepsIInv ==
    ASSUME IInv, remote.pipeline # <<>>, NEW status \in {"ok", "error"},
           Front.write \in applied \union refused,
           status = "ok" => Front.write \in applied,
           Front.write <= content[currentUser] \/ Front.write \in refused,
           mutations' = mutations \ {Front},
           NotifyUser(Front.id, status), TriggerPendingWriteCallbacks(Front.id),
           UNCHANGED <<currentUser, nextBatchId, server, owner>>, sound',
           remote' \in Remotes(Responses),
           RemoteOK(remote', currentUser, mutations \ {Front}, applied, refused, content)
    PROVE  IInv'
<1> DEFINE b == Front
           heard == {[write |-> c.write, status |-> status] : c \in callbacks \intersect {b}}
           done == {x \in waiters : x.id = b.id}
<1>0. /\ currentUser' = currentUser /\ nextBatchId' = nextBatchId /\ applied' = applied
      /\ refused' = refused /\ content' = content /\ owner' = owner
      /\ Responses' = Responses
    BY DEF server, Responses
<1>1. /\ b \in mutations /\ b.user = currentUser
      /\ \A x \in mutations : x.user = currentUser => b.id <= x.id
      /\ Keyed(callbacks, currentUser, b.id) = callbacks \intersect {b}
      /\ b.write \in DOMAIN owner /\ owner[b.write] = currentUser
      /\ b.write \in Nat /\ b.id \in Nat
    BY FrontProps
<1>2. /\ told' = told \union heard /\ callbacks' = callbacks \ (callbacks \intersect {b})
    BY <1>1 DEF NotifyUser
<1>3. /\ released' = released \union {x.writes : x \in done}
      /\ waiters' = waiters \ done
    BY DEF TriggerPendingWriteCallbacks
<1>4. mutations' = mutations \ {b}
    OBVIOUS
<1>5. \A t \in heard : t = [write |-> b.write, status |-> status] /\ b \in callbacks
    OBVIOUS
<1> HIDE DEF b, heard, done
<1>6. RowsOK(mutations, Responses) /\ InOrder(mutations) /\ Distinct(mutations)
    BY DEF IInv, QueueOK, RowsOK
<1>7. StateOK'
    <2>1. told' \subseteq [write : DOMAIN owner, status : {"ok", "error"}]
        BY <1>1, <1>2, <1>5 DEF IInv, StateOK
    <2>2. released' \subseteq SUBSET DOMAIN owner
        BY <1>3 DEF IInv, StateOK, done
    <2> QED BY <1>0, <1>3, <2>1, <2>2 DEF IInv, StateOK
<1>8. QueueOK'
    <2>1. RowsOK(mutations', Responses) /\ InOrder(mutations')
        BY <1>4, <1>6, FewerRowsOK DEF InOrder
    <2>2. ASSUME NEW r \in mutations', NEW w \in DOMAIN owner, owner[w] = r.user, w > r.write
          PROVE  w \in Pending(r.user)'
        <3>1. r \in mutations /\ r # b /\ w \in Pending(r.user)
            BY <1>4, <2>2 DEF IInv, QueueOK
        <3>2. PICK x \in mutations : x.user = r.user /\ x.write = w
            BY <3>1 DEF Pending, RowsOf
        <3>3. x # b
            <4>1. SUFFICES ASSUME x = b PROVE FALSE
                OBVIOUS
            <4>2. r.user = currentUser /\ b.id <= r.id /\ r.id # b.id /\ r.id \in Nat
                BY <1>1, <1>6, <3>1, <3>2, <4>1 DEF Distinct
            <4>3. b.id < r.id
                BY <1>1, <4>2
            <4>4. b.write < r.write /\ r.write \in Nat
                BY <1>1, <1>6, <3>1, <4>3 DEF InOrder
            <4> QED BY <1>1, <2>2, <3>2, <4>1, <4>4
        <3> QED BY <1>4, <3>2, <3>3 DEF Pending, RowsOf
    <2>3. callbacks' \subseteq mutations'
        BY <1>2, <1>4 DEF IInv, QueueOK
    <2>4. \A r \in mutations' :
              /\ r.id < nextBatchId /\ r.id <= r.write
              /\ r.write \in DOMAIN owner /\ owner[r.write] = r.user
        BY <1>4 DEF IInv, QueueOK
    <2> QED BY <1>0, <2>1, <2>2, <2>3, <2>4 DEF QueueOK
<1>9. RemoteInv'
    BY <1>0, <1>4 DEF RemoteInv, b
<1>10. HandlersKept'
    <2>1. SUFFICES ASSUME NEW c \in callbacks', NEW t \in told' PROVE c.write # t.write
        BY DEF HandlersKept
    <2>2. c \in callbacks /\ c # b /\ c \in mutations
        BY <1>2 DEF IInv, QueueOK
    <2>3. CASE t \in told
        BY <2>2, <2>3 DEF IInv, HandlersKept
    <2>4. CASE t \in heard
        <3>1. t.write = b.write
            BY <1>5, <2>4
        <3>2. c.id # b.id /\ c.id \in Nat
            BY <1>1, <1>6, <2>2 DEF Distinct
        <3>3. c.id < b.id \/ b.id < c.id
            BY <1>1, <3>2
        <3>4. c.write < b.write \/ b.write < c.write
            BY <1>1, <1>6, <2>2, <3>3 DEF InOrder
        <3>5. c.write \in Nat
            BY <1>6, <2>2 DEF InOrder
        <3> QED BY <1>1, <3>1, <3>4, <3>5
    <2> QED BY <1>2, <2>3, <2>4
<1>11. \A x \in waiters : \A w \in x.writes :
          \/ w \in applied \union refused
          \/ \E r \in mutations : r # b /\ r.user = currentUser /\ r.write = w /\ r.id <= x.id
    <2>1. SUFFICES ASSUME NEW x \in waiters, NEW w \in x.writes, w \notin applied \union refused
          PROVE  \E r \in mutations : r # b /\ r.user = currentUser /\ r.write = w /\ r.id <= x.id
        OBVIOUS
    <2>2. PICK r \in mutations : r.user = currentUser /\ r.write = w /\ r.id <= x.id
        BY <2>1 DEF IInv, WaitersKept
    <2>3. r # b
        BY <2>1, <2>2 DEF b
    <2> QED BY <2>2, <2>3
<1>12. WaitersKept'
    BY <1>0, <1>3, <1>4, <1>11 DEF WaitersKept
<1>13. NoneUndone'
    <2>1. SUFFICES ASSUME NEW w \in DOMAIN owner, w > content[owner[w]], w \notin refused
          PROVE  w \in Pending(owner[w])'
        BY <1>0 DEF NoneUndone
    <2>2. w \in Pending(owner[w])
        BY <2>1 DEF IInv, NoneUndone
    <2>3. PICK x \in mutations : x.user = owner[w] /\ x.write = w
        BY <2>2 DEF Pending, RowsOf
    <2>4. x # b
        <3>1. SUFFICES ASSUME x = b PROVE FALSE
            OBVIOUS
        <3>2. w = b.write /\ owner[w] = currentUser /\ w > content[currentUser]
            BY <1>1, <2>1, <2>3, <3>1
        <3>3. w <= content[currentUser]
            BY <2>1, <3>2 DEF b
        <3>4. content[currentUser] \in Nat
            BY DEF IInv, StateOK, Responses, Handshake
        <3> QED BY <1>1, <3>2, <3>3, <3>4
    <2> QED BY <1>0, <1>4, <2>3, <2>4 DEF Pending, RowsOf
<1>14. HandlersHearTheTruth'
    <2>1. SUFFICES ASSUME NEW s \in told', NEW t \in told'
          PROVE  /\ s.write = t.write => s = t
                 /\ t.status = "ok" => t.write \in applied
                 /\ t.write \in applied \union refused
        BY <1>0 DEF HandlersHearTheTruth
    <2>2. \A y \in heard, z \in told : y.write # z.write
        BY <1>5 DEF IInv, HandlersKept
    <2>3. s.write = t.write => s = t
        <3>1. CASE s \in told /\ t \in told
            BY <3>1 DEF IInv, HandlersHearTheTruth
        <3>2. CASE s \in heard /\ t \in heard
            BY <1>5, <3>2
        <3> QED BY <1>2, <2>2, <3>1, <3>2
    <2>4. CASE t \in told
        BY <2>3, <2>4 DEF IInv, HandlersHearTheTruth
    <2>5. CASE t \in heard
        <3>1. t.write = b.write /\ t.status = status
            BY <1>5, <2>5
        <3> QED BY <2>3, <3>1 DEF b
    <2> QED BY <1>2, <2>4, <2>5
<1>15. WaitersHeldBack'
    <2>1. SUFFICES ASSUME NEW writes \in released', NEW w \in writes,
                          w \notin applied \union refused
          PROVE  FALSE
        BY <1>0 DEF WaitersHeldBack
    <2>2. CASE writes \in released
        BY <2>1, <2>2 DEF IInv, WaitersHeldBack
    <2>3. ASSUME NEW x \in done, writes = x.writes PROVE FALSE
        <3>1. x \in waiters /\ x.id = b.id
            BY DEF done
        <3>2. PICK r \in mutations : r # b /\ r.user = currentUser /\ r.write = w /\ r.id <= x.id
            BY <1>11, <2>1, <2>3, <3>1
        <3>3. b.id <= r.id /\ r.id \in Nat /\ r.id # b.id
            BY <1>1, <1>6, <3>2 DEF Distinct
        <3> QED BY <1>1, <3>1, <3>2, <3>3
    <2> QED BY <1>3, <2>2, <2>3
<1> QED BY <1>7, <1>8, <1>9, <1>10, <1>12, <1>13, <1>14, <1>15 DEF IInv

(* The front of the responses is about the front of the pipeline, and its  *)
(* write took effect and has not been covered by an older one.             *)
LEMMA FrontAnswered ==
    ASSUME IInv, remote.handshake, remote.call.down # <<>>
    PROVE  /\ remote.pipeline # <<>>
           /\ Front.write \in applied /\ Front.write <= content[currentUser]
<1> DEFINE d == remote.call.down
           p == remote.pipeline
<1>1. d \in Seq(Responses) /\ p \in Seq(Row) /\ Len(d) \in Nat /\ Len(p) \in Nat
      /\ remote.call.up \in Seq(Responses) /\ Len(remote.call.up) \in Nat
    BY CallFields DEF IInv, RemoteInv
<1>2. Aligned(d, remote.call.up, remote.call.status, p)
    BY DEF IInv, RemoteInv, RemoteOK, CallOK
<1>3. /\ d[1] \in applied \union {Handshake} /\ d[1] <= content[currentUser]
      /\ Len(d) >= 1
    <2>1. Len(d) \in Nat \ {0}
        BY <1>1, TailProps
    <2>2. 1 \in 1 .. Len(d)
        BY <2>1
    <2> QED BY <2>1, <2>2 DEF IInv, RemoteInv, RemoteOK, AnswersOK
<1>4. p # <<>> /\ d[1] = p[1].write
    <2>1. p # <<>>
        BY <1>1, <1>2, PopAligned
    <2> HIDE DEF d, p
    <2>2. 1 \in 1 .. Len(d)
        BY <1>1, <1>3
    <2> QED BY <1>2, <2>1, <2>2 DEF Aligned
<1>5. Front = p[1]
    BY <1>1, <1>4, TailProps DEF Front
<1>6. Front.write # Handshake
    BY <1>4, FrontProps DEF IInv, QueueOK, InOrder, Handshake
<1> QED BY <1>3, <1>4, <1>5, <1>6

(* A response is read: its batch is the front of the pipeline.             *)
LEMMA ResultKeepsIInv == IInv /\ OnWriteStreamMutationResult => IInv'
<1> SUFFICES ASSUME IInv, OnWriteStreamMutationResult PROVE IInv'
    OBVIOUS
<1>1. /\ remote.handshake /\ remote.call.down # <<>> /\ remote.pipeline # <<>>
      /\ Front.write \in applied /\ Front.write <= content[currentUser]
    BY FrontAnswered DEF OnWriteStreamMutationResult
<1>2. Keyed(mutations, currentUser, Front.id) = {Front}
    BY <1>1, FrontProps
<1>3. /\ sound' /\ NotifyUser(Front.id, "ok") /\ TriggerPendingWriteCallbacks(Front.id)
      /\ mutations' = mutations \ {Front}
      /\ UNCHANGED <<currentUser, nextBatchId, server, owner>>
    BY <1>1, <1>2 DEF OnWriteStreamMutationResult, Front, IInv
<1> DEFINE s == [Read(remote) EXCEPT !.pipeline = Tail(@)]
           t == FillWritePipeline(s, currentUser, mutations \ {Front})
<1>4. remote' = t
    BY <1>1, <1>2 DEF OnWriteStreamMutationResult, Front
<1>5. RowsOK(mutations, Responses) /\ Distinct(mutations) /\ remote \in Remotes(Responses)
      /\ RemoteOK(remote, currentUser, mutations, applied, refused, content)
    BY DEF IInv, QueueOK, RowsOK, RemoteInv
<1>6. s \in Remotes(Responses)
      /\ RemoteOK(s, currentUser, mutations \ {Front}, applied, refused, content)
    BY <1>1, <1>5, PopReadOK DEF Front
<1> HIDE DEF s
<1>7. RowsOK(mutations \ {Front}, Responses)
    BY <1>5, FewerRowsOK
<1>8. t \in Remotes(Responses)
      /\ RemoteOK(t, currentUser, mutations \ {Front}, applied, refused, content)
    BY <1>6, <1>7, FillOK
<1> HIDE DEF t
<1> QED BY <1>1, <1>3, <1>4, <1>8, SettlingKeepsIInv

(* A permanent error of an established stream is about the front of the    *)
(* pipeline: the server has refused it, or answered it.                    *)
LEMMA FrontDecided ==
    ASSUME IInv, remote.pipeline # <<>>, remote.handshake,
           remote.call.down # <<>> \/ remote.call.status = "permanent"
    PROVE  /\ Front.write \in applied \union refused
           /\ Front.write <= content[currentUser] \/ Front.write \in refused
<1>1. CASE remote.call.down # <<>>
    BY <1>1, FrontAnswered
<1>2. CASE remote.call.down = <<>>
    <2>1. remote.pipeline[Len(remote.call.down) + 1].write \in refused
        BY <1>2 DEF IInv, RemoteInv, RemoteOK, AnswersOK
    <2>2. Len(remote.call.down) + 1 = 1
        BY <1>2
    <2>3. Front = remote.pipeline[1]
        BY CallFields, TailProps DEF Front, IInv, RemoteInv
    <2> QED BY <2>1, <2>2, <2>3
<1> QED BY <1>1, <1>2

(* A stream that fails.  Only a permanent error of an established stream   *)
(* decides a batch; then the server has refused the front of the pipeline  *)
(* or answered it.                                                         *)
LEMMA FinishKeepsIInv ==
    ASSUME IInv, NEW status, OnStreamFinish(status),
           UNCHANGED <<currentUser, nextBatchId, server, owner>>,
           remote.handshake /\ status = "permanent" =>
               remote.call.down # <<>> \/ remote.call.status = "permanent"
    PROVE  IInv'
<1> DEFINE k == Close(remote, "Error")
<1>1. RowsOK(mutations, Responses) /\ Distinct(mutations) /\ remote \in Remotes(Responses)
      /\ StreamOK(remote) /\ FrontOf(remote.pipeline, currentUser, mutations)
    BY DEF IInv, QueueOK, RowsOK, RemoteInv, RemoteOK
<1>2. CASE remote.pipeline # <<>> /\ remote.handshake /\ IsPermanentWriteError(status)
    <2>1. Keyed(mutations, currentUser, Front.id) = {Front}
        BY <1>2, FrontProps
    <2>2. /\ sound' /\ NotifyUser(Front.id, "error") /\ TriggerPendingWriteCallbacks(Front.id)
          /\ mutations' = mutations \ {Front}
        BY <1>2, <2>1 DEF OnStreamFinish, Front, IInv
    <2> DEFINE s == InhibitBackoff([k EXCEPT !.pipeline = Tail(@)])
               t == FillWritePipeline(s, currentUser, mutations \ {Front})
    <2>3. remote' = t
        BY <1>2, <2>1 DEF OnStreamFinish, Front
    <2>4. s \in Remotes(Responses)
          /\ RemoteOK(s, currentUser, mutations \ {Front}, applied, refused, content)
        BY <1>1, <1>2, PopFailedOK DEF Front
    <2> HIDE DEF s
    <2>5. RowsOK(mutations \ {Front}, Responses)
        BY <1>1, FewerRowsOK
    <2>6. t \in Remotes(Responses)
          /\ RemoteOK(t, currentUser, mutations \ {Front}, applied, refused, content)
        BY <2>4, <2>5, FillOK
    <2> HIDE DEF t
    <2>7. /\ Front.write \in applied \union refused
          /\ Front.write <= content[currentUser] \/ Front.write \in refused
        BY <1>2, FrontDecided DEF IsPermanentWriteError
    <2> QED BY <1>2, <2>2, <2>3, <2>6, <2>7, SettlingKeepsIInv
<1>3. CASE ~(remote.pipeline # <<>> /\ remote.handshake /\ IsPermanentWriteError(status))
    <2> DEFINE s == StartWriteStreamIfNeeded(k)
    <2>1. /\ remote' = s /\ sound' /\ UNCHANGED <<mutations, client, server, owner, app>>
        BY <1>3 DEF OnStreamFinish, IInv, client, app
    <2>2. k \in Remotes(Responses) /\ StreamOK(k) /\ k.stream = "Error"
          /\ k.pipeline = remote.pipeline
        BY <1>1, CloseOK
    <2> HIDE DEF k
    <2>3. ~IsOpen(k)
        BY <2>2 DEF IsOpen
    <2>4. s \in Remotes(Responses) /\ StreamOK(s) /\ ~IsOpen(s) /\ s.pipeline = remote.pipeline
        BY <2>2, <2>3, StartIfNeededOK
    <2> HIDE DEF s
    <2>5. RemoteOK(s, currentUser, mutations, applied, refused, content)
        BY <1>1, <2>4, QuietOK
    <2> QED BY <2>1, <2>4, <2>5, RemoteOnly
<1> QED BY <1>2, <1>3

(* The ways a stream fails.                                                *)
LEMMA LossesKeepIInv ==
    ASSUME IInv, ReadFails \/ WriteFails \/ ConnectionLost \/ ResponseUnreadable
    PROVE  IInv'
<1>1. CASE ReadFails
    BY <1>1, FinishKeepsIInv DEF ReadFails
<1>2. CASE WriteFails
    BY <1>2, FinishKeepsIInv DEF WriteFails
<1>3. CASE ConnectionLost
    BY <1>3, FinishKeepsIInv DEF ConnectionLost
<1>4. CASE ResponseUnreadable
    BY <1>4, FinishKeepsIInv DEF ResponseUnreadable
<1> QED BY <1>1, <1>2, <1>3, <1>4

-----------------------------------------------------------------------------
(* The steps of the app and of the server, and the end of the process.     *)

(* A store fits its type also when there are more writes.                  *)
LEMMA MoreResponses ==
    ASSUME NEW W, NEW V, W \subseteq V, NEW r \in Remotes(W)
    PROVE  r \in Remotes(V)
<1>1. Seq(W) \subseteq Seq(V)
    OBVIOUS
<1>2. Calls(W) \subseteq Calls(V)
    BY <1>1 DEF Calls
<1> QED BY <1>2 DEF Remotes

(* A new row goes behind every row there is.                               *)
LEMMA NewRowOK ==
    ASSUME NEW W, NEW V, W \subseteq V, NEW rows, RowsOK(rows, W), InOrder(rows), NEW row \in Row,
           \A x \in rows : x.id < row.id /\ x.write < row.write,
           row.id # 0, row.write # 0, row.write \in V
    PROVE  RowsOK(rows \union {row}, V) /\ InOrder(rows \union {row})
<1>1. IsFiniteSet(rows \union {row})
    BY FS_AddElement DEF RowsOK, Distinct
<1>2. \A x \in rows : x.id \in Nat /\ x.write \in Nat
    BY DEF RowsOK, Row
<1>3. row.id \in Nat /\ row.write \in Nat
    BY DEF Row
<1>4. Distinct(rows \union {row})
    BY <1>1, <1>2, <1>3 DEF RowsOK, Distinct
<1>5. RowsOK(rows \union {row}, V)
    BY <1>4 DEF RowsOK
<1>6. InOrder(rows \union {row})
    BY <1>2, <1>3 DEF InOrder
<1> QED BY <1>5, <1>6

(* WriteMutations: a row and its handler are added, the pipeline may grow. *)
LEMMA WriteKeepsIInv == IInv /\ WriteMutations => IInv'
<1> SUFFICES ASSUME IInv, WriteMutations PROVE IInv'
    OBVIOUS
<1> DEFINE n == Len(owner) + 1
           row == [user |-> currentUser, id |-> nextBatchId, write |-> n]
<1>0. /\ owner \in Seq(Users) /\ Len(owner) \in Nat /\ DOMAIN owner = 1 .. Len(owner)
      /\ currentUser \in Users /\ nextBatchId \in Nat \ {0} /\ nextBatchId <= n
      /\ n \in Nat \ {0} /\ n <= MaxWrites
    BY PipelineAssumption DEF IInv, StateOK, WriteMutations
<1>1. /\ row \in Row /\ row.id = nextBatchId /\ row.write = n /\ row.user = currentUser
    BY <1>0 DEF Row
<1>2. /\ owner' = Append(owner, currentUser) /\ nextBatchId' = nextBatchId + 1
      /\ currentUser' = currentUser /\ waiters' = waiters /\ applied' = applied
      /\ refused' = refused /\ content' = content /\ told' = told /\ released' = released
      /\ sound' = sound
    BY DEF WriteMutations, server, app
<1>3. /\ owner' \in Seq(Users) /\ Len(owner') = n /\ DOMAIN owner' = 1 .. n
      /\ \A w \in DOMAIN owner : owner'[w] = owner[w]
      /\ owner'[n] = currentUser
    BY <1>0, <1>2
<1>4. DOMAIN owner' = DOMAIN owner \union {n} /\ n \notin DOMAIN owner
      /\ DOMAIN owner \subseteq Nat
    BY <1>0, <1>3
<1>5. Responses' = Responses \union {n} /\ Responses \subseteq Responses'
    BY <1>4 DEF Responses
<1>6. /\ RowsOK(mutations, Responses) /\ InOrder(mutations) /\ mutations \subseteq Row
      /\ \A x \in mutations : x.id < nextBatchId /\ x.write \in DOMAIN owner
      /\ \A x \in mutations : x.id \in Nat /\ x.write \in Nat
    BY DEF IInv, QueueOK, RowsOK, Row
<1>7. Keyed(mutations, currentUser, nextBatchId) = {}
    BY <1>0, <1>6 DEF Keyed
<1>8. Keyed(callbacks, currentUser, nextBatchId) = {}
    BY <1>7 DEF Keyed, IInv, QueueOK
<1>9. mutations' = mutations \union {row} /\ callbacks' = callbacks \union {row}
    <2>1. mutations' = (mutations \ Keyed(mutations, row.user, row.id)) \union {row}
        BY DEF WriteMutations, AddMutationBatch
    <2>2. callbacks' = IF Keyed(callbacks, row.user, row.id) = {}
                       THEN callbacks \union {row} ELSE callbacks
        BY DEF WriteMutations
    <2> QED BY <1>1, <1>7, <1>8, <2>1, <2>2
<1>10. remote' = FillWritePipeline(remote, currentUser, mutations')
    BY DEF WriteMutations
<1> HIDE DEF row, n
<1>11. \A x \in mutations : x.id < row.id /\ x.write < row.write
    BY <1>0, <1>1, <1>4, <1>6 DEF n
<1>12. RowsOK(mutations', Responses') /\ InOrder(mutations')
    <2>1. row.id # 0 /\ row.write # 0 /\ row.write \in Responses'
        BY <1>0, <1>1, <1>5
    <2> QED BY <1>1, <1>5, <1>6, <1>9, <1>11, <2>1, NewRowOK
<1>13. RemoteInv'
    <2>1. remote \in Remotes(Responses)
          /\ RemoteOK(remote, currentUser, mutations, applied, refused, content)
        BY DEF IInv, RemoteInv
    <2>2. remote \in Remotes(Responses')
        BY <1>5, <2>1, MoreResponses
    <2>3. FrontOf(remote.pipeline, currentUser, mutations')
        <3>1. row.id \in Nat /\ \A x \in mutations : x.id \in Nat /\ x.id < row.id
            BY <1>0, <1>1, <1>6, <1>11
        <3>2. FrontOf(remote.pipeline, currentUser, mutations)
            BY <2>1 DEF RemoteOK
        <3> QED BY <1>9, <3>1, <3>2, GrowFront
    <2>4. RemoteOK(remote, currentUser, mutations', applied, refused, content)
        BY <2>1, <2>3 DEF RemoteOK
    <2> DEFINE s == FillWritePipeline(remote, currentUser, mutations')
    <2>5. s \in Remotes(Responses')
          /\ RemoteOK(s, currentUser, mutations', applied, refused, content)
        BY <1>12, <2>2, <2>4, FillOK
    <2> HIDE DEF s
    <2> QED BY <1>2, <1>10, <2>5 DEF RemoteInv, s
<1>14. StateOK'
    <2>1. /\ nextBatchId' \in Nat \ {0} /\ nextBatchId' <= Len(owner') + 1
        BY <1>0, <1>2, <1>3
    <2>2. Len(owner') <= MaxWrites
        BY <1>0, <1>3
    <2>3. /\ waiters \subseteq [id : 1 .. MaxWrites, writes : SUBSET DOMAIN owner']
          /\ told \subseteq [write : DOMAIN owner', status : {"ok", "error"}]
          /\ released \subseteq SUBSET DOMAIN owner'
        BY <1>4 DEF IInv, StateOK
    <2>4. applied \subseteq DOMAIN owner' /\ refused \subseteq DOMAIN owner'
        BY <1>4 DEF IInv, StateOK
    <2>5. content \in [Users -> Responses']
        BY <1>5 DEF IInv, StateOK
    <2> QED BY <1>0, <1>2, <1>3, <2>1, <2>2, <2>3, <2>4, <2>5 DEF StateOK
<1>15. \A u : \A w \in Pending(u) : w \in Pending(u)'
    BY <1>9 DEF Pending, RowsOf
<1>16. \A u : u = currentUser => n \in Pending(u)'
    BY <1>1, <1>9 DEF Pending, RowsOf
<1>17. QueueOK'
    <2>1. ASSUME NEW r \in mutations'
          PROVE  /\ r.id < nextBatchId' /\ r.id <= r.write
                 /\ r.write \in DOMAIN owner' /\ owner'[r.write] = r.user
        <3>1. CASE r \in mutations
            <4>1. /\ r.id < nextBatchId /\ r.id <= r.write /\ r.id \in Nat
                  /\ r.write \in DOMAIN owner /\ owner[r.write] = r.user
                BY <1>6, <3>1 DEF IInv, QueueOK
            <4> QED BY <1>0, <1>2, <1>3, <1>4, <4>1
        <3>2. CASE r = row
            BY <1>0, <1>1, <1>2, <1>3, <1>4, <3>2
        <3> QED BY <1>9, <3>1, <3>2
    <2>2. ASSUME NEW r \in mutations', NEW w \in DOMAIN owner', owner'[w] = r.user, w > r.write
          PROVE  w \in Pending(r.user)'
        <3>1. CASE w = n
            BY <1>3, <1>16, <2>2, <3>1
        <3>2. CASE w \in DOMAIN owner
            <4>1. r # row
                BY <1>0, <1>1, <2>2, <3>2 DEF n
            <4>2. r \in mutations
                BY <1>9, <4>1
            <4>3. w \in Pending(r.user)
                BY <1>3, <2>2, <3>2, <4>2 DEF IInv, QueueOK
            <4> QED BY <1>15, <4>3
        <3> QED BY <1>4, <3>1, <3>2
    <2>3. callbacks' \subseteq mutations'
        BY <1>9 DEF IInv, QueueOK
    <2> QED BY <1>12, <2>1, <2>2, <2>3 DEF QueueOK
<1>18. HandlersKept'
    <2>1. \A t \in told : t.write \in DOMAIN owner
        BY DEF IInv, StateOK
    <2>2. \A t \in told : row.write # t.write
        BY <1>1, <1>4, <2>1
    <2> QED BY <1>2, <1>9, <2>2 DEF HandlersKept, IInv
<1>19. WaitersKept'
    BY <1>2, <1>9 DEF WaitersKept, IInv
<1>20. NoneUndone'
    <2>1. SUFFICES ASSUME NEW w \in DOMAIN owner', w > content[owner'[w]], w \notin refused
          PROVE  \E x \in mutations' : x.user = owner'[w] /\ x.write = w
        BY <1>2 DEF NoneUndone, Pending, RowsOf
    <2>2. CASE w = n
        BY <1>1, <1>3, <1>9, <2>2
    <2>3. CASE w \in DOMAIN owner
        <3>1. w \in Pending(owner[w])
            BY <1>3, <2>1, <2>3 DEF NoneUndone, IInv
        <3> QED BY <1>3, <1>9, <2>3, <3>1 DEF Pending, RowsOf
    <2> QED BY <1>4, <2>2, <2>3
<1>21. HandlersHearTheTruth' /\ WaitersHeldBack'
    BY <1>2 DEF HandlersHearTheTruth, WaitersHeldBack, IInv
<1>22. sound'
    BY <1>2 DEF IInv
<1> QED BY <1>13, <1>14, <1>17, <1>18, <1>19, <1>20, <1>21, <1>22 DEF IInv

(* A waiter notes the highest batch there is, or is released at once.      *)
LEMMA WaitKeepsIInv == IInv /\ RegisterPendingWritesCallback => IInv'
<1> SUFFICES ASSUME IInv, RegisterPendingWritesCallback PROVE IInv'
    OBVIOUS
<1> DEFINE pending == RowsOf(mutations, currentUser)
           h == GetHighestUnacknowledgedBatchId(pending)
           entry == [id |-> h, writes |-> {r.write : r \in pending}]
<1>0. /\ mutations' = mutations /\ currentUser' = currentUser /\ nextBatchId' = nextBatchId
      /\ callbacks' = callbacks /\ remote' = remote /\ applied' = applied
      /\ refused' = refused /\ content' = content /\ owner' = owner /\ told' = told
      /\ sound' = sound
    BY DEF RegisterPendingWritesCallback, server
<1>1. \/ pending = {} /\ released' = released \union {{}} /\ waiters' = waiters
      \/ pending # {} /\ waiters' = waiters \union {entry} /\ released' = released
    BY DEF RegisterPendingWritesCallback
<1>2. RemoteInv' /\ QueueOK' /\ HandlersKept' /\ NoneUndone' /\ HandlersHearTheTruth'
    BY <1>0 DEF IInv, RemoteInv, QueueOK, HandlersKept, NoneUndone, HandlersHearTheTruth,
                Responses, Pending, RowsOf
<1>3. WaitersHeldBack'
    BY <1>0, <1>1 DEF IInv, WaitersHeldBack
<1>4. /\ released' \subseteq SUBSET DOMAIN owner
      /\ \A x \in waiters' : x \in waiters \/ (x = entry /\ pending # {})
    BY <1>1 DEF IInv, StateOK
<1>5. ASSUME pending # {}
      PROVE  /\ \E r \in pending : r.id = h
             /\ \A r \in pending : r.id <= h
    <2>1. Distinct(pending)
        BY FewerRowsOK DEF IInv, QueueOK, RowsOf
    <2> HIDE DEF pending
    <2> QED BY <1>5, <2>1, HighestIdProps
<1>6. \A r \in pending : /\ r.user = currentUser /\ r \in mutations
                         /\ r.id \in 1 .. MaxWrites /\ r.write \in DOMAIN owner
    BY IInvTypeOK DEF TypeOK, RowsOf
<1> HIDE DEF pending, h
<1>7. ASSUME pending # {}
      PROVE  /\ entry \in [id : 1 .. MaxWrites, writes : SUBSET DOMAIN owner]
             /\ \A w \in entry.writes : \E r \in mutations :
                    r.user = currentUser /\ r.write = w /\ r.id <= entry.id
    BY <1>5, <1>6, <1>7
<1> HIDE DEF entry
<1>8. StateOK'
    BY <1>0, <1>4, <1>7 DEF IInv, StateOK, Responses
<1>9. WaitersKept'
    BY <1>0, <1>4, <1>7 DEF IInv, WaitersKept
<1> QED BY <1>0, <1>2, <1>3, <1>8, <1>9 DEF IInv

(* A queue is opened anew, by a change of user or a start of the process.  *)
LEMMA ReopenKeepsIInv ==
    ASSUME IInv, UNCHANGED <<mutations, server, owner, released, sound>>,
           currentUser' \in Users, nextBatchId' = LoadNextBatchId(mutations), waiters' = {},
           callbacks' \subseteq callbacks,
           told' \subseteq [write : DOMAIN owner, status : {"ok", "error"}],
           HandlersKept', HandlersHearTheTruth',
           remote' \in Remotes(Responses),
           RemoteOK(remote', currentUser', mutations, applied, refused, content)
    PROVE  IInv'
<1>0. /\ mutations' = mutations /\ applied' = applied /\ refused' = refused
      /\ content' = content /\ owner' = owner /\ released' = released /\ sound' = sound
    BY DEF server
<1>1. /\ RowsOK(mutations, Responses) /\ Distinct(mutations)
      /\ \A r \in mutations : r.id <= r.write /\ r.write \in DOMAIN owner /\ r.id \in Nat
    BY DEF IInv, QueueOK, RowsOK, Row
<1>2. /\ nextBatchId' \in Nat \ {0}
      /\ \A r \in mutations : r.id < nextBatchId'
      /\ nextBatchId' = 1 \/ \E r \in mutations : nextBatchId' = r.id + 1
    BY <1>1, LoadNextProps
<1>3. DOMAIN owner = 1 .. Len(owner) /\ Len(owner) \in Nat
    BY DEF IInv, StateOK
<1>4. nextBatchId' <= Len(owner) + 1
    BY <1>1, <1>2, <1>3
<1>5. StateOK'
    BY <1>0, <1>2, <1>4 DEF IInv, StateOK, Responses
<1>6. QueueOK'
    BY <1>0, <1>2 DEF IInv, QueueOK, Responses, Pending, RowsOf
<1>7. RemoteInv'
    BY <1>0 DEF RemoteInv, Responses
<1>8. WaitersKept' /\ WaitersHeldBack' /\ NoneUndone'
    BY <1>0 DEF IInv, WaitersKept, WaitersHeldBack, NoneUndone, Pending, RowsOf
<1> QED BY <1>0, <1>5, <1>6, <1>7, <1>8 DEF IInv

(* Another user: waiters fail, the pipeline is that of the other queue.    *)
LEMMA CredentialChangeKeepsIInv ==
    ASSUME IInv, NEW u \in Users, HandleCredentialChange(u)
    PROVE  IInv'
<1>1. RowsOK(mutations, Responses) /\ remote \in Remotes(Responses) /\ StreamOK(remote)
    BY DEF IInv, QueueOK, RemoteInv, RemoteOK
<1>2. remote' \in Remotes(Responses)
      /\ RemoteOK(remote', u, mutations, applied, refused, content)
    <2>1. CASE remote.enabled
        <3> DEFINE s == RestartNetwork(remote, u, mutations)
        <3>1. s \in Remotes(Responses) /\ RemoteOK(s, u, mutations, applied, refused, content)
            BY <1>1, RestartOK
        <3> HIDE DEF s
        <3>2. remote' = s
            BY <2>1 DEF HandleCredentialChange, s
        <3> QED BY <3>1, <3>2
    <2>2. CASE ~remote.enabled
        <3>1. remote' = remote
            BY <2>2 DEF HandleCredentialChange
        <3>2. remote.pipeline = <<>> /\ ~IsOpen(remote)
            BY <1>1, <2>2 DEF StreamOK, IsStarted, IsOpen
        <3>3. FrontOf(remote.pipeline, u, mutations)
            BY <3>2, EmptyFront
        <3>4. RemoteOK(remote, u, mutations, applied, refused, content)
            BY <1>1, <3>2, <3>3, QuietOK
        <3> QED BY <1>1, <3>1, <3>4
    <2> QED BY <2>1, <2>2
<1>3. UNCHANGED <<mutations, callbacks, server, owner, app, sound>> /\ currentUser' = u
    BY DEF HandleCredentialChange
<1>4. sound' /\ told' = told /\ callbacks' = callbacks /\ applied' = applied
      /\ refused' = refused
    BY <1>3 DEF IInv, app, server
<1>5. CASE u = currentUser
    <2>1. UNCHANGED <<mutations, client, server, owner, app>>
        BY <1>3, <1>5 DEF HandleCredentialChange, client
    <2> QED BY <1>2, <1>4, <1>5, <2>1, RemoteOnly
<1>6. CASE u # currentUser
    <2>1. waiters' = {} /\ nextBatchId' = LoadNextBatchId(mutations)
        BY <1>6 DEF HandleCredentialChange
    <2>2. HandlersKept' /\ HandlersHearTheTruth'
        BY <1>4 DEF IInv, HandlersKept, HandlersHearTheTruth
    <2>3. told' \subseteq [write : DOMAIN owner, status : {"ok", "error"}]
        BY <1>4 DEF IInv, StateOK
    <2> QED BY <1>2, <1>3, <1>4, <2>1, <2>2, <2>3, ReopenKeepsIInv DEF app
<1> QED BY <1>5, <1>6

(* The server handles a write.                                             *)
LEMMA ServerKeepsIInv == IInv /\ (ServerApplies \/ ServerRefuses) => IInv'
<1> SUFFICES ASSUME IInv, ServerApplies \/ ServerRefuses PROVE IInv'
    OBVIOUS
<1> DEFINE w == Head(remote.call.up)
           b == AtHand(remote)
<1>1. remote.call.status = "open" /\ remote.call.up # <<>> /\ w # Handshake
    BY DEF ServerApplies, ServerRefuses, ServerReady
<1>2. /\ RowsOK(mutations, Responses) /\ InOrder(mutations) /\ mutations \subseteq Row
      /\ remote \in Remotes(Responses)
      /\ RemoteOK(remote, currentUser, mutations, applied, refused, content)
    BY DEF IInv, QueueOK, RowsOK, RemoteInv
<1>3. b \in mutations /\ b.user = currentUser /\ w = b.write
    <2>1. /\ remote \in Remotes(Responses)
          /\ RemoteOK(remote, currentUser, mutations, applied, refused, content)
          /\ remote.call.status = "open" /\ remote.call.up # <<>>
          /\ Head(remote.call.up) # Handshake
        BY <1>1, <1>2
    <2>2. /\ IsOpen(remote) /\ remote.handshake
          /\ Aligned(remote.call.down, remote.call.up, "open", remote.pipeline)
          /\ Len(remote.call.down) + 1 \in 1 .. Len(remote.pipeline)
          /\ AtHand(remote) \in mutations /\ AtHand(remote).user = currentUser
          /\ Head(remote.call.up) = AtHand(remote).write
          /\ Head(remote.call.up) \in Responses
          /\ Len(remote.call.down) + Len(Tail(remote.call.up)) <= Len(remote.pipeline)
          /\ Aligned(Append(remote.call.down, Head(remote.call.up)), Tail(remote.call.up),
                     "open", remote.pipeline)
        BY <2>1, AtHandProps
    <2> QED BY <2>2
<1>4. /\ w \in DOMAIN owner /\ owner[w] = currentUser
      /\ \A v \in DOMAIN owner : owner[v] = currentUser /\ v > w => v \in Pending(currentUser)
    BY <1>3 DEF IInv, QueueOK
<1>5. /\ mutations' = mutations /\ currentUser' = currentUser /\ nextBatchId' = nextBatchId
      /\ callbacks' = callbacks /\ waiters' = waiters /\ owner' = owner /\ told' = told
      /\ released' = released /\ sound' = sound /\ Responses' = Responses
    BY DEF ServerApplies, ServerRefuses, client, app, Responses
<1>6. \/ /\ applied' = applied \union {w} /\ refused' = refused
         /\ content' = [content EXCEPT ![currentUser] = w]
      \/ applied' = applied /\ content' = content /\ refused' = refused \union {w}
    BY <1>4 DEF ServerApplies, ServerRefuses
<1>7. remote' \in Remotes(Responses)
      /\ RemoteOK(remote', currentUser, mutations, applied', refused', content')
    <2>1. CASE ServerApplies
        <3>1. remote' = [remote EXCEPT !.call.up = Tail(@), !.call.down = Append(@, w)]
              /\ applied' = applied \union {w} /\ refused' = refused
            BY <2>1 DEF ServerApplies
        <3>2. content'[currentUser] = w
            <4>1. content' = [content EXCEPT ![currentUser] = w]
                BY <1>4, <2>1 DEF ServerApplies
            <4>2. currentUser \in DOMAIN content
                BY DEF IInv, StateOK
            <4> QED BY <4>1, <4>2
        <3> DEFINE s == [remote EXCEPT !.call.up = Tail(@),
                                       !.call.down = Append(@, Head(remote.call.up))]
        <3>3. s \in Remotes(Responses)
              /\ RemoteOK(s, currentUser, mutations, applied \union {w}, refused, content')
            BY <1>1, <1>2, <3>2, ApplyOK
        <3> QED BY <3>1, <3>3
    <2>2. CASE ServerRefuses
        <3>1. remote' = [remote EXCEPT !.call.up = Tail(@), !.call.status = "permanent"]
              /\ applied' = applied /\ refused' = refused \union {w} /\ content' = content
            BY <2>2 DEF ServerRefuses
        <3> DEFINE s == [remote EXCEPT !.call.up = Tail(@), !.call.status = "permanent"]
        <3>2. s \in Remotes(Responses)
              /\ RemoteOK(s, currentUser, mutations, applied, refused \union {w}, content)
            BY <1>1, <1>2, RefuseOK
        <3> QED BY <3>1, <3>2
    <2> QED BY <2>1, <2>2
<1> HIDE DEF w, b
<1>8. RemoteInv'
    BY <1>5, <1>7 DEF RemoteInv
<1>9. QueueOK' /\ HandlersKept'
    BY <1>5 DEF IInv, QueueOK, HandlersKept, Pending, RowsOf
<1>10. applied \subseteq applied' /\ refused \subseteq refused'
    BY <1>6
<1>11. WaitersKept' /\ WaitersHeldBack' /\ HandlersHearTheTruth'
    BY <1>5, <1>10 DEF IInv, WaitersKept, WaitersHeldBack, HandlersHearTheTruth
<1>12. StateOK'
    <2>1. applied' \subseteq DOMAIN owner /\ refused' \subseteq DOMAIN owner
        BY <1>4, <1>6 DEF IInv, StateOK
    <2>2. content' \in [Users -> Responses]
        BY <1>4, <1>6 DEF IInv, StateOK, Responses
    <2> QED BY <1>5, <2>1, <2>2 DEF IInv, StateOK
<1>13. NoneUndone'
    <2>1. SUFFICES ASSUME NEW v \in DOMAIN owner, v > content'[owner[v]], v \notin refused'
          PROVE  v \in Pending(owner[v])
        BY <1>5 DEF NoneUndone, Pending, RowsOf
    <2>2. CASE content'[owner[v]] = content[owner[v]]
        BY <1>10, <2>1, <2>2 DEF IInv, NoneUndone
    <2>3. CASE content'[owner[v]] # content[owner[v]]
        <3>1. owner[v] = currentUser /\ content'[owner[v]] = w
            BY <1>6, <2>3 DEF IInv, StateOK
        <3> QED BY <1>4, <2>1, <3>1
    <2> QED BY <2>2, <2>3
<1> QED BY <1>5, <1>8, <1>9, <1>11, <1>12, <1>13 DEF IInv

(* A new process has the rows on disk, and no handler and no waiter.       *)
LEMMA CrashKeepsIInv ==
    ASSUME IInv, NEW acknowledging \in BOOLEAN, Crash(acknowledging)
    PROVE  IInv'
<1>1. /\ UNCHANGED <<mutations, server, owner, released, sound>>
      /\ currentUser' = currentUser /\ nextBatchId' = LoadNextBatchId(mutations)
      /\ waiters' = {} /\ callbacks' = {}
      /\ remote' = NewRemoteStore(currentUser, mutations)
    BY DEF Crash
<1>2. RowsOK(mutations, Responses) /\ currentUser \in Users
    BY DEF IInv, QueueOK, StateOK
<1>3. remote' \in Remotes(Responses)
      /\ RemoteOK(remote', currentUser', mutations, applied, refused, content)
    BY <1>1, <1>2, NewRemoteOK
<1>4. HandlersKept'
    BY <1>1 DEF HandlersKept
<1>5. told' \subseteq [write : DOMAIN owner, status : {"ok", "error"}] /\ HandlersHearTheTruth'
    <2>1. CASE told' = told
        BY <1>1, <2>1 DEF IInv, StateOK, HandlersHearTheTruth, server
    <2>2. CASE acknowledging
        <3>1. remote.call.down # <<>> /\ remote.handshake /\ remote.pipeline # <<>>
            BY <2>2 DEF Crash
        <3>2. Front.write \in applied /\ Front.write \in DOMAIN owner
            BY <3>1, FrontAnswered, FrontProps
        <3> DEFINE heard == {[write |-> c.write, status |-> "ok"] :
                                 c \in callbacks \intersect {Front}}
        <3>3. told' = told \union heard
            BY <2>2, <3>1, FrontProps DEF Crash, Front
        <3>4. \A t \in heard : t = [write |-> Front.write, status |-> "ok"]
                               /\ Front \in callbacks
            OBVIOUS
        <3> HIDE DEF heard
        <3>5. told' \subseteq [write : DOMAIN owner, status : {"ok", "error"}]
            BY <3>2, <3>3, <3>4 DEF IInv, StateOK
        <3>6. \A y \in heard, z \in told : y.write # z.write
            BY <3>4 DEF IInv, HandlersKept
        <3>7. ASSUME NEW s \in told', NEW t \in told'
              PROVE  /\ s.write = t.write => s = t
                     /\ t.status = "ok" => t.write \in applied
                     /\ t.write \in applied \union refused
            <4>1. s.write = t.write => s = t
                <5>1. CASE s \in told /\ t \in told
                    BY <5>1 DEF IInv, HandlersHearTheTruth
                <5>2. CASE s \in heard /\ t \in heard
                    BY <3>4, <5>2
                <5> QED BY <3>3, <3>6, <5>1, <5>2
            <4>2. CASE t \in told
                BY <4>1, <4>2 DEF IInv, HandlersHearTheTruth
            <4>3. CASE t \in heard
                BY <3>2, <3>4, <4>1, <4>3
            <4> QED BY <3>3, <4>2, <4>3
        <3>8. HandlersHearTheTruth'
            BY <1>1, <3>7 DEF HandlersHearTheTruth, server
        <3> QED BY <3>5, <3>8
    <2> QED BY <2>1, <2>2 DEF Crash
<1> QED BY <1>1, <1>2, <1>3, <1>4, <1>5, ReopenKeepsIInv

(* The first process finds an empty queue.                                 *)
LEMMA InitIInv == Init => IInv
<1> SUFFICES ASSUME Init PROVE IInv
    OBVIOUS
<1>1. /\ mutations = {} /\ currentUser \in Users /\ nextBatchId = 1 /\ callbacks = {}
      /\ waiters = {} /\ remote = NewRemoteStore(currentUser, {}) /\ applied = {}
      /\ refused = {} /\ content = [u \in Users |-> 0] /\ owner = <<>> /\ told = {}
      /\ released = {} /\ sound = TRUE
    BY DEF Init
<1>2. /\ owner \in Seq(Users) /\ Len(owner) = 0 /\ DOMAIN owner = {} /\ MaxWrites \in Nat
    BY <1>1, PipelineAssumption
<1>3. RowsOK({}, Responses)
    BY FS_EmptySet DEF RowsOK, Distinct
<1>4. RemoteInv
    <2>1. /\ NewRemoteStore(currentUser, {}) \in Remotes(Responses)
          /\ RemoteOK(NewRemoteStore(currentUser, {}), currentUser, {}, applied, refused, content)
        BY <1>3, NewRemoteOK
    <2> QED BY <1>1, <2>1 DEF RemoteInv
<1>5. StateOK
    BY <1>1, <1>2 DEF StateOK, Responses, Handshake
<1>6. QueueOK /\ HandlersKept /\ WaitersKept
    BY <1>1, <1>3 DEF QueueOK, InOrder, HandlersKept, WaitersKept
<1>7. NoneUndone /\ HandlersHearTheTruth /\ WaitersHeldBack
    BY <1>1, <1>2 DEF NoneUndone, HandlersHearTheTruth, WaitersHeldBack
<1> QED BY <1>1, <1>4, <1>5, <1>6, <1>7 DEF IInv

(* Every step keeps the invariant.                                         *)
LEMMA NextKeepsIInv == IInv /\ [Next]_vars => IInv'
<1> SUFFICES ASSUME IInv, [Next]_vars PROVE IInv'
    OBVIOUS
<1>1. CASE Next
    BY <1>1, StreamStepsKeepIInv, LossesKeepIInv, ResultKeepsIInv, WriteKeepsIInv, WaitKeepsIInv,
       CredentialChangeKeepsIInv, ServerKeepsIInv, CrashKeepsIInv DEF Next
<1>2. CASE UNCHANGED vars
    <2>1. UNCHANGED <<mutations, client, server, owner, app>> /\ remote' = remote
          /\ sound' = sound
        BY <1>2 DEF vars
    <2> QED BY <2>1, RemoteOnly DEF IInv, RemoteInv
<1> QED BY <1>1, <1>2

(* What is on its way matches the pipeline.                                *)
LEMMA IInvMatches == IInv => ResponsesMatchPipeline
<1> SUFFICES ASSUME IInv, remote.handshake
             PROVE  LET open == remote.call.down \o remote.call.up
                    IN  /\ Len(open) <= Len(remote.pipeline)
                        /\ remote.call.status = "open" => Len(open) = Len(remote.pipeline)
                        /\ \A i \in 1 .. Len(remote.call.down) :
                               remote.call.down[i] = remote.pipeline[i].write
    BY DEF ResponsesMatchPipeline
<1>1. remote.call.up \in Seq(Responses) /\ remote.call.down \in Seq(Responses)
    BY CallFields DEF IInv, RemoteInv
<1>2. Len(remote.call.down \o remote.call.up) = Len(remote.call.down) + Len(remote.call.up)
    BY <1>1, ConcatProps
<1>3. Aligned(remote.call.down, remote.call.up, remote.call.status, remote.pipeline)
    BY DEF IInv, RemoteInv, RemoteOK, CallOK
<1> QED BY <1>2, <1>3 DEF Aligned

-----------------------------------------------------------------------------
(* The theorems.                                                           *)

(* So it holds in every reachable state.                                   *)
LEMMA Invariance == Spec => []IInv
BY InitIInv, NextKeepsIInv, PTL DEF Spec

(* The state keeps its type through losses, restarts and changes of user:  *)
(* no pipeline outgrows kMaxPendingWrites, and everything in it is a row   *)
(* on disk.                                                                *)
THEOREM TypesHold == Spec => []TypeOK
BY Invariance, IInvTypeOK, PTL

(* No HARD_ASSERT of the write stream, the pipeline or the mutation queue  *)
(* fails, whatever the network, the server, the user and the app do.       *)
THEOREM AssertionsHold == Spec => []NoHardAssertFails
<1>1. IInv => NoHardAssertFails
    BY DEF IInv, NoHardAssertFails
<1> QED BY <1>1, Invariance, PTL

(* The responses, which carry no batch id, are about the batches at the    *)
(* front of the write pipeline, in its order.                              *)
THEOREM ResponsesMatch == Spec => []ResponsesMatchPipeline
BY Invariance, IInvMatches, PTL

(* A batch that is sent again because its response was lost undoes no      *)
(* newer write for good: that one is still queued or was refused.          *)
THEOREM NothingUndone == Spec => []NoneUndone
<1>1. IInv => NoneUndone
    BY DEF IInv
<1> QED BY <1>1, Invariance, PTL

(* A completion handler hears once, of a write that is decided, and of     *)
(* success only if the server applied it: no write reported as saved is    *)
(* missing, whatever was sent again.                                       *)
THEOREM HandlersHear == Spec => []HandlersHearTheTruth
<1>1. IInv => HandlersHearTheTruth
    BY DEF IInv
<1> QED BY <1>1, Invariance, PTL

(* waitForPendingWrites does not answer before every write it was called   *)
(* for is decided.                                                         *)
THEOREM WaitersWait == Spec => []WaitersHeldBack
<1>1. IInv => WaitersHeldBack
    BY DEF IInv
<1> QED BY <1>1, Invariance, PTL

-----------------------------------------------------------------------------
(* The pipeline implements DurableWrites.                                  *)

(* Rows that differ differ in their writes, and in the order of their ids. *)
LEMMA WritesNumberRows ==
    ASSUME NEW rows, Distinct(rows), InOrder(rows), NEW x \in rows, NEW y \in rows
    PROVE  /\ x.write = y.write => x = y
           /\ x.write < y.write => x.id < y.id
<1>1. /\ x.id \in Nat /\ y.id \in Nat /\ x.write \in Nat /\ y.write \in Nat
      /\ x.id = y.id => x = y
      /\ x.id < y.id => x.write < y.write
      /\ y.id < x.id => y.write < x.write
    BY DEF Distinct, InOrder
<1> QED BY <1>1

\* The pending writes of the abstract specification.
AllPending == {r.write : r \in mutations}

(* Nothing is ahead of the front of the pipeline.                          *)
LEMMA NothingAheadOfFront ==
    ASSUME IInv, remote.pipeline # <<>>
    PROVE  /\ Front.write \in AllPending
           /\ Promise!Ahead(Front.write) = {}
           /\ {r.write : r \in mutations \ {Front}} = AllPending \ {Front.write}
<1>1. /\ Front \in mutations /\ Front.user = currentUser
      /\ \A x \in mutations : x.user = currentUser => Front.id <= x.id
      /\ owner[Front.write] = currentUser /\ Front.id \in Nat
    BY FrontProps
<1>2. /\ Distinct(mutations) /\ InOrder(mutations)
      /\ \A x \in mutations : owner[x.write] = x.user /\ x.id \in Nat
    BY DEF IInv, QueueOK, RowsOK, Distinct
<1>3. Front.write \in AllPending
    BY <1>1 DEF AllPending
<1>4. \A x \in mutations : x.write = Front.write => x = Front
    BY <1>1, <1>2, WritesNumberRows
<1>5. {r.write : r \in mutations \ {Front}} = AllPending \ {Front.write}
    BY <1>4 DEF AllPending
<1>6. ASSUME NEW x \in mutations, x.write < Front.write, owner[x.write] = owner[Front.write]
      PROVE  FALSE
    <2>1. x.id < Front.id
        BY <1>1, <1>2, <1>6, WritesNumberRows
    <2>2. Front.id <= x.id
        BY <1>1, <1>2, <1>6
    <2> QED BY <1>1, <1>2, <2>1, <2>2
<1>7. Promise!Ahead(Front.write) = {}
    BY <1>6 DEF Promise!Ahead
<1> QED BY <1>3, <1>5, <1>7

(* Everything ahead of the write at hand has been answered.                *)
LEMMA AheadAnswered ==
    ASSUME IInv, remote.call.status = "open", remote.call.up # <<>>,
           Head(remote.call.up) # Handshake
    PROVE  /\ Head(remote.call.up) \in AllPending
           /\ Promise!Ahead(Head(remote.call.up)) \subseteq applied \union refused
<1> DEFINE w == Head(remote.call.up)
           b == AtHand(remote)
           p == remote.pipeline
           d == remote.call.down
<1>1. /\ remote \in Remotes(Responses)
      /\ RemoteOK(remote, currentUser, mutations, applied, refused, content)
    BY DEF IInv, RemoteInv
<1>2. /\ IsOpen(remote) /\ remote.handshake
      /\ Aligned(remote.call.down, remote.call.up, "open", remote.pipeline)
      /\ Len(remote.call.down) + 1 \in 1 .. Len(remote.pipeline)
      /\ AtHand(remote) \in mutations /\ AtHand(remote).user = currentUser
      /\ Head(remote.call.up) = AtHand(remote).write
      /\ Head(remote.call.up) \in Responses
      /\ Len(remote.call.down) + Len(Tail(remote.call.up)) <= Len(remote.pipeline)
      /\ Aligned(Append(remote.call.down, Head(remote.call.up)), Tail(remote.call.up),
                 "open", remote.pipeline)
    BY <1>1, AtHandProps
<1>3. /\ b \in mutations /\ w = b.write /\ b.user = currentUser /\ b = p[Len(d) + 1]
      /\ Len(d) + 1 \in 1 .. Len(p)
      /\ \A i \in 1 .. Len(d) : d[i] = p[i].write
    BY <1>2 DEF AtHand, Aligned
<1>4. /\ Distinct(mutations) /\ InOrder(mutations)
      /\ \A x \in mutations : owner[x.write] = x.user /\ x.id \in Nat
      /\ \A x \in mutations : x.write \in Nat \ {0}
    BY DEF IInv, QueueOK, RowsOK, Distinct, InOrder
<1>5. /\ \A i \in 1 .. Len(p), x \in mutations :
             x.user = currentUser /\ x.id <= p[i].id => \E j \in 1 .. i : p[j] = x
      /\ \A i \in 1 .. Len(d) : d[i] \in applied \union {Handshake}
    BY <1>1 DEF RemoteOK, FrontOf, AnswersOK
<1>6. Len(d) \in Nat
    BY <1>1, CallFields
<1>7. w \in AllPending
    BY <1>3 DEF AllPending
<1> HIDE DEF w, b, p, d
<1>8. ASSUME NEW x \in mutations, x.write < w, owner[x.write] = owner[w]
      PROVE  x.write \in applied
    <2>1. x.id < b.id /\ x.user = currentUser
        BY <1>3, <1>4, <1>8, WritesNumberRows
    <2>2. x.id <= p[Len(d) + 1].id /\ x # b
        BY <1>3, <1>4, <2>1
    <2>3. PICK j \in 1 .. Len(d) + 1 : p[j] = x
        BY <1>3, <1>5, <2>1, <2>2
    <2>4. j \in 1 .. Len(d)
        BY <1>3, <1>6, <2>2, <2>3
    <2>5. d[j] = x.write /\ d[j] \in applied \union {Handshake}
        BY <1>3, <1>5, <2>3, <2>4
    <2> QED BY <1>4, <2>5 DEF Handshake
<1>9. Promise!Ahead(w) \subseteq applied \union refused
    BY <1>8 DEF Promise!Ahead
<1> QED BY <1>7, <1>9 DEF w

(* A step that changes no row, no server and no answer is no step of the   *)
(* promise.                                                                *)
LEMMA QuietStutters ==
    ASSUME mutations' = mutations, UNCHANGED <<server, owner, told>>
    PROVE  UNCHANGED Promise!vars
BY DEF Promise!vars, server

(* WriteMutations accepts a write.                                         *)
LEMMA WriteIsAccept == IInv /\ WriteMutations => Promise!Next
<1> SUFFICES ASSUME IInv, WriteMutations PROVE Promise!Next
    OBVIOUS
<1> DEFINE row == [user |-> currentUser, id |-> nextBatchId, write |-> Len(owner) + 1]
<1>1. Keyed(mutations, currentUser, nextBatchId) = {}
    <2>1. \A x \in mutations : x.id \in Nat /\ x.id < nextBatchId
        BY DEF IInv, QueueOK, RowsOK, Distinct
    <2>2. nextBatchId \in Nat
        BY DEF IInv, StateOK
    <2> QED BY <2>1, <2>2 DEF Keyed
<1>2. mutations' = mutations \union {row}
    <2>1. mutations' = (mutations \ Keyed(mutations, row.user, row.id)) \union {row}
        BY DEF WriteMutations, AddMutationBatch
    <2> QED BY <1>1, <2>1
<1>3. {r.write : r \in mutations'} = {r.write : r \in mutations} \union {Len(owner) + 1}
    <2>1. row.write = Len(owner) + 1
        OBVIOUS
    <2> HIDE DEF row
    <2> QED BY <1>2, <2>1
<1>4. owner' = Append(owner, currentUser) /\ UNCHANGED <<applied, refused, content, told>>
    BY DEF WriteMutations, server, app
<1>5. PICK u \in Users : u = currentUser
    BY DEF IInv, StateOK
<1>6. Promise!Accept(u)
    BY <1>3, <1>4, <1>5 DEF Promise!Accept
<1> QED BY <1>6 DEF Promise!Next

(* The server applies or refuses a write behind nothing undecided.         *)
LEMMA ServerActs == IInv /\ (ServerApplies \/ ServerRefuses) => Promise!Next
<1> SUFFICES ASSUME IInv, ServerApplies \/ ServerRefuses PROVE Promise!Next
    OBVIOUS
<1> DEFINE w == Head(remote.call.up)
<1>1. w \in AllPending /\ Promise!Ahead(w) \subseteq applied \union refused
    BY AheadAnswered DEF ServerApplies, ServerRefuses, ServerReady
<1>2. mutations' = mutations /\ owner' = owner /\ told' = told
    BY DEF ServerApplies, ServerRefuses, app
<1>3. \/ /\ applied' = applied \union {w} /\ refused' = refused
         /\ content' = [content EXCEPT ![owner[w]] = w]
      \/ refused' = refused \union {w} /\ applied' = applied /\ content' = content
    BY DEF ServerApplies, ServerRefuses
<1> HIDE DEF w
<1>4. Promise!TakeEffect(w) \/ Promise!Refuse(w)
    BY <1>1, <1>2, <1>3 DEF Promise!TakeEffect, Promise!Refuse
<1> QED BY <1>1, <1>4 DEF Promise!Next, AllPending

(* A batch that leaves the disk is settled, whether or not a handler is    *)
(* left to hear of it.                                                     *)
LEMMA SettlingSettles ==
    ASSUME IInv, remote.pipeline # <<>>, NEW status \in {"ok", "error"},
           Front.write \in applied \union refused,
           status = "ok" => Front.write \in applied,
           mutations' = mutations \ {Front}, NotifyUser(Front.id, status),
           UNCHANGED <<server, owner>>
    PROVE  Promise!Next
<1>1. /\ Front.write \in AllPending /\ Promise!Ahead(Front.write) = {}
      /\ {r.write : r \in mutations \ {Front}} = AllPending \ {Front.write}
    BY NothingAheadOfFront
<1>2. told' = told \union {[write |-> c.write, status |-> status] :
                               c \in callbacks \intersect {Front}}
    BY FrontProps DEF NotifyUser
<1>3. told' = told \/ told' = told \union {[write |-> Front.write, status |-> status]}
    <2>1. CASE Front \in callbacks
        <3>1. callbacks \intersect {Front} = {Front}
            BY <2>1
        <3> QED BY <1>2, <3>1
    <2>2. CASE Front \notin callbacks
        <3>1. callbacks \intersect {Front} = {}
            BY <2>2
        <3> QED BY <1>2, <3>1
    <2> QED BY <2>1, <2>2
<1>4. {r.write : r \in mutations'} = {r.write : r \in mutations} \ {Front.write}
    BY <1>1 DEF AllPending
<1>5. UNCHANGED <<owner, applied, refused, content>>
    BY DEF server
<1>6. PICK w \in {r.write : r \in mutations} : w = Front.write
    BY <1>1 DEF AllPending
<1>7. Promise!Settle(w)
    BY <1>1, <1>3, <1>4, <1>5, <1>6 DEF Promise!Settle, Promise!Hears
<1> QED BY <1>7 DEF Promise!Next

(* A stream that ends with a permanent error settles the front as refused. *)
LEMMA FinishSettles ==
    ASSUME IInv, NEW status, OnStreamFinish(status), UNCHANGED <<server, owner>>,
           remote.handshake /\ status = "permanent" =>
               remote.call.down # <<>> \/ remote.call.status = "permanent"
    PROVE  Promise!Next \/ UNCHANGED Promise!vars
<1>1. CASE remote.pipeline # <<>> /\ remote.handshake /\ IsPermanentWriteError(status)
    <2>1. Keyed(mutations, currentUser, Front.id) = {Front}
        BY <1>1, FrontProps
    <2>2. NotifyUser(Front.id, "error") /\ mutations' = mutations \ {Front}
        BY <1>1, <2>1 DEF OnStreamFinish, Front
    <2>3. Front.write \in applied \union refused
        BY <1>1, FrontDecided DEF IsPermanentWriteError
    <2> QED BY <1>1, <2>2, <2>3, SettlingSettles
<1>2. CASE ~(remote.pipeline # <<>> /\ remote.handshake /\ IsPermanentWriteError(status))
    <2>1. mutations' = mutations /\ told' = told
        BY <1>2 DEF OnStreamFinish, app
    <2> QED BY <2>1, QuietStutters
<1> QED BY <1>1, <1>2

(* A result settles the front of the pipeline as applied.                  *)
LEMMA ResultSettles == IInv /\ OnWriteStreamMutationResult => Promise!Next
<1> SUFFICES ASSUME IInv, OnWriteStreamMutationResult PROVE Promise!Next
    OBVIOUS
<1>1. remote.pipeline # <<>> /\ Front.write \in applied
    BY FrontAnswered DEF OnWriteStreamMutationResult
<1>2. Keyed(mutations, currentUser, Front.id) = {Front}
    BY <1>1, FrontProps
<1>3. /\ NotifyUser(Front.id, "ok") /\ mutations' = mutations \ {Front}
      /\ UNCHANGED <<server, owner>>
    BY <1>1, <1>2 DEF OnWriteStreamMutationResult, Front
<1> QED BY <1>1, <1>3, SettlingSettles

(* A process that ends between telling a handler and the removal of its    *)
(* batch has told the truth of a write that stays pending.                 *)
LEMMA CrashSettles ==
    ASSUME IInv, NEW acknowledging \in BOOLEAN, Crash(acknowledging)
    PROVE  Promise!Next \/ UNCHANGED Promise!vars
<1>1. mutations' = mutations /\ UNCHANGED <<server, owner>>
    BY DEF Crash
<1>2. CASE told' = told
    BY <1>1, <1>2, QuietStutters
<1>3. CASE told' # told
    <2>1. acknowledging
        BY <1>3 DEF Crash
    <2>2. remote.call.down # <<>> /\ remote.handshake /\ remote.pipeline # <<>>
        BY <2>1 DEF Crash
    <2>3. /\ Front.write \in applied /\ Front.write \in AllPending
          /\ Promise!Ahead(Front.write) = {}
        BY <2>2, FrontAnswered, NothingAheadOfFront
    <2>4. told' = told \union {[write |-> c.write, status |-> "ok"] :
                                   c \in callbacks \intersect {Front}}
        BY <2>1, <2>2, FrontProps DEF Crash, Front
    <2>5. callbacks \intersect {Front} = {Front}
        <3>1. SUFFICES ASSUME callbacks \intersect {Front} = {} PROVE FALSE
            OBVIOUS
        <3> QED BY <1>3, <2>4, <3>1
    <2>6. told' = told \union {[write |-> Front.write, status |-> "ok"]}
        BY <2>4, <2>5
    <2>7. PICK w \in {r.write : r \in mutations} : w = Front.write
        BY <2>3 DEF AllPending
    <2>8. {r.write : r \in mutations'} = {r.write : r \in mutations}
        BY <1>1
    <2>9. Promise!Settle(w)
        BY <1>1, <2>3, <2>6, <2>7, <2>8 DEF Promise!Settle, Promise!Hears, server
    <2> QED BY <2>9 DEF Promise!Next
<1> QED BY <1>2, <1>3

(* Every step is a step of DurableWrites or changes nothing of it.         *)
LEMMA NextIsPromised == IInv /\ [Next]_vars => [Promise!Next]_(Promise!vars)
<1> SUFFICES ASSUME IInv, [Next]_vars
             PROVE  Promise!Next \/ UNCHANGED Promise!vars
    OBVIOUS
<1>1. ASSUME ReadFails \/ WriteFails \/ ConnectionLost \/ ResponseUnreadable
      PROVE  Promise!Next \/ UNCHANGED Promise!vars
    <2>1. CASE ReadFails
        BY <2>1, FinishSettles DEF ReadFails
    <2>2. CASE WriteFails
        BY <2>2, FinishSettles DEF WriteFails
    <2>3. CASE ConnectionLost
        BY <2>3, FinishSettles DEF ConnectionLost
    <2>4. CASE ResponseUnreadable
        BY <2>4, FinishSettles DEF ResponseUnreadable
    <2> QED BY <1>1, <2>1, <2>2, <2>3, <2>4
<1>2. ASSUME mutations' = mutations, UNCHANGED <<server, owner, told>>
      PROVE  Promise!Next \/ UNCHANGED Promise!vars
    BY <1>2, QuietStutters
<1>3. CASE RegisterPendingWritesCallback
    BY <1>2, <1>3 DEF RegisterPendingWritesCallback
<1>4. ASSUME NEW u \in Users, HandleCredentialChange(u)
      PROVE  Promise!Next \/ UNCHANGED Promise!vars
    BY <1>2, <1>4 DEF HandleCredentialChange, app
<1>5. CASE \/ ConnectivityChanged \/ SwitchNetwork \/ BackoffElapsed \/ IdleTimeout
           \/ ServerShakesHands \/ OnWriteStreamHandshakeComplete \/ CredentialsFail
    BY <1>2, <1>5 DEF ConnectivityChanged, SwitchNetwork, BackoffElapsed, IdleTimeout,
       ServerShakesHands, OnWriteStreamHandshakeComplete, CredentialsFail, app
<1>6. ASSUME NEW n \in remote.requests, ResumeStartWithCredentials(n)
      PROVE  Promise!Next \/ UNCHANGED Promise!vars
    BY <1>2, <1>6 DEF ResumeStartWithCredentials, app
<1>7. ASSUME NEW status \in Closings, ServerCloses(status)
      PROVE  Promise!Next \/ UNCHANGED Promise!vars
    BY <1>2, <1>7 DEF ServerCloses, app
<1>8. CASE UNCHANGED vars
    BY <1>2, <1>8 DEF vars, app
<1> QED
    BY <1>1, <1>3, <1>4, <1>5, <1>6, <1>7, <1>8, WriteIsAccept, ServerActs, ResultSettles,
       CrashSettles DEF Next

(* The write path keeps Firestore's promise: a write that was accepted     *)
(* stays on the list until the server has decided it, the writes of a user *)
(* take effect and are settled in their order, and a handler hears of its  *)
(* write then, through every loss, retry, crash and change of user.        *)
THEOREM PromiseKept == Spec => ImplementsDurableWrites
<1>1. Init => Promise!Init
    BY DEF Init, Promise!Init
<1> QED BY <1>1, NextIsPromised, Invariance, PTL DEF Spec, ImplementsDurableWrites, Promise!Spec
=============================================================================
