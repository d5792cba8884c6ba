--------------------------- MODULE WritePipeline ---------------------------
(***************************************************************************)
(* How a write of the app (storeVerification's setData, saveMatches'       *)
(* commit) reaches the server: SyncEngine accepts it into the mutation     *)
(* queue on disk, RemoteStore keeps the first batches of the current       *)
(* user's queue in its write pipeline and sends them over the write        *)
(* stream, whose responses carry no batch id and are matched by position.  *)
(*                                                                         *)
(* Every action is one operation of Firestore's worker queue, one step of  *)
(* the server, or the end of the process.  Writes are numbered in the      *)
(* order the app made them; the numbers are history and no action of the   *)
(* client reads them.  The contents of writes, stream tokens (sent with    *)
(* every request, read by nobody), delays and the Healthy state of a       *)
(* stream are left out.                                                    *)
(***************************************************************************)
EXTENDS Naturals, Sequences, FiniteSets

CONSTANTS Users,             \* accounts of the device, signed out included
          MaxPendingWrites,  \* kMaxPendingWrites, 10 in the code
          MaxWrites,         \* bound: writes of the app
          MaxWaits,          \* bound: calls of waitForPendingWrites
          MaxTroubles        \* bound: failures, changes of user or network, crashes

ASSUME PipelineAssumption ==
    /\ Users # {}
    /\ MaxPendingWrites \in Nat \ {0}
    /\ {MaxWrites, MaxWaits, MaxTroubles} \subseteq Nat

VARIABLES
    mutations,    \* disk: the rows of the mutation queues
    currentUser,  \* whose queue the local store has open
    nextBatchId,  \* next_batch_id_ of that queue
    callbacks,    \* mutation_callbacks_
    waiters,      \* pending_writes_callbacks_
    remote,       \* the RemoteStore with its write stream and gRPC call
    applied,      \* server: the writes that took effect at least once
    refused,      \* server: the writes it refused at least once
    content,      \* server: the write each user's data shows
    owner,        \* history: owner[w] made write w
    told,         \* history: what completion handlers were told
    released,     \* history: the writes each finished waitForPendingWrites waited for
    sound,        \* no HARD_ASSERT has failed
    troubles      \* history: how much went wrong

client == <<currentUser, nextBatchId, callbacks, waiters>>
server == <<applied, refused, content>>
app == <<told, released>>
vars == <<mutations, client, remote, server, owner, app, sound, troubles>>

-----------------------------------------------------------------------------
(* The mutation queue.                                                     *)

Row == [user : Users, id : Nat, write : Nat]

RowsOf(rows, u) == {r \in rows : r.user = u}

Keyed(rows, u, n) == {r \in rows : r.user = u /\ r.id = n}

\* Mutant: batch ids start over when the queue is opened.
FirstBatchId(rows) == 1

\* LoadNextBatchIdFromDb: one more than the largest id of any user's rows.
LoadNextBatchId(rows) ==
    1 + CHOOSE m \in {r.id : r \in rows} \union {0} : \A r \in rows : r.id <= m

\* Put: a row of the same key is overwritten.
AddMutationBatch(rows, row) == (rows \ Keyed(rows, row.user, row.id)) \union {row}

\* Mutant: the oldest pending batch.
GetLowestUnacknowledgedBatchId(rows) ==
    CHOOSE n \in {r.id : r \in rows} : \A r \in rows : n <= r.id

GetHighestUnacknowledgedBatchId(rows) ==
    CHOOSE n \in {r.id : r \in rows} : \A r \in rows : r.id <= n

\* Mutant: the queue is read from its end.
NewestBatchAfter(rows, u, n, k) ==
    LET later == {r \in rows : r.user = u /\ r.id > n}
    IN  IF later = {} \/ k = 0 THEN <<>>
        ELSE <<CHOOSE r \in later : r.id = GetHighestUnacknowledgedBatchId(later)>>

\* The batches NextMutationBatchAfterBatchId returns one after the other from
\* n on, at most k of them.
BatchesAfter(rows, u, n, k) ==
    LET later == {r \in rows : r.user = u /\ r.id > n}
        Rank(r) == Cardinality({x \in later : x.id <= r.id})
        count == IF Cardinality(later) < k THEN Cardinality(later) ELSE k
    IN  [i \in 1 .. count |-> CHOOSE r \in later : Rank(r) = i]

-----------------------------------------------------------------------------
(* The stream and the call it owns.  A call holds the requests the server  *)
(* has not handled (0 is the handshake), the responses the client has not  *)
(* read, how the server closed it and whether the client has read anything *)
(* since.                                                                  *)

Handshake == 0
Closings == {"permanent", "aborted", "transient"}
NoCall == [up |-> <<>>, down |-> <<>>, status |-> "none", readSince |-> FALSE]

IsOpen(r) == r.stream = "Open"
IsStarted(r) == r.stream \in {"Starting", "Backoff", "Open"}

\* Stream::Start: straight to the credentials, or after an error by way of a
\* backoff.  A request for credentials remembers the close count.
StartStream(r) ==
    IF r.stream = "Error"
    THEN [r EXCEPT !.stream = "Backoff"]
    ELSE [r EXCEPT !.stream = "Starting", !.requests = @ \union {r.closes}]

\* Stream::Write, which also cancels the idle timer.
Write(r, messages) ==
    IF messages = <<>> THEN r
    ELSE [r EXCEPT !.call.up = @ \o messages, !.idle = FALSE]

\* GrpcStream::OnRead: the next response is taken off the call.
Read(r) == [r EXCEPT !.call.down = Tail(@),
                     !.call.readSince = (r.call.status \in Closings)]

MarkIdle(r) == IF IsOpen(r) THEN [r EXCEPT !.idle = TRUE] ELSE r

\* Mutant: the next call starts out as if it had shaken hands.
CloseKeepingHandshake(r, state) ==
    [r EXCEPT !.stream = state, !.closes = @ + 1, !.call = NoCall, !.idle = FALSE]

\* Stream::Close up to NotifyStreamClose; the handshake flag is cleared only
\* after the listener has run, but no listener uses it on a closed stream
\* other than to choose how to handle the error.
Close(r, state) ==
    [r EXCEPT !.stream = state, !.closes = @ + 1, !.call = NoCall,
              !.idle = FALSE, !.handshake = FALSE]

Stop(r) == IF IsStarted(r) THEN Close(r, "Initial") ELSE r

-----------------------------------------------------------------------------
(* RemoteStore.                                                            *)

\* Mutant: a stream that failed is not started again.
ShouldStartUnlessFailed(r) == r.enabled /\ r.stream = "Initial" /\ r.pipeline # <<>>

ShouldStartWriteStream(r) == r.enabled /\ ~IsStarted(r) /\ r.pipeline # <<>>

StartWriteStreamIfNeeded(r) ==
    IF ShouldStartWriteStream(r) THEN StartStream(r) ELSE r

WritesOf(batches) == [i \in DOMAIN batches |-> batches[i].write]

LastBatchId(r) ==
    IF r.pipeline = <<>> THEN 0 ELSE r.pipeline[Len(r.pipeline)].id

\* Mutant: the limit is checked with <=.
RoomForOneMore(r) == IF r.enabled THEN 1 + MaxPendingWrites - Len(r.pipeline) ELSE 0

\* CanAddToWritePipeline, as the number of batches it lets in.
Room(r) == IF r.enabled THEN MaxPendingWrites - Len(r.pipeline) ELSE 0

\* FillWritePipeline with AddToWritePipeline and StartWriteStream.
FillWritePipeline(r, u, rows) ==
    LET added == BatchesAfter(rows, u, LastBatchId(r), Room(r))
        filled == [r EXCEPT !.pipeline = @ \o added]
        sent == IF IsOpen(r) /\ r.handshake
                THEN Write(filled, WritesOf(added)) ELSE filled
        marked == IF r.enabled /\ sent.pipeline = <<>> THEN MarkIdle(sent) ELSE sent
    IN  StartWriteStreamIfNeeded(marked)

DisableNetworkInternal(r) ==
    [Stop([r EXCEPT !.enabled = FALSE]) EXCEPT !.pipeline = <<>>]

EnableNetwork(r, u, rows) == FillWritePipeline([r EXCEPT !.enabled = TRUE], u, rows)

InhibitBackoff(r) == [r EXCEPT !.stream = "Initial"]

RestartNetwork(r, u, rows) ==
    EnableNetwork(InhibitBackoff(DisableNetworkInternal(r)), u, rows)

\* A new RemoteStore on an empty process.
NewRemoteStore(u, rows) ==
    EnableNetwork([enabled |-> FALSE, pipeline |-> <<>>, stream |-> "Initial",
                   handshake |-> FALSE, idle |-> FALSE, closes |-> 0,
                   requests |-> {}, call |-> NoCall], u, rows)

-----------------------------------------------------------------------------
(* SyncEngine.                                                             *)

\* NotifyUser: the handler kept for the current user and this batch id.
NotifyUser(n, status) ==
    LET found == Keyed(callbacks, currentUser, n)
    IN  /\ told' = told \union {[write |-> c.write, status |-> status] : c \in found}
        /\ callbacks' = callbacks \ found

\* TriggerPendingWriteCallbacks: everyone waiting for this batch id.
TriggerPendingWriteCallbacks(n) ==
    LET found == {x \in waiters : x.id = n}
    IN  /\ released' = released \union {x.writes : x \in found}
        /\ waiters' = waiters \ found

-----------------------------------------------------------------------------
\* Something out of the ordinary happens, as often as the bound allows.
Trouble == troubles < MaxTroubles /\ troubles' = troubles + 1

Init ==
    /\ mutations = {}
    /\ currentUser \in Users
    /\ nextBatchId = 1
    /\ callbacks = {}
    /\ waiters = {}
    /\ remote = NewRemoteStore(currentUser, {})
    /\ applied = {} /\ refused = {}
    /\ content = [u \in Users |-> 0]
    /\ owner = <<>>
    /\ told = {} /\ released = {}
    /\ sound = TRUE
    /\ troubles = 0

\* SyncEngine::WriteMutations: the row, the handler (insert keeps an entry
\* that is there already), the pipeline.
WriteMutations ==
    LET row == [user |-> currentUser, id |-> nextBatchId, write |-> Len(owner) + 1]
    IN  /\ Len(owner) < MaxWrites
        /\ owner' = Append(owner, currentUser)
        /\ mutations' = AddMutationBatch(mutations, row)
        /\ nextBatchId' = nextBatchId + 1
        /\ callbacks' = IF Keyed(callbacks, row.user, row.id) = {}
                        THEN callbacks \union {row} ELSE callbacks
        /\ remote' = FillWritePipeline(remote, currentUser, mutations')
        /\ UNCHANGED <<currentUser, waiters, server, app, sound, troubles>>

\* waitForPendingWrites: answered at once without pending writes, otherwise
\* when the newest of them is.
RegisterPendingWritesCallback ==
    LET pending == RowsOf(mutations, currentUser)
        entry == [id |-> GetHighestUnacknowledgedBatchId(pending),
                  writes |-> {r.write : r \in pending}]
    IN  /\ Cardinality(waiters) + Cardinality(released) < MaxWaits
        /\ IF pending = {}
           THEN released' = released \union {{}} /\ UNCHANGED waiters
           ELSE waiters' = waiters \union {entry} /\ UNCHANGED released
        /\ UNCHANGED <<mutations, currentUser, nextBatchId, callbacks, remote,
                       server, owner, told, sound, troubles>>

\* SyncEngine::HandleCredentialChange, for a new user or a new token.
HandleCredentialChange(u) ==
    /\ Trouble
    /\ currentUser' = u
    /\ IF u # currentUser
       THEN waiters' = {} /\ nextBatchId' = LoadNextBatchId(mutations)
       ELSE UNCHANGED <<waiters, nextBatchId>>
    /\ remote' = IF remote.enabled THEN RestartNetwork(remote, u, mutations) ELSE remote
    /\ UNCHANGED <<mutations, callbacks, server, owner, app, sound>>

\* The connectivity monitor's callback.
ConnectivityChanged ==
    /\ Trouble
    /\ remote.enabled
    /\ remote' = RestartNetwork(remote, currentUser, mutations)
    /\ UNCHANGED <<mutations, client, server, owner, app, sound>>

SwitchNetwork ==
    /\ Trouble
    /\ remote' = IF remote.enabled THEN DisableNetworkInternal(remote)
                 ELSE EnableNetwork(remote, currentUser, mutations)
    /\ UNCHANGED <<mutations, client, server, owner, app, sound>>

-----------------------------------------------------------------------------
(* Opening the stream.                                                     *)

\* Mutant: credentials are used whenever they arrive.
NeverOutdated(n) == FALSE

\* The close count has moved on: the stream was closed while it waited.
Outdated(n) == remote.closes # n

\* ResumeStartWithCredentials with a token: GrpcStream::Start opens the
\* stream and writes the handshake before it returns.
ResumeStartWithCredentials(n) ==
    /\ n \in remote.requests
    /\ LET r == [remote EXCEPT !.requests = @ \ {n}]
       IN  IF Outdated(n)
           THEN remote' = r /\ UNCHANGED sound
           ELSE /\ sound' = (sound /\ remote.stream = "Starting")
                /\ remote' = Write([r EXCEPT !.stream = "Open",
                                             !.call = [NoCall EXCEPT !.status = "open"]],
                                   <<Handshake>>)
    /\ UNCHANGED <<mutations, client, server, owner, app, troubles>>

BackoffElapsed ==
    /\ remote.stream = "Backoff"
    /\ remote' = StartStream([remote EXCEPT !.stream = "Initial"])
    /\ UNCHANGED <<mutations, client, server, owner, app, sound, troubles>>

\* The idle timer: a graceful stop, which must find nothing left to send.
IdleTimeout ==
    /\ remote.idle
    /\ sound' = (sound /\ ~ShouldStartWriteStream(Stop(remote)))
    /\ remote' = StartWriteStreamIfNeeded(Stop(remote))
    /\ UNCHANGED <<mutations, client, server, owner, app, troubles>>

-----------------------------------------------------------------------------
(* The server (external): it handles the requests of a call in order until *)
(* it closes the call or the call is lost.                                 *)

ServerReady == remote.call.status = "open" /\ remote.call.up # <<>>

ServerShakesHands ==
    /\ ServerReady /\ Head(remote.call.up) = Handshake
    /\ remote' = [remote EXCEPT !.call.up = Tail(@),
                                !.call.down = Append(@, Handshake)]
    /\ UNCHANGED <<mutations, client, server, owner, app, sound, troubles>>

ServerApplies ==
    LET w == Head(remote.call.up)
    IN  /\ ServerReady /\ w # Handshake
        /\ applied' = applied \union {w}
        /\ content' = [content EXCEPT ![owner[w]] = w]
        /\ remote' = [remote EXCEPT !.call.up = Tail(@), !.call.down = Append(@, w)]
        /\ UNCHANGED <<mutations, client, refused, owner, app, sound, troubles>>

ServerRefuses ==
    LET w == Head(remote.call.up)
    IN  /\ ServerReady /\ w # Handshake
        /\ refused' = refused \union {w}
        /\ remote' = [remote EXCEPT !.call.up = Tail(@), !.call.status = "permanent"]
        /\ UNCHANGED <<mutations, client, applied, content, owner, app, sound, troubles>>

\* The server ends the call for a reason of its own; an error it calls
\* permanent is about the request at hand, here the handshake.
ServerCloses(status) ==
    /\ Trouble
    /\ remote.call.status = "open"
    /\ status = "permanent" => ServerReady /\ Head(remote.call.up) = Handshake
    /\ remote' = [remote EXCEPT !.call.status = status]
    /\ UNCHANGED <<mutations, client, server, owner, app, sound>>

-----------------------------------------------------------------------------
(* Reading from the stream.                                                *)

\* The first response of a stream: everything in the pipeline is sent.
OnWriteStreamHandshakeComplete ==
    /\ remote.call.down # <<>> /\ ~remote.handshake
    /\ remote' = Write([Read(remote) EXCEPT !.handshake = TRUE],
                       WritesOf(remote.pipeline))
    /\ UNCHANGED <<mutations, client, server, owner, app, sound, troubles>>

\* Any other response belongs to the front of the pipeline.  The handler is
\* told before the batch leaves the disk.
OnWriteStreamMutationResult ==
    LET batch == Head(remote.pipeline)
        gone == Keyed(mutations, currentUser, batch.id)
    IN  /\ remote.call.down # <<>> /\ remote.handshake
        /\ \/ /\ remote.pipeline # <<>>
              /\ sound' = (sound /\ gone # {})
              /\ NotifyUser(batch.id, "ok")
              /\ TriggerPendingWriteCallbacks(batch.id)
              /\ mutations' = mutations \ gone
              /\ remote' = FillWritePipeline([Read(remote) EXCEPT !.pipeline = Tail(@)],
                                             currentUser, mutations')
           \/ /\ remote.pipeline = <<>>
              /\ sound' = FALSE
              /\ remote' = Read(remote)
              /\ UNCHANGED <<mutations, callbacks, waiters, app>>
        /\ UNCHANGED <<currentUser, nextBatchId, server, owner, troubles>>

-----------------------------------------------------------------------------
(* Losing the stream.                                                      *)

\* Mutant: Aborted counts as permanent, as it does for reads.
IsPermanentError(status) == status \in {"permanent", "aborted"}

\* Datastore::IsPermanentWriteError
IsPermanentWriteError(status) == status = "permanent"

\* OnStreamFinish with an error: Close, OnWriteStreamClose and, for a
\* permanent error of an established stream, HandleWriteError.
OnStreamFinish(status) ==
    LET batch == Head(remote.pipeline)
        gone == Keyed(mutations, currentUser, batch.id)
        failed == Close(remote, "Error")
    IN  IF remote.pipeline # <<>> /\ remote.handshake /\ IsPermanentWriteError(status)
        THEN /\ sound' = (sound /\ gone # {})
             /\ mutations' = mutations \ gone
             /\ NotifyUser(batch.id, "error")
             /\ TriggerPendingWriteCallbacks(batch.id)
             /\ remote' = FillWritePipeline(
                              InhibitBackoff([failed EXCEPT !.pipeline = Tail(@)]),
                              currentUser, mutations')
        ELSE /\ remote' = StartWriteStreamIfNeeded(failed)
             /\ UNCHANGED <<mutations, callbacks, waiters, app, sound>>

\* The read at the end of the responses fails: the server's status.
ReadFails ==
    /\ remote.call.status \in Closings /\ remote.call.down = <<>>
    /\ OnStreamFinish(remote.call.status)
    /\ UNCHANGED <<currentUser, nextBatchId, server, owner, troubles>>

\* A write still under way on a call the server closed fails as soon as the
\* close arrives, behind the one read that was outstanding then and ahead of
\* the next: OnOperationFailed cancels the reads, responses that have arrived
\* included, and takes the server's status.
WriteFails ==
    /\ remote.call.readSince /\ remote.call.up # <<>>
    /\ remote.call.down # <<>>
    /\ OnStreamFinish(remote.call.status)
    /\ UNCHANGED <<currentUser, nextBatchId, server, owner, troubles>>

\* The connection is lost with what was under way in either direction.
ConnectionLost ==
    /\ Trouble
    /\ IsOpen(remote)
    /\ OnStreamFinish("transient")
    /\ UNCHANGED <<currentUser, nextBatchId, server, owner>>

\* ResumeStartWithCredentials without a token.
CredentialsFail ==
    /\ Trouble
    /\ remote.closes \in remote.requests
    /\ sound' = (sound /\ remote.stream = "Starting")
    /\ remote' = StartWriteStreamIfNeeded(
                     Close([remote EXCEPT !.requests = @ \ {remote.closes}], "Error"))
    /\ UNCHANGED <<mutations, client, server, owner, app>>

\* A response that cannot be decoded ends the stream with a permanent error.
ResponseUnreadable ==
    /\ Trouble
    /\ remote.call.down # <<>>
    /\ OnStreamFinish("permanent")
    /\ UNCHANGED <<currentUser, nextBatchId, server, owner>>

-----------------------------------------------------------------------------
\* The process ends, possibly between telling a handler and the removal of
\* its batch, and starts again on what is on disk.
Crash(acknowledging) ==
    /\ Trouble
    /\ IF acknowledging
       THEN /\ remote.call.down # <<>> /\ remote.handshake /\ remote.pipeline # <<>>
            /\ told' = told \union {[write |-> c.write, status |-> "ok"] :
                           c \in Keyed(callbacks, currentUser, Head(remote.pipeline).id)}
       ELSE UNCHANGED told
    /\ nextBatchId' = LoadNextBatchId(mutations)
    /\ callbacks' = {} /\ waiters' = {}
    /\ remote' = NewRemoteStore(currentUser, mutations)
    /\ UNCHANGED <<mutations, currentUser, server, owner, released, sound>>

-----------------------------------------------------------------------------
ServerStep == ServerShakesHands \/ ServerApplies \/ ServerRefuses

Reading == OnWriteStreamHandshakeComplete \/ OnWriteStreamMutationResult \/ ReadFails

Next ==
    \/ WriteMutations
    \/ RegisterPendingWritesCallback
    \/ \E u \in Users : HandleCredentialChange(u)
    \/ ConnectivityChanged
    \/ SwitchNetwork
    \/ \E n \in remote.requests : ResumeStartWithCredentials(n)
    \/ BackoffElapsed
    \/ IdleTimeout
    \/ ServerShakesHands \/ ServerApplies \/ ServerRefuses
    \/ \E status \in Closings : ServerCloses(status)
    \/ OnWriteStreamHandshakeComplete
    \/ OnWriteStreamMutationResult
    \/ ReadFails
    \/ WriteFails
    \/ ConnectionLost
    \/ CredentialsFail
    \/ ResponseUnreadable
    \/ \E acknowledging \in BOOLEAN : Crash(acknowledging)

Fairness ==
    /\ WF_vars(\E n \in remote.requests : ResumeStartWithCredentials(n))
    /\ WF_vars(BackoffElapsed)
    /\ WF_vars(ServerStep)
    /\ WF_vars(Reading)

Spec == Init /\ [][Next]_vars /\ Fairness

-----------------------------------------------------------------------------
Pending(u) == {r.write : r \in RowsOf(mutations, u)}

Responses == {Handshake} \union DOMAIN owner

\* The type of the state: rows and handlers are keyed by user and batch id,
\* requests and responses name writes that were made.
TypeOK ==
    /\ owner \in Seq(Users)
    /\ mutations \subseteq [user : Users, id : 1 .. MaxWrites, write : DOMAIN owner]
    /\ callbacks \subseteq [user : Users, id : 1 .. MaxWrites, write : DOMAIN owner]
    /\ waiters \subseteq [id : 1 .. MaxWrites, writes : SUBSET DOMAIN owner]
    /\ currentUser \in Users
    /\ nextBatchId \in 1 .. MaxWrites + 1
    /\ remote.stream \in {"Initial", "Starting", "Backoff", "Open", "Error"}
    /\ {remote.enabled, remote.handshake, remote.idle, sound} \subseteq BOOLEAN
    /\ remote.pipeline \in Seq(mutations) /\ Len(remote.pipeline) <= MaxPendingWrites
    /\ remote.closes \in Nat /\ remote.requests \subseteq 0 .. remote.closes
    /\ remote.call.status \in Closings \union {"none", "open"}
    /\ remote.call.readSince => remote.call.status \in Closings
    /\ remote.call.up \in Seq(Responses) /\ remote.call.down \in Seq(Responses)
    /\ applied \subseteq DOMAIN owner /\ refused \subseteq DOMAIN owner
    /\ content \in [Users -> Responses]
    /\ told \subseteq [write : DOMAIN owner, status : {"ok", "error"}]
    /\ released \subseteq SUBSET DOMAIN owner

\* No HARD_ASSERT of the stream, the pipeline or the mutation queue fails: a
\* response always finds a batch in the pipeline and its row on disk, late
\* credentials never open a second call, and the idle timer never stops a
\* stream that still has something to send.
NoHardAssertFails == sound

\* Responses are matched by position only, and they match: what the client
\* has yet to read and the server has yet to handle is, in this order, the
\* pipeline (or its front, once the server has closed the call).
ResponsesMatchPipeline ==
    remote.handshake =>
        LET open == remote.call.down \o remote.call.up
        IN  /\ Len(open) <= Len(remote.pipeline)
            /\ remote.call.status = "open" => Len(open) = Len(remote.pipeline)
            /\ \A i \in 1 .. Len(remote.call.down) :
                   remote.call.down[i] = remote.pipeline[i].write

\* A write is never undone by the repetition of an older one: whatever is
\* newer than what the server shows of a user is still queued on the device
\* or was refused.  (A batch whose response was lost is sent again, and for
\* a while the server shows the older write.)
NoneUndone ==
    \A w \in DOMAIN owner :
        w > content[owner[w]] => w \in Pending(owner[w]) \union refused

\* A completion handler hears once, and hears of success only if its write
\* took effect; an error is of a write the server has seen.
HandlersHearTheTruth ==
    \A s, t \in told :
        /\ s.write = t.write => s = t
        /\ t.status = "ok" => t.write \in applied
        /\ t.write \in applied \union refused

\* waitForPendingWrites waits only for the newest batch, and that is enough:
\* when it answers, every write it was called for has been decided.
WaitersHeldBack == \A writes \in released : writes \subseteq applied \union refused

\* Whatever fails on the way, while the network is enabled the current user's
\* queue is emptied again and again.
Drains == []<>(remote.enabled => Pending(currentUser) = {})

\* The promise the pipeline implements.
Promise == INSTANCE DurableWrites WITH
    pending <- {r.write : r \in mutations}

ImplementsDurableWrites == Promise!Spec
=============================================================================
