----------------------------- MODULE WatchReads -----------------------------
(***************************************************************************)
(* How getDocuments (runMatching's fetch of the profiles) is answered: the *)
(* get is a listener that removes itself at its first event.  EventManager *)
(* and SyncEngine keep a view of each query, RemoteStore a watch stream    *)
(* with its WatchChangeAggregator, and OnlineStateTracker decides when to  *)
(* stop waiting for the server and answer from the cache.                  *)
(*                                                                         *)
(* Every action is one operation of Firestore's worker queue, one event on *)
(* the user's executor, or a step of the server.  One operation may        *)
(* broadcast several online states and raise events for each, so the state *)
(* the worker queue owns is one record, and the code's functions are       *)
(* operators from records to records.                                      *)
(*                                                                         *)
(* What a query returns is the number of the server's state it shows.      *)
(* Resume tokens, existence filters, limbo documents, local writes, delays *)
(* and credentials that arrive late (WritePipeline) are left out.          *)
(***************************************************************************)
EXTENDS Integers, Sequences, FiniteSets, Functions

CONSTANTS Queries,      \* what a get asks for; a query has one target id
          Denied,       \* the queries the security rules refuse
          MaxGets,      \* bound: calls of getDocuments
          MaxVersions,  \* bound: states of the server
          MaxTroubles   \* bound: lost connections, changes of network

None == "none"

ASSUME ReadsAssumption ==
    /\ Denied \subseteq Queries /\ None \notin Queries
    /\ MaxVersions \in Nat \ {0}
    /\ {MaxGets, MaxTroubles} \subseteq Nat

VARIABLES
    client,         \* what the worker queue owns, and the call it has open
    muted,          \* AsyncEventListener::muted_ of each get
    removing,       \* the gets whose RemoveListener is on the worker queue
    answers,        \* history: what the completion handler of each get was given
    since,          \* history: the server's state when the get's listen began
    serverVersion,  \* the server's state
    troubles        \* history: how much went wrong

vars == <<client, muted, removing, answers, since, serverVersion, troubles>>

\* Gets are numbered in the order of their calls.
Gets == 1 .. MaxGets
OnlineStates == {"Unknown", "Online", "Offline"}

HardAssert(c, condition) == [c EXCEPT !.sound = @ /\ condition]

-----------------------------------------------------------------------------
(* Listeners: EventManager and QueryListener.                              *)

\* The snapshot a get is shown: its query's view on the cache.
EventOf(c, g) ==
    [source |-> IF c.query[g] \in c.synced THEN "server" ELSE "cache",
     version |-> c.cache[c.query[g]]]

\* events[g] is put on the user's executor for each listener g.
Post(c, events) ==
    [c EXCEPT !.posted = [g \in Gets |-> IF g \in DOMAIN events
                                         THEN Append(@[g], events[g]) ELSE @[g]]]

Raise(c, gs) ==
    [Post(c, [g \in gs |-> EventOf(c, g)]) EXCEPT !.raised = @ \union gs]

\* wait_for_sync_when_online is set: synced, or offline.
ShouldRaiseInitialEvent(c, g) == c.query[g] \in c.synced \/ c.state = "Offline"

Listeners(c, q) == {g \in c.attached : c.query[g] = q}

\* Each of the queries has a new snapshot; a get that has had its first
\* event and is not removed yet gets the later ones too.
OnViewSnapshots(c, queries) ==
    Raise(c, {g \in c.attached : /\ c.query[g] \in queries
                                 /\ g \in c.raised \/ ShouldRaiseInitialEvent(c, g)})

\* SyncEngine::HandleOnlineStateChange: offline no view is current, and the
\* listeners hear of that before they hear of the state.
HandleOnlineStateChange(c, state) ==
    LET outdated == IF state = "Offline" THEN c.synced ELSE {}
        shown == OnViewSnapshots([c EXCEPT !.synced = @ \ outdated], outdated)
        now == [shown EXCEPT !.state = state]
    IN  Raise(now, {g \in now.attached \ now.raised : ShouldRaiseInitialEvent(now, g)})

-----------------------------------------------------------------------------
(* OnlineStateTracker.  Of the number of failures the code only asks       *)
(* whether there were any (kMaxWatchStreamFailures is 1).                  *)

SetAndBroadcast(c, state) ==
    IF state = c.state THEN c ELSE HandleOnlineStateChange(c, state)

\* Mutant: the timer is left running.
KeepOnlineStateTimer(c) == c

ClearOnlineStateTimer(c) == [c EXCEPT !.timer = FALSE]

UpdateState(c, state) ==
    SetAndBroadcast([ClearOnlineStateTimer(c) EXCEPT !.failed = FALSE], state)

HandleWatchStreamStart(c) ==
    IF c.failed THEN c
    ELSE LET unknown == SetAndBroadcast(c, "Unknown")
         IN  [HardAssert(unknown, ~unknown.timer) EXCEPT !.timer = TRUE]

\* Mutant: a failure is counted and nobody is told.
CountWatchStreamFailure(c) ==
    IF c.state = "Online" THEN SetAndBroadcast(c, "Unknown")
    ELSE [ClearOnlineStateTimer(c) EXCEPT !.failed = TRUE]

HandleWatchStreamFailure(c) ==
    IF c.state = "Online"
    THEN HardAssert(SetAndBroadcast(c, "Unknown"), ~c.failed /\ ~c.timer)
    ELSE SetAndBroadcast([ClearOnlineStateTimer(c) EXCEPT !.failed = TRUE], "Offline")

-----------------------------------------------------------------------------
(* The stream and the call it owns, with what the server knows of it: the  *)
(* targets it watches, the state it last sent of each (0 for none), and    *)
(* whether a snapshot of what it sent is due.                              *)

NoCall == [up |-> <<>>, down |-> <<>>, heard |-> FALSE,
           watched |-> {}, served |-> [q \in Queries |-> 0], due |-> FALSE]

IsOpen(c) == c.stream = "Open"
IsStarted(c) == c.stream \in {"Starting", "Backoff", "Open"}

StartStream(c) == [c EXCEPT !.stream = IF @ = "Error" THEN "Backoff" ELSE "Starting"]

MarkIdle(c) == IF IsOpen(c) THEN [c EXCEPT !.idle = TRUE] ELSE c

Close(c, stream) == [c EXCEPT !.stream = stream, !.call = NoCall, !.idle = FALSE]

-----------------------------------------------------------------------------
(* WatchChangeAggregator: a target state that is absent is like a new one. *)

NewTarget == [outstanding |-> 0, current |-> FALSE, changed |-> FALSE]

NewAggregator(c) == [c EXCEPT !.targets = [q \in Queries |-> NewTarget],
                              !.documents = [q \in Queries |-> 0]]

\* Mutant: a target is active whenever it is listened to.
IsListenedTo(c, q) == q \in c.listens

\* Listened to, and no answer to an earlier request is due.
IsActiveTarget(c, q) == q \in c.listens /\ c.targets[q].outstanding = 0

\* A watch or unwatch request is recorded and written.
Send(c, q, request) ==
    [c EXCEPT !.targets[q].outstanding = @ + 1,
              !.call.up = Append(@, [request |-> request, query |-> q]),
              !.idle = FALSE]

HandleTargetChange(c, q, change) ==
    LET answered == [c.targets[q] EXCEPT !.outstanding = @ - 1]
        target ==
            CASE change = "added" /\ answered.outstanding = 0 ->
                     [answered EXCEPT !.changed = FALSE]
              [] change = "removed" /\ answered.outstanding = 0 -> NewTarget
              [] change \in {"added", "removed"} /\ answered.outstanding # 0 -> answered
              [] change = "current" ->
                     IF IsActiveTarget(c, q)
                     THEN [c.targets[q] EXCEPT !.current = TRUE, !.changed = TRUE]
                     ELSE c.targets[q]
    IN  [c EXCEPT !.targets[q] = target]

HandleDocumentChange(c, q, version) ==
    IF IsActiveTarget(c, q)
    THEN [c EXCEPT !.documents[q] = version, !.targets[q].changed = TRUE]
    ELSE c

-----------------------------------------------------------------------------
(* RemoteStore.                                                            *)

ShouldStartWatchStream(c) == c.enabled /\ ~IsStarted(c) /\ c.listens # {}

StartWatchStream(c) ==
    HandleWatchStreamStart(StartStream(NewAggregator(HardAssert(c, ShouldStartWatchStream(c)))))

\* OnWatchStreamClose, after Stream::Close.
OnWatchStreamClose(c, ok) ==
    LET closed == HardAssert(c, ok => ~ShouldStartWatchStream(c))
    IN  IF ShouldStartWatchStream(c)
        THEN StartWatchStream(HandleWatchStreamFailure(closed))
        ELSE UpdateState(closed, "Unknown")

Stop(c) == IF IsStarted(c) THEN OnWatchStreamClose(Close(c, "Initial"), TRUE) ELSE c

Listen(c, q) ==
    LET listened == [c EXCEPT !.listens = @ \union {q}]
    IN  IF q \in c.listens THEN c
        ELSE IF ShouldStartWatchStream(listened) THEN StartWatchStream(listened)
        ELSE IF IsOpen(c) THEN Send(listened, q, "watch") ELSE listened

StopListening(c, q) ==
    LET erased == [HardAssert(c, q \in c.listens) EXCEPT !.listens = @ \ {q}]
        sent == IF IsOpen(c) THEN Send(erased, q, "unwatch") ELSE erased
    IN  IF sent.listens # {} THEN sent
        ELSE IF IsOpen(sent) THEN MarkIdle(sent)
        ELSE IF sent.enabled THEN UpdateState(sent, "Unknown") ELSE sent

EnableNetwork(c) ==
    LET enabled == [c EXCEPT !.enabled = TRUE]
    IN  IF ShouldStartWatchStream(enabled) THEN StartWatchStream(enabled)
        ELSE UpdateState(enabled, "Unknown")

DisableNetworkInternal(c) == Stop([c EXCEPT !.enabled = FALSE])

DisableNetwork(c) == UpdateState(DisableNetworkInternal(c), "Offline")

InhibitBackoff(c) == [c EXCEPT !.stream = "Initial"]

RestartNetwork(c) ==
    EnableNetwork(InhibitBackoff(UpdateState(DisableNetworkInternal(c), "Unknown")))

\* RaiseWatchSnapshot, CreateRemoteEvent and ApplyRemoteEvent: all documents
\* received go to the cache, the active targets that changed decide whether
\* their views are current, and what is new is shown.
RaiseWatchSnapshot(c) ==
    LET changes == {q \in Queries : IsActiveTarget(c, q) /\ c.targets[q].changed}
        synced == (c.synced \ changes) \union {q \in changes : c.targets[q].current}
        cache == [q \in Queries |-> IF c.documents[q] = 0 THEN c.cache[q] ELSE c.documents[q]]
        new == {q \in c.views : cache[q] # c.cache[q] \/ (q \in synced) # (q \in c.synced)}
        applied == [c EXCEPT !.targets = [q \in Queries |-> IF q \in changes
                                              THEN [@[q] EXCEPT !.changed = FALSE] ELSE @[q]],
                             !.documents = [q \in Queries |-> 0],
                             !.synced = synced, !.cache = cache]
    IN  OnViewSnapshots(applied, new)

\* Mutant: the listeners are told and the view is kept.
TargetErrorKeepsView(c, q) ==
    LET errors == [g \in Listeners(c, q) |-> [source |-> "error", version |-> 0]]
    IN  IF q \notin c.listens THEN c
        ELSE [Post(c, errors) EXCEPT
                  !.listens = @ \ {q}, !.targets[q] = NewTarget,
                  !.attached = @ \ Listeners(c, q)]

\* ProcessTargetError and HandleRejectedListen: unless nobody listens any
\* more, the error goes to all listeners, which are forgotten.
ProcessTargetError(c, q) ==
    LET errors == [g \in Listeners(c, q) |-> [source |-> "error", version |-> 0]]
    IN  IF q \notin c.listens THEN c
        ELSE [Post(c, errors) EXCEPT
                  !.listens = @ \ {q}, !.views = @ \ {q}, !.synced = @ \ {q},
                  !.targets[q] = NewTarget, !.attached = @ \ Listeners(c, q)]

-----------------------------------------------------------------------------
\* Something out of the ordinary happens, as often as the bound allows.
Trouble == troubles < MaxTroubles /\ troubles' = troubles + 1

Init ==
    /\ client = NewAggregator(
           [enabled |-> TRUE, state |-> "Unknown", failed |-> FALSE, timer |-> FALSE,
            stream |-> "Initial", idle |-> FALSE, call |-> NoCall,
            listens |-> {}, targets |-> <<>>, documents |-> <<>>,
            views |-> {}, synced |-> {}, cache |-> [q \in Queries |-> 0],
            query |-> [g \in Gets |-> None], attached |-> {}, raised |-> {},
            posted |-> [g \in Gets |-> <<>>], sound |-> TRUE])
    /\ muted = {} /\ removing = {}
    /\ answers = [g \in Gets |-> <<>>]
    /\ since = [g \in Gets |-> 0]
    /\ serverVersion = 1
    /\ troubles = 0

\* GetDocuments: AddQueryListener runs on the worker queue.  A first listener
\* of a query has SyncEngine::Listen open a view on the cache; another one is
\* shown the snapshot the first one has.
GetDocuments(g, q) ==
    LET others == Listeners(client, q)
        added == [client EXCEPT !.query[g] = q, !.attached = @ \union {g}]
        viewed == [HardAssert(added, q \notin client.views) EXCEPT !.views = @ \union {q}]
    IN  /\ client.query[g] = None
        /\ \A h \in 1 .. g - 1 : client.query[h] # None
        /\ client' = IF others = {} THEN Listen(OnViewSnapshots(viewed, {q}), q)
                     ELSE Raise(added, {h \in {g} : ShouldRaiseInitialEvent(added, h)})
        /\ since' = [since EXCEPT ![g] = IF others = {} THEN serverVersion
                                         ELSE since[CHOOSE h \in others : TRUE]]
        /\ UNCHANGED <<muted, removing, answers, serverVersion, troubles>>

\* RemoveQueryListener: the last listener of a query takes the view and the
\* listen along.  After an error there is nothing to remove.
RemoveQueryListener(g) ==
    LET q == client.query[g]
        erased == [client EXCEPT !.attached = @ \ {g}]
        stopped == [HardAssert(erased, q \in client.views)
                       EXCEPT !.views = @ \ {q}, !.synced = @ \ {q}]
    IN  /\ g \in removing
        /\ removing' = removing \ {g}
        /\ client' = IF g \in client.attached /\ Listeners(erased, q) = {}
                     THEN StopListening(stopped, q) ELSE erased
        /\ UNCHANGED <<muted, answers, since, serverVersion, troubles>>

\* Mutant: the listener is removed and not muted.
Unmuted(g) == muted

Mute(g) == muted \union {g}

\* The user's executor runs AsyncEventListener::OnEvent and ListenOnce: the
\* first snapshot mutes the listener and has it removed, if it is still
\* there, before the handler is called; an error only calls the handler.
DeliverEvent(g) ==
    LET event == Head(client.posted[g])
    IN  /\ client.posted[g] # <<>>
        /\ client' = [client EXCEPT !.posted[g] = Tail(@)]
        /\ IF g \in muted THEN UNCHANGED <<muted, removing, answers>>
           ELSE /\ answers' = [answers EXCEPT ![g] = Append(@, event)]
                /\ IF event.source = "error" THEN UNCHANGED <<muted, removing>>
                   ELSE /\ muted' = Mute(g)
                        /\ removing' = removing \union ({g} \intersect client.attached)
        /\ UNCHANGED <<since, serverVersion, troubles>>

-----------------------------------------------------------------------------
(* The life of the stream.                                                 *)

Worker(c) ==
    /\ client' = c
    /\ UNCHANGED <<muted, removing, answers, since, serverVersion>>

\* Every listen is sent, in the order of an unordered map.
SendAll(c, order) ==
    LET sent == [q \in Queries |-> IF q \in c.listens
                     THEN [c.targets[q] EXCEPT !.outstanding = @ + 1] ELSE c.targets[q]]
    IN  [c EXCEPT !.targets = sent,
                  !.call.up = [i \in DOMAIN order |-> [request |-> "watch", query |-> order[i]]]]

\* ResumeStartWithCredentials: the stream is open once its call exists.
OnWatchStreamOpen ==
    /\ client.stream = "Starting"
    /\ \E order \in Bijection(1 .. Cardinality(client.listens), client.listens) :
           Worker(SendAll([client EXCEPT !.stream = "Open"], order))
    /\ UNCHANGED troubles

BackoffElapsed ==
    /\ client.stream = "Backoff"
    /\ Worker(StartStream([client EXCEPT !.stream = "Initial"]))
    /\ UNCHANGED troubles

\* The idle timer stops the stream gracefully.
IdleTimeout ==
    /\ client.idle
    /\ Worker(Stop(client))
    /\ UNCHANGED troubles

OnlineStateTimeout ==
    /\ client.timer
    /\ Worker(SetAndBroadcast(
           HardAssert([client EXCEPT !.timer = FALSE], client.state = "Unknown"), "Offline"))
    /\ UNCHANGED troubles

Fail == Worker(OnWatchStreamClose(Close(client, "Error"), FALSE))

\* There are no credentials, any number of times in a row.
CredentialsFail ==
    /\ client.stream = "Starting"
    /\ Fail
    /\ UNCHANGED troubles

\* The server has not said anything on this call and is not going to.
Unanswered == IsOpen(client) /\ ~client.call.heard

\* gRPC gives the attempt up, any number of times in a row.
AttemptFails == Unanswered /\ Fail /\ UNCHANGED troubles

\* An established connection is lost with what was under way.
ConnectionLost ==
    /\ Trouble
    /\ IsOpen(client) /\ client.call.heard
    /\ Fail

\* The connectivity monitor's callback, or a new token.
ConnectivityChanged ==
    /\ Trouble
    /\ client.enabled
    /\ Worker(RestartNetwork(client))

SwitchNetwork ==
    /\ Trouble
    /\ Worker(DisableNetwork(client)) \/ Worker(EnableNetwork(client))

\* OnWatchStreamChange: whatever the message says, the client is online.
OnWatchStreamChange ==
    LET message == Head(client.call.down)
        read == [client EXCEPT !.call.down = Tail(@), !.call.heard = TRUE]
        c == UpdateState(read, "Online")
    IN  /\ client.call.down # <<>>
        /\ Worker(CASE message.type = "snapshot" -> RaiseWatchSnapshot(c)
                    [] message.type = "documents" ->
                           HandleDocumentChange(c, message.query, message.version)
                    [] message.type = "denied" -> ProcessTargetError(c, message.query)
                    [] message.type \in {"added", "removed", "current"} ->
                           HandleTargetChange(c, message.query, message.type))
        /\ UNCHANGED troubles

-----------------------------------------------------------------------------
(* The server (external).  It answers every request of a call in order,    *)
(* and sends a snapshot once it has sent the state of every watched target. *)

Respond(messages) == [client EXCEPT !.call.down = @ \o messages]

About(type, q) == [type |-> type, query |-> q]

ServerAnswers ==
    LET q == Head(client.call.up).query
        handled == [client EXCEPT !.call.up = Tail(@), !.call.served[q] = 0]
        Handled(type, watched) ==
            [handled EXCEPT !.call.watched = watched,
                            !.call.down = Append(@, About(type, q))]
        w == client.call.watched
    IN  /\ client.call.up # <<>>
        /\ Worker(IF Head(client.call.up).request = "unwatch" THEN Handled("removed", w \ {q})
                  ELSE IF q \in Denied THEN Handled("denied", w)
                  ELSE Handled("added", w \union {q}))
        /\ UNCHANGED troubles

ServerSendsTarget(q) ==
    LET documents == [type |-> "documents", query |-> q, version |-> serverVersion]
        current == IF client.call.served[q] = 0 THEN <<About("current", q)>> ELSE <<>>
    IN  /\ q \in client.call.watched
        /\ client.call.served[q] # serverVersion
        /\ Worker([Respond(<<documents>> \o current)
                      EXCEPT !.call.served[q] = serverVersion, !.call.due = TRUE])
        /\ UNCHANGED troubles

ServerSendsSnapshot ==
    /\ client.call.due
    /\ \A q \in client.call.watched : client.call.served[q] = serverVersion
    /\ Worker([Respond(<<[type |-> "snapshot"]>>) EXCEPT !.call.due = FALSE])
    /\ UNCHANGED troubles

\* Somebody else writes.
ServerChanges ==
    /\ serverVersion < MaxVersions
    /\ serverVersion' = serverVersion + 1
    /\ UNCHANGED <<client, muted, removing, answers, since, troubles>>

ServerStep ==
    \/ ServerAnswers
    \/ \E q \in Queries : ServerSendsTarget(q)
    \/ ServerSendsSnapshot

-----------------------------------------------------------------------------
Next ==
    \/ \E g \in Gets, q \in Queries : GetDocuments(g, q)
    \/ \E g \in Gets : RemoveQueryListener(g)
    \/ \E g \in Gets : DeliverEvent(g)
    \/ OnWatchStreamOpen
    \/ BackoffElapsed
    \/ IdleTimeout
    \/ OnlineStateTimeout
    \/ CredentialsFail
    \/ AttemptFails
    \/ ConnectionLost
    \/ ConnectivityChanged
    \/ SwitchNetwork
    \/ OnWatchStreamChange
    \/ ServerAnswers
    \/ \E q \in Queries : ServerSendsTarget(q)
    \/ ServerSendsSnapshot
    \/ ServerChanges

\* There is something to send, to read, or to give up.
CallBusy ==
    \/ client.call.up # <<>> \/ client.call.down # <<>> \/ client.call.due
    \/ \E q \in client.call.watched : client.call.served[q] # serverVersion
    \/ Unanswered

\* The last conjunct is weak fairness of the call's steps, with CallBusy for
\* their ENABLED: the server need not answer, but an attempt it does not
\* answer fails in the end (gRPC's keepalive).
Fairness ==
    /\ \A g \in Gets : WF_vars(DeliverEvent(g))
    /\ WF_vars(OnWatchStreamOpen \/ CredentialsFail)
    /\ WF_vars(BackoffElapsed)
    /\ \/ []<>~CallBusy
       \/ []<><<ServerStep \/ OnWatchStreamChange \/ AttemptFails>>_vars

Spec == Init /\ [][Next]_vars /\ Fairness

-----------------------------------------------------------------------------
Sources == {"server", "cache", "error"}
Events == [source : Sources, version : 0 .. MaxVersions]

\* The type of the state.  A count of outstanding responses may be negative:
\* an error answers all requests of its target at once.
TypeOK ==
    /\ client.stream \in {"Initial", "Starting", "Backoff", "Open", "Error"}
    /\ client.state \in OnlineStates
    /\ {client.enabled, client.failed, client.timer, client.idle, client.sound} \subseteq BOOLEAN
    /\ client.synced \subseteq client.views
    /\ client.listens = client.views
    /\ client.views = {client.query[g] : g \in client.attached}
    /\ client.query \in [Gets -> Queries \union {None}]
    /\ client.targets \in [Queries -> [outstanding : Int, current : BOOLEAN, changed : BOOLEAN]]
    /\ client.documents \in [Queries -> 0 .. MaxVersions]
    /\ client.cache \in [Queries -> 0 .. MaxVersions]
    /\ client.posted \in [Gets -> Seq(Events)] /\ answers \in [Gets -> Seq(Events)]
    /\ client.raised \subseteq Gets /\ muted \subseteq client.raised
    /\ removing \subseteq muted
    /\ client.call.watched \subseteq Queries \ Denied
    /\ since \in [Gets -> 0 .. serverVersion]

\* No HARD_ASSERT of RemoteStore, OnlineStateTracker or SyncEngine fails: no
\* second timer is started, the timer never finds the state decided, no
\* stream is stopped as idle while somebody listens, and every listen ends
\* once.
NoHardAssertFails == client.sound

\* A get is answered at most once, however many events its listener is sent
\* until the worker queue removes it.
AnsweredOnce == \A g \in Gets : Len(answers[g]) <= 1

\* An answer that claims to come from the server is no older than the listen
\* it comes from: responses to an earlier listen to the same target, still
\* under way, are not taken for it.  (A get that joins a listen gets what
\* that listen has.)
AnswersFresh ==
    \A g \in Gets : \A i \in DOMAIN answers[g] :
        answers[g][i].source = "server" => answers[g][i].version >= since[g]

\* Every get is answered: from the server, or from the cache if the server
\* cannot be reached, also if it never can.
GetsAnswered ==
    \A g \in Gets : client.query[g] # None ~> answers[g] # <<>>
=============================================================================
