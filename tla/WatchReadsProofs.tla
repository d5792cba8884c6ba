-------------------------- MODULE WatchReadsProofs --------------------------
(***************************************************************************)
(* Theorems about WatchReads, for any queries, any number of gets, any     *)
(* states of the server and any number of lost connections.                *)
(*                                                                         *)
(* The freshness of an answer rests on the client's count of outstanding   *)
(* responses. For a query the server does not refuse the count is what the *)
(* call still owes: the requests not yet served and the responses not yet  *)
(* read (CountOK). So a target is active only when nothing on the call is  *)
(* about an earlier listen to it, and then what is on its way is as new as *)
(* the listen (DownFresh), as is what a current view shows (TargetsOK,     *)
(* CurrentOK, SyncedFresh) and what was put on the user's executor         *)
(* (EventsOK). A get is answered once because a snapshot mutes it, and an  *)
(* error is the last event it is sent. The assertions hold because the     *)
(* timer runs only while the state is unknown and a stream is started, and *)
(* because a stream is idle only when nobody listens (TrackerOK,           *)
(* StreamOK). The lemmas follow the operators from records to records.     *)
(***************************************************************************)
EXTENDS WatchReads, FiniteSetTheorems, SequenceTheorems, TLAPS

-----------------------------------------------------------------------------
(* The types of what the client and its call hold.                         *)

Versions == 0 .. MaxVersions
Streams == {"Initial", "Starting", "Backoff", "Open", "Error"}
Targets == [outstanding : Int, current : BOOLEAN, changed : BOOLEAN]

\* What the server may say: documents only of queries it does not refuse.
Allowed == Queries \ Denied
Messages ==
    [type : {"snapshot"}] \union [type : {"documents"}, query : Allowed, version : 1 .. MaxVersions]
    \union [type : {"added", "current"}, query : Allowed] \union [type : {"removed"}, query : Queries]
    \union [type : {"denied"}, query : Denied]
Requests == [request : {"watch", "unwatch"}, query : Queries]

Calls == [up : Seq(Requests), down : Seq(Messages), heard : BOOLEAN,
          watched : SUBSET Allowed, served : [Queries -> Versions], due : BOOLEAN]

Clients ==
    [enabled : BOOLEAN, state : OnlineStates, failed : BOOLEAN, timer : BOOLEAN,
     stream : Streams, idle : BOOLEAN, call : Calls, listens : SUBSET Queries,
     targets : [Queries -> Targets], documents : [Queries -> Versions],
     views : SUBSET Queries, synced : SUBSET Queries, cache : [Queries -> Versions],
     query : [Gets -> Queries \union {None}], attached : SUBSET Gets, raised : SUBSET Gets,
     posted : [Gets -> Seq(Events)], sound : BOOLEAN]

-----------------------------------------------------------------------------
(* The inductive invariant.                                                *)

\* The online state and its timer.
TrackerOK(c) ==
    /\ c.timer => c.state = "Unknown"
    /\ c.state = "Online" => ~c.failed
    /\ c.sound

StreamOK(c) ==
    /\ c.timer => IsStarted(c)
    /\ c.idle => IsOpen(c) /\ c.listens = {}
    /\ ~IsOpen(c) => c.call = NoCall

\* Who listens, and what they are shown; s[g] is the server's state when the
\* listen of get g began.
ListenersOK(c, s) ==
    /\ c.views = {c.query[g] : g \in c.attached}
    /\ c.synced \subseteq c.views \ Denied
    /\ \A g \in Gets : c.query[g] = None =>
           g \notin c.attached /\ c.posted[g] = <<>> /\ answers[g] = <<>>
    /\ \A g, h \in c.attached : c.query[g] = c.query[h] => s[g] = s[h]

\* The version is as new as the listen to q.
Fresh(c, s, q, version) == \A g \in c.attached : c.query[g] = q => version >= s[g]

\* The events on the user's executor: an error is the last one of its get.
EventsOK(c, s) ==
    \A g \in Gets : \A i \in 1 .. Len(c.posted[g]) :
        /\ c.posted[g][i].source = "server" => c.posted[g][i].version >= s[g]
        /\ c.posted[g][i].source = "error" => i = Len(c.posted[g]) /\ g \notin c.attached
        /\ c.posted[g][i].source # "error" => g \in c.raised

\* A get that was answered and is not muted was given an error.
UnmutedOK(c) ==
    \A g \in Gets : g \notin muted /\ answers[g] # <<>> =>
        c.posted[g] = <<>> /\ g \notin c.attached

SyncedFresh(c, s) ==
    \A q \in c.synced : /\ Fresh(c, s, q, c.cache[q])
                        /\ c.documents[q] # 0 => Fresh(c, s, q, c.documents[q])

ViewOK(c, s) == ListenersOK(c, s) /\ EventsOK(c, s) /\ UnmutedOK(c) /\ SyncedFresh(c, s)

\* What a view of q shows once the next snapshot is applied.
Stored(c, q) == IF c.documents[q] = 0 THEN c.cache[q] ELSE c.documents[q]

\* Where a sequence has an element of S.
Places(seq, S) == {i \in 1 .. Len(seq) : seq[i] \in S}

AnswersTo(q) == {About("added", q), About("removed", q)}
RequestsFor(q) == {[request |-> "watch", query |-> q], [request |-> "unwatch", query |-> q]}

\* The responses that a call still owes for target q.
Owed(call, q) == Cardinality(Places(call.down, AnswersTo(q)))
                 + Cardinality(Places(call.up, RequestsFor(q)))

\* Outstanding responses are counted.
CountOK(c) ==
    /\ IsStarted(c) /\ ~IsOpen(c) => \A q \in Queries : c.targets[q] = NewTarget
    /\ IsOpen(c) => \A q \in Allowed : c.targets[q].outstanding = Owed(c.call, q)

\* Nothing said or asked after place k of the call is about watching q.
Settled(call, q, k) ==
    /\ Places(call.up, RequestsFor(q)) = {}
    /\ \A i \in Places(call.down, AnswersTo(q)) : i <= k

IsAbout(m, type, q) == m.type = type /\ m.query = q

\* What is on its way is fresh, unless a response to come makes it obsolete.
DownFresh(c, s) ==
    \A q \in Allowed \intersect c.listens : \A k \in 1 .. Len(c.call.down) :
        IsAbout(c.call.down[k], "documents", q) /\ Settled(c.call, q, k) =>
            Fresh(c, s, q, c.call.down[k].version)

\* A target becomes current right after its documents.
CurrentOK(c, s) ==
    \A q \in Allowed, k \in 1 .. Len(c.call.down) :
        IsAbout(c.call.down[k], "current", q) =>
            IF k = 1 THEN IsActiveTarget(c, q) => Fresh(c, s, q, Stored(c, q))
            ELSE IsAbout(c.call.down[k - 1], "documents", q)

\* An active target that has changed is about to show what is fresh.
TargetsOK(c, s) ==
    /\ \A q \in Denied : ~c.targets[q].current
    /\ IsOpen(c) => \A q \in Allowed :
           IsActiveTarget(c, q) /\ c.targets[q].changed => Fresh(c, s, q, Stored(c, q))

WireOK(c, s) == CountOK(c) /\ DownFresh(c, s) /\ CurrentOK(c, s) /\ TargetsOK(c, s)

ClientOK(c, s) ==
    c \in Clients /\ TrackerOK(c) /\ StreamOK(c) /\ ViewOK(c, s) /\ WireOK(c, s)

HandlersOK ==
    /\ answers \in [Gets -> Seq(Events)] /\ since \in [Gets -> 0 .. serverVersion]
    /\ serverVersion \in 1 .. MaxVersions
    /\ muted \subseteq client.raised /\ removing \subseteq muted
    /\ AnsweredOnce /\ AnswersFresh

IInv == ClientOK(client, since) /\ HandlersOK /\ client.listens = client.views

-----------------------------------------------------------------------------
(* Places in sequences that grow at one end and shrink at the other.       *)

(* Places are finitely many.                                               *)
LEMMA PlacesFinite ==
    ASSUME NEW V, NEW seq \in Seq(V), NEW S
    PROVE  /\ IsFiniteSet(Places(seq, S)) /\ Cardinality(Places(seq, S)) \in Nat
           /\ Cardinality(Places(seq, S)) = 0 <=> Places(seq, S) = {}
<1>1. IsFiniteSet(1 .. Len(seq))
    BY FS_Interval
<1>2. IsFiniteSet(Places(seq, S))
    BY <1>1, FS_Subset DEF Places
<1> QED BY <1>2, FS_CardinalityType, FS_EmptySet

(* One more element, one more place if it is in S.                         *)
LEMMA PlacesAppend ==
    ASSUME NEW V, NEW seq \in Seq(V), NEW S, NEW x \in V
    PROVE  /\ Places(Append(seq, x), S) = Places(seq, S) \union IF x \in S THEN {Len(seq) + 1} ELSE {}
           /\ Cardinality(Places(Append(seq, x), S)) =
                  Cardinality(Places(seq, S)) + IF x \in S THEN 1 ELSE 0
<1>1. Places(Append(seq, x), S) = Places(seq, S) \union IF x \in S THEN {Len(seq) + 1} ELSE {}
    BY DEF Places
<1>2. Len(seq) + 1 \notin Places(seq, S)
    BY DEF Places
<1>3. IsFiniteSet(Places(seq, S)) /\ Cardinality(Places(seq, S)) \in Nat
    BY PlacesFinite
<1>4. CASE x \in S
    BY <1>1, <1>2, <1>3, <1>4, FS_AddElement
<1>5. CASE x \notin S
    BY <1>1, <1>3, <1>5
<1> QED BY <1>1, <1>4, <1>5

(* The head goes, and the others move up.                                  *)
LEMMA PlacesTail ==
    ASSUME NEW V, NEW seq \in Seq(V), NEW S, seq # <<>>
    PROVE  /\ \A i \in Nat : i \in Places(Tail(seq), S) <=> i + 1 \in Places(seq, S) /\ i # 0
           /\ 1 \in Places(seq, S) <=> Head(seq) \in S
           /\ Cardinality(Places(seq, S)) =
                  Cardinality(Places(Tail(seq), S)) + IF Head(seq) \in S THEN 1 ELSE 0
<1> DEFINE T == Places(Tail(seq), S)
           P == Places(seq, S) \ {1}
           f == [i \in T |-> i + 1]
<1>0. /\ Tail(seq) \in Seq(V) /\ Len(seq) \in Nat \ {0} /\ Len(Tail(seq)) = Len(seq) - 1
      /\ \A i \in 1 .. Len(Tail(seq)) : Tail(seq)[i] = seq[i + 1]
      /\ Head(seq) = seq[1]
    OBVIOUS
<1>1. \A i \in Nat : i \in Places(Tail(seq), S) <=> i + 1 \in Places(seq, S) /\ i # 0
    BY <1>0 DEF Places
<1>2. 1 \in Places(seq, S) <=> Head(seq) \in S
    BY <1>0 DEF Places
<1>3. IsFiniteSet(T) /\ IsFiniteSet(Places(seq, S)) /\ Cardinality(T) \in Nat
      /\ Cardinality(Places(seq, S)) \in Nat
    BY <1>0, PlacesFinite
<1>4. f \in Bijection(T, P)
    <2>1. \A i \in T : i \in Nat /\ i # 0
        BY <1>0 DEF Places
    <2>2. f \in [T -> P]
        BY <1>1, <2>1
    <2>3. \A i, j \in T : f[i] = f[j] => i = j
        BY <2>1
    <2>4. \A p \in P : \E i \in T : f[i] = p
        <3>1. \A p \in P : p - 1 \in Nat /\ p - 1 # 0 /\ (p - 1) + 1 = p
            BY <1>0 DEF Places
        <3>2. \A p \in P : p - 1 \in T
            BY <1>1, <3>1
        <3>3. \A p \in P : f[p - 1] = p
            BY <3>1, <3>2
        <3> QED BY <3>2, <3>3
    <2> QED BY <2>2, <2>3, <2>4 DEF Bijection, Injection, Surjection, IsInjective
<1>5. Cardinality(P) = Cardinality(T)
    <2>1. ExistsBijection(T, P)
        BY <1>4 DEF ExistsBijection
    <2> QED BY <1>3, <2>1, FS_Bijection
<1>6. Cardinality(Places(seq, S)) = Cardinality(T) + IF Head(seq) \in S THEN 1 ELSE 0
    <2>1. Cardinality(P) = IF 1 \in Places(seq, S) THEN Cardinality(Places(seq, S)) - 1
                           ELSE Cardinality(Places(seq, S))
        BY <1>3, FS_RemoveElement
    <2> HIDE DEF T, P
    <2> QED BY <1>2, <1>3, <1>5, <2>1
<1> QED BY <1>1, <1>2, <1>6

-----------------------------------------------------------------------------
(* Frames: what an operator leaves alone.                                  *)

Same(d, c) ==
    /\ d.enabled = c.enabled /\ d.stream = c.stream /\ d.idle = c.idle /\ d.call = c.call
    /\ d.listens = c.listens /\ d.targets = c.targets /\ d.documents = c.documents
    /\ d.views = c.views /\ d.cache = c.cache /\ d.query = c.query
    /\ d.attached = c.attached /\ c.raised \subseteq d.raised

SameTracker(d, c) ==
    d.state = c.state /\ d.failed = c.failed /\ d.timer = c.timer /\ d.sound = c.sound

(* A view that is no longer current, or documents that are dropped, make   *)
(* nothing stale.                                                          *)
LEMMA ViewFrame ==
    ASSUME NEW c, NEW d, NEW s, ViewOK(c, s),
           d.views = c.views, d.query = c.query, d.attached = c.attached, d.cache = c.cache,
           d.posted = c.posted, d.raised = c.raised, d.synced \subseteq c.synced,
           \A q \in c.synced : d.documents[q] = 0 \/ d.documents[q] = c.documents[q]
    PROVE  ViewOK(d, s)
<1>1. ListenersOK(d, s)
    BY DEF ViewOK, ListenersOK
<1>2. EventsOK(d, s) /\ UnmutedOK(d)
    BY DEF ViewOK, EventsOK, UnmutedOK
<1>3. SyncedFresh(d, s)
    BY DEF ViewOK, SyncedFresh, Fresh
<1> QED BY <1>1, <1>2, <1>3 DEF ViewOK

\* What the state of the call is judged by.
WireSame(d, c) ==
    /\ d.stream = c.stream /\ d.call = c.call /\ d.listens = c.listens /\ d.targets = c.targets
    /\ d.documents = c.documents /\ d.cache = c.cache /\ d.query = c.query
    /\ d.attached = c.attached

(* What is on the call is judged by the call, the targets and the cache.   *)
LEMMA WireFrame ==
    ASSUME NEW c, NEW d, NEW s, WireSame(d, c), WireOK(c, s)
    PROVE  WireOK(d, s)
<1>1. CountOK(d)
    BY DEF WireOK, CountOK, WireSame, IsStarted, IsOpen
<1>2. DownFresh(d, s)
    BY DEF WireOK, DownFresh, WireSame, Fresh
<1>3. CurrentOK(d, s)
    BY DEF WireOK, CurrentOK, WireSame, Fresh, IsActiveTarget, Stored
<1>4. TargetsOK(d, s)
    BY DEF WireOK, TargetsOK, WireSame, Fresh, IsActiveTarget, Stored, IsOpen
<1> QED BY <1>1, <1>2, <1>3, <1>4 DEF WireOK

(* Frames compose.                                                         *)
LEMMA SameTrans ==
    ASSUME NEW c, NEW d, NEW e, Same(d, c), Same(e, d)
    PROVE  Same(e, c)
BY DEF Same

-----------------------------------------------------------------------------
(* What the listeners are shown.                                           *)

(* EventManager raises an event: its source and its version come from the  *)
(* view, and the get is not forgotten.                                     *)
LEMMA RaiseOK ==
    ASSUME NEW c \in Clients, NEW s \in [Gets -> Nat], ViewOK(c, s),
           NEW gs \in SUBSET c.attached
    PROVE  LET d == Raise(c, gs)
           IN  /\ d \in Clients /\ Same(d, c) /\ SameTracker(d, c) /\ d.synced = c.synced
               /\ ViewOK(d, s)
<1> DEFINE d == Raise(c, gs)
           events == [g \in gs |-> EventOf(c, g)]
           after == [g \in Gets |-> IF g \in gs THEN Append(c.posted[g], EventOf(c, g))
                                    ELSE c.posted[g]]
<1>0. /\ c.attached \in SUBSET Gets /\ c.raised \in SUBSET Gets /\ gs \in SUBSET Gets
      /\ c.posted \in [Gets -> Seq(Events)] /\ c.cache \in [Queries -> Versions]
      /\ c.query \in [Gets -> Queries \union {None}] /\ c.synced \in SUBSET Queries
    BY DEF Clients
<1>1. ASSUME NEW g \in gs
      PROVE  /\ EventOf(c, g) \in Events /\ EventOf(c, g).source # "error"
             /\ EventOf(c, g).source = "server" => EventOf(c, g).version >= s[g]
             /\ g \in Gets
    <2>1. g \in Gets /\ g \in c.attached /\ c.query[g] \in Queries
        BY <1>0 DEF ViewOK, ListenersOK
    <2>2. c.cache[c.query[g]] \in Versions
        BY <1>0, <2>1
    <2>3. /\ EventOf(c, g).source = IF c.query[g] \in c.synced THEN "server" ELSE "cache"
          /\ EventOf(c, g).version = c.cache[c.query[g]]
        BY DEF EventOf
    <2>4. EventOf(c, g) \in Events
        BY <2>2 DEF EventOf, Events, Sources, Versions
    <2>5. c.query[g] \in c.synced => c.cache[c.query[g]] >= s[g]
        BY <2>1 DEF ViewOK, SyncedFresh, Fresh
    <2> QED BY <2>1, <2>3, <2>4, <2>5
<1>2. after \in [Gets -> Seq(Events)]
    BY <1>0, <1>1
<1>3. d = [c EXCEPT !.posted = after, !.raised = @ \union gs]
    <2>1. Post(c, events) = [c EXCEPT !.posted = after]
        BY DEF Post
    <2> QED BY <2>1 DEF Raise, Clients
<1>4. /\ Same(d, c) /\ SameTracker(d, c) /\ d.synced = c.synced
      /\ d.posted = after /\ d.raised = c.raised \union gs
    BY <1>3 DEF Clients, Same, SameTracker
<1>5. d \in Clients
    <2>1. c.raised \union gs \in SUBSET Gets
        BY <1>0
    <2> HIDE DEF after
    <2> QED BY <1>2, <1>3, <2>1 DEF Clients
<1>6. ListenersOK(d, s)
    BY <1>0, <1>4 DEF ViewOK, ListenersOK, Same
<1>7. EventsOK(d, s)
    <2>1. ASSUME NEW g \in Gets, NEW i \in 1 .. Len(after[g])
          PROVE  /\ after[g][i].source = "server" => after[g][i].version >= s[g]
                 /\ after[g][i].source = "error" => i = Len(after[g]) /\ g \notin c.attached
                 /\ after[g][i].source # "error" => g \in d.raised
        <3>1. CASE g \in gs
            <4>1. /\ after[g] = Append(c.posted[g], EventOf(c, g)) /\ c.posted[g] \in Seq(Events)
                  /\ EventOf(c, g) \in Events
                BY <1>0, <1>1, <3>1
            <4>2. CASE i \in 1 .. Len(c.posted[g])
                <5>1. after[g][i] = c.posted[g][i]
                    BY <4>1, <4>2
                <5>2. c.posted[g][i].source # "error"
                    BY <3>1, <4>2 DEF ViewOK, EventsOK
                <5> QED BY <3>1, <4>2, <5>1, <5>2, <1>4 DEF ViewOK, EventsOK
            <4>3. CASE i \notin 1 .. Len(c.posted[g])
                <5>1. after[g][i] = EventOf(c, g)
                    BY <4>1, <4>3
                <5> QED BY <3>1, <5>1, <1>1, <1>4
            <4> QED BY <4>2, <4>3
        <3>2. CASE g \notin gs
            <4>1. after[g] = c.posted[g]
                BY <3>2
            <4> QED BY <4>1, <1>4 DEF ViewOK, EventsOK
        <3> QED BY <3>1, <3>2
    <2> HIDE DEF after
    <2> QED BY <1>4, <2>1 DEF EventsOK, Same
<1>8. UnmutedOK(d)
    BY <1>0, <1>4 DEF ViewOK, UnmutedOK, Same
<1>9. SyncedFresh(d, s)
    BY <1>4 DEF ViewOK, SyncedFresh, Fresh, Same
<1> QED BY <1>4, <1>5, <1>6, <1>7, <1>8, <1>9 DEF ViewOK

\* d is c after some events were raised: nobody was shown anything stale.
Shown(d, c, s) == d \in Clients /\ Same(d, c) /\ ViewOK(d, s)

(* A new snapshot of some queries.                                         *)
LEMMA OnViewSnapshotsOK ==
    ASSUME NEW c \in Clients, NEW s \in [Gets -> Nat], ViewOK(c, s), NEW queries
    PROVE  LET d == OnViewSnapshots(c, queries)
           IN  Shown(d, c, s) /\ SameTracker(d, c) /\ d.synced = c.synced
BY RaiseOK DEF OnViewSnapshots, Shown

(* SyncEngine hears of an online state.                                    *)
LEMMA HandleOnlineStateChangeOK ==
    ASSUME NEW c \in Clients, NEW s \in [Gets -> Nat], ViewOK(c, s), NEW state \in OnlineStates
    PROVE  LET d == HandleOnlineStateChange(c, state)
           IN  /\ Shown(d, c, s) /\ d.state = state
               /\ d.failed = c.failed /\ d.timer = c.timer /\ d.sound = c.sound
<1> DEFINE outdated == IF state = "Offline" THEN c.synced ELSE {}
           fewer == [c EXCEPT !.synced = @ \ outdated]
           shown == OnViewSnapshots(fewer, outdated)
           now == [shown EXCEPT !.state = state]
           d == Raise(now, {g \in now.attached \ now.raised : ShouldRaiseInitialEvent(now, g)})
<1>1. d = HandleOnlineStateChange(c, state)
    BY DEF HandleOnlineStateChange
<1>2. fewer \in Clients /\ Same(fewer, c) /\ SameTracker(fewer, c) /\ ViewOK(fewer, s)
    <2>1. fewer \in Clients /\ Same(fewer, c) /\ SameTracker(fewer, c)
        BY DEF Clients, Same, SameTracker
    <2>2. fewer.posted = c.posted /\ fewer.raised = c.raised /\ fewer.synced \subseteq c.synced
        BY DEF Clients
    <2>3. ViewOK(fewer, s)
        BY <2>1, <2>2, ViewFrame DEF Same
    <2> QED BY <2>1, <2>3
<1>3. shown \in Clients /\ Same(shown, fewer) /\ SameTracker(shown, fewer) /\ ViewOK(shown, s)
    BY <1>2, OnViewSnapshotsOK DEF Shown
<1>4. now \in Clients /\ Same(now, shown) /\ ViewOK(now, s) /\ now.state = state
      /\ now.failed = shown.failed /\ now.timer = shown.timer /\ now.sound = shown.sound
    <2> HIDE DEF shown
    <2>1. now \in Clients /\ Same(now, shown) /\ now.state = state
          /\ now.failed = shown.failed /\ now.timer = shown.timer /\ now.sound = shown.sound
        BY <1>3 DEF Clients, Same
    <2>2. now.posted = shown.posted /\ now.raised = shown.raised /\ now.synced = shown.synced
        BY <1>3 DEF Clients
    <2>3. ViewOK(now, s)
        BY <1>3, <2>1, <2>2, ViewFrame DEF Same
    <2> QED BY <2>1, <2>3
<1>5. d \in Clients /\ Same(d, now) /\ SameTracker(d, now) /\ ViewOK(d, s)
    <2> HIDE DEF now
    <2> QED BY <1>4, RaiseOK
<1>6. Same(d, c)
    <2> HIDE DEF d, now, shown, fewer
    <2> QED BY <1>2, <1>3, <1>4, <1>5, SameTrans
<1>7. d.state = state /\ d.failed = c.failed /\ d.timer = c.timer /\ d.sound = c.sound
    <2> HIDE DEF d, now, shown, fewer
    <2> QED BY <1>2, <1>3, <1>4, <1>5, Zenon DEF SameTracker
<1> QED BY <1>1, <1>5, <1>6, <1>7 DEF Shown

(* OnlineStateTracker::SetAndBroadcast.                                    *)
LEMMA SetAndBroadcastOK ==
    ASSUME NEW c \in Clients, NEW s \in [Gets -> Nat], ViewOK(c, s), NEW state \in OnlineStates
    PROVE  LET d == SetAndBroadcast(c, state)
           IN  /\ Shown(d, c, s) /\ d.state = state
               /\ d.failed = c.failed /\ d.timer = c.timer /\ d.sound = c.sound
<1>1. Same(c, c)
    BY DEF Same
<1> QED BY <1>1, HandleOnlineStateChangeOK DEF SetAndBroadcast, Shown

\* d differs from c in the tracker's own fields only.
TrackerStep(d, c) ==
    /\ d \in Clients /\ Same(d, c) /\ d.state = c.state
    /\ d.synced = c.synced /\ d.posted = c.posted /\ d.raised = c.raised

(* The tracker's own fields are not shown to anybody.                      *)
LEMMA TrackerFrame ==
    ASSUME NEW c, NEW d, NEW s, ViewOK(c, s), TrackerStep(d, c)
    PROVE  Shown(d, c, s)
<1>1. ViewOK(d, s)
    BY ViewFrame DEF Same, TrackerStep
<1> QED BY <1>1 DEF Shown, TrackerStep

(* OnlineStateTracker::UpdateState: whatever was pending is forgotten.     *)
LEMMA UpdateStateOK ==
    ASSUME NEW c \in Clients, NEW s \in [Gets -> Nat], ViewOK(c, s), c.sound,
           NEW state \in OnlineStates
    PROVE  LET d == UpdateState(c, state)
           IN  Shown(d, c, s) /\ TrackerOK(d) /\ d.state = state /\ ~d.timer /\ ~d.failed
<1> DEFINE cleared == [ClearOnlineStateTimer(c) EXCEPT !.failed = FALSE]
<1>1. cleared = [c EXCEPT !.timer = FALSE, !.failed = FALSE]
    BY DEF ClearOnlineStateTimer, Clients
<1>2. PICK e : e = cleared
    OBVIOUS
<1>3. TrackerStep(e, c) /\ e.timer = FALSE /\ e.failed = FALSE /\ e.sound = c.sound
    BY <1>1, <1>2 DEF Clients, Same, TrackerStep
<1>4. Shown(e, c, s) /\ e.timer = FALSE /\ e.failed = FALSE /\ e.sound = c.sound
    BY <1>3, TrackerFrame
<1>5. PICK d : d = SetAndBroadcast(e, state)
    OBVIOUS
<1>6. /\ Shown(d, e, s) /\ d.state = state
      /\ d.failed = e.failed /\ d.timer = e.timer /\ d.sound = e.sound
    BY <1>4, <1>5, SetAndBroadcastOK DEF Shown
<1>7. Shown(d, c, s)
    BY <1>4, <1>6, SameTrans DEF Shown
<1>8. ~d.timer /\ ~d.failed /\ d.sound
    BY <1>4, <1>6
<1>9. d = UpdateState(c, state)
    BY <1>2, <1>5 DEF UpdateState
<1> QED BY <1>6, <1>7, <1>8, <1>9 DEF TrackerOK

(* OnlineStateTracker::HandleWatchStreamStart starts a timer only if none  *)
(* runs.                                                                   *)
LEMMA HandleWatchStreamStartOK ==
    ASSUME NEW c \in Clients, NEW s \in [Gets -> Nat], ViewOK(c, s), TrackerOK(c), ~c.timer
    PROVE  LET d == HandleWatchStreamStart(c) IN Shown(d, c, s) /\ TrackerOK(d)
<1>1. CASE c.failed
    <2>1. Same(c, c) /\ HandleWatchStreamStart(c) = c
        BY <1>1 DEF Same, HandleWatchStreamStart
    <2> QED BY <2>1 DEF Shown
<1>2. CASE ~c.failed
    <2>1. PICK u : u = SetAndBroadcast(c, "Unknown")
        OBVIOUS
    <2>2. /\ Shown(u, c, s) /\ u.state = "Unknown"
          /\ u.failed = c.failed /\ u.timer = c.timer /\ u.sound = c.sound
        BY <2>1, SetAndBroadcastOK DEF OnlineStates
    <2>3. ~u.timer /\ u.sound /\ u \in Clients
        BY <2>2 DEF TrackerOK, Shown
    <2>4. PICK d : d = HandleWatchStreamStart(c)
        OBVIOUS
    <2>5. d = [[u EXCEPT !.sound = @ /\ ~u.timer] EXCEPT !.timer = TRUE]
        BY <1>2, <2>1, <2>4 DEF HandleWatchStreamStart, HardAssert
    <2>6. (u.sound /\ ~u.timer) = TRUE
        BY <2>3
    <2>7. TrackerStep(d, u) /\ d.sound = TRUE
        BY <2>3, <2>5, <2>6 DEF Clients, Same, TrackerStep
    <2>8. Shown(d, u, s) /\ d.state = "Unknown" /\ d.sound = TRUE
        BY <2>2, <2>7, TrackerFrame DEF Shown, TrackerStep
    <2>9. Shown(d, c, s)
        BY <2>2, <2>8, SameTrans DEF Shown
    <2> QED BY <2>4, <2>8, <2>9 DEF TrackerOK
<1> QED BY <1>1, <1>2

(* OnlineStateTracker::HandleWatchStreamFailure: no timer is left.         *)
LEMMA HandleWatchStreamFailureOK ==
    ASSUME NEW c \in Clients, NEW s \in [Gets -> Nat], ViewOK(c, s), TrackerOK(c)
    PROVE  LET d == HandleWatchStreamFailure(c) IN Shown(d, c, s) /\ TrackerOK(d) /\ ~d.timer
<1>0. PICK d : d = HandleWatchStreamFailure(c)
    OBVIOUS
<1>1. CASE c.state = "Online"
    <2>1. PICK u : u = SetAndBroadcast(c, "Unknown")
        OBVIOUS
    <2>2. /\ Shown(u, c, s) /\ u.state = "Unknown"
          /\ u.failed = c.failed /\ u.timer = c.timer /\ u.sound = c.sound
        BY <2>1, SetAndBroadcastOK DEF OnlineStates
    <2>3. ~u.timer /\ ~u.failed /\ u.sound /\ u \in Clients /\ ~c.failed /\ ~c.timer
        BY <1>1, <2>2 DEF TrackerOK, Shown
    <2>4. d = [u EXCEPT !.sound = @ /\ (~c.failed /\ ~c.timer)]
        BY <1>0, <1>1, <2>1 DEF HandleWatchStreamFailure, HardAssert
    <2>5. (u.sound /\ (~c.failed /\ ~c.timer)) = TRUE
        BY <2>3
    <2>6. TrackerStep(d, u) /\ d.sound = TRUE /\ d.timer = u.timer
        BY <2>3, <2>4, <2>5 DEF Clients, Same, TrackerStep
    <2>7. Shown(d, u, s) /\ d.state = "Unknown" /\ d.sound = TRUE /\ d.timer = u.timer
        BY <2>2, <2>6, TrackerFrame DEF Shown, TrackerStep
    <2>8. Shown(d, c, s) /\ ~d.timer
        BY <2>2, <2>3, <2>7, SameTrans DEF Shown
    <2> QED BY <1>0, <2>7, <2>8 DEF TrackerOK
<1>2. CASE c.state # "Online"
    <2>1. PICK e : e = [ClearOnlineStateTimer(c) EXCEPT !.failed = TRUE]
        OBVIOUS
    <2>2. e = [c EXCEPT !.timer = FALSE, !.failed = TRUE]
        BY <2>1 DEF ClearOnlineStateTimer, Clients
    <2>3. TrackerStep(e, c) /\ e.timer = FALSE /\ e.failed = TRUE /\ e.sound = c.sound
        BY <2>2 DEF Clients, Same, TrackerStep
    <2>4. Shown(e, c, s) /\ e.timer = FALSE /\ e.failed = TRUE /\ e.sound = c.sound
        BY <2>3, TrackerFrame
    <2>5. d = SetAndBroadcast(e, "Offline")
        BY <1>0, <1>2, <2>1 DEF HandleWatchStreamFailure
    <2>6. /\ Shown(d, e, s) /\ d.state = "Offline"
          /\ d.failed = e.failed /\ d.timer = e.timer /\ d.sound = e.sound
        BY <2>4, <2>5, SetAndBroadcastOK DEF Shown, OnlineStates
    <2>7. Shown(d, c, s) /\ ~d.timer /\ d.sound
        BY <2>4, <2>6, SameTrans DEF Shown, TrackerOK
    <2> QED BY <1>0, <2>6, <2>7 DEF TrackerOK
<1> QED BY <1>1, <1>2

-----------------------------------------------------------------------------
(* The life of the stream.                                                 *)

\* No stream is started, and none is left to be cleaned up.
Closed(c, s) ==
    /\ c \in Clients /\ ViewOK(c, s) /\ TrackerOK(c)
    /\ ~IsStarted(c) /\ c.call = NoCall /\ ~c.idle
    /\ \A q \in Denied : ~c.targets[q].current

\* d is in order, and c's listens, views and raised events are still there.
After(d, c, s) ==
    ClientOK(d, s) /\ d.listens = c.listens /\ d.views = c.views /\ c.raised \subseteq d.raised

(* Nothing is on a call that does not exist.                               *)
LEMMA NoWireOK ==
    ASSUME NEW c, NEW s, ~IsOpen(c), c.call = NoCall,
           IsStarted(c) => \A q \in Queries : c.targets[q] = NewTarget,
           \A q \in Denied : ~c.targets[q].current
    PROVE  WireOK(c, s)
<1>1. Len(c.call.down) = 0
    BY DEF NoCall
<1> QED BY <1>1 DEF WireOK, CountOK, DownFresh, CurrentOK, TargetsOK

(* A closed client whose timer is stopped is in order.                     *)
LEMMA ClosedOK ==
    ASSUME NEW c, NEW s, Closed(c, s), ~c.timer
    PROVE  ClientOK(c, s)
<1>1. ~IsOpen(c) /\ ~IsStarted(c)
    BY DEF Closed, IsStarted, IsOpen
<1>2. WireOK(c, s)
    BY <1>1, NoWireOK DEF Closed
<1> QED BY <1>1, <1>2 DEF ClientOK, Closed, StreamOK

(* A client that is in order and not started is closed.                    *)
LEMMA NotStarted ==
    ASSUME NEW c, NEW s, ClientOK(c, s), ~IsStarted(c)
    PROVE  Closed(c, s) /\ ~c.timer
<1>1. ~IsOpen(c)
    BY DEF IsOpen, IsStarted
<1> QED BY <1>1 DEF ClientOK, Closed, StreamOK, WireOK, TargetsOK

(* RemoteStore::StartWatchStream, on a fresh aggregator.                   *)
LEMMA StartWatchStreamOK ==
    ASSUME NEW c, NEW s \in [Gets -> Nat], Closed(c, s), ~c.timer, ShouldStartWatchStream(c)
    PROVE  After(StartWatchStream(c), c, s)
<1>1. PICK h : h = HardAssert(c, ShouldStartWatchStream(c))
    OBVIOUS
<1>2. PICK a : a = NewAggregator(h)
    OBVIOUS
<1>3. PICK e : e = StartStream(a)
    OBVIOUS
<1>4. PICK d : d = HandleWatchStreamStart(e)
    OBVIOUS
<1>0. c \in Clients /\ c.sound
    BY DEF Closed, TrackerOK
<1>5. h = [c EXCEPT !.sound = TRUE]
    <2>1. (c.sound /\ ShouldStartWatchStream(c)) = TRUE
        BY <1>0
    <2> QED BY <1>1, <2>1 DEF HardAssert
<1>6. /\ [q \in Queries |-> NewTarget] \in [Queries -> Targets]
      /\ [q \in Queries |-> 0] \in [Queries -> Versions]
    BY ReadsAssumption DEF NewTarget, Targets, Versions
<1>7. /\ h \in Clients /\ h.stream = c.stream /\ h.idle = c.idle /\ h.call = c.call
      /\ h.listens = c.listens /\ h.views = c.views /\ h.synced = c.synced /\ h.cache = c.cache
      /\ h.query = c.query /\ h.attached = c.attached /\ h.raised = c.raised
      /\ h.posted = c.posted /\ h.state = c.state /\ h.failed = c.failed /\ h.timer = c.timer
      /\ h.sound = TRUE
    BY <1>0, <1>5 DEF Clients
<1>8. /\ a \in Clients /\ a.stream = h.stream /\ a.idle = h.idle /\ a.call = h.call
      /\ a.listens = h.listens /\ a.views = h.views /\ a.synced = h.synced /\ a.cache = h.cache
      /\ a.query = h.query /\ a.attached = h.attached /\ a.raised = h.raised
      /\ a.posted = h.posted /\ a.state = h.state /\ a.failed = h.failed /\ a.timer = h.timer
      /\ a.sound = h.sound
      /\ a.targets = [q \in Queries |-> NewTarget] /\ a.documents = [q \in Queries |-> 0]
    BY <1>2, <1>6, <1>7 DEF Clients, NewAggregator
<1>9. /\ e \in Clients /\ e.stream \in {"Starting", "Backoff"} /\ e.idle = a.idle
      /\ e.call = a.call /\ e.listens = a.listens /\ e.views = a.views /\ e.synced = a.synced
      /\ e.cache = a.cache /\ e.query = a.query /\ e.attached = a.attached
      /\ e.raised = a.raised /\ e.posted = a.posted /\ e.state = a.state
      /\ e.failed = a.failed /\ e.timer = a.timer /\ e.sound = a.sound
      /\ e.targets = a.targets /\ e.documents = a.documents
    BY <1>3, <1>8 DEF Clients, StartStream, Streams
<1>10. TrackerOK(e) /\ ~e.timer
    <2>1. e.timer = c.timer /\ e.state = c.state /\ e.failed = c.failed /\ e.sound = TRUE
        BY <1>7, <1>8, <1>9, Zenon
    <2> QED BY <2>1 DEF Closed, TrackerOK
<1>11. ViewOK(e, s)
    <2>1. /\ e.views = c.views /\ e.query = c.query /\ e.attached = c.attached
          /\ e.cache = c.cache /\ e.posted = c.posted /\ e.raised = c.raised
          /\ e.synced = c.synced /\ e.documents = [q \in Queries |-> 0]
        BY <1>7, <1>8, <1>9
    <2>2. c.synced \subseteq Queries
        BY <1>0 DEF Clients
    <2>3. \A q \in c.synced : e.documents[q] = 0
        BY <2>1, <2>2
    <2>4. ViewOK(c, s)
        BY DEF Closed
    <2> QED BY <2>1, <2>3, <2>4, ViewFrame
<1>12. Shown(d, e, s) /\ TrackerOK(d)
    BY <1>4, <1>9, <1>10, <1>11, HandleWatchStreamStartOK
<1>13. /\ d.stream = e.stream /\ d.call = e.call /\ d.idle = e.idle /\ d.targets = e.targets
       /\ d.listens = e.listens /\ d.views = e.views /\ e.raised \subseteq d.raised
    BY <1>12 DEF Shown, Same
<1>14. /\ d.stream \in {"Starting", "Backoff"} /\ d.call = NoCall /\ d.idle = c.idle
       /\ d.targets = [q \in Queries |-> NewTarget]
       /\ d.listens = c.listens /\ d.views = c.views /\ c.raised \subseteq d.raised
    BY <1>7, <1>8, <1>9, <1>13 DEF Closed
<1>15. IsStarted(d) /\ ~IsOpen(d) /\ ~d.idle
    BY <1>14 DEF IsStarted, IsOpen, Closed
<1>16. WireOK(d, s)
    <2>1. Denied \subseteq Queries
        BY ReadsAssumption
    <2>2. \A q \in Queries : d.targets[q] = NewTarget /\ ~d.targets[q].current
        BY <1>14 DEF NewTarget
    <2> QED BY <1>14, <1>15, <2>1, <2>2, NoWireOK
<1>17. d = StartWatchStream(c)
    BY <1>1, <1>2, <1>3, <1>4 DEF StartWatchStream
<1> QED BY <1>12, <1>14, <1>15, <1>16, <1>17 DEF After, ClientOK, Shown, StreamOK

(* Raising events and telling the tracker keeps a client in order that had *)
(* a state to keep.                                                        *)
LEMMA ShownOK ==
    ASSUME NEW c, NEW d, NEW s, ClientOK(c, s), Shown(d, c, s), TrackerOK(d),
           d.timer => IsStarted(c)
    PROVE  After(d, c, s)
<1>1. WireOK(d, s)
    BY WireFrame DEF Shown, Same, WireSame, ClientOK
<1>2. StreamOK(d)
    <2>1. d.stream = c.stream /\ d.call = c.call /\ d.idle = c.idle /\ d.listens = c.listens
        BY DEF Shown, Same
    <2> QED BY <2>1 DEF ClientOK, StreamOK, IsStarted, IsOpen
<1> QED BY <1>1, <1>2 DEF After, ClientOK, Shown, Same

(* OnlineStateTracker::UpdateState on a client in order.                   *)
LEMMA UpdatedOK ==
    ASSUME NEW c, NEW s \in [Gets -> Nat], ClientOK(c, s), NEW state \in OnlineStates
    PROVE  LET d == UpdateState(c, state)
           IN  After(d, c, s) /\ Same(d, c) /\ ~d.timer /\ d.state = state
<1>1. c \in Clients /\ ViewOK(c, s) /\ c.sound
    BY DEF ClientOK, TrackerOK
<1>2. PICK d : d = UpdateState(c, state)
    OBVIOUS
<1>3. Shown(d, c, s) /\ TrackerOK(d) /\ d.state = state /\ ~d.timer /\ ~d.failed
    BY <1>1, <1>2, UpdateStateOK
<1> QED BY <1>2, <1>3, ShownOK DEF Shown

(* Stream::Close.                                                          *)
LEMMA CloseOK ==
    ASSUME NEW c, NEW s, ClientOK(c, s), NEW stream \in {"Initial", "Error"}
    PROVE  LET d == Close(c, stream)
           IN  /\ Closed(d, s) /\ d.listens = c.listens /\ d.views = c.views
               /\ d.raised = c.raised /\ d.enabled = c.enabled
<1>1. PICK d : d = Close(c, stream)
    OBVIOUS
<1>2. NoCall \in Calls
    BY ReadsAssumption DEF NoCall, Calls, Versions
<1>3. c \in Clients
    BY DEF ClientOK
<1>4. /\ d \in Clients /\ d.stream = stream /\ d.call = NoCall /\ ~d.idle
      /\ d.listens = c.listens /\ d.views = c.views /\ d.raised = c.raised
      /\ d.targets = c.targets /\ d.synced = c.synced /\ d.cache = c.cache
      /\ d.query = c.query /\ d.attached = c.attached /\ d.posted = c.posted
      /\ d.documents = c.documents
    BY <1>1, <1>2, <1>3 DEF Close, Clients, Streams
<1>5. d.enabled = c.enabled /\ SameTracker(d, c)
    BY <1>1, <1>3 DEF Close, Clients, SameTracker
<1>6. ViewOK(d, s)
    BY <1>4, ViewFrame DEF ClientOK
<1>7. TrackerOK(d)
    BY <1>5 DEF ClientOK, TrackerOK, SameTracker
<1>8. \A q \in Denied : ~d.targets[q].current
    BY <1>4 DEF ClientOK, WireOK, TargetsOK
<1> QED BY <1>1, <1>4, <1>5, <1>6, <1>7, <1>8 DEF Closed, IsStarted

(* HARD_ASSERTs that hold change nothing.                                  *)
LEMMA HardAssertOK ==
    ASSUME NEW c \in Clients, c.sound, NEW condition, condition
    PROVE  HardAssert(c, condition) = c
<1>1. (c.sound /\ condition) = TRUE /\ c.sound = TRUE
    BY DEF Clients
<1>2. HardAssert(c, condition) = [c EXCEPT !.sound = TRUE]
    BY <1>1 DEF HardAssert
<1> QED BY <1>1, <1>2 DEF Clients

(* RemoteStore::OnWatchStreamClose: a stream that is wanted is started     *)
(* again, and otherwise the state is unknown.                              *)
LEMMA OnWatchStreamCloseOK ==
    ASSUME NEW c, NEW s \in [Gets -> Nat], Closed(c, s), NEW ok \in BOOLEAN,
           ok => ~ShouldStartWatchStream(c)
    PROVE  LET d == OnWatchStreamClose(c, ok)
           IN  /\ After(d, c, s)
               /\ ~ShouldStartWatchStream(c) => ~IsStarted(d) /\ d.enabled = c.enabled
<1>0. c \in Clients /\ c.sound /\ ViewOK(c, s) /\ TrackerOK(c)
    BY DEF Closed, TrackerOK
<1>1. HardAssert(c, ok => ~ShouldStartWatchStream(c)) = c
    BY <1>0, HardAssertOK
<1>2. CASE ShouldStartWatchStream(c)
    <2>1. PICK f : f = HandleWatchStreamFailure(c)
        OBVIOUS
    <2>2. Shown(f, c, s) /\ TrackerOK(f) /\ ~f.timer
        BY <1>0, <2>1, HandleWatchStreamFailureOK
    <2>3. Closed(f, s) /\ ShouldStartWatchStream(f)
        BY <1>2, <2>2 DEF Closed, Shown, Same, ShouldStartWatchStream, IsStarted
    <2>4. After(StartWatchStream(f), f, s)
        BY <2>2, <2>3, StartWatchStreamOK
    <2>5. OnWatchStreamClose(c, ok) = StartWatchStream(f)
        BY <1>1, <1>2, <2>1 DEF OnWatchStreamClose
    <2> QED BY <1>2, <2>2, <2>4, <2>5 DEF After, Shown, Same
<1>3. CASE ~ShouldStartWatchStream(c)
    <2>1. PICK d : d = UpdateState(c, "Unknown")
        OBVIOUS
    <2>2. Shown(d, c, s) /\ TrackerOK(d) /\ ~d.timer
        BY <1>0, <2>1, UpdateStateOK DEF OnlineStates
    <2>3. Closed(d, s)
        BY <2>2 DEF Closed, Shown, Same, IsStarted
    <2>4. ClientOK(d, s)
        BY <2>2, <2>3, ClosedOK
    <2>5. d = OnWatchStreamClose(c, ok)
        BY <1>1, <1>3, <2>1 DEF OnWatchStreamClose
    <2> QED BY <2>2, <2>3, <2>4, <2>5 DEF After, Shown, Same, Closed
<1> QED BY <1>2, <1>3

(* Stream::Stop of a stream that nobody wants.                             *)
LEMMA StopOK ==
    ASSUME NEW c, NEW s \in [Gets -> Nat], ClientOK(c, s), ~c.enabled \/ c.listens = {}
    PROVE  LET d == Stop(c) IN After(d, c, s) /\ ~IsStarted(d) /\ d.enabled = c.enabled
<1>1. CASE ~IsStarted(c)
    BY <1>1 DEF Stop, After
<1>2. CASE IsStarted(c)
    <2>1. PICK e : e = Close(c, "Initial")
        OBVIOUS
    <2>2. /\ Closed(e, s) /\ e.listens = c.listens /\ e.views = c.views
          /\ e.raised = c.raised /\ e.enabled = c.enabled
        BY <2>1, CloseOK
    <2>3. ~ShouldStartWatchStream(e)
        BY <2>2 DEF ShouldStartWatchStream
    <2>4. PICK d : d = OnWatchStreamClose(e, TRUE)
        OBVIOUS
    <2>5. /\ After(d, e, s)
          /\ ~ShouldStartWatchStream(e) => ~IsStarted(d) /\ d.enabled = e.enabled
        BY <2>2, <2>3, <2>4, OnWatchStreamCloseOK
    <2>6. d = Stop(c)
        BY <1>2, <2>1, <2>4 DEF Stop
    <2> QED BY <2>2, <2>3, <2>5, <2>6 DEF After
<1> QED BY <1>1, <1>2

(* The network is allowed or not.                                          *)
LEMMA SetEnabledOK ==
    ASSUME NEW c, NEW s, ClientOK(c, s), NEW b \in BOOLEAN
    PROVE  LET d == [c EXCEPT !.enabled = b]
           IN  After(d, c, s) /\ d.enabled = b /\ (IsStarted(d) <=> IsStarted(c))
<1>1. PICK d : d = [c EXCEPT !.enabled = b]
    OBVIOUS
<1>2. c \in Clients
    BY DEF ClientOK
<1>3. d \in Clients /\ d.enabled = b /\ WireSame(d, c) /\ SameTracker(d, c) /\ d.idle = c.idle
      /\ d.views = c.views /\ d.synced = c.synced /\ d.raised = c.raised /\ d.posted = c.posted
    BY <1>1, <1>2 DEF Clients, WireSame, SameTracker
<1>4. WireOK(d, s)
    BY <1>3, WireFrame DEF ClientOK
<1>5. ViewOK(d, s)
    BY <1>3, ViewFrame DEF ClientOK, WireSame
<1>6. TrackerOK(d) /\ StreamOK(d)
    BY <1>3 DEF ClientOK, TrackerOK, StreamOK, SameTracker, WireSame, IsStarted, IsOpen
<1> QED BY <1>1, <1>3, <1>4, <1>5, <1>6 DEF After, ClientOK, WireSame, IsStarted

(* RemoteStore::EnableNetwork.                                             *)
LEMMA EnableNetworkOK ==
    ASSUME NEW c, NEW s \in [Gets -> Nat], ClientOK(c, s)
    PROVE  After(EnableNetwork(c), c, s)
<1>1. PICK e : e = [c EXCEPT !.enabled = TRUE]
    OBVIOUS
<1>2. After(e, c, s) /\ ClientOK(e, s)
    BY <1>1, SetEnabledOK DEF After
<1>3. CASE ShouldStartWatchStream(e)
    <2>1. Closed(e, s) /\ ~e.timer
        BY <1>2, <1>3, NotStarted DEF ShouldStartWatchStream
    <2>2. After(StartWatchStream(e), e, s)
        BY <1>3, <2>1, StartWatchStreamOK
    <2>3. EnableNetwork(c) = StartWatchStream(e)
        BY <1>1, <1>3 DEF EnableNetwork
    <2> QED BY <1>2, <2>2, <2>3 DEF After
<1>4. CASE ~ShouldStartWatchStream(e)
    <2>1. After(UpdateState(e, "Unknown"), e, s)
        BY <1>2, UpdatedOK DEF OnlineStates
    <2>2. EnableNetwork(c) = UpdateState(e, "Unknown")
        BY <1>1, <1>4 DEF EnableNetwork
    <2> QED BY <1>2, <2>1, <2>2 DEF After
<1> QED BY <1>3, <1>4

(* RemoteStore::DisableNetworkInternal.                                    *)
LEMMA DisableNetworkInternalOK ==
    ASSUME NEW c, NEW s \in [Gets -> Nat], ClientOK(c, s)
    PROVE  LET d == DisableNetworkInternal(c) IN After(d, c, s) /\ ~IsStarted(d)
<1>1. PICK e : e = [c EXCEPT !.enabled = FALSE]
    OBVIOUS
<1>2. After(e, c, s) /\ ClientOK(e, s) /\ ~e.enabled
    BY <1>1, SetEnabledOK DEF After
<1>3. After(Stop(e), e, s) /\ ~IsStarted(Stop(e))
    BY <1>2, StopOK
<1> QED BY <1>1, <1>2, <1>3 DEF After, DisableNetworkInternal

(* RemoteStore::DisableNetwork.                                            *)
LEMMA DisableNetworkOK ==
    ASSUME NEW c, NEW s \in [Gets -> Nat], ClientOK(c, s)
    PROVE  After(DisableNetwork(c), c, s)
<1>1. PICK e : e = DisableNetworkInternal(c)
    OBVIOUS
<1>2. After(e, c, s) /\ ClientOK(e, s)
    BY <1>1, DisableNetworkInternalOK DEF After
<1>3. After(UpdateState(e, "Offline"), e, s)
    BY <1>2, UpdatedOK DEF OnlineStates
<1> QED BY <1>1, <1>2, <1>3 DEF After, DisableNetwork

(* RemoteStore::RestartNetwork: the backoff is skipped as well.            *)
LEMMA RestartNetworkOK ==
    ASSUME NEW c, NEW s \in [Gets -> Nat], ClientOK(c, s)
    PROVE  After(RestartNetwork(c), c, s)
<1>1. PICK e : e = DisableNetworkInternal(c)
    OBVIOUS
<1>2. After(e, c, s) /\ ClientOK(e, s) /\ ~IsStarted(e)
    BY <1>1, DisableNetworkInternalOK DEF After
<1>3. PICK u : u = UpdateState(e, "Unknown")
    OBVIOUS
<1>4. After(u, e, s) /\ Same(u, e) /\ ~u.timer /\ ClientOK(u, s)
    BY <1>2, <1>3, UpdatedOK DEF OnlineStates, After
<1>5. Closed(u, s) /\ u \in Clients
    <2>1. ~IsStarted(u)
        BY <1>2, <1>4 DEF Same, IsStarted
    <2> QED BY <1>4, <2>1, NotStarted DEF Closed
<1>6. PICK b : b = InhibitBackoff(u)
    OBVIOUS
<1>7. /\ b \in Clients /\ b.stream = "Initial" /\ b.call = u.call /\ b.idle = u.idle
      /\ b.targets = u.targets /\ SameTracker(b, u) /\ b.raised = u.raised
      /\ b.views = u.views /\ b.listens = u.listens /\ b.synced = u.synced
      /\ b.query = u.query /\ b.attached = u.attached /\ b.posted = u.posted
      /\ b.cache = u.cache /\ b.documents = u.documents
    BY <1>5, <1>6 DEF InhibitBackoff, Clients, Streams, SameTracker
<1>8. ViewOK(b, s)
    BY <1>5, <1>7, ViewFrame DEF Closed
<1>9. Closed(b, s) /\ ~b.timer
    BY <1>4, <1>5, <1>7, <1>8 DEF Closed, TrackerOK, SameTracker, IsStarted
<1>10. After(EnableNetwork(b), b, s)
    BY <1>9, ClosedOK, EnableNetworkOK
<1>11. RestartNetwork(c) = EnableNetwork(b)
    BY <1>1, <1>3, <1>6 DEF RestartNetwork
<1> QED BY <1>2, <1>4, <1>7, <1>10, <1>11 DEF After

(* The backoff timer starts the stream.                                    *)
LEMMA BackoffOK ==
    ASSUME NEW c, NEW s, ClientOK(c, s), c.stream = "Backoff"
    PROVE  After(StartStream([c EXCEPT !.stream = "Initial"]), c, s)
<1>1. PICK d : d = StartStream([c EXCEPT !.stream = "Initial"])
    OBVIOUS
<1>2. c \in Clients
    BY DEF ClientOK
<1>3. d = [c EXCEPT !.stream = "Starting"]
    BY <1>1, <1>2 DEF StartStream, Clients
<1>4. /\ d \in Clients /\ d.stream = "Starting" /\ d.call = c.call /\ d.idle = c.idle
      /\ d.targets = c.targets /\ SameTracker(d, c) /\ d.raised = c.raised
      /\ d.views = c.views /\ d.listens = c.listens /\ d.synced = c.synced
      /\ d.query = c.query /\ d.attached = c.attached /\ d.posted = c.posted
      /\ d.cache = c.cache /\ d.documents = c.documents
    BY <1>2, <1>3 DEF Clients, Streams, SameTracker
<1>5. ViewOK(d, s)
    BY <1>4, ViewFrame DEF ClientOK
<1>6. ~IsOpen(c) /\ IsStarted(c) /\ ~IsOpen(d) /\ IsStarted(d)
    BY <1>4 DEF IsOpen, IsStarted
<1>7. d.call = NoCall /\ ~d.idle /\ \A q \in Queries : d.targets[q] = NewTarget
    BY <1>4, <1>6 DEF ClientOK, StreamOK, WireOK, CountOK
<1>8. WireOK(d, s)
    BY <1>4, <1>6, <1>7, NoWireOK DEF ClientOK, WireOK, TargetsOK
<1>9. TrackerOK(d)
    BY <1>4 DEF ClientOK, TrackerOK, SameTracker
<1> QED BY <1>1, <1>4, <1>5, <1>6, <1>7, <1>8, <1>9 DEF After, ClientOK, StreamOK

(* The online state timer finds the state unknown.                         *)
LEMMA TimeoutOK ==
    ASSUME NEW c, NEW s \in [Gets -> Nat], ClientOK(c, s), c.timer
    PROVE  After(SetAndBroadcast(
               HardAssert([c EXCEPT !.timer = FALSE], c.state = "Unknown"), "Offline"), c, s)
<1>0. c \in Clients /\ c.sound /\ c.state = "Unknown" /\ ViewOK(c, s)
    BY DEF ClientOK, TrackerOK
<1>1. PICK e : e = [c EXCEPT !.timer = FALSE]
    OBVIOUS
<1>2. TrackerStep(e, c) /\ e.timer = FALSE /\ e.failed = c.failed /\ e.sound = c.sound
    BY <1>0, <1>1 DEF Clients, Same, TrackerStep
<1>3. Shown(e, c, s)
    BY <1>0, <1>2, TrackerFrame
<1>4. HardAssert(e, c.state = "Unknown") = e
    BY <1>0, <1>2, HardAssertOK DEF TrackerStep
<1>5. PICK d : d = SetAndBroadcast(e, "Offline")
    OBVIOUS
<1>6. /\ Shown(d, e, s) /\ d.state = "Offline"
      /\ d.failed = e.failed /\ d.timer = e.timer /\ d.sound = e.sound
    BY <1>3, <1>5, SetAndBroadcastOK DEF Shown, OnlineStates
<1>7. Shown(d, c, s)
    BY <1>3, <1>6, SameTrans DEF Shown
<1>8. TrackerOK(d) /\ ~d.timer
    BY <1>0, <1>2, <1>6 DEF TrackerOK
<1>9. After(d, c, s)
    BY <1>7, <1>8, ShownOK
<1> QED BY <1>1, <1>4, <1>5, <1>9

-----------------------------------------------------------------------------
(* Requests.                                                               *)

(* The types of an open call.                                              *)
LEMMA CallTypes ==
    ASSUME NEW c \in Clients
    PROVE  /\ c.call \in Calls /\ c.call.up \in Seq(Requests) /\ c.call.down \in Seq(Messages)
           /\ c.call.watched \in SUBSET Allowed /\ c.call.served \in [Queries -> Versions]
           /\ c.targets \in [Queries -> Targets] /\ c.documents \in [Queries -> Versions]
           /\ c.cache \in [Queries -> Versions] /\ Allowed \subseteq Queries
           /\ Denied \subseteq Queries
           /\ \A q \in Queries : c.targets[q].outstanding \in Int
BY ReadsAssumption DEF Clients, Calls, Allowed, Targets

(* What a call owes is a number, and zero when nothing is about q.         *)
LEMMA OwedProps ==
    ASSUME NEW call \in Calls, NEW q
    PROVE  /\ Owed(call, q) \in Nat
           /\ Owed(call, q) = 0 => /\ Places(call.down, AnswersTo(q)) = {}
                                   /\ Places(call.up, RequestsFor(q)) = {}
<1>1. call.up \in Seq(Requests) /\ call.down \in Seq(Messages)
    BY DEF Calls
<1>2. /\ Cardinality(Places(call.down, AnswersTo(q))) \in Nat
      /\ Cardinality(Places(call.down, AnswersTo(q))) = 0 <=> Places(call.down, AnswersTo(q)) = {}
    BY <1>1, PlacesFinite
<1>3. /\ Cardinality(Places(call.up, RequestsFor(q))) \in Nat
      /\ Cardinality(Places(call.up, RequestsFor(q))) = 0 <=> Places(call.up, RequestsFor(q)) = {}
    BY <1>1, PlacesFinite
<1> QED BY <1>2, <1>3 DEF Owed

(* A request makes its target inactive until the server has answered it,   *)
(* so what is still on its way is not taken for an answer to it.           *)
LEMMA SendWireOK ==
    ASSUME NEW c \in Clients, NEW s, WireOK(c, s), IsOpen(c), NEW q \in Queries,
           NEW request \in {"watch", "unwatch"}, NEW d \in Clients,
           IsOpen(d), d.documents = c.documents, d.cache = c.cache, d.query = c.query,
           d.attached = c.attached, d.listens \ {q} = c.listens \ {q},
           d.call = [c.call EXCEPT !.up = Append(@, [request |-> request, query |-> q])],
           d.targets = [c.targets EXCEPT
                            ![q] = [c.targets[q] EXCEPT !.outstanding = c.targets[q].outstanding + 1]]
    PROVE  WireOK(d, s)
<1> DEFINE r == [request |-> request, query |-> q]
<1>0. /\ c.call \in Calls /\ c.call.up \in Seq(Requests) /\ c.call.down \in Seq(Messages)
      /\ c.targets \in [Queries -> Targets] /\ Allowed \subseteq Queries
      /\ \A p \in Queries : c.targets[p].outstanding \in Int
    BY CallTypes
<1>1. d.call.down = c.call.down /\ d.call.up = Append(c.call.up, r)
    BY <1>0 DEF Calls
<1>2. r \in Requests
    BY DEF Requests
<1>3. /\ \A p \in Queries : p # q => d.targets[p] = c.targets[p]
      /\ d.targets[q].outstanding = c.targets[q].outstanding + 1
      /\ d.targets[q].current <=> c.targets[q].current
    <2>1. d.targets[q] = [c.targets[q] EXCEPT !.outstanding = c.targets[q].outstanding + 1]
          /\ c.targets[q] \in Targets
        BY <1>0
    <2>2. \A p \in Queries : p # q => d.targets[p] = c.targets[p]
        BY <1>0
    <2> QED BY <2>1, <2>2 DEF Targets
<1>4. \A p \in Queries : r \in RequestsFor(p) <=> p = q
    BY DEF RequestsFor
<1>5. ASSUME NEW p \in Queries
      PROVE  /\ p # q => Places(d.call.up, RequestsFor(p)) = Places(c.call.up, RequestsFor(p))
             /\ p = q => Places(d.call.up, RequestsFor(p)) # {}
             /\ Owed(d.call, p) = Owed(c.call, p) + IF p = q THEN 1 ELSE 0
    <2>1. /\ Places(Append(c.call.up, r), RequestsFor(p)) =
                 Places(c.call.up, RequestsFor(p))
                 \union IF r \in RequestsFor(p) THEN {Len(c.call.up) + 1} ELSE {}
          /\ Cardinality(Places(Append(c.call.up, r), RequestsFor(p))) =
                 Cardinality(Places(c.call.up, RequestsFor(p)))
                 + IF r \in RequestsFor(p) THEN 1 ELSE 0
        BY <1>0, <1>2, PlacesAppend
    <2>2. /\ Cardinality(Places(c.call.up, RequestsFor(p))) \in Nat
          /\ Cardinality(Places(c.call.down, AnswersTo(p))) \in Nat
        BY <1>0, PlacesFinite
    <2>3. /\ Owed(d.call, p) = Cardinality(Places(c.call.down, AnswersTo(p)))
                              + Cardinality(Places(Append(c.call.up, r), RequestsFor(p)))
          /\ Owed(c.call, p) = Cardinality(Places(c.call.down, AnswersTo(p)))
                              + Cardinality(Places(c.call.up, RequestsFor(p)))
          /\ Places(d.call.up, RequestsFor(p)) = Places(Append(c.call.up, r), RequestsFor(p))
        BY <1>1 DEF Owed
    <2> HIDE DEF r
    <2>4. CASE p = q
        <3>1. r \in RequestsFor(p)
            BY <1>4, <2>4
        <3>2. Len(c.call.up) + 1 \in Places(d.call.up, RequestsFor(p))
            BY <2>1, <2>3, <3>1
        <3>3. Owed(d.call, p) = Owed(c.call, p) + 1
            BY <2>1, <2>2, <2>3, <3>1
        <3> QED BY <2>4, <3>2, <3>3
    <2>5. CASE p # q
        BY <1>4, <2>1, <2>2, <2>3, <2>5
    <2> QED BY <2>4, <2>5
<1>6. CountOK(d)
    <2>1. \A p \in Allowed : c.targets[p].outstanding = Owed(c.call, p)
        BY DEF WireOK, CountOK
    <2>2. \A p \in Allowed : Owed(c.call, p) \in Nat
        BY <1>0, OwedProps
    <2>3. \A p \in Allowed : d.targets[p].outstanding = Owed(d.call, p)
        <3> TAKE p \in Allowed
        <3>1. Owed(d.call, p) = Owed(c.call, p) + IF p = q THEN 1 ELSE 0
            BY <1>0, <1>5
        <3>2. CASE p = q
            BY <1>3, <2>1, <2>2, <3>1, <3>2
        <3>3. CASE p # q
            BY <1>0, <1>3, <2>1, <2>2, <3>1, <3>3
        <3> QED BY <3>2, <3>3
    <2> QED BY <2>3 DEF CountOK
<1>7. ASSUME NEW p \in Allowed, p = q PROVE ~IsActiveTarget(d, p)
    <2>1. c.targets[p].outstanding = Owed(c.call, p)
        BY DEF WireOK, CountOK
    <2>2. Owed(c.call, p) \in Nat
        BY <1>0, OwedProps
    <2> QED BY <1>3, <1>7, <2>1, <2>2 DEF IsActiveTarget
<1>8. ASSUME NEW p \in Allowed, IsActiveTarget(d, p)
      PROVE  IsActiveTarget(c, p) /\ p # q /\ d.targets[p] = c.targets[p]
    BY <1>0, <1>3, <1>7, <1>8 DEF IsActiveTarget
<1>9. DownFresh(d, s)
    <2>1. ASSUME NEW p \in Allowed \intersect d.listens, NEW k \in 1 .. Len(d.call.down),
                 IsAbout(d.call.down[k], "documents", p), Settled(d.call, p, k)
          PROVE  Fresh(d, s, p, d.call.down[k].version)
        <3>1. p # q
            BY <1>0, <1>5, <2>1 DEF Settled
        <3>2. Settled(c.call, p, k)
            BY <1>0, <1>1, <1>5, <2>1, <3>1 DEF Settled
        <3>3. p \in Allowed \intersect c.listens
            BY <3>1
        <3>4. Fresh(c, s, p, c.call.down[k].version)
            BY <1>1, <2>1, <3>2, <3>3 DEF WireOK, DownFresh
        <3> QED BY <1>1, <3>4 DEF Fresh
    <2> QED BY <2>1 DEF DownFresh
<1>10. CurrentOK(d, s)
    BY <1>1, <1>8 DEF WireOK, CurrentOK, Fresh, Stored
<1>11. TargetsOK(d, s)
    <2>1. \A p \in Denied : ~d.targets[p].current
        BY <1>0, <1>3, CallTypes DEF WireOK, TargetsOK
    <2>2. \A p \in Allowed : IsActiveTarget(d, p) /\ d.targets[p].changed
                             => Fresh(d, s, p, Stored(d, p))
        BY <1>8 DEF WireOK, TargetsOK, Fresh, Stored
    <2> QED BY <2>1, <2>2 DEF TargetsOK
<1> QED BY <1>6, <1>9, <1>10, <1>11 DEF WireOK

(* A request written on an open stream, its target being in L or not.      *)
LEMMA SendOK ==
    ASSUME NEW c, NEW s, ClientOK(c, s), IsOpen(c), NEW q \in Queries,
           NEW request \in {"watch", "unwatch"}, NEW L \in SUBSET Queries,
           L \ {q} = c.listens \ {q}
    PROVE  LET d == Send([c EXCEPT !.listens = L], q, request)
           IN  /\ ClientOK(d, s) /\ d.listens = L /\ d.views = c.views /\ d.raised = c.raised
               /\ IsOpen(d) /\ ~d.idle
<1>1. PICK d : d = Send([c EXCEPT !.listens = L], q, request)
    OBVIOUS
<1>2. c \in Clients
    BY DEF ClientOK
<1> DEFINE r == [request |-> request, query |-> q]
           call == [c.call EXCEPT !.up = Append(@, r)]
           target == [c.targets[q] EXCEPT !.outstanding = c.targets[q].outstanding + 1]
           targets == [c.targets EXCEPT ![q] = target]
<1>3. d = [c EXCEPT !.listens = L, !.targets = targets, !.call = call, !.idle = FALSE]
    BY <1>1, <1>2 DEF Send, Clients
<1>4. call \in Calls
    <2>1. r \in Requests /\ c.call \in Calls /\ c.call.up \in Seq(Requests)
        BY <1>2, CallTypes DEF Requests
    <2>2. Append(c.call.up, r) \in Seq(Requests)
        BY <2>1
    <2> HIDE DEF r
    <2> QED BY <2>1, <2>2 DEF Calls
<1>5. targets \in [Queries -> Targets]
    <2>1. c.targets \in [Queries -> Targets] /\ c.targets[q].outstanding \in Int
        BY <1>2, CallTypes
    <2>2. target \in Targets
        BY <2>1 DEF Targets
    <2> HIDE DEF target
    <2> QED BY <2>1, <2>2
<1>6. /\ d \in Clients /\ d.listens = L /\ d.targets = targets /\ d.call = call /\ ~d.idle
      /\ d.stream = c.stream /\ d.views = c.views /\ d.raised = c.raised
      /\ d.documents = c.documents /\ d.cache = c.cache /\ d.query = c.query
      /\ d.attached = c.attached /\ d.synced = c.synced /\ d.posted = c.posted
    <2> HIDE DEF targets, call
    <2> QED BY <1>2, <1>3, <1>4, <1>5 DEF Clients
<1>7. SameTracker(d, c)
    BY <1>2, <1>3 DEF Clients, SameTracker
<1>8. IsOpen(d)
    BY <1>6 DEF IsOpen
<1>9. WireOK(d, s)
    <2>1. /\ d \in Clients /\ d.documents = c.documents /\ d.cache = c.cache /\ d.query = c.query
          /\ d.attached = c.attached /\ d.listens \ {q} = c.listens \ {q}
        BY <1>6
    <2>2. d.call = [c.call EXCEPT !.up = Append(@, [request |-> request, query |-> q])]
        BY <1>6
    <2>3. d.targets = [c.targets EXCEPT
                           ![q] = [c.targets[q] EXCEPT !.outstanding = c.targets[q].outstanding + 1]]
        BY <1>6
    <2>4. WireOK(c, s)
        BY DEF ClientOK
    <2> HIDE DEF targets, call, target, r
    <2> QED BY <1>2, <1>8, <2>1, <2>2, <2>3, <2>4, SendWireOK
<1>10. ViewOK(d, s)
    BY <1>6, ViewFrame DEF ClientOK
<1>11. TrackerOK(d) /\ StreamOK(d)
    BY <1>6, <1>7, <1>8 DEF ClientOK, TrackerOK, SameTracker, StreamOK, IsOpen, IsStarted
<1> QED BY <1>1, <1>6, <1>8, <1>9, <1>10, <1>11 DEF ClientOK

(* Without a stream a target comes and goes unnoticed.                     *)
LEMMA SetListensOK ==
    ASSUME NEW c, NEW s, ClientOK(c, s), ~IsOpen(c), NEW L \in SUBSET Queries
    PROVE  LET d == [c EXCEPT !.listens = L]
           IN  /\ ClientOK(d, s) /\ d.listens = L /\ d.views = c.views /\ d.raised = c.raised
               /\ IsStarted(d) <=> IsStarted(c)
<1>1. PICK d : d = [c EXCEPT !.listens = L]
    OBVIOUS
<1>2. c \in Clients /\ ~c.idle /\ c.call = NoCall
    BY DEF ClientOK, StreamOK
<1>3. /\ d \in Clients /\ d.listens = L /\ d.targets = c.targets /\ d.call = c.call
      /\ d.stream = c.stream /\ d.views = c.views /\ d.raised = c.raised
      /\ d.documents = c.documents /\ d.cache = c.cache /\ d.query = c.query
      /\ d.attached = c.attached /\ d.synced = c.synced /\ d.posted = c.posted
    BY <1>1, <1>2 DEF Clients
<1>4. SameTracker(d, c) /\ d.idle = c.idle
    BY <1>1, <1>2 DEF Clients, SameTracker
<1>5. ~IsOpen(d) /\ (IsStarted(d) <=> IsStarted(c))
    BY <1>3 DEF IsOpen, IsStarted
<1>6. WireOK(d, s)
    BY <1>2, <1>3, <1>5, NoWireOK DEF ClientOK, WireOK, CountOK, TargetsOK
<1>7. ViewOK(d, s)
    BY <1>3, ViewFrame DEF ClientOK
<1>8. TrackerOK(d) /\ StreamOK(d)
    BY <1>2, <1>3, <1>4, <1>5 DEF ClientOK, TrackerOK, SameTracker, StreamOK
<1> QED BY <1>1, <1>3, <1>5, <1>6, <1>7, <1>8 DEF ClientOK

(* RemoteStore::Listen to a new target.                                    *)
LEMMA ListenOK ==
    ASSUME NEW c, NEW s \in [Gets -> Nat], ClientOK(c, s), NEW q \in Queries, q \notin c.listens
    PROVE  LET d == Listen(c, q)
           IN  /\ ClientOK(d, s) /\ d.listens = c.listens \union {q} /\ d.views = c.views
               /\ c.raised \subseteq d.raised
<1> DEFINE L == c.listens \union {q}
<1>0. c \in Clients /\ L \in SUBSET Queries /\ L \ {q} = c.listens \ {q}
    BY DEF ClientOK, Clients
<1>1. PICK e : e = [c EXCEPT !.listens = L]
    OBVIOUS
<1>2. e.stream = c.stream
    BY <1>0, <1>1 DEF Clients
<1>3. CASE IsOpen(c)
    <2>1. ~ShouldStartWatchStream(e)
        BY <1>2, <1>3 DEF ShouldStartWatchStream, IsStarted, IsOpen
    <2>2. Listen(c, q) = Send([c EXCEPT !.listens = L], q, "watch")
        BY <1>1, <1>3, <2>1 DEF Listen
    <2>3. PICK M \in SUBSET Queries : M = L
        BY <1>0
    <2>4. PICK d : d = Send([c EXCEPT !.listens = M], q, "watch")
        OBVIOUS
    <2>5. /\ ClientOK(d, s) /\ d.listens = M /\ d.views = c.views /\ d.raised = c.raised
          /\ IsOpen(d) /\ ~d.idle
        <3>1. M \ {q} = c.listens \ {q}
            BY <1>0, <2>3
        <3> QED BY <1>3, <2>4, <3>1, SendOK
    <2>6. Listen(c, q) = d /\ d.listens = c.listens \union {q}
        BY <2>2, <2>3, <2>4, <2>5
    <2> QED BY <2>5, <2>6
<1>4. CASE ~IsOpen(c)
    <2>1. /\ ClientOK(e, s) /\ e.listens = L /\ e.views = c.views /\ e.raised = c.raised
          /\ IsStarted(e) <=> IsStarted(c)
        BY <1>0, <1>1, <1>4, SetListensOK
    <2>2. CASE ShouldStartWatchStream(e)
        <3>1. Closed(e, s) /\ ~e.timer
            BY <2>1, <2>2, NotStarted DEF ShouldStartWatchStream
        <3>2. After(StartWatchStream(e), e, s)
            BY <2>2, <3>1, StartWatchStreamOK
        <3>3. Listen(c, q) = StartWatchStream(e)
            BY <1>1, <2>2 DEF Listen
        <3> QED BY <2>1, <3>2, <3>3 DEF After
    <2>3. CASE ~ShouldStartWatchStream(e)
        <3>1. Listen(c, q) = e
            BY <1>1, <1>4, <2>3 DEF Listen
        <3> QED BY <2>1, <3>1
    <2> QED BY <2>2, <2>3
<1> QED BY <1>3, <1>4

(* RemoteStore::StopListening to a target: the last one leaves an idle     *)
(* stream behind.                                                          *)
LEMMA StopListeningOK ==
    ASSUME NEW c, NEW s \in [Gets -> Nat], ClientOK(c, s), NEW q \in Queries, q \in c.listens
    PROVE  LET d == StopListening(c, q)
           IN  /\ ClientOK(d, s) /\ d.listens = c.listens \ {q} /\ d.views = c.views
               /\ c.raised \subseteq d.raised
<1> DEFINE L == c.listens \ {q}
<1>0. c \in Clients /\ L \in SUBSET Queries /\ L \ {q} = c.listens \ {q} /\ c.sound
    BY DEF ClientOK, Clients, TrackerOK
<1>1. PICK e : e = [c EXCEPT !.listens = L]
    OBVIOUS
<1>2. HardAssert(c, q \in c.listens) = c
    BY <1>0, HardAssertOK
<1>3. PICK t : t = IF IsOpen(c) THEN Send(e, q, "unwatch") ELSE e
    OBVIOUS
<1>4. StopListening(c, q) = IF t.listens # {} THEN t
                            ELSE IF IsOpen(t) THEN MarkIdle(t)
                            ELSE IF t.enabled THEN UpdateState(t, "Unknown") ELSE t
    BY <1>1, <1>2, <1>3 DEF StopListening
<1>5. /\ ClientOK(t, s) /\ t.listens = L /\ t.views = c.views /\ t.raised = c.raised
    <2>1. CASE IsOpen(c)
        <3>1. PICK M \in SUBSET Queries : M = L
            BY <1>0
        <3>2. t = Send([c EXCEPT !.listens = M], q, "unwatch")
            BY <1>1, <1>3, <2>1, <3>1
        <3>3. M \ {q} = c.listens \ {q}
            BY <1>0, <3>1
        <3>4. /\ ClientOK(t, s) /\ t.listens = M /\ t.views = c.views /\ t.raised = c.raised
              /\ IsOpen(t) /\ ~t.idle
            BY <2>1, <3>2, <3>3, SendOK
        <3> QED BY <3>1, <3>4
    <2>2. CASE ~IsOpen(c)
        BY <1>0, <1>1, <1>3, <2>2, SetListensOK
    <2> QED BY <2>1, <2>2
<1>6. CASE t.listens # {}
    BY <1>4, <1>5, <1>6
<1>7. CASE t.listens = {} /\ IsOpen(t)
    <2>1. PICK d : d = [t EXCEPT !.idle = TRUE]
        OBVIOUS
    <2>2. t \in Clients
        BY <1>5 DEF ClientOK
    <2>3. /\ d \in Clients /\ WireSame(d, t) /\ SameTracker(d, t) /\ d.synced = t.synced
          /\ d.views = t.views /\ d.raised = t.raised /\ d.posted = t.posted
        BY <2>1, <2>2 DEF Clients, WireSame, SameTracker
    <2>4. WireOK(d, s) /\ ViewOK(d, s)
        BY <1>5, <2>3, WireFrame, ViewFrame DEF ClientOK, WireSame
    <2>5. TrackerOK(d) /\ StreamOK(d)
        BY <1>5, <1>7, <2>3
        DEF ClientOK, TrackerOK, StreamOK, SameTracker, WireSame, IsOpen, IsStarted
    <2>6. StopListening(c, q) = d
        BY <1>4, <1>7, <2>1 DEF MarkIdle
    <2> QED BY <1>5, <2>3, <2>4, <2>5, <2>6 DEF ClientOK, WireSame
<1>8. CASE t.listens = {} /\ ~IsOpen(t) /\ t.enabled
    <2>1. After(UpdateState(t, "Unknown"), t, s)
        BY <1>5, UpdatedOK DEF OnlineStates
    <2>2. StopListening(c, q) = UpdateState(t, "Unknown")
        BY <1>4, <1>8
    <2> QED BY <1>5, <2>1, <2>2 DEF After
<1>9. CASE t.listens = {} /\ ~IsOpen(t) /\ ~t.enabled
    BY <1>4, <1>5, <1>9
<1> QED BY <1>6, <1>7, <1>8, <1>9

(* RemoteStore::OnWatchStreamOpen: one request for each target, in any     *)
(* order.                                                                  *)
LEMMA SendAllOK ==
    ASSUME NEW c, NEW s, ClientOK(c, s), c.stream = "Starting", IsFiniteSet(c.listens),
           NEW order \in Bijection(1 .. Cardinality(c.listens), c.listens)
    PROVE  After(SendAll([c EXCEPT !.stream = "Open"], order), c, s)
<1> DEFINE n == Cardinality(c.listens)
           up == [i \in 1 .. n |-> [request |-> "watch", query |-> order[i]]]
           call == [NoCall EXCEPT !.up = up]
           targets == [q \in Queries |-> IF q \in c.listens
                           THEN [NewTarget EXCEPT !.outstanding = 1] ELSE NewTarget]
<1>0. c \in Clients /\ ~IsOpen(c) /\ IsStarted(c)
    BY DEF ClientOK, IsOpen, IsStarted
<1>1. /\ c.call = NoCall /\ ~c.idle /\ \A q \in Queries : c.targets[q] = NewTarget
      /\ c.listens \in SUBSET Queries
    BY <1>0 DEF ClientOK, StreamOK, WireOK, CountOK, Clients
<1>2. n \in Nat
    BY FS_CardinalityType
<1>3. /\ order \in [1 .. n -> c.listens]
      /\ \A i, j \in 1 .. n : order[i] = order[j] => i = j
      /\ \A q \in c.listens : \E i \in 1 .. n : order[i] = q
    BY DEF Bijection, Injection, Surjection, IsInjective
<1>4. up \in Seq(Requests) /\ Len(up) = n
    <2>1. \A i \in 1 .. n : [request |-> "watch", query |-> order[i]] \in Requests
        BY <1>1, <1>3 DEF Requests
    <2> HIDE DEF n
    <2> QED BY <1>2, <2>1
<1>5. call \in Calls /\ call.down = <<>> /\ call.up = up
    <2>1. NoCall \in Calls
        BY ReadsAssumption DEF NoCall, Calls, Versions
    <2> HIDE DEF up
    <2>2. call \in Calls /\ call.up = up
        BY <1>4, <2>1 DEF Calls
    <2>3. call.down = <<>>
        BY DEF NoCall
    <2> QED BY <2>2, <2>3
<1>6. targets \in [Queries -> Targets]
    <2>1. NewTarget \in Targets
        BY DEF NewTarget, Targets
    <2>2. [NewTarget EXCEPT !.outstanding = 1] \in Targets
        BY <2>1 DEF Targets
    <2> QED BY <2>1, <2>2
<1>7. PICK e : e = [c EXCEPT !.stream = "Open"]
    OBVIOUS
<1>8. e \in Clients /\ e.call = NoCall /\ e.listens = c.listens /\ e.targets = c.targets
    BY <1>0, <1>1, <1>7 DEF Clients, Streams
<1>9. PICK d : d = SendAll(e, order)
    OBVIOUS
<1>10. d = [e EXCEPT !.targets = targets, !.call = call]
    <2>1. [q \in Queries |-> IF q \in e.listens
               THEN [e.targets[q] EXCEPT !.outstanding = @ + 1] ELSE e.targets[q]] = targets
        BY <1>1, <1>8 DEF NewTarget
    <2>2. [i \in DOMAIN order |-> [request |-> "watch", query |-> order[i]]] = up
        BY <1>3
    <2>3. d = [e EXCEPT !.targets = targets, !.call.up = up]
        BY <1>9, <2>1, <2>2 DEF SendAll
    <2> HIDE DEF up, targets
    <2> QED BY <1>8, <2>3 DEF Clients
<1>11. d = [c EXCEPT !.stream = "Open", !.targets = targets, !.call = call]
    <2> HIDE DEF targets, call
    <2> QED BY <1>0, <1>7, <1>10 DEF Clients
<1>12. /\ d \in Clients /\ d.stream = "Open" /\ d.call = call /\ d.targets = targets
       /\ d.listens = c.listens /\ d.views = c.views /\ d.raised = c.raised
       /\ d.documents = c.documents /\ d.cache = c.cache /\ d.query = c.query
       /\ d.attached = c.attached /\ d.synced = c.synced /\ d.posted = c.posted
    <2> HIDE DEF targets, call
    <2> QED BY <1>0, <1>5, <1>6, <1>11 DEF Clients, Streams
<1>13. SameTracker(d, c) /\ d.idle = c.idle
    BY <1>0, <1>11 DEF Clients, SameTracker
<1>14. IsOpen(d) /\ IsStarted(d)
    BY <1>12 DEF IsOpen, IsStarted
<1>15. ASSUME NEW q \in Queries
       PROVE  Owed(d.call, q) = IF q \in c.listens THEN 1 ELSE 0
    <2>1. Cardinality(Places(call.down, AnswersTo(q))) = 0
        <3>1. Places(call.down, AnswersTo(q)) = {}
            BY <1>5 DEF Places
        <3> QED BY <3>1, FS_EmptySet
    <2>2. \A i \in 1 .. n : up[i] \in RequestsFor(q) <=> order[i] = q
        BY DEF RequestsFor
    <2>3. Places(up, RequestsFor(q)) = {i \in 1 .. n : order[i] = q}
        <3> HIDE DEF up
        <3> QED BY <1>4, <2>2 DEF Places
    <2>4. Owed(d.call, q) = Cardinality(Places(call.down, AnswersTo(q)))
                            + Cardinality(Places(up, RequestsFor(q)))
        <3> HIDE DEF call, up
        <3> QED BY <1>5, <1>12 DEF Owed
    <2>5. CASE q \in c.listens
        <3>1. PICK j \in 1 .. n : order[j] = q
            BY <1>3, <2>5
        <3>2. Places(up, RequestsFor(q)) = {j}
            <4> HIDE DEF n, up
            <4> QED BY <1>3, <2>3, <3>1
        <3>3. Cardinality(Places(up, RequestsFor(q))) = 1
            BY <3>2, FS_Singleton
        <3> HIDE DEF up, call
        <3> QED BY <2>1, <2>4, <2>5, <3>3
    <2>6. CASE q \notin c.listens
        <3>1. Places(up, RequestsFor(q)) = {}
            <4> HIDE DEF n, up
            <4> QED BY <1>3, <2>3, <2>6
        <3>2. Cardinality(Places(up, RequestsFor(q))) = 0
            BY <3>1, FS_EmptySet
        <3> HIDE DEF up, call
        <3> QED BY <2>1, <2>4, <2>6, <3>2
    <2> QED BY <2>5, <2>6
<1>16. \A q \in Queries : /\ d.targets[q].outstanding = IF q \in c.listens THEN 1 ELSE 0
                          /\ ~d.targets[q].current
    BY <1>12 DEF NewTarget
<1>17. WireOK(d, s)
    <2>1. Allowed \subseteq Queries /\ Denied \subseteq Queries
        BY ReadsAssumption DEF Allowed
    <2>2. CountOK(d)
        BY <1>14, <1>15, <1>16, <2>1 DEF CountOK
    <2>3. \A q \in Queries : ~IsActiveTarget(d, q)
        BY <1>12, <1>16 DEF IsActiveTarget
    <2>4. Len(d.call.down) = 0
        BY <1>5, <1>12
    <2> QED BY <1>16, <2>1, <2>2, <2>3, <2>4 DEF WireOK, DownFresh, CurrentOK, TargetsOK
<1>18. ViewOK(d, s)
    BY <1>12, ViewFrame DEF ClientOK
<1>19. TrackerOK(d) /\ StreamOK(d)
    BY <1>1, <1>13, <1>14 DEF ClientOK, TrackerOK, SameTracker, StreamOK
<1> QED BY <1>7, <1>9, <1>12, <1>17, <1>18, <1>19 DEF After, ClientOK

-----------------------------------------------------------------------------
(* Responses.                                                              *)

\* Client c has taken m from its call and not acted on it yet.
Reading(c, m, s) ==
    /\ c \in Clients /\ TrackerOK(c) /\ StreamOK(c) /\ ViewOK(c, s) /\ IsOpen(c) /\ m \in Messages
    /\ \A q \in Allowed :
           c.targets[q].outstanding = Owed(c.call, q) + IF m \in AnswersTo(q) THEN 1 ELSE 0
    /\ DownFresh(c, s) /\ TargetsOK(c, s)
    /\ \A q \in Allowed, k \in 1 .. Len(c.call.down) : IsAbout(c.call.down[k], "current", q) =>
           IF k = 1 THEN IsAbout(m, "documents", q) ELSE IsAbout(c.call.down[k - 1], "documents", q)
    /\ \A q \in Allowed \intersect c.listens :
           IsAbout(m, "documents", q) /\ Settled(c.call, q, 0) => Fresh(c, s, q, m.version)
    /\ \A q \in Allowed :
           IsAbout(m, "current", q) /\ IsActiveTarget(c, q) => Fresh(c, s, q, Stored(c, q))

(* A message is about nothing but its query.                               *)
LEMMA MessageProps ==
    ASSUME NEW m \in Messages
    PROVE  /\ m.type \in {"snapshot", "documents", "added", "current", "removed", "denied"}
           /\ m.type = "documents" => m.query \in Allowed /\ m.version \in 1 .. MaxVersions
           /\ m.type \in {"added", "current"} => m.query \in Allowed
           /\ m.type = "removed" => m.query \in Queries
           /\ m.type = "denied" => m.query \in Denied
           /\ \A q : m \in AnswersTo(q) <=> m.type \in {"added", "removed"} /\ m.query = q
<1>1. CASE m \in [type : {"snapshot"}]
    BY <1>1 DEF AnswersTo, About
<1>2. CASE m \in [type : {"documents"}, query : Allowed, version : 1 .. MaxVersions]
    BY <1>2 DEF AnswersTo, About
<1>3. CASE m \in [type : {"added", "current"}, query : Allowed]
    BY <1>3 DEF AnswersTo, About
<1>4. CASE m \in [type : {"removed"}, query : Queries]
    BY <1>4 DEF AnswersTo, About
<1>5. CASE m \in [type : {"denied"}, query : Denied]
    BY <1>5 DEF AnswersTo, About
<1> QED BY <1>1, <1>2, <1>3, <1>4, <1>5 DEF Messages

(* The oldest response is taken from the call.                             *)
LEMMA ReadOK ==
    ASSUME NEW c, NEW s, ClientOK(c, s), c.call.down # <<>>
    PROVE  LET d == [c EXCEPT !.call.down = Tail(@), !.call.heard = TRUE]
           IN  /\ Reading(d, Head(c.call.down), s) /\ d.listens = c.listens
               /\ d.views = c.views /\ d.raised = c.raised
<1>0. c \in Clients /\ IsOpen(c) /\ IsStarted(c)
    BY DEF ClientOK, StreamOK, NoCall, IsOpen, IsStarted
<1> DEFINE down == c.call.down
           up == c.call.up
           rest == Tail(down)
           m == Head(down)
           call == [c.call EXCEPT !.down = rest, !.heard = TRUE]
<1>1. /\ c.call \in Calls /\ up \in Seq(Requests) /\ down \in Seq(Messages)
      /\ Allowed \subseteq Queries
    BY <1>0, CallTypes
<1>2. /\ rest \in Seq(Messages) /\ m \in Messages /\ Len(down) \in Nat \ {0}
      /\ Len(rest) = Len(down) - 1 /\ m = down[1]
      /\ \A k \in 1 .. Len(rest) : rest[k] = down[k + 1] /\ k + 1 \in 1 .. Len(down)
    BY <1>1
<1>3. call \in Calls /\ call.down = rest /\ call.up = up
    <2> HIDE DEF rest
    <2> QED BY <1>1, <1>2 DEF Calls
<1>4. PICK d : d = [c EXCEPT !.call.down = Tail(@), !.call.heard = TRUE]
    OBVIOUS
<1>5. d = [c EXCEPT !.call = call]
    BY <1>0, <1>1, <1>4 DEF Clients, Calls
<1>6. /\ d \in Clients /\ d.call = call /\ d.stream = c.stream /\ d.targets = c.targets
      /\ d.listens = c.listens /\ d.views = c.views /\ d.raised = c.raised
      /\ d.documents = c.documents /\ d.cache = c.cache /\ d.query = c.query
      /\ d.attached = c.attached /\ d.synced = c.synced /\ d.posted = c.posted
    <2> HIDE DEF call
    <2> QED BY <1>0, <1>3, <1>5 DEF Clients
<1>7. SameTracker(d, c) /\ d.idle = c.idle
    BY <1>0, <1>5 DEF Clients, SameTracker
<1>8. d.call.down = rest /\ d.call.up = up /\ d.call \in Calls
    BY <1>3, <1>6
<1> HIDE DEF call, rest, m, up
<1>9. ASSUME NEW q
      PROVE  /\ \A i \in Nat : i \in Places(rest, AnswersTo(q)) <=>
                               i + 1 \in Places(down, AnswersTo(q)) /\ i # 0
             /\ Cardinality(Places(down, AnswersTo(q))) =
                    Cardinality(Places(rest, AnswersTo(q))) + IF m \in AnswersTo(q) THEN 1 ELSE 0
    BY <1>1, PlacesTail DEF rest, m
<1>10. ASSUME NEW q, NEW k \in Nat, Settled(d.call, q, k)
       PROVE  Settled(c.call, q, k + 1)
    <2>1. Places(c.call.up, RequestsFor(q)) = {}
        BY <1>8, <1>10 DEF Settled, up
    <2>2. ASSUME NEW i \in Places(c.call.down, AnswersTo(q)) PROVE i <= k + 1
        <3>1. i \in Nat /\ i # 0 /\ i - 1 \in Nat /\ (i - 1) + 1 = i
            BY <1>2 DEF Places
        <3>2. CASE i = 1
            BY <3>2
        <3>3. CASE i # 1
            <4>1. i - 1 \in Places(rest, AnswersTo(q))
                BY <1>9, <3>1, <3>3
            <4>2. i - 1 <= k
                BY <1>8, <1>10, <4>1 DEF Settled
            <4> QED BY <3>1, <4>2
        <3> QED BY <3>2, <3>3
    <2> QED BY <2>1, <2>2 DEF Settled
<1>11. TrackerOK(d) /\ StreamOK(d) /\ IsOpen(d)
    BY <1>0, <1>6, <1>7 DEF ClientOK, TrackerOK, SameTracker, StreamOK, IsOpen, IsStarted
<1>12. ViewOK(d, s)
    BY <1>6, ViewFrame DEF ClientOK
<1>13. ASSUME NEW q \in Allowed
       PROVE  d.targets[q].outstanding = Owed(d.call, q) + IF m \in AnswersTo(q) THEN 1 ELSE 0
    <2>1. d.targets[q].outstanding = Owed(c.call, q)
        BY <1>0, <1>6 DEF ClientOK, WireOK, CountOK
    <2>2. /\ Cardinality(Places(rest, AnswersTo(q))) \in Nat
          /\ Cardinality(Places(up, RequestsFor(q))) \in Nat
        BY <1>1, <1>2, PlacesFinite
    <2>3. Cardinality(Places(down, AnswersTo(q))) =
              Cardinality(Places(rest, AnswersTo(q))) + IF m \in AnswersTo(q) THEN 1 ELSE 0
        BY <1>9
    <2>4. /\ Owed(c.call, q) = Cardinality(Places(down, AnswersTo(q)))
                               + Cardinality(Places(up, RequestsFor(q)))
          /\ Owed(d.call, q) = Cardinality(Places(rest, AnswersTo(q)))
                               + Cardinality(Places(up, RequestsFor(q)))
        BY <1>8 DEF Owed, up
    <2>5. CASE m \in AnswersTo(q)
        BY <2>1, <2>2, <2>3, <2>4, <2>5
    <2>6. CASE m \notin AnswersTo(q)
        BY <2>1, <2>2, <2>3, <2>4, <2>6
    <2> QED BY <2>5, <2>6
<1>14. ASSUME NEW q \in Allowed \intersect d.listens, NEW k \in 1 .. Len(down),
              IsAbout(down[k], "documents", q), Settled(d.call, q, k - 1)
       PROVE  Fresh(d, s, q, down[k].version)
    <2>1. k - 1 \in Nat /\ (k - 1) + 1 = k
        BY <1>2
    <2>2. Settled(c.call, q, k)
        BY <1>10, <1>14, <2>1
    <2>3. Fresh(c, s, q, down[k].version)
        BY <1>6, <1>14, <2>2 DEF ClientOK, WireOK, DownFresh
    <2> QED BY <1>6, <2>3 DEF Fresh
<1>15. DownFresh(d, s)
    <2>1. ASSUME NEW q \in Allowed \intersect d.listens, NEW k \in 1 .. Len(rest),
                 IsAbout(rest[k], "documents", q), Settled(d.call, q, k)
          PROVE  Fresh(d, s, q, rest[k].version)
        <3>1. rest[k] = down[k + 1] /\ k + 1 \in 1 .. Len(down) /\ (k + 1) - 1 = k
            BY <1>2
        <3> QED BY <1>14, <2>1, <3>1
    <2> QED BY <1>8, <2>1 DEF DownFresh
<1>16. \A q \in Allowed \intersect d.listens :
           IsAbout(m, "documents", q) /\ Settled(d.call, q, 0) => Fresh(d, s, q, m.version)
    <2>1. m = down[1] /\ 1 \in 1 .. Len(down) /\ 1 - 1 = 0
        BY <1>2
    <2> QED BY <1>14, <2>1
<1>17. TargetsOK(d, s)
    BY <1>6 DEF ClientOK, WireOK, TargetsOK, IsActiveTarget, IsOpen, Fresh, Stored
<1>18. CurrentOK(c, s)
    BY DEF ClientOK, WireOK
<1>19. ASSUME NEW q \in Allowed, NEW k \in 1 .. Len(rest), IsAbout(rest[k], "current", q)
       PROVE  IF k = 1 THEN IsAbout(m, "documents", q) ELSE IsAbout(rest[k - 1], "documents", q)
    <2>1. rest[k] = down[k + 1] /\ k + 1 \in 1 .. Len(down) /\ (k + 1) - 1 = k /\ k + 1 # 1
        BY <1>2
    <2>2. IsAbout(down[k], "documents", q)
        BY <1>18, <1>19, <2>1 DEF CurrentOK
    <2>3. CASE k = 1
        BY <1>2, <2>2, <2>3
    <2>4. CASE k # 1
        <3>1. k - 1 \in 1 .. Len(rest) /\ (k - 1) + 1 = k
            BY <1>2, <2>4
        <3>2. rest[k - 1] = down[k]
            BY <1>2, <3>1
        <3> QED BY <2>2, <2>4, <3>2
    <2> QED BY <2>3, <2>4
<1>20. \A q \in Allowed :
           IsAbout(m, "current", q) /\ IsActiveTarget(d, q) => Fresh(d, s, q, Stored(d, q))
    <2>1. m = down[1] /\ 1 \in 1 .. Len(down)
        BY <1>2
    <2> QED BY <1>6, <1>18, <2>1 DEF CurrentOK, IsActiveTarget, Fresh, Stored
<1>21. Reading(d, m, s)
    BY <1>2, <1>6, <1>8, <1>11, <1>12, <1>13, <1>15, <1>16, <1>17, <1>19, <1>20 DEF Reading
<1> QED BY <1>4, <1>6, <1>21 DEF m

(* The tracker hears of the response before anybody acts on it.            *)
LEMMA HeardOK ==
    ASSUME NEW c, NEW m, NEW s \in [Gets -> Nat], Reading(c, m, s)
    PROVE  LET d == UpdateState(c, "Online")
           IN  /\ Reading(d, m, s) /\ d.listens = c.listens /\ d.views = c.views
               /\ c.raised \subseteq d.raised
<1>1. PICK d : d = UpdateState(c, "Online")
    OBVIOUS
<1>2. c \in Clients /\ ViewOK(c, s) /\ c.sound
    BY DEF Reading, TrackerOK
<1>3. Shown(d, c, s) /\ TrackerOK(d) /\ d.state = "Online" /\ ~d.timer /\ ~d.failed
    BY <1>1, <1>2, UpdateStateOK DEF OnlineStates
<1>4. /\ d.stream = c.stream /\ d.idle = c.idle /\ d.call = c.call /\ d.listens = c.listens
      /\ d.targets = c.targets /\ d.documents = c.documents /\ d.cache = c.cache
      /\ d.query = c.query /\ d.attached = c.attached /\ d.views = c.views
      /\ c.raised \subseteq d.raised
    BY <1>3 DEF Shown, Same
<1>5. StreamOK(d) /\ IsOpen(d)
    BY <1>3, <1>4 DEF Reading, StreamOK, IsOpen, IsStarted
<1>6. \A q, v : Fresh(d, s, q, v) <=> Fresh(c, s, q, v)
    BY <1>4 DEF Fresh
<1>7. DownFresh(d, s) /\ TargetsOK(d, s)
    BY <1>4, <1>6 DEF Reading, DownFresh, TargetsOK, IsActiveTarget, Stored, IsOpen
<1>8. \A q \in Allowed :
          IsAbout(m, "current", q) /\ IsActiveTarget(d, q) => Fresh(d, s, q, Stored(d, q))
    BY <1>4, <1>6 DEF Reading, IsActiveTarget, Stored
<1>9. \A q \in Allowed \intersect d.listens :
          IsAbout(m, "documents", q) /\ Settled(d.call, q, 0) => Fresh(d, s, q, m.version)
    BY <1>4, <1>6 DEF Reading
<1>10. /\ m \in Messages
       /\ \A q \in Allowed :
              d.targets[q].outstanding = Owed(d.call, q) + IF m \in AnswersTo(q) THEN 1 ELSE 0
       /\ \A q \in Allowed, k \in 1 .. Len(d.call.down) : IsAbout(d.call.down[k], "current", q) =>
              IF k = 1 THEN IsAbout(m, "documents", q)
              ELSE IsAbout(d.call.down[k - 1], "documents", q)
    BY <1>4 DEF Reading
<1>11. Reading(d, m, s)
    BY <1>3, <1>5, <1>7, <1>8, <1>9, <1>10 DEF Reading, Shown
<1> QED BY <1>1, <1>4, <1>11

(* A response is done with when the counts are right and what it showed is *)
(* fresh.                                                                  *)
LEMMA ReadDone ==
    ASSUME NEW c, NEW m, NEW s, Reading(c, m, s), m.type \notin {"added", "removed"},
           \A q \in Allowed :
               IsAbout(m, "documents", q) /\ IsActiveTarget(c, q) => Fresh(c, s, q, Stored(c, q))
    PROVE  ClientOK(c, s)
<1>1. CountOK(c)
    <2>1. \A q \in Allowed : m \notin AnswersTo(q)
        BY MessageProps DEF Reading
    <2>2. \A q \in Allowed : Owed(c.call, q) \in Nat
        BY OwedProps, CallTypes DEF Reading
    <2>3. \A q \in Allowed : c.targets[q].outstanding = Owed(c.call, q)
        BY <2>1, <2>2 DEF Reading
    <2> QED BY <2>3 DEF CountOK, Reading
<1>2. CurrentOK(c, s)
    BY DEF Reading, CurrentOK
<1> QED BY <1>1, <1>2 DEF ClientOK, Reading, WireOK

(* An active target has nothing outstanding.                               *)
LEMMA ActiveSettled ==
    ASSUME NEW c, NEW m, NEW s, Reading(c, m, s), NEW q \in Allowed, IsActiveTarget(c, q)
    PROVE  m \notin AnswersTo(q) /\ Settled(c.call, q, 0) /\ q \in c.listens
<1>1. c.targets[q].outstanding = Owed(c.call, q) + IF m \in AnswersTo(q) THEN 1 ELSE 0
    BY DEF Reading
<1>2. /\ Owed(c.call, q) \in Nat
      /\ Owed(c.call, q) = 0 => /\ Places(c.call.down, AnswersTo(q)) = {}
                                /\ Places(c.call.up, RequestsFor(q)) = {}
    BY OwedProps, CallTypes DEF Reading
<1>3. c.targets[q].outstanding = 0 /\ q \in c.listens
    BY DEF IsActiveTarget
<1>4. m \notin AnswersTo(q) /\ Owed(c.call, q) = 0
    BY <1>1, <1>2, <1>3
<1> QED BY <1>2, <1>3, <1>4 DEF Settled

(* HandleDocumentChange: documents of an active target are fresh.          *)
LEMMA DocumentsOK ==
    ASSUME NEW c, NEW m, NEW s, Reading(c, m, s), m.type = "documents"
    PROVE  After(HandleDocumentChange(c, m.query, m.version), c, s)
<1> DEFINE q == m.query
           v == m.version
<1>0. /\ q \in Allowed /\ q \in Queries /\ v \in 1 .. MaxVersions /\ v \in Versions
      /\ v # 0 /\ c \in Clients
    BY MessageProps, ReadsAssumption DEF Reading, Allowed, Versions
<1>1. CASE ~IsActiveTarget(c, q)
    <2>1. \A p \in Allowed : IsAbout(m, "documents", p) => ~IsActiveTarget(c, p)
        BY <1>1 DEF IsAbout
    <2>2. ClientOK(c, s)
        BY <2>1, ReadDone
    <2> QED BY <1>1, <2>2 DEF After, HandleDocumentChange
<1>2. CASE IsActiveTarget(c, q)
    <2>1. Fresh(c, s, q, v)
        <3>1. Settled(c.call, q, 0) /\ q \in Allowed \intersect c.listens
            BY <1>0, <1>2, ActiveSettled
        <3> QED BY <3>1 DEF Reading, IsAbout
    <2> DEFINE target == [c.targets[q] EXCEPT !.changed = TRUE]
               targets == [c.targets EXCEPT ![q] = target]
               documents == [c.documents EXCEPT ![q] = v]
    <2>2. PICK d : d = HandleDocumentChange(c, q, v)
        OBVIOUS
    <2>3. d = [c EXCEPT !.documents = documents, !.targets = targets]
        BY <1>0, <1>2, <2>2 DEF HandleDocumentChange, Clients
    <2>4. /\ targets \in [Queries -> Targets] /\ documents \in [Queries -> Versions]
          /\ documents[q] = v /\ \A p \in Queries : p # q => documents[p] = c.documents[p]
          /\ \A p \in Queries : p # q => targets[p] = c.targets[p]
          /\ targets[q] = target
        <3>1. c.targets \in [Queries -> Targets] /\ c.documents \in [Queries -> Versions]
            BY <1>0, CallTypes
        <3>2. target \in Targets
            BY <1>0, <3>1 DEF Targets
        <3> HIDE DEF target, q, v
        <3> QED BY <1>0, <3>1, <3>2
    <2>5. /\ target.outstanding = c.targets[q].outstanding
          /\ target.current <=> c.targets[q].current
        BY <1>0, CallTypes DEF Targets
    <2> HIDE DEF target, targets, documents
    <2>6. /\ d \in Clients /\ d.documents = documents /\ d.targets = targets
          /\ d.stream = c.stream /\ d.call = c.call /\ d.listens = c.listens
          /\ d.cache = c.cache /\ d.query = c.query /\ d.attached = c.attached
          /\ d.views = c.views /\ d.synced = c.synced /\ d.raised = c.raised
          /\ d.posted = c.posted
        BY <1>0, <2>3, <2>4 DEF Clients
    <2>7. SameTracker(d, c) /\ d.idle = c.idle
        BY <1>0, <2>3 DEF Clients, SameTracker
    <2>8. \A p, w : Fresh(d, s, p, w) <=> Fresh(c, s, p, w)
        BY <2>6 DEF Fresh
    <2>9. /\ Stored(d, q) = v /\ Fresh(d, s, q, Stored(d, q))
          /\ \A p \in Queries : p # q => Stored(d, p) = Stored(c, p)
        BY <1>0, <2>1, <2>4, <2>6, <2>8 DEF Stored
    <2>10. \A p \in Queries : d.targets[p].outstanding = c.targets[p].outstanding
        BY <2>4, <2>5, <2>6
    <2>11. \A p : p \in Queries => (IsActiveTarget(d, p) <=> IsActiveTarget(c, p))
        BY <2>6, <2>10 DEF IsActiveTarget
    <2>12. TrackerOK(d) /\ StreamOK(d) /\ IsOpen(d)
        BY <2>6, <2>7 DEF Reading, TrackerOK, SameTracker, StreamOK, IsOpen, IsStarted
    <2>13. ViewOK(d, s)
        <3>1. ListenersOK(d, s) /\ EventsOK(d, s) /\ UnmutedOK(d)
            BY <2>6 DEF Reading, ViewOK, ListenersOK, EventsOK, UnmutedOK
        <3>2. c.synced \subseteq Queries
            BY <1>0 DEF Clients
        <3>3. SyncedFresh(d, s)
            BY <2>1, <2>4, <2>6, <2>8, <3>2 DEF Reading, ViewOK, SyncedFresh
        <3> QED BY <3>1, <3>3 DEF ViewOK
    <2>14. Allowed \subseteq Queries /\ Denied \subseteq Queries /\ q \notin Denied
        BY <1>0, ReadsAssumption DEF Allowed
    <2>15. DownFresh(d, s)
        BY <2>6, <2>8 DEF Reading, DownFresh
    <2>16. TargetsOK(d, s)
        <3>1. \A p \in Denied : ~d.targets[p].current
            BY <2>4, <2>6, <2>14 DEF Reading, TargetsOK
        <3>2. \A p \in Allowed : IsActiveTarget(d, p) /\ d.targets[p].changed
                                 => Fresh(d, s, p, Stored(d, p))
            BY <2>4, <2>6, <2>8, <2>9, <2>11, <2>14 DEF Reading, TargetsOK
        <3> QED BY <3>1, <3>2 DEF TargetsOK
    <2>17. m.type \notin {"added", "removed"} /\ ~IsAbout(m, "current", q)
        BY DEF IsAbout
    <2>18. Reading(d, m, s)
        <3>1. \A p \in Allowed : d.targets[p].outstanding =
                                     Owed(d.call, p) + IF m \in AnswersTo(p) THEN 1 ELSE 0
            BY <2>6, <2>10, <2>14 DEF Reading
        <3>2. \A p \in Allowed : ~IsAbout(m, "current", p)
            BY DEF IsAbout
        <3> QED BY <2>6, <2>8, <2>12, <2>13, <2>15, <2>16, <3>1, <3>2 DEF Reading
    <2>19. \A p \in Allowed : IsAbout(m, "documents", p) /\ IsActiveTarget(d, p)
                              => Fresh(d, s, p, Stored(d, p))
        BY <2>9 DEF IsAbout
    <2>20. ClientOK(d, s)
        BY <2>17, <2>18, <2>19, ReadDone
    <2> QED BY <2>2, <2>6, <2>20 DEF After
<1> QED BY <1>1, <1>2

(* One target's state is replaced in answer to a response that is not      *)
(* about documents.                                                        *)
LEMMA SetTargetOK ==
    ASSUME NEW c, NEW m, NEW s, Reading(c, m, s), m.type # "documents",
           NEW q \in Queries, NEW t \in Targets,
           q \in Allowed => t.outstanding = Owed(c.call, q),
           \A p \in Allowed : p # q => m \notin AnswersTo(p),
           q \in Denied => ~t.current,
           q \in Allowed /\ q \in c.listens /\ t.outstanding = 0 /\ t.changed
               => Fresh(c, s, q, Stored(c, q))
    PROVE  After([c EXCEPT !.targets[q] = t], c, s)
<1> DEFINE targets == [c.targets EXCEPT ![q] = t]
<1>0. c \in Clients /\ c.targets \in [Queries -> Targets] /\ Allowed \subseteq Queries
      /\ Denied \subseteq Queries
    BY CallTypes DEF Reading
<1>1. PICK d : d = [c EXCEPT !.targets[q] = t]
    OBVIOUS
<1>2. d = [c EXCEPT !.targets = targets]
    BY <1>0, <1>1 DEF Clients
<1>3. /\ targets \in [Queries -> Targets] /\ targets[q] = t
      /\ \A p \in Queries : p # q => targets[p] = c.targets[p]
    BY <1>0
<1> HIDE DEF targets
<1>4. /\ d \in Clients /\ d.targets = targets
      /\ d.stream = c.stream /\ d.call = c.call /\ d.listens = c.listens
      /\ d.documents = c.documents
      /\ d.cache = c.cache /\ d.query = c.query /\ d.attached = c.attached
      /\ d.views = c.views /\ d.synced = c.synced /\ d.raised = c.raised
      /\ d.posted = c.posted
    BY <1>0, <1>2, <1>3 DEF Clients
<1>5. SameTracker(d, c) /\ d.idle = c.idle
    BY <1>0, <1>2 DEF Clients, SameTracker
<1>6. TrackerOK(d) /\ StreamOK(d) /\ IsOpen(d)
    BY <1>4, <1>5 DEF Reading, TrackerOK, SameTracker, StreamOK, IsOpen, IsStarted
<1>7. ViewOK(d, s)
    BY <1>4, ViewFrame DEF Reading
<1>8. \A p, w : Fresh(d, s, p, w) <=> Fresh(c, s, p, w)
    BY <1>4 DEF Fresh
<1>9. \A p : Stored(d, p) = Stored(c, p)
    BY <1>4 DEF Stored
<1>10. CountOK(d)
    <2>1. ASSUME NEW p \in Allowed, p # q
          PROVE  d.targets[p].outstanding = Owed(d.call, p)
        <3>1. c.targets[p].outstanding = Owed(c.call, p) + IF m \in AnswersTo(p) THEN 1 ELSE 0
            BY DEF Reading
        <3>2. Owed(c.call, p) \in Nat
            BY <1>0, OwedProps, CallTypes
        <3>3. c.targets[p].outstanding = Owed(c.call, p)
            BY <2>1, <3>1, <3>2
        <3> QED BY <1>0, <1>3, <1>4, <2>1, <3>3
    <2>2. q \in Allowed => d.targets[q].outstanding = Owed(d.call, q)
        BY <1>3, <1>4
    <2> QED BY <1>6, <2>1, <2>2 DEF CountOK
<1>11. DownFresh(d, s)
    BY <1>4, <1>8 DEF Reading, DownFresh
<1>12. CurrentOK(d, s)
    <2>1. \A p \in Allowed : ~IsAbout(m, "documents", p)
        BY DEF IsAbout
    <2> QED BY <1>4, <2>1 DEF Reading, CurrentOK
<1>13. TargetsOK(d, s)
    <2>1. \A p \in Denied : ~d.targets[p].current
        BY <1>0, <1>3, <1>4 DEF Reading, TargetsOK
    <2>2. ASSUME NEW p \in Allowed, IsActiveTarget(d, p), d.targets[p].changed
          PROVE  Fresh(d, s, p, Stored(d, p))
        <3>1. CASE p = q
            BY <1>3, <1>4, <1>8, <1>9, <2>2, <3>1 DEF IsActiveTarget
        <3>2. CASE p # q
            <4>1. d.targets[p] = c.targets[p]
                BY <1>0, <1>3, <1>4, <3>2
            <4>2. IsActiveTarget(c, p) /\ c.targets[p].changed
                BY <1>4, <2>2, <4>1 DEF IsActiveTarget
            <4> QED BY <1>8, <1>9, <4>2 DEF Reading, TargetsOK
        <3> QED BY <3>1, <3>2
    <2> QED BY <2>1, <2>2 DEF TargetsOK
<1> QED BY <1>1, <1>4, <1>6, <1>7, <1>10, <1>11, <1>12, <1>13 DEF After, ClientOK, WireOK

(* HandleTargetChange: a response settles one request, and a target that   *)
(* is current has documents as new as its listen.                          *)
LEMMA TargetChangeOK ==
    ASSUME NEW c, NEW m, NEW s, Reading(c, m, s), m.type \in {"added", "removed", "current"}
    PROVE  After(HandleTargetChange(c, m.query, m.type), c, s)
<1>0. PICK q \in Queries : q = m.query
    BY MessageProps, ReadsAssumption DEF Reading, Allowed
<1>1. c \in Clients /\ c.targets[q] \in Targets /\ Allowed \subseteq Queries
      /\ m \in Messages
    BY CallTypes DEF Reading
<1>2. \A p \in Allowed : p # q => m \notin AnswersTo(p)
    BY <1>0, <1>1, MessageProps
<1>3. Allowed \intersect Denied = {} /\ \A p \in Denied : ~c.targets[p].current
    BY DEF Allowed, Reading, TargetsOK
<1>4. q \in Allowed => Owed(c.call, q) \in Nat
    BY <1>1, OwedProps, CallTypes
<1>5. q \in Allowed => c.targets[q].outstanding =
                           Owed(c.call, q) + IF m \in AnswersTo(q) THEN 1 ELSE 0
    BY DEF Reading
<1> DEFINE answered == [c.targets[q] EXCEPT !.outstanding = @ - 1]
<1>6. CASE m.type = "current"
    <2>1. q \in Allowed /\ m \notin AnswersTo(q)
        BY <1>0, <1>1, <1>6, MessageProps
    <2>2. c.targets[q].outstanding = Owed(c.call, q)
        BY <1>4, <1>5, <2>1
    <2>3. CASE IsActiveTarget(c, q)
        <3>1. PICK t : t = [c.targets[q] EXCEPT !.current = TRUE, !.changed = TRUE]
            OBVIOUS
        <3>2. t \in Targets /\ t.outstanding = c.targets[q].outstanding
            BY <1>1, <3>1 DEF Targets
        <3>3. Fresh(c, s, q, Stored(c, q))
            BY <1>0, <1>6, <2>1, <2>3 DEF Reading, IsAbout
        <3>4. After([c EXCEPT !.targets[q] = t], c, s)
            BY <1>2, <1>3, <1>6, <2>1, <2>2, <3>2, <3>3, SetTargetOK
        <3>5. HandleTargetChange(c, q, m.type) = [c EXCEPT !.targets[q] = t]
            BY <1>6, <2>3, <3>1 DEF HandleTargetChange
        <3> QED BY <1>0, <3>4, <3>5
    <2>4. CASE ~IsActiveTarget(c, q)
        <3>1. After([c EXCEPT !.targets[q] = c.targets[q]], c, s)
            BY <1>1, <1>2, <1>3, <1>6, <2>1, <2>2, <2>4, SetTargetOK DEF IsActiveTarget
        <3>2. HandleTargetChange(c, q, m.type) = [c EXCEPT !.targets[q] = c.targets[q]]
            BY <1>6, <2>4 DEF HandleTargetChange
        <3> QED BY <1>0, <3>1, <3>2
    <2> QED BY <2>3, <2>4
<1>7. CASE m.type \in {"added", "removed"}
    <2>1. m \in AnswersTo(q)
        BY <1>0, <1>1, <1>7, MessageProps
    <2>2. /\ answered \in Targets /\ answered.outstanding = c.targets[q].outstanding - 1
          /\ answered.current <=> c.targets[q].current
        BY <1>1 DEF Targets
    <2>3. q \in Allowed => answered.outstanding = Owed(c.call, q)
        <3> HIDE DEF answered
        <3> QED BY <1>4, <1>5, <2>1, <2>2
    <2>4. CASE answered.outstanding # 0
        <3>1. HandleTargetChange(c, q, m.type) = [c EXCEPT !.targets[q] = answered]
            BY <1>7, <2>4 DEF HandleTargetChange
        <3>2. PICK t : t = answered
            OBVIOUS
        <3>3. After([c EXCEPT !.targets[q] = t], c, s)
            <4> HIDE DEF answered
            <4> QED BY <1>2, <1>3, <1>7, <2>2, <2>3, <2>4, <3>2, SetTargetOK
        <3> QED BY <1>0, <3>1, <3>2, <3>3
    <2>5. CASE answered.outstanding = 0 /\ m.type = "added"
        <3>1. PICK t : t = [answered EXCEPT !.changed = FALSE]
            OBVIOUS
        <3>2. t \in Targets /\ t.outstanding = answered.outstanding /\ ~t.changed
            <4> HIDE DEF answered
            <4> QED BY <2>2, <3>1 DEF Targets
        <3>3. q \notin Denied
            BY <1>0, <1>1, <2>5, MessageProps DEF Allowed
        <3>4. HandleTargetChange(c, q, m.type) = [c EXCEPT !.targets[q] = t]
            BY <2>5, <3>1 DEF HandleTargetChange
        <3>5. After([c EXCEPT !.targets[q] = t], c, s)
            <4> HIDE DEF answered
            <4> QED BY <1>2, <1>7, <2>3, <3>2, <3>3, SetTargetOK
        <3> QED BY <1>0, <3>4, <3>5
    <2>6. CASE answered.outstanding = 0 /\ m.type = "removed"
        <3>1. NewTarget \in Targets /\ NewTarget.outstanding = 0
              /\ ~NewTarget.changed /\ ~NewTarget.current
            BY DEF NewTarget, Targets
        <3>2. HandleTargetChange(c, q, m.type) = [c EXCEPT !.targets[q] = NewTarget]
            BY <2>6 DEF HandleTargetChange
        <3>3. After([c EXCEPT !.targets[q] = NewTarget], c, s)
            <4> HIDE DEF answered
            <4> QED BY <1>2, <1>7, <2>3, <2>6, <3>1, SetTargetOK
        <3> QED BY <1>0, <3>2, <3>3
    <2> QED BY <1>7, <2>4, <2>5, <2>6
<1> QED BY <1>6, <1>7

(* ProcessTargetError and HandleRejectedListen: the error is the last that *)
(* the listeners are sent.                                                 *)
LEMMA TargetErrorOK ==
    ASSUME NEW c, NEW m, NEW s, Reading(c, m, s), m.type = "denied"
    PROVE  LET d == ProcessTargetError(c, m.query)
           IN  /\ ClientOK(d, s) /\ c.raised \subseteq d.raised
               /\ \/ d.listens = c.listens /\ d.views = c.views
                  \/ d.listens = c.listens \ {m.query} /\ d.views = c.views \ {m.query}
<1>0. PICK q \in Denied : q = m.query
    BY MessageProps DEF Reading
<1>1. c \in Clients /\ q \in Queries /\ q \notin Allowed /\ Allowed \subseteq Queries
      /\ Denied \subseteq Queries
    BY ReadsAssumption DEF Reading, Allowed
<1>2. \A p \in Allowed : ~IsAbout(m, "documents", p)
    BY DEF IsAbout
<1>3. ClientOK(c, s)
    BY <1>2, ReadDone
<1>4. CASE q \notin c.listens
    BY <1>0, <1>3, <1>4 DEF ProcessTargetError
<1>5. CASE q \in c.listens
    <2> DEFINE gone == Listeners(c, q)
               error == [source |-> "error", version |-> 0]
               after == [g \in Gets |-> IF g \in gone THEN Append(c.posted[g], error)
                                        ELSE c.posted[g]]
               targets == [c.targets EXCEPT ![q] = NewTarget]
    <2>1. error \in Events /\ error.source = "error"
        BY ReadsAssumption DEF Events, Sources
    <2>2. /\ c.posted \in [Gets -> Seq(Events)] /\ c.attached \in SUBSET Gets
          /\ c.targets \in [Queries -> Targets] /\ gone \subseteq c.attached
          /\ c.query \in [Gets -> Queries \union {None}]
        BY <1>1 DEF Clients, Listeners
    <2>3. after \in [Gets -> Seq(Events)]
        <3> HIDE DEF error, gone
        <3> QED BY <2>1, <2>2
    <2>4. /\ targets \in [Queries -> Targets]
          /\ \A p \in Allowed : targets[p] = c.targets[p]
          /\ \A p \in Denied : ~targets[p].current
        <3>1. NewTarget \in Targets /\ ~NewTarget.current
            BY DEF NewTarget, Targets
        <3>2. \A p \in Denied : ~c.targets[p].current
            BY DEF Reading, TargetsOK
        <3> QED BY <1>1, <2>2, <3>1, <3>2
    <2>5. PICK d : d = ProcessTargetError(c, q)
        OBVIOUS
    <2>6. d = [c EXCEPT !.posted = after, !.listens = @ \ {q}, !.views = @ \ {q},
                        !.synced = @ \ {q}, !.targets = targets, !.attached = @ \ gone]
        <3>1. Post(c, [g \in gone |-> error]) = [c EXCEPT !.posted = after]
            BY DEF Post
        <3>2. d = [Post(c, [g \in gone |-> error]) EXCEPT
                      !.listens = @ \ {q}, !.views = @ \ {q}, !.synced = @ \ {q},
                      !.targets[q] = NewTarget, !.attached = @ \ Listeners(c, q)]
            BY <1>5, <2>5 DEF ProcessTargetError
        <3> HIDE DEF after
        <3> QED BY <1>1, <3>1, <3>2 DEF Clients
    <2> HIDE DEF after, targets, error
    <2>7. /\ d \in Clients /\ d.posted = after /\ d.listens = c.listens \ {q}
          /\ d.views = c.views \ {q} /\ d.synced = c.synced \ {q} /\ d.targets = targets
          /\ d.attached = c.attached \ gone /\ d.stream = c.stream /\ d.call = c.call
          /\ d.documents = c.documents /\ d.cache = c.cache /\ d.query = c.query
          /\ d.raised = c.raised
        BY <1>1, <2>2, <2>3, <2>4, <2>6 DEF Clients
    <2>8. SameTracker(d, c) /\ d.idle = c.idle
        BY <1>1, <2>6 DEF Clients, SameTracker
    <2>9. TrackerOK(d) /\ StreamOK(d) /\ IsOpen(d) /\ IsOpen(c)
        BY <1>5, <2>7, <2>8 DEF Reading, TrackerOK, SameTracker, StreamOK, IsOpen, IsStarted
    <2>10. \A p, w : Fresh(c, s, p, w) => Fresh(d, s, p, w)
        BY <2>7 DEF Fresh
    <2>11. \A p : Stored(d, p) = Stored(c, p)
        BY <2>7 DEF Stored
    <2>12. \A p \in Allowed : IsActiveTarget(d, p) => IsActiveTarget(c, p)
        BY <2>4, <2>7 DEF IsActiveTarget
    <2>13. WireOK(c, s)
        BY <1>3 DEF ClientOK
    <2>14. CountOK(d)
        BY <2>4, <2>7, <2>9, <2>13 DEF WireOK, CountOK
    <2>15. DownFresh(d, s)
        BY <2>7, <2>10, <2>13 DEF WireOK, DownFresh
    <2>16. CurrentOK(d, s)
        BY <2>7, <2>10, <2>11, <2>12, <2>13 DEF WireOK, CurrentOK
    <2>17. TargetsOK(d, s)
        <3>1. \A p \in Denied : ~d.targets[p].current
            BY <2>4, <2>7
        <3>2. \A p \in Allowed : d.targets[p] = c.targets[p]
            BY <2>4, <2>7
        <3>3. ASSUME NEW p \in Allowed, IsActiveTarget(d, p), d.targets[p].changed
              PROVE  Fresh(d, s, p, Stored(d, p))
            <4>1. IsActiveTarget(c, p) /\ c.targets[p].changed
                BY <2>12, <3>2, <3>3
            <4>2. Fresh(c, s, p, Stored(c, p))
                BY <2>9, <2>13, <4>1 DEF WireOK, TargetsOK
            <4> QED BY <2>10, <2>11, <4>2
        <3> QED BY <3>1, <3>3 DEF TargetsOK
    <2>18. ListenersOK(d, s)
        <3>1. ListenersOK(c, s)
            BY DEF Reading, ViewOK
        <3>2. d.views = {d.query[g] : g \in d.attached}
            BY <2>2, <2>7, <3>1 DEF ListenersOK, Listeners
        <3>3. \A g \in Gets : c.query[g] = None => after[g] = c.posted[g]
            BY <2>2, <3>1 DEF ListenersOK, after
        <3> QED BY <2>7, <3>1, <3>2, <3>3 DEF ListenersOK
    <2>19. EventsOK(d, s)
        <3>1. ASSUME NEW g \in Gets, NEW i \in 1 .. Len(after[g])
              PROVE  /\ after[g][i].source = "server" => after[g][i].version >= s[g]
                     /\ after[g][i].source = "error" => i = Len(after[g]) /\ g \notin d.attached
                     /\ after[g][i].source # "error" => g \in d.raised
            <4>0. EventsOK(c, s)
                BY DEF Reading, ViewOK
            <4>1. CASE g \in gone
                <5>1. after[g] = Append(c.posted[g], error) /\ c.posted[g] \in Seq(Events)
                    BY <2>2, <4>1 DEF after
                <5>2. CASE i \in 1 .. Len(c.posted[g])
                    <6>1. after[g][i] = c.posted[g][i]
                        BY <5>1, <5>2, <2>1
                    <6>2. c.posted[g][i].source # "error"
                        BY <2>2, <4>0, <4>1, <5>2 DEF EventsOK
                    <6> QED BY <2>7, <4>0, <5>2, <6>1, <6>2 DEF EventsOK
                <5>3. CASE i \notin 1 .. Len(c.posted[g])
                    <6>1. after[g][i] = error /\ i = Len(after[g])
                        BY <2>1, <5>1, <5>3
                    <6> QED BY <2>1, <2>7, <4>1, <6>1
                <5> QED BY <5>2, <5>3
            <4>2. CASE g \notin gone
                <5>1. after[g] = c.posted[g]
                    BY <4>2 DEF after
                <5> QED BY <2>7, <4>0, <5>1 DEF EventsOK
            <4> QED BY <4>1, <4>2
        <3> QED BY <2>7, <3>1 DEF EventsOK
    <2>20. UnmutedOK(d)
        <3>1. UnmutedOK(c)
            BY DEF Reading, ViewOK
        <3>2. \A g \in Gets : g \notin c.attached => after[g] = c.posted[g]
            BY <2>2 DEF after
        <3> QED BY <2>7, <3>1, <3>2 DEF UnmutedOK
    <2>21. SyncedFresh(d, s)
        BY <2>7, <2>10 DEF Reading, ViewOK, SyncedFresh
    <2>22. ClientOK(d, s)
        BY <2>7, <2>9, <2>14, <2>15, <2>16, <2>17, <2>18, <2>19, <2>20, <2>21
        DEF ClientOK, WireOK, ViewOK
    <2> QED BY <1>0, <2>5, <2>7, <2>22
<1> QED BY <1>4, <1>5

(* RaiseWatchSnapshot and ApplyRemoteEvent: a view that becomes current    *)
(* shows what is as new as its listen.                                     *)
LEMMA SnapshotOK ==
    ASSUME NEW c, NEW m, NEW s \in [Gets -> Nat], Reading(c, m, s), m.type = "snapshot",
           c.listens = c.views
    PROVE  After(RaiseWatchSnapshot(c), c, s)
<1> DEFINE changes == {q \in Queries : IsActiveTarget(c, q) /\ c.targets[q].changed}
           synced == (c.synced \ changes) \union {q \in changes : c.targets[q].current}
           cache == [q \in Queries |-> IF c.documents[q] = 0 THEN c.cache[q] ELSE c.documents[q]]
           new == {q \in c.views : cache[q] # c.cache[q] \/ (q \in synced) # (q \in c.synced)}
           targets == [q \in Queries |-> IF q \in changes
                           THEN [c.targets[q] EXCEPT !.changed = FALSE] ELSE c.targets[q]]
           nothing == [q \in Queries |-> 0]
<1>0. /\ c \in Clients /\ c.targets \in [Queries -> Targets] /\ Allowed \subseteq Queries
      /\ Denied \subseteq Queries /\ c.documents \in [Queries -> Versions]
      /\ c.cache \in [Queries -> Versions] /\ c.synced \in SUBSET Queries
    BY CallTypes DEF Reading, Clients
<1>1. PICK a : a = [c EXCEPT !.targets = targets, !.documents = nothing, !.synced = synced,
                             !.cache = cache]
    OBVIOUS
<1>2. RaiseWatchSnapshot(c) = OnViewSnapshots(a, new)
    BY <1>1 DEF RaiseWatchSnapshot
<1>3. /\ targets \in [Queries -> Targets] /\ nothing \in [Queries -> Versions]
      /\ synced \in SUBSET Queries /\ cache \in [Queries -> Versions]
    <2>1. \A q \in Queries : [c.targets[q] EXCEPT !.changed = FALSE] \in Targets
        BY <1>0 DEF Targets
    <2>2. targets \in [Queries -> Targets]
        BY <1>0, <2>1
    <2>3. nothing \in [Queries -> Versions] /\ cache \in [Queries -> Versions]
        BY <1>0, ReadsAssumption DEF Versions
    <2>4. synced \in SUBSET Queries
        BY <1>0
    <2> QED BY <2>2, <2>3, <2>4
<1>4. \A q \in Queries : /\ targets[q].outstanding = c.targets[q].outstanding
                         /\ targets[q].current <=> c.targets[q].current
                         /\ targets[q].changed => q \notin changes /\ c.targets[q].changed
                         /\ cache[q] = Stored(c, q) /\ nothing[q] = 0
    <2>1. ASSUME NEW q \in Queries
          PROVE  /\ [c.targets[q] EXCEPT !.changed = FALSE].outstanding = c.targets[q].outstanding
                 /\ [c.targets[q] EXCEPT !.changed = FALSE].current <=> c.targets[q].current
                 /\ ~[c.targets[q] EXCEPT !.changed = FALSE].changed
        BY <1>0 DEF Targets
    <2> HIDE DEF changes
    <2> QED BY <2>1 DEF Stored
<1>5. \A q \in synced : \/ q \in c.synced
                        \/ q \in changes /\ c.targets[q].current
    OBVIOUS
<1>6. \A q \in changes : q \in Queries /\ IsActiveTarget(c, q) /\ c.targets[q].changed
    OBVIOUS
<1> HIDE DEF targets, synced, cache, nothing
<1>7. /\ a \in Clients /\ a.targets = targets /\ a.documents = nothing /\ a.synced = synced
      /\ a.cache = cache /\ a.stream = c.stream /\ a.call = c.call /\ a.listens = c.listens
      /\ a.query = c.query /\ a.attached = c.attached /\ a.views = c.views
      /\ a.raised = c.raised /\ a.posted = c.posted
    BY <1>0, <1>1, <1>3 DEF Clients
<1>8. SameTracker(a, c) /\ a.idle = c.idle
    BY <1>0, <1>1 DEF Clients, SameTracker
<1>9. TrackerOK(a) /\ StreamOK(a) /\ IsOpen(a) /\ IsStarted(a)
    BY <1>7, <1>8 DEF Reading, TrackerOK, SameTracker, StreamOK, IsOpen, IsStarted
<1>10. \A p, w : Fresh(a, s, p, w) <=> Fresh(c, s, p, w)
    BY <1>7 DEF Fresh
<1>11. \A q \in Queries : IsActiveTarget(a, q) <=> IsActiveTarget(c, q)
    BY <1>4, <1>7 DEF IsActiveTarget
<1>12. TargetsOK(c, s)
    BY DEF Reading
<1>13. ASSUME NEW q \in changes, c.targets[q].current
       PROVE  q \in Allowed /\ q \in c.listens /\ Fresh(c, s, q, Stored(c, q))
    <2>1. q \in Allowed
        BY <1>6, <1>12, <1>13 DEF TargetsOK, Allowed
    <2> QED BY <1>6, <1>12, <2>1 DEF TargetsOK, IsActiveTarget, Reading
<1>14. ListenersOK(a, s)
    <2>1. ListenersOK(c, s)
        BY DEF Reading, ViewOK
    <2>2. a.synced \subseteq a.views \ Denied
        BY <1>5, <1>7, <1>13, <2>1 DEF ListenersOK, Allowed
    <2> QED BY <1>7, <2>1, <2>2 DEF ListenersOK
<1>15. EventsOK(a, s) /\ UnmutedOK(a)
    BY <1>7 DEF Reading, ViewOK, EventsOK, UnmutedOK
<1>16. SyncedFresh(a, s)
    <2>1. ASSUME NEW q \in synced PROVE Fresh(c, s, q, Stored(c, q)) /\ q \in Queries
        <3>1. CASE q \in c.synced
            BY <1>0, <3>1 DEF Reading, ViewOK, SyncedFresh, Stored
        <3>2. CASE q \in changes /\ c.targets[q].current
            BY <1>6, <1>13, <3>2
        <3> QED BY <1>5, <3>1, <3>2
    <2> QED BY <1>4, <1>7, <1>10, <2>1 DEF SyncedFresh
<1>17. CountOK(a)
    <2>1. \A q \in Allowed : m \notin AnswersTo(q)
        BY MessageProps DEF Reading
    <2>2. \A q \in Allowed : Owed(c.call, q) \in Nat
        BY <1>0, OwedProps, CallTypes
    <2>3. \A q \in Allowed : c.targets[q].outstanding = Owed(c.call, q)
        BY <2>1, <2>2 DEF Reading
    <2> QED BY <1>0, <1>4, <1>7, <1>9, <2>3 DEF CountOK
<1>18. DownFresh(a, s)
    BY <1>7, <1>10 DEF Reading, DownFresh
<1>19. CurrentOK(a, s)
    <2>1. \A p \in Allowed : ~IsAbout(m, "documents", p)
        BY DEF IsAbout
    <2> QED BY <1>7, <2>1 DEF Reading, CurrentOK
<1>20. TargetsOK(a, s)
    <2>1. \A q \in Denied : ~a.targets[q].current
        BY <1>0, <1>4, <1>7, <1>12 DEF TargetsOK
    <2>2. \A q \in Allowed : ~(IsActiveTarget(a, q) /\ a.targets[q].changed)
        BY <1>0, <1>4, <1>7, <1>11
    <2> QED BY <2>1, <2>2 DEF TargetsOK
<1>21. ClientOK(a, s)
    BY <1>7, <1>9, <1>14, <1>15, <1>16, <1>17, <1>18, <1>19, <1>20 DEF ClientOK, WireOK, ViewOK
<1>22. PICK d : d = OnViewSnapshots(a, new)
    OBVIOUS
<1>23. Shown(d, a, s) /\ SameTracker(d, a) /\ d.synced = a.synced
    <2> HIDE DEF new
    <2> QED BY <1>21, <1>22, OnViewSnapshotsOK DEF ClientOK
<1>24. After(d, a, s)
    <2>1. TrackerOK(d)
        BY <1>9, <1>23 DEF SameTracker, TrackerOK
    <2> QED BY <1>9, <1>21, <1>23, <2>1, ShownOK
<1> QED BY <1>2, <1>7, <1>22, <1>24 DEF After

-----------------------------------------------------------------------------
(* The server's steps on an open call.                                     *)

(* A step of the server only changes the call.                             *)
LEMMA CallStepOK ==
    ASSUME NEW c, NEW s, ClientOK(c, s), IsOpen(c), NEW call \in Calls,
           NEW d, d = [c EXCEPT !.call = call]
    PROVE  /\ d \in Clients /\ d.call = call /\ d.stream = c.stream /\ d.listens = c.listens
           /\ d.targets = c.targets /\ d.documents = c.documents /\ d.cache = c.cache
           /\ d.query = c.query /\ d.attached = c.attached /\ IsOpen(d)
           /\ WireOK(d, s) => After(d, c, s)
<1>0. c \in Clients
    BY DEF ClientOK
<1>1. /\ d \in Clients /\ d.call = call /\ d.stream = c.stream /\ d.listens = c.listens
      /\ d.targets = c.targets /\ d.documents = c.documents /\ d.cache = c.cache
      /\ d.query = c.query /\ d.attached = c.attached /\ d.views = c.views
      /\ d.synced = c.synced /\ d.raised = c.raised /\ d.posted = c.posted
    BY <1>0 DEF Clients
<1>2. SameTracker(d, c) /\ d.idle = c.idle
    BY <1>0 DEF Clients, SameTracker
<1>3. TrackerOK(d) /\ StreamOK(d) /\ IsOpen(d)
    BY <1>1, <1>2 DEF ClientOK, TrackerOK, SameTracker, StreamOK, IsOpen, IsStarted
<1>4. ViewOK(d, s)
    BY <1>1, ViewFrame DEF ClientOK
<1> QED BY <1>1, <1>3, <1>4 DEF After, ClientOK

(* A message that settles no request is put on the call: documents are     *)
(* fresh, and a target becomes current right after its documents.          *)
LEMMA SayOK ==
    ASSUME NEW c \in Clients, NEW s, WireOK(c, s), NEW d, IsOpen(c), IsOpen(d),
           d.listens = c.listens, d.targets = c.targets, d.documents = c.documents,
           d.cache = c.cache, d.query = c.query, d.attached = c.attached,
           NEW m \in Messages, d.call.up = c.call.up, d.call.down = Append(c.call.down, m),
           m.type \in {"snapshot", "documents", "current"},
           m.type = "documents" => \A q : Fresh(c, s, q, m.version),
           m.type = "current" => /\ c.call.down # <<>>
                                 /\ IsAbout(c.call.down[Len(c.call.down)], "documents", m.query)
    PROVE  WireOK(d, s)
<1> DEFINE down == c.call.down
<1>0. down \in Seq(Messages) /\ Len(down) \in Nat
    BY CallTypes
<1>1. /\ Len(d.call.down) = Len(down) + 1 /\ d.call.down[Len(down) + 1] = m
      /\ \A k \in 1 .. Len(down) : d.call.down[k] = down[k]
    BY <1>0
<1>2. ASSUME NEW q
      PROVE  /\ Places(d.call.down, AnswersTo(q)) = Places(down, AnswersTo(q))
             /\ Owed(d.call, q) = Owed(c.call, q)
    <2>1. m \notin AnswersTo(q)
        BY MessageProps
    <2>2. Places(Append(down, m), AnswersTo(q)) =
              Places(down, AnswersTo(q)) \union IF m \in AnswersTo(q) THEN {Len(down) + 1} ELSE {}
        BY <1>0, PlacesAppend
    <2>3. Places(d.call.down, AnswersTo(q)) = Places(down, AnswersTo(q))
        BY <2>1, <2>2
    <2> QED BY <2>3 DEF Owed
<1>3. \A q, k : Settled(d.call, q, k) <=> Settled(c.call, q, k)
    BY <1>2 DEF Settled
<1>4. \A p, w : Fresh(d, s, p, w) <=> Fresh(c, s, p, w)
    BY DEF Fresh
<1>5. CountOK(d)
    BY <1>2 DEF WireOK, CountOK
<1>6. DownFresh(d, s)
    <2>1. ASSUME NEW q \in Allowed \intersect d.listens, NEW k \in 1 .. Len(d.call.down),
                 IsAbout(d.call.down[k], "documents", q), Settled(d.call, q, k)
          PROVE  Fresh(d, s, q, d.call.down[k].version)
        <3>1. CASE k \in 1 .. Len(down)
            BY <1>1, <1>3, <1>4, <2>1, <3>1 DEF WireOK, DownFresh
        <3>2. CASE k = Len(down) + 1
            BY <1>1, <1>4, <2>1, <3>2 DEF IsAbout
        <3>3. k \in 1 .. Len(down) \/ k = Len(down) + 1
            BY <1>0, <1>1
        <3> QED BY <3>1, <3>2, <3>3
    <2> QED BY <2>1 DEF DownFresh
<1>7. CurrentOK(d, s)
    <2>0. CurrentOK(c, s)
        BY DEF WireOK
    <2>1. ASSUME NEW q \in Allowed, NEW k \in 1 .. Len(d.call.down),
                 IsAbout(d.call.down[k], "current", q)
          PROVE  IF k = 1 THEN IsActiveTarget(d, q) => Fresh(d, s, q, Stored(d, q))
                 ELSE IsAbout(d.call.down[k - 1], "documents", q)
        <3>1. CASE k \in 1 .. Len(down)
            <4>1. d.call.down[k] = down[k]
                BY <1>1, <3>1
            <4>2. CASE k = 1
                BY <1>4, <2>0, <2>1, <3>1, <4>1, <4>2 DEF CurrentOK, IsActiveTarget, Stored
            <4>3. CASE k # 1
                <5>1. k - 1 \in 1 .. Len(down)
                    BY <1>0, <3>1, <4>3
                <5> QED BY <1>1, <2>0, <2>1, <3>1, <4>1, <4>3, <5>1 DEF CurrentOK
            <4> QED BY <4>2, <4>3
        <3>2. CASE k = Len(down) + 1
            <4>1. m.type = "current" /\ m.query = q
                BY <1>1, <2>1, <3>2 DEF IsAbout
            <4>2. Len(down) \in 1 .. Len(down) /\ k # 1 /\ k - 1 = Len(down)
                BY <1>0, <3>2, <4>1
            <4> QED BY <1>1, <4>1, <4>2
        <3>3. k \in 1 .. Len(down) \/ k = Len(down) + 1
            BY <1>0, <1>1
        <3> QED BY <3>1, <3>2, <3>3
    <2> QED BY <2>1 DEF CurrentOK
<1>8. TargetsOK(d, s)
    BY <1>4 DEF WireOK, TargetsOK, IsActiveTarget, Stored
<1> QED BY <1>5, <1>6, <1>7, <1>8 DEF WireOK

(* The server answers the oldest request.                                  *)
LEMMA AnswerOK ==
    ASSUME NEW c \in Clients, NEW s, WireOK(c, s), NEW d, IsOpen(c), IsOpen(d),
           d.listens = c.listens, d.targets = c.targets, d.documents = c.documents,
           d.cache = c.cache, d.query = c.query, d.attached = c.attached,
           c.call.up # <<>>, NEW q \in Queries, q = Head(c.call.up).query,
           NEW type \in {"added", "removed", "denied"}, About(type, q) \in Messages,
           d.call.up = Tail(c.call.up), d.call.down = Append(c.call.down, About(type, q))
    PROVE  WireOK(d, s)
<1> DEFINE down == c.call.down
           up == c.call.up
           m == About(type, q)
<1>0. /\ down \in Seq(Messages) /\ Len(down) \in Nat /\ up \in Seq(Requests)
      /\ Head(up) \in Requests /\ Tail(up) \in Seq(Requests)
    BY CallTypes
<1>1. /\ Len(d.call.down) = Len(down) + 1 /\ d.call.down[Len(down) + 1] = m
      /\ \A k \in 1 .. Len(down) : d.call.down[k] = down[k]
    BY <1>0
<1>2. m.type = type /\ m.query = q
    BY DEF About
<1>3. \A p \in Allowed : m \in AnswersTo(p) <=> p = q
    <2>1. type = "denied" => q \notin Allowed
        BY <1>2, MessageProps DEF Allowed
    <2> QED BY <1>2, <2>1, MessageProps
<1>4. \A p \in Allowed : Head(up) \in RequestsFor(p) <=> p = q
    BY <1>0 DEF Requests, RequestsFor
<1>5. ASSUME NEW p \in Allowed
      PROVE  /\ Places(d.call.down, AnswersTo(p)) =
                    Places(down, AnswersTo(p)) \union IF p = q THEN {Len(down) + 1} ELSE {}
             /\ p # q /\ Places(d.call.up, RequestsFor(p)) = {} => Places(up, RequestsFor(p)) = {}
             /\ Owed(d.call, p) = Owed(c.call, p)
    <2>1. /\ Places(Append(down, m), AnswersTo(p)) =
                 Places(down, AnswersTo(p)) \union IF m \in AnswersTo(p) THEN {Len(down) + 1} ELSE {}
          /\ Cardinality(Places(Append(down, m), AnswersTo(p))) =
                 Cardinality(Places(down, AnswersTo(p))) + IF m \in AnswersTo(p) THEN 1 ELSE 0
        BY <1>0, PlacesAppend
    <2>2. Cardinality(Places(up, RequestsFor(p))) =
              Cardinality(Places(Tail(up), RequestsFor(p))) + IF Head(up) \in RequestsFor(p) THEN 1 ELSE 0
        BY <1>0, PlacesTail
    <2>3. /\ Cardinality(Places(down, AnswersTo(p))) \in Nat
          /\ Cardinality(Places(Tail(up), RequestsFor(p))) \in Nat
          /\ Cardinality(Places(Tail(up), RequestsFor(p))) = 0 <=> Places(Tail(up), RequestsFor(p)) = {}
          /\ Cardinality(Places(up, RequestsFor(p))) = 0 <=> Places(up, RequestsFor(p)) = {}
        BY <1>0, PlacesFinite
    <2>4. /\ Owed(d.call, p) = Cardinality(Places(Append(down, m), AnswersTo(p)))
                               + Cardinality(Places(Tail(up), RequestsFor(p)))
          /\ Owed(c.call, p) = Cardinality(Places(down, AnswersTo(p)))
                               + Cardinality(Places(up, RequestsFor(p)))
          /\ Places(d.call.up, RequestsFor(p)) = Places(Tail(up), RequestsFor(p))
          /\ Places(d.call.down, AnswersTo(p)) = Places(Append(down, m), AnswersTo(p))
        BY DEF Owed
    <2> HIDE DEF m, up, down
    <2>5. CASE p = q
        <3>1. m \in AnswersTo(p) /\ Head(up) \in RequestsFor(p)
            BY <1>3, <1>4, <2>5
        <3>2. /\ Cardinality(Places(Append(down, m), AnswersTo(p))) =
                     Cardinality(Places(down, AnswersTo(p))) + 1
              /\ Cardinality(Places(up, RequestsFor(p))) =
                     Cardinality(Places(Tail(up), RequestsFor(p))) + 1
            BY <2>1, <2>2, <3>1
        <3>3. Owed(d.call, p) = Owed(c.call, p)
            BY <2>3, <2>4, <3>2
        <3>4. Places(d.call.down, AnswersTo(p)) = Places(down, AnswersTo(p)) \union {Len(down) + 1}
            BY <2>1, <2>4, <3>1
        <3> QED BY <2>5, <3>3, <3>4
    <2>6. CASE p # q
        BY <1>3, <1>4, <2>1, <2>2, <2>3, <2>4, <2>6
    <2> QED BY <2>5, <2>6
<1>6. ASSUME NEW p \in Allowed, NEW k \in 1 .. Len(down), Settled(d.call, p, k)
      PROVE  Settled(c.call, p, k)
    <2>1. p # q
        <3> SUFFICES ASSUME p = q PROVE FALSE
            OBVIOUS
        <3>1. Len(down) + 1 \in Places(d.call.down, AnswersTo(p))
            BY <1>5
        <3>2. Len(down) + 1 <= k
            BY <1>6, <3>1 DEF Settled
        <3> QED BY <1>0, <3>2
    <2> QED BY <1>5, <1>6, <2>1 DEF Settled
<1>7. \A p, w : Fresh(d, s, p, w) <=> Fresh(c, s, p, w)
    BY DEF Fresh
<1>8. CountOK(d)
    BY <1>5 DEF WireOK, CountOK
<1>9. DownFresh(d, s)
    <2>1. ASSUME NEW p \in Allowed \intersect d.listens, NEW k \in 1 .. Len(d.call.down),
                 IsAbout(d.call.down[k], "documents", p), Settled(d.call, p, k)
          PROVE  Fresh(d, s, p, d.call.down[k].version)
        <3>1. CASE k \in 1 .. Len(down)
            BY <1>1, <1>6, <1>7, <2>1, <3>1 DEF WireOK, DownFresh
        <3>2. CASE k = Len(down) + 1
            BY <1>1, <1>2, <2>1, <3>2 DEF IsAbout
        <3> QED BY <1>0, <1>1, <3>1, <3>2
    <2> QED BY <2>1 DEF DownFresh
<1>10. CurrentOK(d, s)
    <2>0. CurrentOK(c, s)
        BY DEF WireOK
    <2>1. ASSUME NEW p \in Allowed, NEW k \in 1 .. Len(d.call.down),
                 IsAbout(d.call.down[k], "current", p)
          PROVE  IF k = 1 THEN IsActiveTarget(d, p) => Fresh(d, s, p, Stored(d, p))
                 ELSE IsAbout(d.call.down[k - 1], "documents", p)
        <3>1. k \in 1 .. Len(down)
            BY <1>0, <1>1, <1>2, <2>1 DEF IsAbout
        <3>2. d.call.down[k] = down[k]
            BY <1>1, <3>1
        <3>3. CASE k = 1
            BY <1>7, <2>0, <2>1, <3>1, <3>2, <3>3 DEF CurrentOK, IsActiveTarget, Stored
        <3>4. CASE k # 1
            <4>1. k - 1 \in 1 .. Len(down)
                BY <1>0, <3>1, <3>4
            <4> QED BY <1>1, <2>0, <2>1, <3>1, <3>2, <3>4, <4>1 DEF CurrentOK
        <3> QED BY <3>3, <3>4
    <2> QED BY <2>1 DEF CurrentOK
<1>11. TargetsOK(d, s)
    BY <1>7 DEF WireOK, TargetsOK, IsActiveTarget, Stored
<1> QED BY <1>8, <1>9, <1>10, <1>11 DEF WireOK

-----------------------------------------------------------------------------
(* The actions.                                                            *)

(* A step of the worker queue, or of the server, that leaves the client in *)
(* order.                                                                  *)
LEMMA WorkerOK ==
    ASSUME IInv, NEW d, ClientOK(d, since), d.listens = d.views, client.raised \subseteq d.raised,
           Worker(d)
    PROVE  IInv'
<1>1. /\ client' = d /\ muted' = muted /\ removing' = removing /\ answers' = answers
      /\ since' = since /\ serverVersion' = serverVersion
    BY DEF Worker
<1>2. ViewOK(client, since)'
    BY <1>1 DEF ClientOK, ViewOK, ListenersOK, EventsOK, UnmutedOK, SyncedFresh, Fresh
<1>3. WireOK(client, since)'
    BY <1>1 DEF ClientOK, WireOK, CountOK, DownFresh, CurrentOK, TargetsOK, Fresh, Stored,
                IsActiveTarget, IsOpen, IsStarted
<1>4. client' \in Clients /\ TrackerOK(client)' /\ StreamOK(client)'
    BY <1>1 DEF ClientOK, TrackerOK, StreamOK, IsOpen, IsStarted
<1>5. HandlersOK'
    BY <1>1 DEF IInv, HandlersOK, AnsweredOnce, AnswersFresh
<1> QED BY <1>1, <1>2, <1>3, <1>4, <1>5 DEF IInv, ClientOK

(* So does one that keeps the listens and the views.                       *)
LEMMA AfterOK ==
    ASSUME IInv, NEW d, After(d, client, since), Worker(d)
    PROVE  IInv'
BY WorkerOK DEF After, IInv

(* What the operators' lemmas ask for.                                     *)
LEMMA IInvProps ==
    ASSUME IInv
    PROVE  /\ ClientOK(client, since) /\ client.listens = client.views
           /\ since \in [Gets -> Nat] /\ client \in Clients /\ IsFiniteSet(client.listens)
<1>1. ClientOK(client, since) /\ client.listens = client.views /\ client \in Clients
    BY DEF IInv, ClientOK
<1>2. since \in [Gets -> Nat]
    BY DEF IInv, HandlersOK
<1>3. client.attached \in SUBSET Gets /\ client.views = {client.query[g] : g \in client.attached}
    BY <1>1 DEF ClientOK, ViewOK, ListenersOK, Clients
<1>4. IsFiniteSet(Gets)
    BY ReadsAssumption, FS_Interval DEF Gets
<1>5. IsFiniteSet(client.attached)
    BY <1>3, <1>4, FS_Subset
<1>6. IsFiniteSet(client.views)
    <2> DEFINE f == [g \in client.attached |-> client.query[g]]
    <2>1. f \in Surjection(client.attached, client.views)
        BY <1>3 DEF Surjection
    <2> HIDE DEF f
    <2> QED BY <1>5, <2>1, FS_Surjection
<1> QED BY <1>1, <1>2, <1>6

(* The life of the stream.                                                 *)
LEMMA StreamKeepsIInv ==
    ASSUME IInv,
           \/ OnWatchStreamOpen \/ BackoffElapsed \/ IdleTimeout \/ OnlineStateTimeout
           \/ CredentialsFail \/ AttemptFails \/ ConnectionLost \/ ConnectivityChanged
           \/ SwitchNetwork
    PROVE  IInv'
<1>0. PICK c : c = client
    OBVIOUS
<1>1. PICK s : s = since
    OBVIOUS
<1>2. /\ ClientOK(c, s) /\ c.listens = c.views /\ s \in [Gets -> Nat]
      /\ c \in Clients /\ IsFiniteSet(c.listens)
    BY <1>0, <1>1, IInvProps
<1>3. ASSUME NEW d, After(d, c, s), Worker(d) PROVE IInv'
    BY <1>0, <1>1, <1>3, AfterOK
<1>4. CASE OnWatchStreamOpen
    <2>1. PICK order \in Bijection(1 .. Cardinality(c.listens), c.listens) :
              Worker(SendAll([c EXCEPT !.stream = "Open"], order))
        BY <1>0, <1>4 DEF OnWatchStreamOpen
    <2>2. PICK d : d = SendAll([c EXCEPT !.stream = "Open"], order)
        OBVIOUS
    <2>3. c.stream = "Starting"
        BY <1>0, <1>4 DEF OnWatchStreamOpen
    <2>4. After(d, c, s)
        BY <1>2, <2>2, <2>3, SendAllOK
    <2> QED BY <1>3, <2>1, <2>2, <2>4
<1>5. CASE BackoffElapsed
    <2>1. PICK d : d = StartStream([c EXCEPT !.stream = "Initial"])
        OBVIOUS
    <2>2. c.stream = "Backoff" /\ Worker(d)
        BY <1>0, <1>5, <2>1 DEF BackoffElapsed
    <2>3. After(d, c, s)
        BY <1>2, <2>1, <2>2, BackoffOK
    <2> QED BY <1>3, <2>2, <2>3
<1>6. CASE IdleTimeout
    <2>1. PICK d : d = Stop(c)
        OBVIOUS
    <2>2. c.listens = {} /\ Worker(d)
        BY <1>0, <1>2, <1>6, <2>1 DEF IdleTimeout, ClientOK, StreamOK
    <2>3. After(d, c, s)
        BY <1>2, <2>1, <2>2, StopOK
    <2> QED BY <1>3, <2>2, <2>3
<1>7. CASE OnlineStateTimeout
    <2>1. PICK d : d = SetAndBroadcast(
              HardAssert([c EXCEPT !.timer = FALSE], c.state = "Unknown"), "Offline")
        OBVIOUS
    <2>2. c.timer /\ Worker(d)
        BY <1>0, <1>7, <2>1 DEF OnlineStateTimeout
    <2>3. After(d, c, s)
        BY <1>2, <2>1, <2>2, TimeoutOK
    <2> QED BY <1>3, <2>2, <2>3
<1>8. CASE Fail
    <2>1. PICK e : e = Close(c, "Error")
        OBVIOUS
    <2>2. PICK d : d = OnWatchStreamClose(e, FALSE)
        OBVIOUS
    <2>3. /\ Closed(e, s) /\ e.listens = c.listens /\ e.views = c.views
          /\ e.raised = c.raised /\ e.enabled = c.enabled
        BY <1>2, <2>1, CloseOK
    <2>4. After(d, e, s)
        BY <1>2, <2>2, <2>3, OnWatchStreamCloseOK
    <2>5. After(d, c, s)
        BY <2>3, <2>4 DEF After
    <2>6. Worker(d)
        BY <1>0, <1>8, <2>1, <2>2 DEF Fail
    <2> QED BY <1>3, <2>5, <2>6
<1>9. CASE CredentialsFail \/ AttemptFails \/ ConnectionLost
    BY <1>8, <1>9 DEF CredentialsFail, AttemptFails, ConnectionLost
<1>10. CASE ConnectivityChanged
    <2>1. PICK d : d = RestartNetwork(c)
        OBVIOUS
    <2>2. Worker(d)
        BY <1>0, <1>10, <2>1 DEF ConnectivityChanged
    <2>3. After(d, c, s)
        BY <1>2, <2>1, RestartNetworkOK
    <2> QED BY <1>3, <2>2, <2>3
<1>11. CASE SwitchNetwork
    <2>1. PICK d : d = DisableNetwork(c)
        OBVIOUS
    <2>2. PICK e : e = EnableNetwork(c)
        OBVIOUS
    <2>3. Worker(d) \/ Worker(e)
        BY <1>0, <1>11, <2>1, <2>2 DEF SwitchNetwork
    <2>4. After(d, c, s) /\ After(e, c, s)
        BY <1>2, <2>1, <2>2, DisableNetworkOK, EnableNetworkOK
    <2> QED BY <1>3, <2>3, <2>4
<1> QED BY <1>4, <1>5, <1>6, <1>7, <1>9, <1>10, <1>11

(* A response is read and acted on.                                        *)
LEMMA ChangeKeepsIInv ==
    ASSUME IInv, OnWatchStreamChange
    PROVE  IInv'
<1>0. PICK c : c = client
    OBVIOUS
<1>1. PICK s : s = since
    OBVIOUS
<1>2. /\ ClientOK(c, s) /\ c.listens = c.views /\ s \in [Gets -> Nat]
    BY <1>0, <1>1, IInvProps
<1>3. PICK m : m = Head(c.call.down)
    OBVIOUS
<1>4. PICK r : r = [c EXCEPT !.call.down = Tail(@), !.call.heard = TRUE]
    OBVIOUS
<1>5. PICK e : e = UpdateState(r, "Online")
    OBVIOUS
<1>6. c.call.down # <<>>
    BY <1>0 DEF OnWatchStreamChange
<1>7. /\ Reading(r, m, s) /\ r.listens = c.listens
      /\ r.views = c.views /\ r.raised = c.raised
    BY <1>2, <1>3, <1>4, <1>6, ReadOK
<1>8. /\ Reading(e, m, s) /\ e.listens = r.listens /\ e.views = r.views
      /\ r.raised \subseteq e.raised
    BY <1>2, <1>5, <1>7, HeardOK
<1>9. Worker(CASE m.type = "snapshot" -> RaiseWatchSnapshot(e)
               [] m.type = "documents" -> HandleDocumentChange(e, m.query, m.version)
               [] m.type = "denied" -> ProcessTargetError(e, m.query)
               [] m.type \in {"added", "removed", "current"} ->
                      HandleTargetChange(e, m.query, m.type))
    BY <1>0, <1>3, <1>4, <1>5 DEF OnWatchStreamChange
<1>10. ASSUME NEW d, ClientOK(d, s), d.listens = d.views, e.raised \subseteq d.raised, Worker(d)
       PROVE  IInv'
    BY <1>0, <1>1, <1>7, <1>8, <1>10, WorkerOK
<1>11. ASSUME NEW d, After(d, e, s), Worker(d) PROVE IInv'
    BY <1>2, <1>7, <1>8, <1>10, <1>11 DEF After
<1>12. m.type \in {"snapshot", "documents", "added", "current", "removed", "denied"}
    BY <1>8, MessageProps DEF Reading
<1>13. CASE m.type = "snapshot"
    <2>1. PICK d : d = RaiseWatchSnapshot(e)
        OBVIOUS
    <2>2. Worker(d)
        BY <1>9, <1>13, <2>1
    <2>3. After(d, e, s)
        BY <1>2, <1>7, <1>8, <1>13, <2>1, SnapshotOK
    <2> QED BY <1>11, <2>2, <2>3
<1>14. CASE m.type = "documents"
    <2>1. PICK d : d = HandleDocumentChange(e, m.query, m.version)
        OBVIOUS
    <2>2. Worker(d)
        BY <1>9, <1>14, <2>1
    <2>3. After(d, e, s)
        BY <1>8, <1>14, <2>1, DocumentsOK
    <2> QED BY <1>11, <2>2, <2>3
<1>15. CASE m.type = "denied"
    <2>1. PICK d : d = ProcessTargetError(e, m.query)
        OBVIOUS
    <2>2. Worker(d)
        BY <1>9, <1>15, <2>1
    <2>3. /\ ClientOK(d, s) /\ e.raised \subseteq d.raised
          /\ \/ d.listens = e.listens /\ d.views = e.views
             \/ d.listens = e.listens \ {m.query} /\ d.views = e.views \ {m.query}
        BY <1>8, <1>15, <2>1, TargetErrorOK
    <2>4. d.listens = d.views
        BY <1>2, <1>7, <1>8, <2>3
    <2> QED BY <1>10, <2>2, <2>3, <2>4
<1>16. CASE m.type \in {"added", "removed", "current"}
    <2>1. PICK d : d = HandleTargetChange(e, m.query, m.type)
        OBVIOUS
    <2>2. Worker(d)
        BY <1>9, <1>16, <2>1
    <2>3. After(d, e, s)
        BY <1>8, <1>16, <2>1, TargetChangeOK
    <2> QED BY <1>11, <2>2, <2>3
<1> QED BY <1>12, <1>13, <1>14, <1>15, <1>16

(* Only an open stream has a call that anything can happen on.             *)
LEMMA BusyIsOpen ==
    ASSUME NEW c, NEW s, ClientOK(c, s),
           c.call.up # <<>> \/ c.call.watched # {} \/ c.call.due
    PROVE  IsOpen(c)
BY DEF ClientOK, StreamOK, NoCall

(* The server answers a request.                                           *)
LEMMA ServerAnswersKeepsIInv ==
    ASSUME IInv, ServerAnswers
    PROVE  IInv'
<1>0. PICK c : c = client
    OBVIOUS
<1>1. PICK s : s = since
    OBVIOUS
<1>2. ClientOK(c, s) /\ c \in Clients
    BY <1>0, <1>1, IInvProps
<1>3. c.call.up # <<>> /\ IsOpen(c)
    BY <1>0, <1>2, BusyIsOpen DEF ServerAnswers
<1>4. /\ c.call \in Calls /\ c.call.up \in Seq(Requests) /\ c.call.down \in Seq(Messages)
      /\ c.call.watched \in SUBSET Allowed /\ c.call.served \in [Queries -> Versions]
    BY <1>2, CallTypes
<1>5. PICK r \in Requests : r = Head(c.call.up)
    BY <1>3, <1>4
<1>6. PICK q \in Queries : q = r.query
    BY DEF Requests
<1>7. PICK h : h = [c EXCEPT !.call.up = Tail(@), !.call.served[q] = 0]
    OBVIOUS
<1>8. \E type \in {"added", "removed", "denied"}, w \in SUBSET Allowed :
          /\ About(type, q) \in Messages
          /\ Worker([h EXCEPT !.call.watched = w, !.call.down = Append(@, About(type, q))])
    <2>1. Worker(IF r.request = "unwatch"
                 THEN [h EXCEPT !.call.watched = c.call.watched \ {q},
                                !.call.down = Append(@, About("removed", q))]
                 ELSE IF q \in Denied
                 THEN [h EXCEPT !.call.watched = c.call.watched,
                                !.call.down = Append(@, About("denied", q))]
                 ELSE [h EXCEPT !.call.watched = c.call.watched \union {q},
                                !.call.down = Append(@, About("added", q))])
        BY <1>0, <1>5, <1>6, <1>7 DEF ServerAnswers
    <2>2. CASE r.request = "unwatch"
        <3>1. About("removed", q) \in Messages
            BY DEF About, Messages
        <3>2. c.call.watched \ {q} \in SUBSET Allowed
            BY <1>4
        <3> QED BY <2>1, <2>2, <3>1, <3>2
    <2>3. CASE r.request # "unwatch" /\ q \in Denied
        <3>1. About("denied", q) \in Messages
            BY <2>3 DEF About, Messages
        <3> QED BY <1>4, <2>1, <2>3, <3>1
    <2>4. CASE r.request # "unwatch" /\ q \notin Denied
        <3>1. About("added", q) \in Messages /\ c.call.watched \union {q} \in SUBSET Allowed
            BY <1>4, <2>4 DEF About, Messages, Allowed
        <3> QED BY <2>1, <2>4, <3>1
    <2> QED BY <2>2, <2>3, <2>4
<1>9. PICK type \in {"added", "removed", "denied"}, w \in SUBSET Allowed :
          /\ About(type, q) \in Messages
          /\ Worker([h EXCEPT !.call.watched = w, !.call.down = Append(@, About(type, q))])
    BY <1>8
<1>10. PICK d : d = [h EXCEPT !.call.watched = w, !.call.down = Append(@, About(type, q))]
    OBVIOUS
<1> DEFINE served == [c.call.served EXCEPT ![q] = 0]
           call == [c.call EXCEPT !.up = Tail(c.call.up), !.served = served, !.watched = w,
                                  !.down = Append(c.call.down, About(type, q))]
<1>11. d = [c EXCEPT !.call = call]
    <2>1. h = [c EXCEPT !.call = [c.call EXCEPT !.up = Tail(c.call.up), !.served = served]]
        BY <1>2, <1>4, <1>7 DEF Clients, Calls
    <2>2. h.call = [c.call EXCEPT !.up = Tail(c.call.up), !.served = served]
        BY <1>2, <2>1 DEF Clients
    <2>3. d = [h EXCEPT !.call = call]
        <3>1. h.call.down = c.call.down
            BY <1>4, <2>2 DEF Calls
        <3>2. [h.call EXCEPT !.watched = w, !.down = Append(h.call.down, About(type, q))] = call
            BY <1>4, <2>2, <3>1 DEF Calls
        <3>3. d = [h EXCEPT !.call = [h.call EXCEPT !.watched = w,
                                          !.down = Append(h.call.down, About(type, q))]]
            <4>1. \E k : h = [c EXCEPT !.call = k]
                BY <2>1
            <4> HIDE DEF call, served
            <4> QED BY <1>2, <1>10, <4>1 DEF Clients
        <3> QED BY <3>2, <3>3
    <2> HIDE DEF call, served
    <2> QED BY <1>2, <2>1, <2>3 DEF Clients
<1>12. /\ call \in Calls /\ call.up = Tail(c.call.up)
       /\ call.down = Append(c.call.down, About(type, q))
    <2>1. /\ Tail(c.call.up) \in Seq(Requests) /\ served \in [Queries -> Versions]
          /\ Append(c.call.down, About(type, q)) \in Seq(Messages)
        BY <1>3, <1>4, <1>9, ReadsAssumption DEF Versions
    <2> HIDE DEF served
    <2> QED BY <1>4, <2>1 DEF Calls
<1> HIDE DEF call
<1>13. /\ d \in Clients /\ d.call = call /\ d.stream = c.stream /\ d.listens = c.listens
       /\ d.targets = c.targets /\ d.documents = c.documents /\ d.cache = c.cache
       /\ d.query = c.query /\ d.attached = c.attached /\ IsOpen(d)
       /\ WireOK(d, s) => After(d, c, s)
    BY <1>2, <1>3, <1>11, <1>12, CallStepOK
<1>14. WireOK(d, s)
    BY <1>2, <1>3, <1>5, <1>6, <1>9, <1>12, <1>13, AnswerOK DEF ClientOK
<1>15. After(d, client, since) /\ Worker(d)
    BY <1>0, <1>1, <1>9, <1>10, <1>13, <1>14
<1> QED BY <1>15, AfterOK

(* The server sends what it has of a target: nothing is newer.             *)
LEMMA ServerSendsKeepsIInv ==
    ASSUME IInv, NEW q \in Queries, ServerSendsTarget(q)
    PROVE  IInv'
<1>0. PICK c : c = client
    OBVIOUS
<1>1. PICK s : s = since
    OBVIOUS
<1>2. ClientOK(c, s) /\ c \in Clients
    BY <1>0, <1>1, IInvProps
<1>3. q \in c.call.watched /\ IsOpen(c)
    BY <1>0, <1>2, BusyIsOpen DEF ServerSendsTarget
<1>4. /\ c.call \in Calls /\ c.call.up \in Seq(Requests) /\ c.call.down \in Seq(Messages)
      /\ c.call.watched \in SUBSET Allowed /\ c.call.served \in [Queries -> Versions]
    BY <1>2, CallTypes
<1>5. PICK v \in 1 .. MaxVersions : v = serverVersion
    BY DEF IInv, HandlersOK
<1>6. PICK m : m = [type |-> "documents", query |-> q, version |-> v]
    OBVIOUS
<1>7. PICK n : n = About("current", q)
    OBVIOUS
<1>8. /\ m \in Messages /\ m.type = "documents" /\ m.query = q /\ m.version = v
      /\ n \in Messages /\ n.type = "current" /\ n.query = q
    BY <1>3, <1>4, <1>6, <1>7 DEF Messages, About
<1> DEFINE one == Append(c.call.down, m)
           two == Append(one, n)
           down == IF c.call.served[q] = 0 THEN two ELSE one
           served == [c.call.served EXCEPT ![q] = v]
           call == [c.call EXCEPT !.down = down, !.served = served, !.due = TRUE]
           middle == [c.call EXCEPT !.down = one]
<1>9. /\ one \in Seq(Messages) /\ one # <<>> /\ one[Len(one)] = m
      /\ two \in Seq(Messages) /\ down \in Seq(Messages)
    BY <1>4, <1>8
<1>10. c.call.down \o (<<m>> \o IF c.call.served[q] = 0 THEN <<n>> ELSE <<>>) = down
    <2>1. CASE c.call.served[q] = 0
        <3>1. <<m>> \in Seq(Messages) /\ <<n>> \in Seq(Messages)
            BY <1>8
        <3>2. (c.call.down \o <<m>>) \o <<n>> = c.call.down \o (<<m>> \o <<n>>)
            BY <1>4, <3>1, ConcatAssociative
        <3>3. one = c.call.down \o <<m>>
            BY <1>4, <1>8, AppendIsConcat
        <3>4. two = one \o <<n>>
            <4> HIDE DEF one
            <4> QED BY <1>8, <1>9, AppendIsConcat
        <3> QED BY <2>1, <3>2, <3>3, <3>4
    <2>2. CASE c.call.served[q] # 0
        <3>1. <<m>> \o <<>> = <<m>>
            OBVIOUS
        <3>2. c.call.down \o <<m>> = one
            BY <1>4, <1>8
        <3> QED BY <2>2, <3>1, <3>2
    <2> QED BY <2>1, <2>2
<1> HIDE DEF one, two, down
<1>11. /\ call \in Calls /\ call.up = c.call.up /\ call.down = down
       /\ middle \in Calls /\ middle.up = c.call.up /\ middle.down = one
    <2>1. served \in [Queries -> Versions]
        BY <1>4, <1>5, ReadsAssumption DEF Versions
    <2> HIDE DEF served
    <2> QED BY <1>4, <1>9, <2>1 DEF Calls
<1>12. Worker([c EXCEPT !.call = call])
    <2>1. Worker([Respond(<<m>> \o IF c.call.served[q] = 0 THEN <<n>> ELSE <<>>)
                     EXCEPT !.call.served[q] = v, !.call.due = TRUE])
        BY <1>0, <1>5, <1>6, <1>7 DEF ServerSendsTarget
    <2>2. PICK e : e = [c EXCEPT !.call = [c.call EXCEPT !.down = down]]
        OBVIOUS
    <2>3. Respond(<<m>> \o IF c.call.served[q] = 0 THEN <<n>> ELSE <<>>) = e
        BY <1>0, <1>2, <1>4, <1>10, <2>2 DEF Respond, Clients, Calls
    <2>4. [e EXCEPT !.call.served[q] = v, !.call.due = TRUE] = [c EXCEPT !.call = call]
        BY <1>2, <1>4, <2>2 DEF Clients, Calls
    <2> QED BY <2>1, <2>3, <2>4
<1> HIDE DEF call, middle
<1>13. \A p : Fresh(c, s, p, v)
    <2>1. \A g \in Gets : s[g] <= v
        BY <1>1, <1>5 DEF IInv, HandlersOK
    <2>2. c.attached \subseteq Gets /\ s \in [Gets -> Nat] /\ v \in Nat
        BY <1>1, <1>2, <1>5, IInvProps DEF Clients
    <2> QED BY <2>1, <2>2 DEF Fresh
<1>14. PICK e : e = [c EXCEPT !.call = middle]
    OBVIOUS
<1>15. /\ e \in Clients /\ e.call = middle /\ e.stream = c.stream /\ e.listens = c.listens
       /\ e.targets = c.targets /\ e.documents = c.documents /\ e.cache = c.cache
       /\ e.query = c.query /\ e.attached = c.attached /\ IsOpen(e)
       /\ WireOK(e, s) => After(e, c, s)
    BY <1>2, <1>3, <1>11, <1>14, CallStepOK
<1>16. WireOK(e, s)
    <2>1. WireOK(c, s)
        BY <1>2 DEF ClientOK
    <2>2. e.call.up = c.call.up /\ e.call.down = Append(c.call.down, m)
        BY <1>11, <1>15 DEF one
    <2>3. m.type = "documents" => \A p : Fresh(c, s, p, m.version)
        BY <1>8, <1>13
    <2>4. m.type \in {"snapshot", "documents", "current"} /\ m.type # "current"
        BY <1>8
    <2> QED BY <1>2, <1>3, <1>8, <1>15, <2>1, <2>2, <2>3, <2>4, SayOK
<1>17. PICK d : d = [c EXCEPT !.call = call]
    OBVIOUS
<1>18. /\ d \in Clients /\ d.call = call /\ d.stream = c.stream /\ d.listens = c.listens
       /\ d.targets = c.targets /\ d.documents = c.documents /\ d.cache = c.cache
       /\ d.query = c.query /\ d.attached = c.attached /\ IsOpen(d)
       /\ WireOK(d, s) => After(d, c, s)
    BY <1>2, <1>3, <1>11, <1>17, CallStepOK
<1>19. WireOK(d, s)
    <2>1. CASE c.call.served[q] = 0
        <3>1. d.call.up = e.call.up /\ d.call.down = Append(e.call.down, n)
            BY <1>11, <1>15, <1>18, <2>1 DEF down, two
        <3>2. /\ e.call.down # <<>>
              /\ IsAbout(e.call.down[Len(e.call.down)], "documents", n.query)
            BY <1>8, <1>9, <1>11, <1>15 DEF IsAbout
        <3>3. /\ d.listens = e.listens /\ d.targets = e.targets /\ d.documents = e.documents
              /\ d.cache = e.cache /\ d.query = e.query /\ d.attached = e.attached
            BY <1>15, <1>18
        <3>4. n.type \in {"snapshot", "documents", "current"} /\ n.type # "documents"
            BY <1>8
        <3> QED BY <1>8, <1>15, <1>16, <1>18, <3>1, <3>2, <3>3, <3>4, SayOK
    <2>2. CASE c.call.served[q] # 0
        <3>1. d.call.up = e.call.up /\ d.call.down = e.call.down
            BY <1>11, <1>15, <1>18, <2>2 DEF down
        <3>2. \A p : Owed(d.call, p) = Owed(e.call, p)
            BY <3>1 DEF Owed
        <3>3. \A p, k : Settled(d.call, p, k) <=> Settled(e.call, p, k)
            BY <3>1 DEF Settled
        <3>4. /\ d.listens = e.listens /\ d.targets = e.targets /\ d.documents = e.documents
              /\ d.cache = e.cache /\ d.query = e.query /\ d.attached = e.attached
              /\ d.stream = e.stream
            BY <1>15, <1>18
        <3>5. \A p, x : Fresh(d, s, p, x) <=> Fresh(e, s, p, x)
            BY <3>4 DEF Fresh
        <3>6. CountOK(d)
            BY <1>16, <3>2, <3>4 DEF WireOK, CountOK, IsStarted, IsOpen
        <3>7. DownFresh(d, s)
            BY <1>16, <3>1, <3>3, <3>4, <3>5 DEF WireOK, DownFresh
        <3>8. CurrentOK(d, s)
            BY <1>16, <3>1, <3>4, <3>5 DEF WireOK, CurrentOK, IsActiveTarget, Stored
        <3>9. TargetsOK(d, s)
            BY <1>16, <3>4, <3>5 DEF WireOK, TargetsOK, IsActiveTarget, Stored, IsOpen
        <3> QED BY <3>6, <3>7, <3>8, <3>9 DEF WireOK
    <2> QED BY <2>1, <2>2
<1>20. After(d, client, since) /\ Worker(d)
    BY <1>0, <1>1, <1>12, <1>17, <1>18, <1>19
<1> QED BY <1>20, AfterOK

(* The server has sent everything.                                         *)
LEMMA ServerSnapshotKeepsIInv ==
    ASSUME IInv, ServerSendsSnapshot
    PROVE  IInv'
<1>0. PICK c : c = client
    OBVIOUS
<1>1. PICK s : s = since
    OBVIOUS
<1>2. ClientOK(c, s) /\ c \in Clients
    BY <1>0, <1>1, IInvProps
<1>3. IsOpen(c)
    BY <1>0, <1>2, BusyIsOpen DEF ServerSendsSnapshot
<1>4. c.call \in Calls /\ c.call.down \in Seq(Messages)
    BY <1>2, CallTypes
<1>5. PICK m : m = [type |-> "snapshot"]
    OBVIOUS
<1>6. m \in Messages /\ m.type = "snapshot"
    BY <1>5 DEF Messages
<1> DEFINE down == Append(c.call.down, m)
           call == [c.call EXCEPT !.down = down, !.due = FALSE]
<1>7. down \in Seq(Messages) /\ c.call.down \o <<m>> = down
    BY <1>4, <1>6
<1> HIDE DEF down
<1>8. call \in Calls /\ call.up = c.call.up /\ call.down = down
    BY <1>4, <1>7 DEF Calls
<1>9. Worker([c EXCEPT !.call = call])
    <2>1. Worker([Respond(<<m>>) EXCEPT !.call.due = FALSE])
        BY <1>5 DEF ServerSendsSnapshot
    <2>2. PICK e : e = [c EXCEPT !.call = [c.call EXCEPT !.down = down]]
        OBVIOUS
    <2>3. Respond(<<m>>) = e
        BY <1>0, <1>2, <1>4, <1>7, <2>2 DEF Respond, Clients, Calls
    <2>4. [e EXCEPT !.call.due = FALSE] = [c EXCEPT !.call = call]
        BY <1>2, <1>4, <2>2 DEF Clients, Calls
    <2> QED BY <2>1, <2>3, <2>4
<1> HIDE DEF call
<1>10. PICK d : d = [c EXCEPT !.call = call]
    OBVIOUS
<1>11. /\ d \in Clients /\ d.call = call /\ d.stream = c.stream /\ d.listens = c.listens
       /\ d.targets = c.targets /\ d.documents = c.documents /\ d.cache = c.cache
       /\ d.query = c.query /\ d.attached = c.attached /\ IsOpen(d)
       /\ WireOK(d, s) => After(d, c, s)
    BY <1>2, <1>3, <1>8, <1>10, CallStepOK
<1>12. WireOK(d, s)
    <2>1. d.call.up = c.call.up /\ d.call.down = Append(c.call.down, m)
        BY <1>8, <1>11 DEF down
    <2>2. m.type \in {"snapshot", "documents", "current"}
          /\ m.type # "current" /\ m.type # "documents"
        BY <1>6
    <2> QED BY <1>2, <1>3, <1>6, <1>11, <2>1, <2>2, SayOK DEF ClientOK
<1>13. After(d, client, since) /\ Worker(d)
    BY <1>0, <1>1, <1>9, <1>10, <1>11, <1>12
<1> QED BY <1>13, AfterOK

\* The listeners may differ.
SameCall(d, c) ==
    /\ d.stream = c.stream /\ d.call = c.call /\ d.listens = c.listens
    /\ d.targets = c.targets /\ d.documents = c.documents /\ d.cache = c.cache

(* A get that joins shares the listen of the others, or begins one.        *)
LEMMA AddListenerOK ==
    ASSUME NEW c, NEW s \in [Gets -> Nat], ClientOK(c, s), c.listens = c.views,
           NEW g \in Gets, c.query[g] = None, NEW q \in Queries, NEW v \in Nat,
           Listeners(c, q) = {} \/ \E h \in Listeners(c, q) : v = s[h],
           NEW e \in Clients, SameCall(e, c),
           SameTracker(e, c), e.idle = c.idle, e.synced = c.synced, e.posted = c.posted,
           e.raised = c.raised, e.query = [c.query EXCEPT ![g] = q],
           e.attached = c.attached \union {g}, e.views = c.views \union {q}
    PROVE  ClientOK(e, [s EXCEPT ![g] = v])
<1> DEFINE t == [s EXCEPT ![g] = v]
<1>0. /\ c \in Clients /\ c.attached \subseteq Gets /\ c.query \in [Gets -> Queries \union {None}]
      /\ c.listens \subseteq Queries /\ q # None /\ c.posted \in [Gets -> Seq(Events)]
    BY ReadsAssumption DEF ClientOK, Clients
<1>1. /\ e.stream = c.stream /\ e.call = c.call /\ e.listens = c.listens
      /\ e.targets = c.targets /\ e.documents = c.documents /\ e.cache = c.cache
    BY DEF SameCall
<1>2. ListenersOK(c, s) /\ EventsOK(c, s) /\ UnmutedOK(c) /\ SyncedFresh(c, s)
    BY DEF ClientOK, ViewOK
<1>3. /\ g \notin c.attached /\ c.posted[g] = <<>> /\ answers[g] = <<>>
      /\ t[g] = v /\ e.query[g] = q
      /\ \A h \in Gets : h # g => t[h] = s[h] /\ e.query[h] = c.query[h]
    BY <1>0, <1>2 DEF ListenersOK
<1> HIDE DEF t
<1>4. ASSUME NEW p \in c.listens, NEW w, Fresh(c, s, p, w) PROVE Fresh(e, t, p, w)
    <2>1. ASSUME NEW h \in e.attached, e.query[h] = p PROVE w >= t[h]
        <3>1. CASE h # g
            <4>1. h \in c.attached /\ c.query[h] = p /\ t[h] = s[h]
                BY <1>0, <1>3, <2>1, <3>1
            <4> QED BY <1>4, <4>1 DEF Fresh
        <3>2. CASE h = g
            <4>1. p = q /\ q \in c.views
                BY <1>3, <2>1, <3>2
            <4>2. PICK k \in c.attached : c.query[k] = q
                BY <1>2, <4>1 DEF ListenersOK
            <4>3. PICK l \in Listeners(c, q) : v = s[l]
                BY <4>2 DEF Listeners
            <4> QED BY <1>3, <1>4, <3>2, <4>1, <4>3 DEF Fresh, Listeners
        <3> QED BY <3>1, <3>2
    <2> QED BY <2>1 DEF Fresh
<1>5. ListenersOK(e, t)
    <2>1. e.views = {e.query[h] : h \in e.attached}
        <3>1. c.views = {c.query[h] : h \in c.attached}
            BY <1>2 DEF ListenersOK
        <3>2. \A h \in c.attached : h \in e.attached /\ e.query[h] = c.query[h]
            BY <1>0, <1>3
        <3>3. \A h \in e.attached : e.query[h] \in c.views \union {q}
            BY <1>0, <1>3, <3>1
        <3>4. \A p \in c.views \union {q} : \E h \in e.attached : e.query[h] = p
            BY <1>3, <3>1, <3>2
        <3> QED BY <3>3, <3>4
    <2>2. e.synced \subseteq e.views \ Denied
        BY <1>2 DEF ListenersOK
    <2>3. \A h \in Gets : e.query[h] = None =>
              h \notin e.attached /\ e.posted[h] = <<>> /\ answers[h] = <<>>
        BY <1>0, <1>2, <1>3 DEF ListenersOK
    <2>4. ASSUME NEW h \in e.attached, NEW k \in e.attached, e.query[h] = e.query[k]
          PROVE  t[h] = t[k]
        <3>1. h \in Gets /\ k \in Gets
            BY <1>0
        <3>2. CASE h # g /\ k # g
            BY <1>2, <1>3, <2>4, <3>1, <3>2 DEF ListenersOK
        <3>3. ASSUME NEW l \in e.attached, l # g, e.query[l] = q PROVE t[l] = v
            <4>1. l \in Listeners(c, q) /\ l \in Gets
                BY <1>0, <1>3, <3>3 DEF Listeners
            <4>2. PICK j \in Listeners(c, q) : v = s[j]
                BY <4>1
            <4>3. s[l] = s[j]
                BY <1>2, <4>1, <4>2 DEF ListenersOK, Listeners
            <4> QED BY <1>3, <3>3, <4>1, <4>2, <4>3
        <3> QED BY <1>3, <2>4, <3>2, <3>3
    <2> QED BY <2>1, <2>2, <2>3, <2>4 DEF ListenersOK
<1>6. EventsOK(e, t)
    <2>1. ASSUME NEW h \in Gets, NEW i \in 1 .. Len(c.posted[h])
          PROVE  /\ c.posted[h][i].source = "server" => c.posted[h][i].version >= t[h]
                 /\ c.posted[h][i].source = "error" => i = Len(c.posted[h]) /\ h \notin e.attached
                 /\ c.posted[h][i].source # "error" => h \in c.raised
        <3>1. h # g
            BY <1>3
        <3> QED BY <1>2, <1>3, <3>1 DEF EventsOK
    <2> QED BY <2>1 DEF EventsOK
<1>7. UnmutedOK(e)
    BY <1>2, <1>3 DEF UnmutedOK
<1>8. SyncedFresh(e, t)
    <2>1. c.synced \subseteq c.listens
        BY <1>2 DEF ListenersOK
    <2> QED BY <1>1, <1>2, <1>4, <2>1 DEF SyncedFresh
<1>9. TrackerOK(e) /\ StreamOK(e)
    BY <1>1 DEF ClientOK, TrackerOK, SameTracker, StreamOK, IsOpen, IsStarted
<1>10. WireOK(c, s)
    BY DEF ClientOK
<1>11. CountOK(e)
    BY <1>1, <1>10 DEF WireOK, CountOK, IsOpen, IsStarted
<1>12. DownFresh(e, t)
    BY <1>1, <1>4, <1>10 DEF WireOK, DownFresh
<1>13. \A p : /\ Stored(e, p) = Stored(c, p)
              /\ IsActiveTarget(e, p) => IsActiveTarget(c, p) /\ p \in c.listens
    BY <1>1 DEF Stored, IsActiveTarget
<1>14. CurrentOK(e, t)
    BY <1>1, <1>4, <1>10, <1>13 DEF WireOK, CurrentOK
<1>15. TargetsOK(e, t)
    BY <1>1, <1>4, <1>10, <1>13 DEF WireOK, TargetsOK, IsOpen
<1> QED BY <1>5, <1>6, <1>7, <1>8, <1>9, <1>11, <1>12, <1>14, <1>15
        DEF ClientOK, ViewOK, WireOK, t

(* A listener is forgotten, with its view if it was the last one.          *)
LEMMA DropListenerOK ==
    ASSUME NEW c, NEW s, ClientOK(c, s), NEW e \in Clients,
           SameCall(e, c), SameTracker(e, c), e.idle = c.idle, e.query = c.query,
           e.synced \subseteq c.synced, e.posted = c.posted, e.raised = c.raised,
           e.attached \subseteq c.attached, e.views = {c.query[h] : h \in e.attached},
           e.synced \subseteq e.views
    PROVE  ClientOK(e, s)
<1>1. /\ e.stream = c.stream /\ e.call = c.call /\ e.listens = c.listens /\ e.query = c.query
      /\ e.targets = c.targets /\ e.documents = c.documents /\ e.cache = c.cache
    BY DEF SameCall
<1>2. ListenersOK(c, s) /\ EventsOK(c, s) /\ UnmutedOK(c) /\ SyncedFresh(c, s)
    BY DEF ClientOK, ViewOK
<1>3. \A p, w : Fresh(c, s, p, w) => Fresh(e, s, p, w)
    BY <1>1 DEF Fresh
<1>4. ListenersOK(e, s)
    BY <1>1, <1>2 DEF ListenersOK
<1>5. EventsOK(e, s) /\ UnmutedOK(e)
    BY <1>2 DEF EventsOK, UnmutedOK
<1>6. SyncedFresh(e, s)
    BY <1>1, <1>2, <1>3 DEF SyncedFresh
<1>7. TrackerOK(e) /\ StreamOK(e)
    BY <1>1 DEF ClientOK, TrackerOK, SameTracker, StreamOK, IsOpen, IsStarted
<1>8. WireOK(c, s)
    BY DEF ClientOK
<1>9. CountOK(e)
    BY <1>1, <1>8 DEF WireOK, CountOK, IsOpen, IsStarted
<1>10. DownFresh(e, s)
    BY <1>1, <1>3, <1>8 DEF WireOK, DownFresh
<1>11. \A p : Stored(e, p) = Stored(c, p) /\ (IsActiveTarget(e, p) <=> IsActiveTarget(c, p))
    BY <1>1 DEF Stored, IsActiveTarget
<1>12. CurrentOK(e, s)
    BY <1>1, <1>3, <1>8, <1>11 DEF WireOK, CurrentOK
<1>13. TargetsOK(e, s)
    BY <1>1, <1>3, <1>8, <1>11 DEF WireOK, TargetsOK, IsOpen
<1> QED BY <1>4, <1>5, <1>6, <1>7, <1>9, <1>10, <1>12, <1>13 DEF ClientOK, ViewOK, WireOK

(* A get is added: the first of its query listens, another one is shown    *)
(* what the first one has.                                                 *)
LEMMA GetDocumentsKeepsIInv ==
    ASSUME IInv, NEW g \in Gets, NEW q \in Queries, GetDocuments(g, q)
    PROVE  IInv'
<1>0. PICK c : c = client
    OBVIOUS
<1>1. PICK s : s = since
    OBVIOUS
<1>2. ClientOK(c, s) /\ c \in Clients /\ c.listens = c.views /\ s \in [Gets -> Nat]
    BY <1>0, <1>1, IInvProps
<1>3. PICK v : v = IF Listeners(c, q) = {} THEN serverVersion
                   ELSE s[CHOOSE h \in Listeners(c, q) : TRUE]
    OBVIOUS
<1>4. PICK a : a = [c EXCEPT !.query[g] = q, !.attached = @ \union {g}]
    OBVIOUS
<1>5. PICK t : t = [s EXCEPT ![g] = v]
    OBVIOUS
<1>6. /\ c.query[g] = None /\ since' = t
      /\ UNCHANGED <<muted, removing, answers, serverVersion, troubles>>
      /\ Listeners(c, q) # {} =>
             client' = Raise(a, {h \in {g} : ShouldRaiseInitialEvent(a, h)})
      /\ Listeners(c, q) = {} =>
             client' = Listen(OnViewSnapshots([HardAssert(a, q \notin c.views)
                                                  EXCEPT !.views = @ \union {q}], {q}), q)
    BY <1>0, <1>1, <1>3, <1>4, <1>5 DEF GetDocuments
<1>7. /\ c.attached \subseteq Gets /\ c.query \in [Gets -> Queries \union {None}]
      /\ serverVersion \in Nat /\ \A h \in Gets : s[h] \in Nat /\ s[h] <= serverVersion
      /\ c.views = {c.query[h] : h \in c.attached} /\ c.sound
    BY <1>1, <1>2 DEF IInv, HandlersOK, ClientOK, ViewOK, ListenersOK, Clients, TrackerOK
<1>8. /\ v \in Nat /\ v <= serverVersion
      /\ Listeners(c, q) = {} \/ \E h \in Listeners(c, q) : v = s[h]
    <2>1. CASE Listeners(c, q) = {}
        BY <1>3, <1>7, <2>1
    <2>2. CASE Listeners(c, q) # {}
        <3>1. PICK k : k = CHOOSE h \in Listeners(c, q) : TRUE
            OBVIOUS
        <3>2. k \in Listeners(c, q)
            BY <2>2, <3>1
        <3>3. v = s[k]
            BY <1>3, <2>2, <3>1
        <3> QED BY <1>7, <3>2, <3>3 DEF Listeners
    <2> QED BY <2>1, <2>2
<1>9. t \in [Gets -> 0 .. serverVersion] /\ t \in [Gets -> Nat] /\ \A h \in Gets : h # g => t[h] = s[h]
    BY <1>2, <1>5, <1>7, <1>8
<1>10. /\ a \in Clients /\ SameCall(a, c) /\ SameTracker(a, c) /\ a.idle = c.idle
       /\ a.synced = c.synced /\ a.posted = c.posted /\ a.raised = c.raised
       /\ a.query = [c.query EXCEPT ![g] = q] /\ a.attached = c.attached \union {g}
       /\ a.views = c.views
    <2>1. [c.query EXCEPT ![g] = q] \in [Gets -> Queries \union {None}]
        BY <1>7
    <2> QED BY <1>2, <1>4, <1>7, <2>1 DEF Clients, SameCall, SameTracker
<1>11. ClientOK(client', t) /\ client'.listens = client'.views /\ c.raised \subseteq client'.raised
    <2>1. CASE Listeners(c, q) # {}
        <3>1. a.views = c.views \union {q}
            BY <1>7, <1>10, <2>1 DEF Listeners
        <3>2. ClientOK(a, t)
            BY <1>2, <1>5, <1>6, <1>8, <1>10, <3>1, AddListenerOK
        <3>3. PICK gs : gs = {h \in {g} : ShouldRaiseInitialEvent(a, h)}
            OBVIOUS
        <3>4. gs \in SUBSET a.attached
            BY <1>10, <3>3
        <3>5. PICK d : d = Raise(a, gs)
            OBVIOUS
        <3>6. /\ d \in Clients /\ Same(d, a) /\ SameTracker(d, a) /\ d.synced = a.synced
              /\ ViewOK(d, t)
            BY <1>9, <1>10, <3>2, <3>4, <3>5, RaiseOK DEF ClientOK
        <3>7. After(d, a, t)
            <4>1. TrackerOK(d) /\ (d.timer => IsStarted(a))
                BY <3>2, <3>6 DEF ClientOK, TrackerOK, StreamOK, SameTracker
            <4> QED BY <3>2, <3>6, <4>1, ShownOK DEF Shown
        <3>8. client' = d
            BY <1>6, <2>1, <3>3, <3>5
        <3>9. a.listens = c.listens
            BY <1>10 DEF SameCall
        <3> QED BY <1>2, <1>10, <3>7, <3>8, <3>9 DEF After
    <2>2. CASE Listeners(c, q) = {}
        <3>1. q \notin c.views
            BY <1>7, <2>2 DEF Listeners
        <3>2. HardAssert(a, q \notin c.views) = a
            BY <1>7, <1>10, <3>1, HardAssertOK DEF SameTracker
        <3>3. PICK e : e = [a EXCEPT !.views = @ \union {q}]
            OBVIOUS
        <3>4. /\ e \in Clients /\ SameCall(e, a) /\ SameTracker(e, a) /\ e.idle = a.idle
              /\ e.synced = a.synced /\ e.posted = a.posted /\ e.raised = a.raised
              /\ e.query = a.query /\ e.attached = a.attached /\ e.views = a.views \union {q}
            BY <1>10, <3>3 DEF Clients, SameCall, SameTracker
        <3>5. SameCall(e, c) /\ SameTracker(e, c) /\ e.idle = c.idle
            BY <1>10, <3>4, Zenon DEF SameCall, SameTracker
        <3>6. ClientOK(e, t)
            <4>1. /\ e.synced = c.synced /\ e.posted = c.posted /\ e.raised = c.raised
                  /\ e.query = [c.query EXCEPT ![g] = q] /\ e.attached = c.attached \union {g}
                  /\ e.views = c.views \union {q}
                BY <1>10, <3>4
            <4> QED BY <1>2, <1>5, <1>6, <1>8, <3>4, <3>5, <4>1, AddListenerOK
        <3>7. PICK f : f = OnViewSnapshots(e, {q})
            OBVIOUS
        <3>8. Shown(f, e, t) /\ SameTracker(f, e) /\ f.synced = e.synced
            BY <1>9, <3>6, <3>7, OnViewSnapshotsOK DEF ClientOK
        <3>9. After(f, e, t)
            <4>1. TrackerOK(f) /\ (f.timer => IsStarted(e))
                BY <3>6, <3>8 DEF ClientOK, TrackerOK, StreamOK, SameTracker
            <4> QED BY <3>6, <3>8, <4>1, ShownOK
        <3>10. /\ f.listens = c.listens /\ f.views = c.views \union {q}
               /\ c.raised \subseteq f.raised /\ q \notin f.listens /\ ClientOK(f, t)
            BY <1>2, <1>10, <3>1, <3>4, <3>5, <3>9 DEF After, SameCall
        <3>11. PICK d : d = Listen(f, q)
            OBVIOUS
        <3>12. /\ ClientOK(d, t) /\ d.listens = f.listens \union {q} /\ d.views = f.views
               /\ f.raised \subseteq d.raised
            BY <1>9, <3>10, <3>11, ListenOK
        <3>13. client' = d
            BY <1>6, <2>2, <3>2, <3>3, <3>7, <3>11
        <3> QED BY <1>2, <3>10, <3>12, <3>13
    <2> QED BY <2>1, <2>2
<1>12. HandlersOK'
    <2>1. answers[g] = <<>>
        BY <1>0, <1>2, <1>6 DEF ClientOK, ViewOK, ListenersOK
    <2>2. AnswersFresh'
        <3>1. ASSUME NEW h \in Gets, NEW i \in DOMAIN answers[h],
                     answers[h][i].source = "server"
              PROVE  answers[h][i].version >= t[h]
            <4>1. h # g
                BY <2>1
            <4> QED BY <1>1, <1>9, <3>1, <4>1 DEF IInv, HandlersOK, AnswersFresh
        <3> QED BY <1>6, <3>1 DEF AnswersFresh
    <2> QED BY <1>0, <1>6, <1>9, <1>11, <2>2 DEF IInv, HandlersOK, AnsweredOnce
<1>13. ClientOK(client, since)'
    <2>1. PICK d : d = client'
        OBVIOUS
    <2>2. muted' = muted /\ answers' = answers /\ client' = d /\ since' = t /\ ClientOK(d, t)
        BY <1>6, <1>11, <2>1
    <2>3. ViewOK(client, since)'
        BY <2>2 DEF ClientOK, ViewOK, ListenersOK, EventsOK, UnmutedOK, SyncedFresh, Fresh
    <2>4. WireOK(client, since)'
        BY <2>2 DEF ClientOK, WireOK, CountOK, DownFresh, CurrentOK, TargetsOK, Fresh, Stored,
                    IsActiveTarget, IsOpen, IsStarted
    <2>5. client' \in Clients /\ TrackerOK(client)' /\ StreamOK(client)'
        BY <2>2 DEF ClientOK, TrackerOK, StreamOK, IsOpen, IsStarted
    <2> QED BY <2>3, <2>4, <2>5 DEF ClientOK
<1> QED BY <1>11, <1>12, <1>13 DEF IInv

(* A get that was answered is removed; the last one ends the listen.       *)
LEMMA RemoveKeepsIInv ==
    ASSUME IInv, NEW g \in Gets, RemoveQueryListener(g)
    PROVE  IInv'
<1>0. PICK c : c = client
    OBVIOUS
<1>1. PICK s : s = since
    OBVIOUS
<1>2. ClientOK(c, s) /\ c \in Clients /\ c.listens = c.views /\ s \in [Gets -> Nat]
    BY <1>0, <1>1, IInvProps
<1>3. PICK q : q = c.query[g]
    OBVIOUS
<1>4. PICK e : e = [c EXCEPT !.attached = @ \ {g}]
    OBVIOUS
<1>5. PICK t : t = [HardAssert(e, q \in c.views) EXCEPT !.views = @ \ {q}, !.synced = @ \ {q}]
    OBVIOUS
<1>6. /\ removing' = removing \ {g}
      /\ UNCHANGED <<muted, answers, since, serverVersion, troubles>>
      /\ client' = IF g \in c.attached /\ Listeners(e, q) = {} THEN StopListening(t, q) ELSE e
    BY <1>0, <1>3, <1>4, <1>5 DEF RemoveQueryListener
<1>7. /\ c.attached \subseteq Gets /\ c.query \in [Gets -> Queries \union {None}]
      /\ c.views = {c.query[h] : h \in c.attached} /\ c.synced \subseteq c.views /\ c.sound
      /\ g \in c.attached => q \in Queries
    <2>1. ListenersOK(c, s) /\ c.sound
        BY <1>2 DEF ClientOK, ViewOK, TrackerOK
    <2>2. c.attached \subseteq Gets /\ c.query \in [Gets -> Queries \union {None}]
        BY <1>2 DEF Clients
    <2> QED BY <1>3, <2>1, <2>2 DEF ListenersOK
<1>8. /\ e \in Clients /\ SameCall(e, c) /\ SameTracker(e, c) /\ e.idle = c.idle
      /\ e.synced = c.synced /\ e.posted = c.posted /\ e.raised = c.raised
      /\ e.query = c.query /\ e.attached = c.attached \ {g} /\ e.views = c.views
    BY <1>2, <1>4, <1>7 DEF Clients, SameCall, SameTracker
<1>9. ClientOK(client', s) /\ client'.listens = client'.views /\ c.raised \subseteq client'.raised
    <2>1. CASE g \in c.attached /\ Listeners(e, q) = {}
        <3>1. q \in Queries /\ q \in c.views
            BY <1>3, <1>7, <2>1
        <3>2. HardAssert(e, q \in c.views) = e
            BY <1>7, <1>8, <3>1, HardAssertOK DEF SameTracker
        <3>3. /\ t \in Clients /\ SameCall(t, e) /\ SameTracker(t, e) /\ t.idle = e.idle
              /\ t.synced = e.synced \ {q} /\ t.posted = e.posted /\ t.raised = e.raised
              /\ t.query = e.query /\ t.attached = e.attached /\ t.views = e.views \ {q}
            BY <1>5, <1>8, <3>2 DEF Clients, SameCall, SameTracker
        <3>4. SameCall(t, c) /\ SameTracker(t, c) /\ t.idle = c.idle
            BY <1>8, <3>3, Zenon DEF SameCall, SameTracker
        <3>5. t.views = {c.query[h] : h \in t.attached}
            <4>1. \A h \in c.attached \ {g} : c.query[h] # q
                BY <1>8, <2>1 DEF Listeners
            <4>2. \A h \in t.attached : c.query[h] \in t.views
                BY <1>7, <1>8, <3>3, <4>1
            <4>3. \A p \in t.views : \E h \in t.attached : c.query[h] = p
                BY <1>3, <1>7, <1>8, <3>3
            <4> QED BY <4>2, <4>3
        <3>6. ClientOK(t, s)
            <4>1. /\ t.synced \subseteq c.synced /\ t.posted = c.posted /\ t.raised = c.raised
                  /\ t.query = c.query /\ t.attached \subseteq c.attached
                  /\ t.synced \subseteq t.views
                BY <1>7, <1>8, <3>3
            <4> QED BY <1>2, <3>3, <3>4, <3>5, <4>1, DropListenerOK
        <3>7. q \in t.listens /\ t.listens = c.listens /\ t.raised = c.raised
              /\ t.views = c.views \ {q}
            BY <1>2, <1>8, <3>1, <3>3, <3>4 DEF SameCall
        <3>8. PICK d : d = StopListening(t, q)
            OBVIOUS
        <3>9. /\ ClientOK(d, s) /\ d.listens = t.listens \ {q} /\ d.views = t.views
              /\ t.raised \subseteq d.raised
            BY <1>2, <3>1, <3>6, <3>7, <3>8, StopListeningOK
        <3> QED BY <1>2, <1>6, <2>1, <3>7, <3>8, <3>9
    <2>2. CASE ~(g \in c.attached /\ Listeners(e, q) = {})
        <3>1. e.views = {c.query[h] : h \in e.attached}
            <4>1. CASE g \notin c.attached
                BY <1>7, <1>8, <4>1
            <4>2. CASE g \in c.attached
                <5>1. PICK k \in e.attached : c.query[k] = q
                    BY <1>8, <2>2, <4>2 DEF Listeners
                <5>2. \A h \in e.attached : c.query[h] \in e.views
                    BY <1>7, <1>8
                <5>3. \A p \in e.views : \E h \in e.attached : c.query[h] = p
                    BY <1>3, <1>7, <1>8, <5>1
                <5> QED BY <5>2, <5>3
            <4> QED BY <4>1, <4>2
        <3>2. ClientOK(e, s)
            BY <1>2, <1>7, <1>8, <3>1, DropListenerOK
        <3> QED BY <1>2, <1>6, <1>8, <2>2, <3>2 DEF SameCall
    <2> QED BY <2>1, <2>2
<1>10. HandlersOK'
    BY <1>0, <1>6, <1>9 DEF IInv, HandlersOK, AnsweredOnce, AnswersFresh
<1>11. ClientOK(client, since)'
    <2>1. PICK d : d = client'
        OBVIOUS
    <2>2. muted' = muted /\ answers' = answers /\ client' = d /\ since' = s /\ ClientOK(d, s)
        BY <1>1, <1>6, <1>9, <2>1
    <2>3. ViewOK(client, since)'
        BY <2>2 DEF ClientOK, ViewOK, ListenersOK, EventsOK, UnmutedOK, SyncedFresh, Fresh
    <2>4. WireOK(client, since)'
        BY <2>2 DEF ClientOK, WireOK, CountOK, DownFresh, CurrentOK, TargetsOK, Fresh, Stored,
                    IsActiveTarget, IsOpen, IsStarted
    <2>5. client' \in Clients /\ TrackerOK(client)' /\ StreamOK(client)'
        BY <2>2 DEF ClientOK, TrackerOK, StreamOK, IsOpen, IsStarted
    <2> QED BY <2>3, <2>4, <2>5 DEF ClientOK
<1> QED BY <1>9, <1>10, <1>11 DEF IInv

(* An event is delivered: the first one answers, and mutes its listener    *)
(* unless it is an error, which is the last one.                           *)
LEMMA DeliverKeepsIInv ==
    ASSUME IInv, NEW g \in Gets, DeliverEvent(g)
    PROVE  IInv'
<1>0. PICK c : c = client
    OBVIOUS
<1>1. PICK s : s = since
    OBVIOUS
<1>2. ClientOK(c, s) /\ c \in Clients /\ c.listens = c.views /\ s \in [Gets -> Nat]
    BY <1>0, <1>1, IInvProps
<1>3. PICK p : p = c.posted[g]
    OBVIOUS
<1>4. PICK d : d = [c EXCEPT !.posted[g] = Tail(p)]
    OBVIOUS
<1> DEFINE posted == [c.posted EXCEPT ![g] = Tail(p)]
<1>5. p # <<>> /\ client' = d /\ since' = since /\ serverVersion' = serverVersion
    BY <1>0, <1>3, <1>4 DEF DeliverEvent
<1>6. /\ c.posted \in [Gets -> Seq(Events)] /\ p \in Seq(Events) /\ Tail(p) \in Seq(Events)
      /\ Head(p) \in Events /\ Head(p) = p[1] /\ Len(p) \in Nat \ {0}
      /\ Len(Tail(p)) = Len(p) - 1 /\ \A i \in 1 .. Len(Tail(p)) : Tail(p)[i] = p[i + 1]
    <2>1. c.posted \in [Gets -> Seq(Events)]
        BY <1>2 DEF Clients
    <2>2. p \in Seq(Events)
        BY <1>3, <2>1
    <2> QED BY <1>5, <2>1, <2>2
<1>7. /\ posted \in [Gets -> Seq(Events)] /\ posted[g] = Tail(p)
      /\ \A h \in Gets : h # g => posted[h] = c.posted[h]
    BY <1>6
<1>8. d = [c EXCEPT !.posted = posted]
    BY <1>2, <1>4 DEF Clients
<1> HIDE DEF posted
<1>9. /\ d \in Clients /\ WireSame(d, c) /\ SameTracker(d, c) /\ d.idle = c.idle
      /\ d.synced = c.synced /\ d.posted = posted /\ d.raised = c.raised /\ d.views = c.views
    BY <1>2, <1>7, <1>8 DEF Clients, WireSame, SameTracker
<1>10. WireOK(d, s)
    BY <1>2, <1>9, WireFrame DEF ClientOK
<1>11. TrackerOK(d) /\ StreamOK(d)
    BY <1>2, <1>9
    DEF ClientOK, TrackerOK, SameTracker, StreamOK, WireSame, IsOpen, IsStarted
<1>12. ListenersOK(c, s) /\ EventsOK(c, s) /\ UnmutedOK(c) /\ SyncedFresh(c, s)
    BY <1>2 DEF ClientOK, ViewOK
<1>13. EventsOK(d, s)
    <2>1. ASSUME NEW h \in Gets, NEW i \in 1 .. Len(posted[h])
          PROVE  /\ posted[h][i].source = "server" => posted[h][i].version >= s[h]
                 /\ posted[h][i].source = "error" => i = Len(posted[h]) /\ h \notin c.attached
                 /\ posted[h][i].source # "error" => h \in c.raised
        <3>1. CASE h = g
            <4>1. posted[h][i] = c.posted[h][i + 1] /\ i + 1 \in 1 .. Len(c.posted[h])
                  /\ Len(c.posted[h]) = Len(posted[h]) + 1 /\ i \in Nat /\ Len(posted[h]) \in Nat
                <5>1. posted[h] = Tail(p) /\ c.posted[h] = p
                    BY <1>3, <1>7, <3>1
                <5>2. i \in 1 .. Len(Tail(p))
                    BY <5>1
                <5>3. Tail(p)[i] = p[i + 1] /\ i + 1 \in 1 .. Len(p) /\ i \in Nat
                      /\ Len(p) = Len(Tail(p)) + 1 /\ Len(Tail(p)) \in Nat
                    BY <1>6, <5>2
                <5> QED BY <5>1, <5>3
            <4>2. /\ posted[h][i].source = "server" => posted[h][i].version >= s[h]
                  /\ posted[h][i].source = "error"
                         => i + 1 = Len(c.posted[h]) /\ h \notin c.attached
                  /\ posted[h][i].source # "error" => h \in c.raised
                BY <1>12, <4>1 DEF EventsOK
            <4> QED BY <4>1, <4>2
        <3>2. CASE h # g
            BY <1>7, <1>12, <3>2 DEF EventsOK
        <3> QED BY <3>1, <3>2
    <2> QED BY <1>9, <2>1 DEF EventsOK, WireSame
<1>14. /\ Head(p).source = "server" => Head(p).version >= s[g]
       /\ Head(p).source = "error" => Tail(p) = <<>> /\ g \notin c.attached
       /\ Head(p).source # "error" => g \in c.raised
    <2>1. 1 \in 1 .. Len(c.posted[g]) /\ Head(p) = c.posted[g][1]
        BY <1>3, <1>6
    <2>2. /\ Head(p).source = "server" => Head(p).version >= s[g]
          /\ Head(p).source = "error" => 1 = Len(p) /\ g \notin c.attached
          /\ Head(p).source # "error" => g \in c.raised
        BY <1>3, <1>12, <2>1 DEF EventsOK
    <2>3. Len(p) = 1 => Tail(p) = <<>>
        <3>1. Len(p) = 1 => Len(Tail(p)) = 0
            BY <1>6
        <3> QED BY <1>6, <3>1, EmptySeq
    <2> QED BY <2>2, <2>3
<1>15. c.query[g] # None
    BY <1>3, <1>5, <1>12 DEF ListenersOK
<1>16. SyncedFresh(d, s)
    BY <1>9, <1>12 DEF SyncedFresh, Fresh, WireSame
<1>17. CASE g \in muted
    <2>1. UNCHANGED <<muted, removing, answers>>
        BY <1>17 DEF DeliverEvent
    <2>2. ListenersOK(d, s) /\ UnmutedOK(d)
        BY <1>7, <1>9, <1>12, <1>15, <1>17 DEF ListenersOK, UnmutedOK, WireSame
    <2>3. ClientOK(d, s)
        BY <1>9, <1>10, <1>11, <1>13, <1>16, <2>2 DEF ClientOK, ViewOK
    <2>4. Worker(d)
        BY <1>5, <2>1 DEF Worker
    <2>5. d.listens = d.views /\ client.raised \subseteq d.raised /\ ClientOK(d, since)
        BY <1>0, <1>1, <1>2, <1>9, <2>3 DEF WireSame
    <2> QED BY <2>4, <2>5, WorkerOK
<1>18. CASE g \notin muted
    <2>1. PICK a : a = [answers EXCEPT ![g] = Append(@, Head(p))]
        OBVIOUS
    <2>2. /\ answers' = a
          /\ IF Head(p).source = "error" THEN muted' = muted /\ removing' = removing
             ELSE /\ muted' = muted \union {g}
                  /\ removing' = removing \union ({g} \intersect c.attached)
        BY <1>0, <1>3, <1>18, <2>1 DEF DeliverEvent, Mute
    <2>3. /\ answers \in [Gets -> Seq(Events)] /\ answers[g] = <<>>
          /\ muted \subseteq c.raised /\ removing \subseteq muted
          /\ since \in [Gets -> 0 .. serverVersion] /\ serverVersion \in 1 .. MaxVersions
        BY <1>0, <1>3, <1>5, <1>12, <1>18 DEF IInv, HandlersOK, UnmutedOK
    <2>4. a[g] = <<Head(p)>> /\ \A h \in Gets : h # g => a[h] = answers[h]
        BY <2>1, <2>3
    <2>5. a \in [Gets -> Seq(Events)]
        BY <1>6, <2>1, <2>3
    <2>6. ListenersOK(client, since)'
        <3>1. /\ client' = d /\ since' = s /\ answers' = a /\ d.views = c.views
              /\ d.query = c.query /\ d.attached = c.attached /\ d.synced = c.synced
              /\ d.posted = posted
            BY <1>1, <1>5, <1>9, <2>2 DEF WireSame
        <3>2. ASSUME NEW h \in Gets, c.query[h] = None
              PROVE  h \notin c.attached /\ posted[h] = <<>> /\ a[h] = <<>>
            <4>1. h # g
                BY <1>15, <3>2
            <4>2. h \notin c.attached /\ c.posted[h] = <<>> /\ answers[h] = <<>>
                BY <1>12, <3>2 DEF ListenersOK
            <4> QED BY <1>7, <2>4, <4>1, <4>2
        <3> QED BY <1>12, <3>1, <3>2 DEF ListenersOK
    <2>7. UnmutedOK(client)'
        <3>1. ASSUME NEW h \in Gets, h \notin muted', a[h] # <<>>
              PROVE  posted[h] = <<>> /\ h \notin c.attached
            <4>1. CASE h = g
                BY <1>7, <1>14, <2>2, <3>1, <4>1
            <4>2. CASE h # g
                <5>1. h \notin muted /\ answers[h] # <<>> /\ posted[h] = c.posted[h]
                    BY <1>7, <2>2, <2>4, <3>1, <4>2
                <5> QED BY <1>12, <5>1 DEF UnmutedOK
            <4> QED BY <4>1, <4>2
        <3> QED BY <1>5, <1>9, <2>2, <3>1 DEF UnmutedOK, WireSame
    <2>8. EventsOK(client, since)' /\ SyncedFresh(client, since)'
        BY <1>1, <1>5, <1>13, <1>16 DEF EventsOK, SyncedFresh, Fresh
    <2>9. WireOK(client, since)'
        BY <1>1, <1>5, <1>10 DEF WireOK, CountOK, DownFresh, CurrentOK, TargetsOK, Fresh, Stored,
                                 IsActiveTarget, IsOpen, IsStarted
    <2>10. client' \in Clients /\ TrackerOK(client)' /\ StreamOK(client)'
        BY <1>5, <1>9, <1>11 DEF TrackerOK, StreamOK, IsOpen, IsStarted
    <2>11. muted' \subseteq client'.raised /\ removing' \subseteq muted'
        BY <1>5, <1>9, <1>14, <2>2, <2>3
    <2>12. AnsweredOnce'
        <3>1. Len(a[g]) = 1
            BY <2>4
        <3>2. \A h \in Gets : Len(a[h]) <= 1
            <4>1. \A h \in Gets : Len(answers[h]) <= 1
                BY DEF IInv, HandlersOK, AnsweredOnce
            <4>2. \A h \in Gets : h # g => Len(a[h]) <= 1
                BY <2>4, <4>1
            <4>3. Len(a[g]) <= 1
                BY <3>1
            <4> QED BY <4>2, <4>3
        <3> QED BY <2>2, <3>2 DEF AnsweredOnce
    <2>13. AnswersFresh'
        <3>1. ASSUME NEW h \in Gets, NEW i \in DOMAIN a[h], a[h][i].source = "server"
              PROVE  a[h][i].version >= since[h]
            <4>1. CASE h = g
                <5>1. a[h][i] = Head(p)
                    BY <2>4, <4>1
                <5> QED BY <1>1, <1>14, <3>1, <4>1, <5>1
            <4>2. CASE h # g
                BY <2>4, <3>1, <4>2 DEF IInv, HandlersOK, AnswersFresh
            <4> QED BY <4>1, <4>2
        <3> QED BY <1>5, <2>2, <3>1 DEF AnswersFresh
    <2>14. HandlersOK'
        BY <1>5, <2>2, <2>3, <2>5, <2>11, <2>12, <2>13 DEF HandlersOK
    <2>15. client'.listens = client'.views
        BY <1>2, <1>5, <1>9 DEF WireSame
    <2> QED BY <2>6, <2>7, <2>8, <2>9, <2>10, <2>14, <2>15 DEF IInv, ClientOK, ViewOK
<1> QED BY <1>17, <1>18

(* Another state of the server makes nothing stale: a listen is judged by  *)
(* the state it began in.                                                  *)
LEMMA ServerChangesKeepsIInv ==
    ASSUME IInv, ServerChanges
    PROVE  IInv'
<1>1. /\ client' = client /\ muted' = muted /\ removing' = removing /\ answers' = answers
      /\ since' = since /\ serverVersion < MaxVersions /\ serverVersion' = serverVersion + 1
    BY DEF ServerChanges
<1>2. ViewOK(client, since)'
    BY <1>1 DEF IInv, ClientOK, ViewOK, ListenersOK, EventsOK, UnmutedOK, SyncedFresh, Fresh
<1>3. WireOK(client, since)'
    BY <1>1 DEF IInv, ClientOK, WireOK, CountOK, DownFresh, CurrentOK, TargetsOK, Fresh, Stored,
                IsActiveTarget, IsOpen, IsStarted
<1>4. client' \in Clients /\ TrackerOK(client)' /\ StreamOK(client)'
    BY <1>1 DEF IInv, ClientOK, TrackerOK, StreamOK, IsOpen, IsStarted
<1>5. serverVersion' \in 1 .. MaxVersions /\ since' \in [Gets -> 0 .. serverVersion']
    <2>1. serverVersion \in 1 .. MaxVersions /\ since \in [Gets -> 0 .. serverVersion]
        BY DEF IInv, HandlersOK
    <2>2. serverVersion' \in 1 .. MaxVersions /\ \A v \in 0 .. serverVersion : v \in 0 .. serverVersion'
        BY <1>1, <2>1, ReadsAssumption
    <2> QED BY <1>1, <2>1, <2>2
<1>6. HandlersOK'
    BY <1>1, <1>5 DEF IInv, HandlersOK, AnsweredOnce, AnswersFresh
<1> QED BY <1>1, <1>2, <1>3, <1>4, <1>6 DEF IInv, ClientOK

-----------------------------------------------------------------------------
(* The theorems.                                                           *)

(* A new Firestore client listens to nothing and has no call.              *)
LEMMA InitOK == Init => IInv
<1> SUFFICES ASSUME Init PROVE IInv
    OBVIOUS
<1>1. /\ client.enabled /\ client.state = "Unknown" /\ ~client.failed /\ ~client.timer
      /\ client.stream = "Initial" /\ ~client.idle /\ client.call = NoCall /\ client.listens = {}
      /\ client.targets = [q \in Queries |-> NewTarget]
      /\ client.documents = [q \in Queries |-> 0] /\ client.views = {} /\ client.synced = {}
      /\ client.cache = [q \in Queries |-> 0] /\ client.query = [g \in Gets |-> None]
      /\ client.attached = {} /\ client.raised = {} /\ client.posted = [g \in Gets |-> <<>>]
      /\ client.sound
    BY DEF Init, NewAggregator
<1>2. /\ muted = {} /\ removing = {} /\ answers = [g \in Gets |-> <<>>]
      /\ since = [g \in Gets |-> 0] /\ serverVersion = 1
    BY DEF Init
<1>3. MaxVersions \in Nat /\ MaxVersions >= 1
    BY ReadsAssumption
<1>4. NoCall \in Calls
    <2>1. [q \in Queries |-> 0] \in [Queries -> Versions]
        BY <1>3 DEF Versions
    <2> QED BY <2>1 DEF NoCall, Calls
<1>5. client \in Clients
    <2>1. [q \in Queries |-> NewTarget] \in [Queries -> Targets]
        BY DEF NewTarget, Targets
    <2>2. [q \in Queries |-> 0] \in [Queries -> Versions]
        BY <1>3 DEF Versions
    <2>3. [g \in Gets |-> <<>>] \in [Gets -> Seq(Events)]
        OBVIOUS
    <2>4. [g \in Gets |-> None] \in [Gets -> Queries \union {None}]
        OBVIOUS
    <2> QED BY <1>4, <2>1, <2>2, <2>3, <2>4 DEF Init, NewAggregator, Clients, OnlineStates, Streams
<1>6. TrackerOK(client) /\ StreamOK(client)
    BY <1>1 DEF TrackerOK, StreamOK, IsOpen
<1>7. ViewOK(client, since)
    <2>1. ListenersOK(client, since)
        BY <1>1, <1>2 DEF ListenersOK
    <2>2. EventsOK(client, since) /\ UnmutedOK(client)
        BY <1>1, <1>2 DEF EventsOK, UnmutedOK
    <2>3. SyncedFresh(client, since)
        BY <1>1 DEF SyncedFresh
    <2> QED BY <2>1, <2>2, <2>3 DEF ViewOK
<1>8. WireOK(client, since)
    <2>1. ~IsOpen(client) /\ ~IsStarted(client)
        BY <1>1 DEF IsOpen, IsStarted
    <2>2. \A q \in Denied : ~client.targets[q].current
        BY <1>1, ReadsAssumption DEF NewTarget
    <2> QED BY <1>1, <2>1, <2>2, NoWireOK
<1>9. HandlersOK
    <2>1. answers \in [Gets -> Seq(Events)] /\ since \in [Gets -> 0 .. serverVersion]
        BY <1>2
    <2>2. AnsweredOnce /\ AnswersFresh
        BY <1>2 DEF AnsweredOnce, AnswersFresh
    <2> QED BY <1>1, <1>2, <1>3, <2>1, <2>2 DEF HandlersOK
<1> QED BY <1>1, <1>5, <1>6, <1>7, <1>8, <1>9 DEF IInv, ClientOK

(* Every step keeps the invariant.                                         *)
LEMMA NextOK == IInv /\ [Next]_vars => IInv'
<1> SUFFICES ASSUME IInv, [Next]_vars PROVE IInv'
    OBVIOUS
<1>1. ASSUME NEW g \in Gets, NEW q \in Queries, GetDocuments(g, q) PROVE IInv'
    BY <1>1, GetDocumentsKeepsIInv
<1>2. ASSUME NEW g \in Gets, RemoveQueryListener(g) PROVE IInv'
    BY <1>2, RemoveKeepsIInv
<1>3. ASSUME NEW g \in Gets, DeliverEvent(g) PROVE IInv'
    BY <1>3, DeliverKeepsIInv
<1>4. CASE \/ OnWatchStreamOpen \/ BackoffElapsed \/ IdleTimeout \/ OnlineStateTimeout
           \/ CredentialsFail \/ AttemptFails \/ ConnectionLost \/ ConnectivityChanged
           \/ SwitchNetwork
    BY <1>4, StreamKeepsIInv
<1>5. CASE OnWatchStreamChange
    BY <1>5, ChangeKeepsIInv
<1>6. CASE ServerAnswers
    BY <1>6, ServerAnswersKeepsIInv
<1>7. ASSUME NEW q \in Queries, ServerSendsTarget(q) PROVE IInv'
    BY <1>7, ServerSendsKeepsIInv
<1>8. CASE ServerSendsSnapshot
    BY <1>8, ServerSnapshotKeepsIInv
<1>9. CASE ServerChanges
    BY <1>9, ServerChangesKeepsIInv
<1>10. CASE UNCHANGED vars
    <2>1. Worker(client)
        BY <1>10 DEF vars, Worker
    <2>2. PICK c : c = client
        OBVIOUS
    <2>3. Worker(c) /\ ClientOK(c, since) /\ c.listens = c.views /\ client.raised \subseteq c.raised
        BY <2>1, <2>2 DEF IInv
    <2> QED BY <2>3, WorkerOK
<1> QED BY <1>1, <1>2, <1>3, <1>4, <1>5, <1>6, <1>7, <1>8, <1>9, <1>10 DEF Next

(* The invariant always holds.                                             *)
LEMMA Invariance == Spec => []IInv
<1> QED BY InitOK, NextOK, PTL DEF Spec

(* What it says of the types.                                              *)
LEMMA IInvTypeOK == IInv => TypeOK
<1> SUFFICES ASSUME IInv PROVE TypeOK
    OBVIOUS
<1>1. client \in Clients /\ client.call \in Calls
    BY DEF IInv, ClientOK, Clients
<1>2. /\ client.stream \in {"Initial", "Starting", "Backoff", "Open", "Error"}
      /\ client.state \in OnlineStates
      /\ {client.enabled, client.failed, client.timer, client.idle, client.sound} \subseteq BOOLEAN
    BY <1>1 DEF Clients, Streams
<1>3. /\ client.query \in [Gets -> Queries \union {None}]
      /\ client.targets \in [Queries -> [outstanding : Int, current : BOOLEAN, changed : BOOLEAN]]
      /\ client.documents \in [Queries -> 0 .. MaxVersions]
      /\ client.cache \in [Queries -> 0 .. MaxVersions]
      /\ client.posted \in [Gets -> Seq(Events)] /\ client.raised \subseteq Gets
    BY <1>1 DEF Clients, Targets, Versions
<1>4. client.call.watched \subseteq Queries \ Denied
    BY <1>1 DEF Calls, Allowed
<1>5. /\ client.synced \subseteq client.views /\ client.listens = client.views
      /\ client.views = {client.query[g] : g \in client.attached}
    BY DEF IInv, ClientOK, ViewOK, ListenersOK
<1>6. /\ answers \in [Gets -> Seq(Events)] /\ since \in [Gets -> 0 .. serverVersion]
      /\ muted \subseteq client.raised /\ removing \subseteq muted
    BY DEF IInv, HandlersOK
<1> QED BY <1>2, <1>3, <1>4, <1>5, <1>6 DEF TypeOK

(* The state keeps its type: in particular RemoteStore listens to exactly  *)
(* the queries SyncEngine has a view of, and those are the queries of the  *)
(* listeners EventManager has.                                             *)
THEOREM TypesHold == Spec => []TypeOK
<1> QED BY Invariance, IInvTypeOK, PTL

(* No HARD_ASSERT of RemoteStore (StartWatchStream, StopListening,         *)
(* OnWatchStreamClose), OnlineStateTracker or SyncEngine ever fails,       *)
(* whatever the order of timeouts, failures, restarts and removals.        *)
THEOREM AssertionsHold == Spec => []NoHardAssertFails
<1>1. IInv => NoHardAssertFails
    BY DEF IInv, ClientOK, TrackerOK, NoHardAssertFails
<1> QED BY <1>1, Invariance, PTL

(* ListenOnce calls the completion handler of a get at most once, however  *)
(* many snapshots and errors its listener is sent before it is removed.    *)
THEOREM AnsweredAtMostOnce == Spec => []AnsweredOnce
<1>1. IInv => AnsweredOnce
    BY DEF IInv, HandlersOK
<1> QED BY <1>1, Invariance, PTL

(* An answer whose metadata says it comes from the server is no older than *)
(* the listen it comes from: WatchChangeAggregator's count of outstanding  *)
(* responses keeps apart two listens to one target on one call.            *)
THEOREM ServerAnswersFresh == Spec => []AnswersFresh
<1>1. IInv => AnswersFresh
    BY DEF IInv, HandlersOK
<1> QED BY <1>1, Invariance, PTL
=============================================================================
