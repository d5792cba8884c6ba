# Prestige: verification project

TLA+ models of Prestige, an iOS dating app for students (Swift, on Firebase), with the TLC
configurations that check them on small instances and proofs that TLAPS checks for all
instances. Paths below are relative to `src/Prestige/Prestige/` unless they say otherwise.

## 1. Inventory

The repository holds about two dozen Swift files of its own; almost everything else is vendored (`Pods/`).
The app has no server code: Firestore, Firebase Auth and Firebase Cloud Messaging (FCM) are
the server, and all logic runs on the devices, several of which share the same collections.
What the app relies on between its calls and the server is the Firestore client, vendored as
source in `src/Pods/FirebaseFirestoreInternal/Firestore/core/src/` (called `core/src` below): a
worker thread that owns all its state, and two streams to the server. Its parts the app's
guarantees rest on are modelled too.

| Part | State | Operations | Interacts with |
|---|---|---|---|
| Matching engine, `Backend/GaleMatching.swift` 64-143 | the dictionaries `matches`, `proposalIndices`; the collection `matches` | `runMatching`, `saveMatches` | reads `profiles` once per run, writes `matches` in one batch; runs on any device, alongside swipes |
| Swipe recording, `GaleMatching.swift` 24-62 | the collection `profiles` | `updatePreferences` | Firestore's transaction runner (`Pods/FirebaseFirestoreInternal`), which runs the update block again and again |
| Sign-up, `VerificationPage.swift`, `Backend/FirebaseManager.swift` | the form's `@State`, `auth.currentUser`, `isEmailVerified`; Auth accounts, mails, the collection `verifications` | `submitEmail`, `createUserAndSendVerification`, `storeVerification`, `checkVerificationStatus`, `resetForm` | a chain of three asynchronous calls, each with its own completion; the university check |
| Personal topics, `Backend/FirebaseMessagingManager.swift` 38-53, 154-179 | `currentUserId`; the library's list of pending topic updates; subscriptions at FCM | `setCurrentUser`, `clearCurrentUser` | `FIRMessagingPendingTopicsList` and `FIRMessagingPubSub` in `Pods/FirebaseMessaging` |
| Profile screens, `ProfileCreationView.swift`, `EditProfileView.swift`, `SharedComponents.swift` | step, photos, selected slot, interests | wizard buttons, photo grid, picker, interests | the picker loads images in the background |
| Firestore write path, `core/src`: `SyncEngine`, the mutation queue, `RemoteStore`, the write stream | rows on disk, completion handlers, the write pipeline, stream and call | `WriteMutations`, `waitForPendingWrites`, responses, failures, changes of user and network | carries every `setData` and `commit` of the app; worker queue, timers, credentials and the server interleave |
| Firestore read path, `core/src`: `Query`, `EventManager`, `SyncEngine`, `RemoteStore`, `OnlineStateTracker` | listeners, views, cache, outstanding responses, online state and its timer | `GetDocuments`, watch changes, snapshots, failures | answers `runMatching`'s fetch, on the user's executor |
| Firestore worker queue, `core/src`: `AsyncQueue`, `ExecutorLibdispatch`, `Task`, `FirestoreClient`'s life cycle | tasks with reference counts, queues, modes, mutexes | `Execute`, `Schedule`, `Cancel`, `Dispose`, `TerminateAsync`, `ClearPersistence`, `~Firestore` | everything above runs on it |
| University check, `UniversityValidator.swift` | a constant list of domains | `isValidUniversityEmail`, `getUniversity` | called by sign-up |
| Message delivery, `FirebaseMessagingManager.swift` 57-152, 201-223 | handlers, FCM token | add and remove handlers, notification callbacks | nothing in the app creates the manager yet |
| Login, navigation, dashboard, chat, settings, theme | local `@State` only | buttons | static content |

What is hard to test here, and so what the properties aim at (PROJECT.json lists each hazard
with its line):

- devices share documents: two run the matcher, two swipe for one profile, two sign up with
  one address;
- data is read once and used much later: the matcher's snapshot, possibly from the offline
  cache; the address of a submission; the current user of a status check;
- calls are retried after answers were lost, and requests arrive after their sender gave up;
- completions arrive out of order, and after the page that started them is gone;
- the app is killed between any two steps; some state survives (Auth's user, Firestore's
  write queue, the archived topic list) and some does not;
- loops and continuations must end: the `while` loop of the matcher, the continuation of
  `updatePreferences`, the batches of the topic list, the queue of writes, a get;
- responses are matched by position or by an id that is used again, after reconnects;
- a client is destroyed while calls, timers and callbacks are under way on other threads.

What makes each part correct:

- *Matching*: the dictionaries stay coherent through every chain of displacements; an
  unmatched profile really has been turned down by everyone; the saved collection never joins
  strangers; a run ends.
- *Swipes*: a swipe is recorded exactly once, and acknowledged only when recorded.
- *Sign-up*: only eligible addresses get anything; one mail per address; success is shown only
  after the mail's link was followed.
- *Topics*: no pending operation is forgotten; the server ends up with what was last asked.
- *Profile screens*: a photo appears where it was picked for.
- *Writes*: accepted writes survive, take effect in order or are refused, and handlers hear the
  truth about them; the queue drains.
- *Reads*: a get is answered exactly once, also without a server, and an answer that claims to be
  the server's is as new as the listen it comes from.
- *Worker queue*: no task is freed early or leaked, nothing runs on what is gone, and
  destruction ends.

## 2. Modules

| Module | Models | Proofs | TLC instances |
|---|---|---|---|
| `GaleShapleyMatcher` | `runMatching`, `saveMatches`; swipes as atomic steps | `GaleShapleyMatcherProofs` | `MCMatcher` |
| `SwipeLog` | what `updatePreferences` promises (abstract) | | |
| `SwipeTransaction` | `updatePreferences` on Firestore's transactions; implements `SwipeLog` | `SwipeTransactionProofs` | `MCSwipe` |
| `VerificationFlow` | sign-up | `VerificationFlowProofs` | `MCVerification` |
| `TopicSubscription` | personal topics and the pending list | `TopicSubscriptionProofs` | `MCTopics` |
| `ProfileEditor` | the profile screens and the picker | `ProfileEditorProofs` | itself |
| `DurableWrites` | what the write path promises (abstract) | | |
| `WritePipeline` | the write path; implements `DurableWrites` | `WritePipelineProofs` | itself |
| `WatchReads` | the read path | `WatchReadsProofs` | itself |
| `WorkerQueue` | tasks, executors, and the end of a client | `WorkerQueueProofs` | itself |

`SwipeLog` joins the first two components: `GaleShapleyMatcher.Swipe` is an atomic append, and
`SwipeTransaction` shows that the transaction, seen through the collection, is one
(`SwipeLog.Record`). `WritePipeline` and `WatchReads` take for granted what `WorkerQueue` is about:
that operations of the worker queue run one at a time and not after the client is gone. `GaleShapleyMatcher`'s
`Fetch` and `FetchOffline` are the two kinds of answers `WatchReads` gives, and its durable `Save` is a
write of `WritePipeline`.

In every module the definitions whose comment begins with `Mutant` stand before the definition
they alter. They are plausible bugs, used to show that each property can fail, and no action of the
specification uses them.

### GaleShapleyMatcher

A device's run is `Fetch` or `FetchOffline` (lines 64-79), then one action per iteration of
the inner `for` loop, named for the path it takes through the body: `SkipMatched` (82-85),
`SkipExhausted` (87-91), `ProposeToUnmatched` (121-124), `ProposeToMissing` (the `continue` of
line 102), `Displace` (106-115), `Reject` (116-119); then `NextPass` or `LeaveLoop` for the
`while`, and `Save` or `SaveFails`. `Crash` kills the app. Nothing in the loop awaits, so one
iteration is one step, but swipes and other devices interleave with it.

Abstractions: names and other profile fields are left out, as the algorithm reads only ids and
lists. A document's id is its profile's id. No code of the app creates or deletes profile
documents while a run is under way, so their set is a constant. A document that does not
decode makes `runMatching` throw before it changes anything: a stutter. While `pc` is `"save"`
the batch is in Firestore's durable write queue, so killing the app does not lose it.

### SwipeLog and SwipeTransaction

A call is `Begin`, then attempts of the update block (`UpdateBlock`: read, append, send a
commit that carries the version it read), the server's verdict (`ServerCommit`), and
`Succeed`, `Conflict`, `AnswerLost`, `ReadFails` or `PermanentError`. The runner gives up when
`attempts_remaining_` is zero (`transaction_runner.cc:98-106`); the default of five attempts is
set in `core/src/api/firestore.cc:72`, and the model has it as the constant `MaxAttempts`.
Firestore errors met in the update block are retried if they are of a retryable kind, other
errors are permanent (`FIRFirestore.mm:322-351`, `transaction_runner.cc:34-43`). Commits form a
set of messages in flight: they are reordered, lost, and outlive the call and the app
(`LoseCommit`, `Killed`). `requested` and `acked` are history variables for the refinement.

### VerificationFlow

`subs` and `polls` are the submissions and status checks under way; the field `stage` says
which call of the chain is next. Each call has an action for its success and one for its
failure, and a failure may come before or after the server acted: `CreateFails` covers
`emailAlreadyInUse` and both cases. `Reopen` leaves the page and opens it again: completions then reach
a form nobody sees (`live`). `Relaunch` kills the app: the chain stops, Auth keeps its user, and
a queued Firestore write is still sent; a call to Auth that is interrupted by the kill has
either acted before it or never acts. The verdict of the university check is the constant
`Eligible`, any subset of the well-formed addresses.

### TopicSubscription

`calls` are operations that wait for the FCM token, which are served in order; `batches` is
`topicBatches`, `current` the position of `currentBatch`. `AddOperation` is
`addOperationForTopic` whole, with its choice of the current batch (line 175) and its dispatch
of a resume (179-186). `Resume` is the dispatched `resumeOperationsIfNeeded`, and `ScheduleSync`
the one after a network change or a new token; a dispatched resume that finds the token gone
again returns without sending anything (`ResumeWithoutToken`, lines 199-206). `Succeeded`, `GivenUp` and `Interrupted` are the three outcomes of the completion
handler. The archive of the list is written at every change, so one variable stands for both;
`Relaunch` keeps it and forgets the rest, and the server may have served any of the requests
under way.

### ProfileEditor

Both screens share one state, since only one of them is open. `PickPhoto` closes the picker and starts a load, and `Loaded` or `LoadFails`
ends it in any order; a failed load assigns `nil`, which empties the slot. Dismissing a screen
discards its state, and loads that end later change nothing. `Cancel`, `Save` and `Complete`
do the same: the lines where a profile would be saved are comments
(`EditProfileView.swift:148`, `ProfileCreationView.swift:84`). Text fields are left out because
nothing reads them. No screen presents `ProfileCreationView` yet; it is modelled as if one did.

### DurableWrites and WritePipeline

Each action is one operation of the worker queue, one step of the server, or a crash. `remote` is
the `RemoteStore` with its stream and gRPC call; `FillWritePipeline`, `DisableNetworkInternal`,
`EnableNetwork`, `StartStream`, `Close` and so on are functions on it, as one operation calls
several. `mutations` is the disk: rows keyed by user and batch id; `LoadNextBatchId` reads the next
id off them when a queue is opened, so ids are used again. Writes are numbered for the properties
only. A call holds the requests the server has not handled and the responses the client has not
read. `Crash(TRUE)` is the crash between telling a handler and removing its batch.

`DurableWrites` has the writes that are pending and what the server shows: writes are accepted, take effect
in the order of their owner's queue (perhaps again), are refused, are heard of, and leave the
queue only once decided. The refinement reads `pending` off the rows.

Assumed of the server: it never ends a write stream with OK (the code asserts that), it handles
nothing of a call once that is lost, and it closes a call when it refuses a write. A write under
way on a call the server has closed may fail before responses that have arrived are read
(`WriteFails`): these are dropped, the batches sent again. For that reason an error may be given to the
handler of a batch other than the refused one; `HandlersHearTheTruth` claims no more than what holds.
Stream tokens, the Healthy state, delays and the contents of writes are left out.

### WatchReads

`client` is all state the worker queue owns. One operation may broadcast several online states
(stopping a stream and disabling the network does) and each broadcast may raise events, so the
code's functions are operators from `client` records to `client` records. `posted[g]` are the
events on the user's executor, `DeliverEvent` runs one of them: `ListenOnce` mutes its listener,
has it removed, and answers. A target is listened to, and has a count of outstanding responses;
while it is not zero, messages about it are ignored (`IsActiveTarget`). When a stream opens every
listen is sent, in any order (`SendAll`: `listen_targets_` is an unordered map). What a query returns is
the number of the server's state it shows; `since[g]` is that number when the get's listen began.

Assumed of the server: every watch is answered by added or denied, every unwatch by removed, a
snapshot comes only when the state of every watched target was sent, states do not go back, and it never
ends the stream with OK. A refused query (`Denied`) is refused every time.

Three things the model made visible and no property claims:

- `online_state_tracker.cc:47-49` promises a timeout "rather than waiting indefinitely". When the
  last listen ends while the stream is in backoff or starting, `StopListening` sets the state to
  Unknown and cancels the timer; the next get finds the stream started and gets no timer. It is
  answered when gRPC gives up the attempt, as `GetsAnswered` has it, not after ten seconds.
- An error for a target nobody listens to is ignored without counting it as a response
  (`remote_store.cc:369-376`), and one for a target that is listened to again forgets the
  count, which is then negative. With queries that are refused every time this has no effect. One that is
  refused once and then allowed, on the same call, could stay inactive.
- A get that joins a listen which another get has just finished with is shown that listen's
  snapshot, older than the call.

### WorkerQueue

Threads are a caller of the app, the worker, and the thread of the callbacks (`user`). Each
section between two acquisitions of a mutex is a step: `Execute` publishes a task under the executor's
mutex and retains it after unlocking; `Task::ExecuteAndRelease` runs the operation without its
mutex; `Cancel` awaits a running task unless it is called from it. The operations are a piece of
work, the garbage collection timer, `ClearPersistence`, `TerminateAsync`, and `~Firestore`
with `FirestoreClient::Dispose`, on whichever thread drops the last reference to Firestore. That may be the
worker: a listener holds one (`api/query_core.cc:212`) and is destroyed by the work that removes it or with the
`EventManager` (`core/firestore_client.cc:341`, `ResetStores`), and closures hold one (lines 454 and 489) and
are cleared on the worker (`util/task.cc:107`). `DestroysOwners` names these moments. Test-only entry points, `IsIdScheduled`, the index backfiller's
timer and a client that was never configured are left out.

`DestructorEnds` has two exceptions. `ClearHoldsUp`: the operation of `ClearPersistence` locks
`Firestore::mutex_` on the worker (`api/firestore.cc:203`), and `Firestore::Dispose` holds that mutex (line 99)
while it waits for the worker: if `~Firestore` runs with such an operation still queued, both wait
for ever. Without the exception TLC shows this in 18 states with one call. The app does not call
`clearPersistence`.

`WaitsForItself`: when the worker drops the last reference, `FirestoreClient::Dispose` runs on it and
waits (`core/firestore_client.cc:304`) for an operation that the same thread would have to start. TLC
gets there in 11 states, with one call whose work removes the last listener. `firestore_client.h:93`
says "Synchronously destroys this client" with no word on the thread, and `task.h:127` that "Tasks that are destroying the
Executor won't deadlock", which is true of `Task::Cancel` but not of the wait in front of it. The app keeps
Firestore alive through `Firestore.firestore()`, whose instance the SDK caches (`FSTFirestoreComponent.mm:127`), so it does not meet this.

## 3. Runs

Passing:

| Run | Instance | Checks |
|---|---|---|
| `algorithm` | 3 registered ids and 1 without a document, every combination of lists (16^3 initial states), one device | `TypeOK`, `PartnersAreMatched`, `PassedOver`, `UnmatchedHaveNoClaim`, `MatchesOnlyImprove`, `CompleteRunEnds` |
| `evolution` | 3 ids, lists growing by swipes, two devices | `SavedMatchesSwiped`, `UnmatchedHaveNoClaim` |
| `swipe` | 2 devices, one call each, 3 attempts, a registered and an unregistered profile | `TypeOK`, `ImplementsLog`, `CallsReturn` |
| `verification` | 2 devices, 2 submissions, 1 status check per device, 3 addresses | `TypeOK`, `OnlyEligibleJoin`, `OneMailPerAddress`, `CheckingMeansSent`, `VerifiedMeansFollowed` |
| `topics` | 2 users, 5 calls | `TypeOK`, `NoLostWakeup`, `SettledAsAsked` |
| `profile_editor` | 2 slots, 3 picks, 3 steps, 2 interests of which 1 may be selected | `TypeOK`, `ShownWherePicked`, `PhotosStay` |
| `writes` | 2 users, 3 writes, a pipeline of 2, 1 call of `waitForPendingWrites`, 2 troubles | `TypeOK`, `NoHardAssertFails`, `ResponsesMatchPipeline`, `NoneUndone`, `HandlersHearTheTruth`, `WaitersHeldBack`, `Drains`, `ImplementsDurableWrites` |
| `reads` | 2 gets, 2 queries of which 1 is refused, 2 states of the server, 1 trouble | `TypeOK`, `NoHardAssertFails`, `AnsweredOnce`, `AnswersFresh`, `GetsAnswered` |
| `tasks` | 1 caller, 2 calls, 2 timers | `TypeOK`, `RefsMatchOwners`, `ClientOutlivesWork`, `DisposeIsFinal`, `DestructorEnds` |

Why the bounds are enough for the cases to happen:

- `algorithm`: a displacement needs a target and two rivals, and three profiles give each role
  to each position of the loop. The fourth id is the target without a document.
- `evolution`: `MaxPrefs = 1` lets a snapshot be stale and lets two devices save outcomes that
  differ; longer lists are covered by `algorithm` and by the proofs.
- `swipe`: a conflict needs two devices; a retry after a lost answer, whose first commit is
  still on its way, needs two attempts, and a third shows a retry that fails as well.
- `verification`: a race for one address needs two submissions, on one device or on two;
  completions out of order need two addresses that are both eligible. The constraint
  `TwoSubmissions` counts both devices together. Devices are interchangeable (symmetry).
- `topics`: overtaking needs subscribe, unsubscribe, subscribe of one user; five calls leave
  two more for the other user's operations in the same batches.
- `profile_editor`: three picks allow two for one slot and one for the other.
- `writes`: three writes overfill a pipeline of two (`kMaxPendingWrites` is 10) and let one be queued
  behind another user's. A trouble is a lost connection, a call the server closes, missing
  credentials, an unreadable response, a change of user, token or network, or a crash; refusals
  and idle streams are not counted. Two let a retry fail, or a crash follow a reconnect.
- `reads`: a stale response needs two gets of one query and a change of the server's state between
  them. Attempts that fail before the server has said anything are not counted, nor are timeouts and idle
  streams; a trouble is the loss of a connection that worked or a change of network. The safety
  properties were also checked with two troubles (2.0 million states).
- `tasks`: one call may be any operation, the second one races with its end; the timer is
  scheduled, comes due and reschedules itself. Any of the three threads may run the destructor.
  The safety properties were also checked with two callers, and with three calls and one timer.

`swipe`, `writes`, `reads` and `tasks` say `CHECK_DEADLOCK FALSE`: when the bounded number of calls
has been made and answered nothing is left to do. In all other runs deadlock is checked.

Violated, each a disagreement between the code and a line of the repository:

| Run | Claim | What happens |
|---|---|---|
| `stability` | `GaleMatching.swift:12`, "Gale-Shapley Algorithm" | whoever has been proposed to counts as matched and never proposes (line 83): a proposes to d and b to c, then c and d, first on each other's lists, are skipped, and they block the outcome (`NoBlockingPair`); nobody is displaced on the way |
| `livelock` | `GaleMatching.swift:76`, "Continue until all profiles are matched or have exhausted their preferences" | two profiles list an id without a document: the second proposal is repeated for ever (`RunEnds`) |
| `verification_shown` | `VerificationPage.swift:148` and 151, "Verified email from ..." | the field is edited to another eligible address before the one submission completes; the link of the submitted address, a check and a reload later, the page reports success with the university of the address in the field (`ShownAddressIsVerified`) |

`livelock` and `stability` have passing counterparts: `CompleteRunEnds` shows that ids without a
document are the only way a run fails to end, and `PassedOver` that stale entries of displaced
partners are the only entries that are not mutual. Three more known ways to go wrong are the
exceptions of passing properties: `SettledAsAsked` excludes a batch that overtakes an older one (sign in, out and in
again, and the old unsubscription runs last), and `DestructorEnds` excludes `ClearHoldsUp` and `WaitsForItself`.

### Fairness

All fairness is weak.

- `GaleShapleyMatcher.FairSpec`: weak fairness of a device's `LoopStep`. The loop is
  straight-line code on one thread, without `await`: it keeps going unless the app is killed.
  Fetching, saving, swiping and being killed are not fair.
- `SwipeTransaction.FairSpec`: weak fairness of a device's `Attempt`. The client library runs
  its worker queue and notices a broken connection (`AnswerLost`). The server, the network and
  the user promise nothing: commits may stay unanswered for ever.
- `WritePipeline`: credentials arrive or fail, the backoff timer fires, the server handles the requests of an open
  call, and the client reads. Users, networks and crashes promise nothing, but trouble is
  bounded: `Drains` says that the queue is emptied once the trouble ends.
- `WatchReads`: credentials arrive or fail, the backoff timer fires, the user's executor runs, and
  a call makes progress or is given up (`GRPC_ARG_KEEPALIVE_TIME_MS`, `grpc_connection.cc:307`).
  The server need not ever answer, and the ten-second timer need not fire. The last conjunct is
  weak fairness with its ENABLED written out (`CallBusy`), as TLC is slow to evaluate it.
- `WorkerQueue`: each thread goes on unless it waits for a mutex, a task or a signal. Nobody has to call anything.

## 4. Proofs

All theorems hold for every value of the constants that satisfies the named assumptions:
finite queries without duplicates and initial lists over known ids (`DocOrderAssumption`,
`InitPrefsAssumption`), at least one attempt (`AttemptsAssumption`), eligible addresses are
well-formed (`EligibleAssumption`), there is a pipeline and somebody to write
(`PipelineAssumption`), a profile's interests are finitely many and within their limit at the start
(`InterestsAssumption`), callers are not executors (`QueueAssumption`), refused queries are queries
and the server has a first state (`ReadsAssumption`), the bounds are natural
numbers, and `None` is none of the other values.

**GaleShapleyMatcherProofs** (`TypeCorrect`, `PartnersAlwaysMatched`,
`StaleOnlyWhenPassedOver`, `NoClaimLeft`, `SavedMatchesAlwaysSwiped`, `MatchesAlwaysImprove`).
The inductive invariant `IInv` has, per run: dictionaries are closed (`Closed`); entries that are not
returned were lost to someone better (`LostToBetter`); one of the two that an entry joins swiped
on the other (`Backed`); whoever an unmatched profile has proposed to so far turns it down
(`TurnedDown`); and as long as the pass has met no proposer, everybody before the cursor is done.
The last two are what `UnmatchedHaveNoClaim` needs: it speaks of the end of the loop only, and
a rejection made early must stay valid while the target's match changes. It does because entries only
improve and ranking is a strict order (`PrefersTransitive`). For the collection, `DBInv` says that whatever
was read earlier (snapshots and caches) holds nothing the collection lacks, since lists only grow.

**SwipeTransactionProofs** (`TypeCorrect`, `TransactionImplementsLog`). `TypeOK` ties what a waiting device
waits for to the device, its call and its current attempt (`OfAttempt`). `TInv` says of each
commit in flight that if the version it was based on is still current then so is the list
(`CommitInv`), and of each call that an answer `"ok"` means the swipe is recorded (`CallInv`).
Then each step maps to a step of `SwipeLog` or to a stutter: `Begin` to `Request`, an applied
`ServerCommit` to `Record`, `Succeed` to `Acknowledge`.

**VerificationFlowProofs** (`TypeCorrect`, `OnlyEligibleEverJoin`, `OneMailEver`,
`CheckingAlwaysMeansSent`, `VerifiedAlwaysMeansFollowed`). `VInv` adds to the type invariant
what each submission has established at the server by its stage (`SubInv`), that at most one
submission of an address is about to send its mail (`OneSender`), what a status check knows
(`PollInv`), that Auth's user is an account the device created (`UserInv`), and what the server
may hold (`ServerInv`). `OneSender` is why a double submission sends one mail: only the call that
created the account goes on.

**TopicSubscriptionProofs** (`TypeCorrect`, `NeverLosesWakeup`, `SettlesAsAsked`). The type
invariant, which says that requests under way belong to the current batch, and `NoLostWakeup` are
inductive together. `SettledAsAsked` needs `QueuedAsAsked`: as long as no batch was
overtaken the current batch is the first one, and for every topic either the last batch that
names it carries what was last asked, or nothing is pending and the server has it.

**ProfileEditorProofs** (`TypesHold`, `PhotosAppearWherePicked`, `ArrivedPhotosStay`).
`ShownWherePicked` speaks of photos that have arrived; `IInv` adds the same of the images still on
their way (`LoadsGoWherePicked`) and that none of them has arrived already (`ArriveOnce`), which
the action property needs.

**WritePipelineProofs** (`TypesHold`, `AssertionsHold`, `ResponsesMatch`, `NothingUndone`,
`HandlersHear`, `WaitersWait`, `PromiseKept`). The responses of a write stream carry no batch id, so
all depends on positions. `IInv` says of the `RemoteStore` (`RemoteOK`) that

- its pipeline is the front of the current user's rows (`FrontOf`). `fill_pipeline` asks for the
  batch behind the last one it has, which the model defines by counting; that this yields exactly the
  next rows is the lemma `BatchesAfterProps`, from the ranks of the rows;
- an open call carries that pipeline (`Aligned`): first the batches whose responses have not been read,
  then the requests the server has not handled, and while the call is open nothing else;
- the server has applied what the unread responses are for, and refused the batch behind them
  if it closed the call with a permanent error (`AnswersOK`);
- the stream's state, its close count, timers and call agree (`StreamOK`).

Of the queue it says that rows are ordered as their writes, that a user's pending writes are the user's newest
(which is why a batch sent again undoes nothing for good), and that handlers that are kept have
heard nothing. Each action of the module replaces the `RemoteStore` as a whole, so most lemmas are about the operators that
compute it (`FillOK`, `CloseOK`, `RestartOK`, ...), and the steps cite them. For the refinement, `WriteMutations` maps to
`Accept`, the server's steps to `TakeEffect` and `Refuse` (everything ahead of the write at hand has
been answered, `AheadAnswered`), results, permanent errors and a crash while acknowledging to `Settle`
(nothing is ahead of the front, `NothingAheadOfFront`), and everything else to a stutter.

**WorkerQueueProofs** (`TypesHold`, `RefsCountOwners`, `WorkEndsFirst`, `NothingAfterDispose`). `IInv` says

- where a task is: libdispatch has it in one place at most, waiting, queued or running
  (`InOnePlace`), and so have the executor and the loops that cancel (`HeldOnce`). The count is the
  sum of the two (`Counted`);
- that a task that waits or runs is held, but for the callback that takes its own executor down
  (`StatesOK`). This is what makes `DisposeIsFinal` follow from empty hands (`QuietHoldsNothing`);
- that whoever dispatches on the worker owns the queue's mutex, and that under it the mode still
  admits what is dispatched (`MutexOK`);
- that what stops the client was enqueued when the mode was already restricted, so it is behind all
  work in the worker's line, and the only timer that can still start is the one whose handle
  `TerminateInternal` cancels (`StopOK`);
- how far the one thread that takes Firestore down has come (`DisposeOK`), and where the others
  can be (`WhereThreadsAre`). If that thread is the worker, the operation it waits for has not
  signalled, and it never gets to the executors (`WorkerNeverCloses`).

**WatchReadsProofs** (`TypesHold`, `AssertionsHold`, `AnsweredAtMostOnce`, `ServerAnswersFresh`). A
target keeps its id from one listen to the next, so what is still on the call for an earlier listen
looks like an answer to the new one; only the count of outstanding responses tells them apart. `IInv` says

- that for a query the server does not refuse this count is what the call owes: the requests the server
  has not handled and the responses the client has not read (`CountOK`). A refused query's count may be off,
  and none of its answers are the server's;
- that documents on their way are as new as the listen, unless a request or a response behind them is
  about watching the same query (`DownFresh`), and that a target is told to be current right after its
  documents (`CurrentOK`). When the count is zero there is nothing behind, which is why an active
  target that changed is about to show something fresh (`TargetsOK`);
- that a current view is fresh, with the documents received and not yet applied (`SyncedFresh`), and so
  are the events on the user's executor that claim the server as their source (`EventsOK`);
- that an error is the last event of its get, and a get that was answered and is not muted was given one
  (`EventsOK`, `UnmutedOK`). Snapshots mute, so nobody is answered twice;
- that the timer runs only while the online state is unknown and a stream is started, no failure is
  counted while online, and a stream is idle only when nobody listens (`TrackerOK`, `StreamOK`). These are the
  conditions the code asserts.

The operators of the model take a `client` to the next one, and each has a lemma that says what it keeps
(`RaiseOK`, `SetAndBroadcastOK`, `StartWatchStreamOK`, `SendOK`, `SnapshotOK`, ...); one operation of
the worker queue is a composition of them, and its step cites their lemmas in that order.

TLC checked each `IInv` as an invariant before it was proved: that of `WritePipelineProofs` on the instance of
`writes`, that of `WatchReadsProofs` on the instance of `reads`, that of `WorkerQueueProofs` with one caller and three timers (1.7 million states) and with two callers (1.4 million).

Only model-checked: liveness (`CompleteRunEnds`, `CallsReturn`, `Drains`, `GetsAnswered`,
`DestructorEnds`), which is out of the prover's reach, and the violated claims, which are false.

## 5. Not modelled, and why

- `UniversityValidator` beyond its verdict: a pure function on strings that a table of examples
  tests; `VerificationFlow` holds for any verdict.
- Message delivery (`FirebaseMessagingManager.swift` 57-152, 201-223): a list of handlers walked on the main thread, and a
  `sendMessage` that only simulates success; nothing creates the manager. Nothing in it takes two
  actors or several steps to go wrong.
- `FirebaseManager.testConnection` writes and deletes a scratch document nobody reads;
  `updateVerificationStatus` is never called.
- Login, navigation, dashboard, chat, settings, theme: static content and local toggles that
  nothing reads.
- `Pods/`: third-party code, except where the app's guarantees rest on it (Firestore's
  transactions, writes, reads and worker queue, the pending topic updates). Of Firestore, the query engine,
  garbage collection, bundles, encodings and local views of pending writes are left out. It is
  nearly all of the repository's lines, which is why the map covers so small a share of them.
- Two concurrent `runMatching` calls on one matcher object: they would share its dictionaries
  without a lock, but nothing in the repository makes them.

## 6. Plan

Done: the matching engine, swipes with their refinement, sign-up, topics, the profile screens;
Firestore's writes with their refinement, reads, and worker queue; proofs of every safety property
that a run shows to hold, and of both refinements.

What could come next: an abstract specification of reads for `WatchReads` to implement, as
`DurableWrites` is for writes; local writes shown in views, which would join `WatchReads` and
`WritePipeline`; and resume tokens with existence filters, which the app's one-time gets do not use.
