---------------------------- MODULE WorkerQueue ----------------------------
(***************************************************************************)
(* The threads under Firestore: a Task counts its references and deletes   *)
(* itself, an ExecutorLibdispatch shares every Task with libdispatch, an   *)
(* AsyncQueue guards the worker's executor by a mode, and ~Firestore takes *)
(* both executors (the worker's and the one for the app's callbacks) down  *)
(* while other threads still hand over work.                               *)
(*                                                                         *)
(* A thread's step is one critical section, one atomic operation or one    *)
(* wait of the code.  A serial dispatch queue is a thread of its own, with *)
(* the name of its executor.  What operations compute is left out, and so  *)
(* are the test-only entry points and a second timer of the same kind (the *)
(* index backfiller).  schedule_ holds the timers among tasks_: every      *)
(* critical section changes the two together.                              *)
(***************************************************************************)
EXTENDS Naturals, Sequences, FiniteSets

CONSTANTS Callers,    \* threads of the app, of Auth and of gRPC
          MaxCalls,   \* bound: operations they enqueue
          MaxTimers,  \* bound: times the garbage collection is scheduled
          None        \* nobody: the owner of a free mutex

Executors == {"worker", "user"}
Threads == Callers \union Executors

ASSUME QueueAssumption ==
    /\ None \notin Threads
    /\ Callers \intersect Executors = {}
    /\ MaxCalls \in Nat /\ MaxTimers \in Nat \ {0}

VARIABLES
    mode,            \* AsyncQueue::mode_
    queueMutex,      \* AsyncQueue::mutex_
    firestoreMutex,  \* Firestore::mutex_
    task,            \* every Task ever created
    tasks,           \* Executor: tasks_
    disposed,        \* Executor: disposed_
    line,            \* libdispatch: the serial queue of an executor
    delayed,         \* libdispatch: what dispatch_after holds back
    at,              \* where each thread is
    lruCallback,     \* the handle of the scheduled garbage collection
    terminated,      \* the client's stores have been reset
    signalled,       \* signal_disposing
    dropped,         \* the last reference to Firestore is gone
    calls            \* bound: calls made

client == <<lruCallback, terminated, signalled, dropped>>
vars == <<mode, queueMutex, firestoreMutex, task, tasks, disposed, line, delayed,
          at, client, calls>>

-----------------------------------------------------------------------------
\* What a task does: an operation of the client, ClearPersistence's, the ones
\* that TerminateAsync and Dispose enqueue, the garbage collection's timer and
\* the app's callback.
Ops == {"work", "clear", "terminate", "dispose", "timer", "callback"}

ExecutorOf(op) == IF op = "callback" THEN "user" ELSE "worker"

Idle == [pc |-> "idle", op |-> "work", cur |-> 0, new |-> 0, ex |-> "worker",
         batch |-> {}]

\* Mutant: the executor's own reference is not counted.
NewTaskUncounted(op) == [op |-> op, state |-> "Initial", refs |-> 0, linked |-> TRUE]

NewTask(op) == [op |-> op, state |-> "Initial", refs |-> 1, linked |-> TRUE]

OpOf(i) == task[i].op

\* The call is over: a caller is free again, an operation has returned.
Return(t) == IF t \in Executors THEN [Idle EXCEPT !.pc = "finish", !.cur = at[t].cur]
             ELSE Idle

\* Where a thread goes on after handing over a task, or failing to.
Back(t, enqueued) ==
    IF at[t].op = "dispose"
    THEN [at[t] EXCEPT !.pc = IF enqueued THEN "wait" ELSE "close", !.new = 0]
    ELSE Return(t)

\* A task's mutex is held from the end of its operation until its executor
\* has been told.
Locked(i) == \E e \in Executors : at[e].pc = "complete" /\ at[e].cur = i

-----------------------------------------------------------------------------
\* FirestoreClient::Initialize has scheduled the first garbage collection.
Init ==
    /\ mode = "Running"
    /\ queueMutex = None /\ firestoreMutex = None
    /\ task = <<[NewTask("timer") EXCEPT !.refs = 2]>>
    /\ tasks = [e \in Executors |-> IF e = "worker" THEN {1} ELSE {}]
    /\ disposed = [e \in Executors |-> FALSE]
    /\ line = [e \in Executors |-> <<>>]
    /\ delayed = {1}
    /\ at = [t \in Threads |-> Idle]
    /\ lruCallback = 1
    /\ terminated = FALSE /\ signalled = FALSE /\ dropped = FALSE
    /\ calls = 0

-----------------------------------------------------------------------------
(* Handing over a task: AsyncQueue::Enqueue and its variants, and          *)
(* Executor::Execute, which the client calls directly for callbacks.       *)

\* A caller is free, and so is a callback of the app that has just started.
Free(t) ==
    \/ t \in Callers /\ at[t].pc = "idle"
    \/ t = "user" /\ at[t].pc = "run"

\* A call of the client by the app or by a listener.
Call(t) ==
    /\ Free(t)
    /\ calls < MaxCalls
    /\ calls' = calls + 1
    /\ at' = [at EXCEPT ![t].pc = "enqueue", ![t].op = "work"]
    /\ UNCHANGED <<mode, queueMutex, firestoreMutex, task, tasks, disposed, line,
                   delayed, client>>

\* Firestore::ClearPersistence
ClearPersistence(t) ==
    /\ Free(t) /\ ~dropped
    /\ calls < MaxCalls
    /\ calls' = calls + 1
    /\ at' = [at EXCEPT ![t].pc = "enqueue", ![t].op = "clear"]
    /\ UNCHANGED <<mode, queueMutex, firestoreMutex, task, tasks, disposed, line,
                   delayed, client>>

\* AsyncQueue::EnterRestrictedMode
EnterRestrictedMode ==
    /\ queueMutex = None
    /\ mode' = IF mode = "Disposed" THEN mode ELSE "Restricted"

\* FirestoreClient::TerminateAsync
TerminateAsync(t) ==
    /\ Free(t) /\ ~dropped
    /\ calls < MaxCalls
    /\ calls' = calls + 1
    /\ EnterRestrictedMode
    /\ at' = [at EXCEPT ![t].pc = "enqueue", ![t].op = "terminate"]
    /\ UNCHANGED <<queueMutex, firestoreMutex, task, tasks, disposed, line,
                   delayed, client>>

\* Mutant: only Dispose closes the queue.
AdmitsUntilDisposed(op) == mode # "Disposed"

Admits(op) ==
    \/ mode = "Running"
    \/ mode = "Restricted" /\ op \in {"clear", "terminate", "dispose"}

\* Mutant: the mutex is released once the mode is known.
EnqueueUnlocked(t) ==
    /\ at[t].pc = "enqueue"
    /\ queueMutex = None
    /\ at' = [at EXCEPT ![t] = IF Admits(at[t].op) THEN [@ EXCEPT !.pc = "insert"]
                               ELSE Back(t, FALSE)]
    /\ UNCHANGED <<mode, queueMutex, firestoreMutex, task, tasks, disposed, line,
                   delayed, client, calls>>

\* EnqueueRelaxed, EnqueueEvenWhileRestricted, EnqueueAfterDelay: the mode is
\* checked under the mutex, which is kept until the task is dispatched.
Enqueue(t) ==
    /\ at[t].pc = "enqueue"
    /\ queueMutex = None
    /\ IF Admits(at[t].op)
       THEN queueMutex' = t /\ at' = [at EXCEPT ![t].pc = "insert"]
       ELSE UNCHANGED queueMutex /\ at' = [at EXCEPT ![t] = Back(t, FALSE)]
    /\ UNCHANGED <<mode, firestoreMutex, task, tasks, disposed, line, delayed,
                   client, calls>>

Unlock(mutex, t) == IF mutex = t THEN None ELSE mutex

\* Execute and Schedule up to the end of their critical section.
Insert(t) ==
    LET e == ExecutorOf(at[t].op)
        n == Len(task) + 1
    IN  /\ at[t].pc = "insert"
        /\ IF disposed[e]
           THEN /\ at' = [at EXCEPT ![t] = Back(t, TRUE)]
                /\ queueMutex' = Unlock(queueMutex, t)
                /\ UNCHANGED <<task, tasks>>
           ELSE /\ task' = Append(task, NewTask(at[t].op))
                /\ tasks' = [tasks EXCEPT ![e] = @ \union {n}]
                /\ at' = [at EXCEPT ![t].pc = "retain", ![t].new = n]
                /\ UNCHANGED queueMutex
        /\ UNCHANGED <<mode, firestoreMutex, disposed, line, delayed, client, calls>>

\* Retain, for libdispatch's ownership, and the dispatch.
Retain(t) ==
    LET n == at[t].new
        e == ExecutorOf(OpOf(n))
    IN  /\ at[t].pc = "retain"
        /\ task' = [task EXCEPT ![n].refs = @ + 1]
        /\ IF OpOf(n) = "timer"
           THEN delayed' = delayed \union {n} /\ lruCallback' = n /\ UNCHANGED line
           ELSE line' = [line EXCEPT ![e] = Append(@, n)] /\ UNCHANGED <<delayed, lruCallback>>
        /\ queueMutex' = Unlock(queueMutex, t)
        /\ at' = [at EXCEPT ![t] = Back(t, TRUE)]
        /\ UNCHANGED <<mode, firestoreMutex, tasks, disposed, terminated,
                       signalled, dropped, calls>>

\* libdispatch: a delayed task is due.
Due(i) ==
    /\ i \in delayed
    /\ delayed' = delayed \ {i}
    /\ line' = [line EXCEPT !["worker"] = Append(@, i)]
    /\ UNCHANGED <<mode, queueMutex, firestoreMutex, task, tasks, disposed, at,
                   client, calls>>

-----------------------------------------------------------------------------
(* Task::ExecuteAndRelease on the thread of executor e.                    *)

\* The task starts, unless it was cancelled.
Take(e) ==
    LET i == Head(line[e])
        runs == task[i].state = "Initial"
    IN  /\ at[e].pc = "idle" /\ line[e] # <<>>
        /\ line' = [line EXCEPT ![e] = Tail(@)]
        /\ task' = IF runs THEN [task EXCEPT ![i].state = "Running"] ELSE task
        /\ at' = [at EXCEPT ![e].pc = IF runs THEN "run" ELSE "release", ![e].cur = i]
        /\ UNCHANGED <<mode, queueMutex, firestoreMutex, tasks, disposed, delayed,
                       client, calls>>

Running(e, ops) == at[e].pc = "run" /\ OpOf(at[e].cur) \in ops

\* An operation of the client answers the app; a callback that does nothing
\* of interest returns.
RunWork ==
    /\ Running("worker", {"work"})
    /\ at' = [at EXCEPT !["worker"].pc = "insert", !["worker"].op = "callback"]
    /\ UNCHANGED <<mode, queueMutex, firestoreMutex, task, tasks, disposed, line,
                   delayed, client, calls>>

RunCallback ==
    /\ Running("user", {"callback"})
    /\ at' = [at EXCEPT !["user"].pc = "finish"]
    /\ UNCHANGED <<mode, queueMutex, firestoreMutex, task, tasks, disposed, line,
                   delayed, client, calls>>

\* ClearPersistence's operation needs Firestore::mutex_, and keeps it while it
\* reports that the client still runs.
RunClear ==
    /\ Running("worker", {"clear"})
    /\ firestoreMutex = None /\ queueMutex = None
    /\ firestoreMutex' = IF mode = "Running" THEN "worker" ELSE None
    /\ at' = [at EXCEPT !["worker"].pc = "insert", !["worker"].op = "callback"]
    /\ UNCHANGED <<mode, queueMutex, task, tasks, disposed, line, delayed, client, calls>>

\* The garbage collection schedules itself again.
RunTimer ==
    /\ Running("worker", {"timer"})
    /\ at' = IF Cardinality({i \in DOMAIN task : OpOf(i) = "timer"}) < MaxTimers
             THEN [at EXCEPT !["worker"].pc = "enqueue", !["worker"].op = "timer"]
             ELSE [at EXCEPT !["worker"].pc = "finish"]
    /\ UNCHANGED <<mode, queueMutex, firestoreMutex, task, tasks, disposed, line,
                   delayed, client, calls>>

\* Where TerminateInternal returns to: only TerminateAsync has a callback.
Terminated(worker) ==
    IF OpOf(worker.cur) = "dispose" THEN Return("worker")
    ELSE [worker EXCEPT !.pc = "insert", !.op = "callback"]

\* Mutant: the wrong operation gives the signal.
SignalsTermination(i) == OpOf(i) = "terminate"

\* The operation FirestoreClient::Dispose waits for says that it has started.
Signals(i) == OpOf(i) = "dispose"

\* TerminateInternal: at first only the handle of the timer is cancelled,
\* ExecutorLibdispatch::Cancel up to the end of its critical section.
RunTerminate ==
    LET found == tasks["worker"] \intersect {lruCallback}
    IN  /\ Running("worker", {"terminate", "dispose"})
        /\ signalled' = (signalled \/ Signals(at["worker"].cur))
        /\ IF terminated
           THEN at' = [at EXCEPT !["worker"] = Terminated(@)] /\ UNCHANGED tasks
           ELSE /\ at' = [at EXCEPT !["worker"].pc = "cancelTimer", !["worker"].batch = found]
                /\ tasks' = [tasks EXCEPT !["worker"] = @ \ found]
        /\ UNCHANGED <<mode, queueMutex, firestoreMutex, task, disposed, line,
                       delayed, lruCallback, terminated, dropped, calls>>

\* Task::Cancel of a task that waits, and the release of it.
Cancelled(x) == [x EXCEPT !.state = IF @ = "Initial" THEN "Cancelled" ELSE @,
                          !.linked = @ /\ x.state = "Done", !.refs = @ - 1]

\* The timer found is cancelled and released.
CancelTimer ==
    /\ at["worker"].pc = "cancelTimer"
    /\ task' = [i \in DOMAIN task |->
                   IF i \in at["worker"].batch THEN Cancelled(task[i]) ELSE task[i]]
    /\ at' = [at EXCEPT !["worker"].pc = "reset", !["worker"].batch = {}]
    /\ UNCHANGED <<mode, queueMutex, firestoreMutex, tasks, disposed, line,
                   delayed, client, calls>>

\* The rest of TerminateInternal: the stores are reset, and the listeners the
\* EventManager still has are destroyed.
ResetStores ==
    /\ at["worker"].pc = "reset"
    /\ terminated' = TRUE
    /\ at' = [at EXCEPT !["worker"] = Terminated(@)]
    /\ UNCHANGED <<mode, queueMutex, firestoreMutex, task, tasks, disposed, line,
                   delayed, lruCallback, signalled, dropped, calls>>

\* The operation has returned: the task is done and, under its mutex, asks
\* whether it still has an executor to tell.
Finish(e) ==
    LET i == at[e].cur
    IN  /\ at[e].pc = "finish"
        /\ task' = [task EXCEPT ![i].state = "Done"]
        /\ at' = [at EXCEPT ![e].pc = "complete"]
        /\ firestoreMutex' = Unlock(firestoreMutex, e)
        /\ UNCHANGED <<mode, queueMutex, tasks, disposed, line, delayed, client, calls>>

\* OnCompletion, if it has; the mutex is released.
Complete(e) ==
    LET i == at[e].cur
        found == task[i].linked /\ i \in tasks[e]
    IN  /\ at[e].pc = "complete"
        /\ tasks' = IF found THEN [tasks EXCEPT ![e] = @ \ {i}] ELSE tasks
        /\ task' = IF found THEN [task EXCEPT ![i].refs = @ - 1] ELSE task
        /\ at' = [at EXCEPT ![e].pc = "release"]
        /\ UNCHANGED <<mode, queueMutex, firestoreMutex, disposed, line, delayed,
                       client, calls>>

\* Libdispatch's reference is released.
Release(e) ==
    /\ at[e].pc = "release"
    /\ task' = [task EXCEPT ![at[e].cur].refs = @ - 1]
    /\ at' = [at EXCEPT ![e] = Idle]
    /\ UNCHANGED <<mode, queueMutex, firestoreMutex, tasks, disposed, line, delayed,
                   client, calls>>

-----------------------------------------------------------------------------
(* ~Firestore: Firestore::Dispose, FirestoreClient::Dispose,               *)
(* AsyncQueue::Dispose and ExecutorLibdispatch::Dispose, on the thread     *)
(* that drops the last reference, possibly within a callback or on the     *)
(* worker.                                                                 *)

\* What owns a reference to Firestore and is destroyed on the worker: the
\* listener that a piece of work removes, the listeners of the EventManager,
\* and what the closure of an operation holds (a document, a query, the app's
\* callback) when it is cleared after the operation has returned.  The closure
\* of the timer holds the client alone.
DestroysOwners ==
    \/ Running("worker", {"work"})
    \/ at["worker"].pc = "reset"
    \/ at["worker"].pc = "finish" /\ OpOf(at["worker"].cur) \in {"work", "clear", "terminate"}

\* A closure is cleared when the locks of its operation are released.
DropLast(t) ==
    /\ Free(t) \/ (t = "worker" /\ DestroysOwners)
    /\ ~dropped
    /\ \A x \in Threads \ {t} :
           ~(at[x].pc \in {"enqueue", "insert", "retain"} /\ at[x].op \in {"clear", "terminate"})
    /\ dropped' = TRUE
    /\ at' = [at EXCEPT ![t].pc = "destroy"]
    /\ firestoreMutex' = Unlock(firestoreMutex, t)
    /\ UNCHANGED <<mode, queueMutex, task, tasks, disposed, line, delayed,
                   lruCallback, terminated, signalled, calls>>

Destroy(t) ==
    /\ at[t].pc = "destroy"
    /\ firestoreMutex = None
    /\ firestoreMutex' = t
    /\ EnterRestrictedMode
    /\ at' = [at EXCEPT ![t].pc = "enqueue", ![t].op = "dispose"]
    /\ UNCHANGED <<queueMutex, task, tasks, disposed, line, delayed, client, calls>>

\* The client's operation has started.
Wait(t) ==
    /\ at[t].pc = "wait" /\ signalled
    /\ at' = [at EXCEPT ![t].pc = "close"]
    /\ UNCHANGED <<mode, queueMutex, firestoreMutex, task, tasks, disposed, line,
                   delayed, client, calls>>

Close(t) ==
    /\ at[t].pc = "close"
    /\ queueMutex = None
    /\ mode' = "Disposed"
    /\ at' = [at EXCEPT ![t].pc = "swap", ![t].ex = "worker"]
    /\ UNCHANGED <<queueMutex, firestoreMutex, task, tasks, disposed, line,
                   delayed, client, calls>>

\* tasks_ moves into local_tasks.
Swap(t) ==
    LET e == at[t].ex
    IN  /\ at[t].pc = "swap"
        /\ disposed' = [disposed EXCEPT ![e] = TRUE]
        /\ at' = [at EXCEPT ![t].pc = "cancel", ![t].batch = tasks[e]]
        /\ tasks' = [tasks EXCEPT ![e] = {}]
        /\ UNCHANGED <<mode, queueMutex, firestoreMutex, task, line, delayed,
                       client, calls>>

\* Mutant: nobody is awaited.
NeverAwait(t, i) == FALSE

\* A running task is cut off from its executor, and awaited unless it is the
\* one that does this.
MustAwait(t, i) == task[i].state = "Running" /\ at[t].cur # i

Cancel(t, i) ==
    /\ at[t].pc = "cancel" /\ i \in at[t].batch
    /\ ~Locked(i)
    /\ IF MustAwait(t, i)
       THEN /\ task' = [task EXCEPT ![i].linked = FALSE]
            /\ at' = [at EXCEPT ![t].pc = "await", ![t].new = i]
       ELSE /\ task' = [task EXCEPT ![i] = Cancelled(@)]
            /\ at' = [at EXCEPT ![t].batch = @ \ {i}]
    /\ UNCHANGED <<mode, queueMutex, firestoreMutex, tasks, disposed, line,
                   delayed, client, calls>>

Await(t) ==
    LET i == at[t].new
    IN  /\ at[t].pc = "await"
        /\ task[i].state = "Done" /\ ~Locked(i)
        /\ task' = [task EXCEPT ![i].refs = @ - 1]
        /\ at' = [at EXCEPT ![t].pc = "cancel", ![t].batch = @ \ {i}, ![t].new = 0]
        /\ UNCHANGED <<mode, queueMutex, firestoreMutex, tasks, disposed, line,
                       delayed, client, calls>>

\* The worker's executor first, then the one for callbacks.
Cleared(t) ==
    /\ at[t].pc = "cancel" /\ at[t].batch = {}
    /\ IF at[t].ex = "worker"
       THEN /\ at' = [at EXCEPT ![t].pc = "swap", ![t].ex = "user"]
            /\ UNCHANGED firestoreMutex
       ELSE /\ at' = [at EXCEPT ![t] = Return(t)]
            /\ firestoreMutex' = None
    /\ UNCHANGED <<mode, queueMutex, task, tasks, disposed, line, delayed, client, calls>>

-----------------------------------------------------------------------------
Handing(t) == Enqueue(t) \/ Insert(t) \/ Retain(t)

Executing(e) == Take(e) \/ Finish(e) \/ Complete(e) \/ Release(e)

Body == RunWork \/ RunCallback \/ RunClear \/ RunTimer \/ RunTerminate
        \/ CancelTimer \/ ResetStores

Disposing(t) ==
    \/ Destroy(t) \/ Wait(t) \/ Close(t) \/ Swap(t)
    \/ \E i \in at[t].batch : Cancel(t, i)
    \/ Await(t) \/ Cleared(t)

Next ==
    \/ \E t \in Threads : Call(t) \/ ClearPersistence(t) \/ TerminateAsync(t) \/ DropLast(t)
    \/ \E t \in Threads : Handing(t) \/ Disposing(t)
    \/ \E e \in Executors : Executing(e)
    \/ Body
    \/ \E i \in delayed : Due(i)

\* Every thread that can take a step is scheduled; nobody has to call.
Fairness ==
    /\ \A t \in Threads : WF_vars(Handing(t)) /\ WF_vars(Disposing(t))
    /\ \A e \in Executors : WF_vars(Executing(e))
    /\ WF_vars(Body)

Spec == Init /\ [][Next]_vars /\ Fairness

-----------------------------------------------------------------------------
Places == {"idle", "enqueue", "insert", "retain", "run", "cancelTimer", "reset",
           "finish", "complete", "release", "destroy", "wait", "close", "swap", "cancel", "await"}

\* The type of the state; the handle of the timer names a timer, and executors
\* hold and run only tasks of their own.
TypeOK ==
    /\ mode \in {"Running", "Restricted", "Disposed"}
    /\ {queueMutex, firestoreMutex} \subseteq Threads \union {None}
    /\ task \in Seq([op : Ops, state : {"Initial", "Cancelled", "Running", "Done"},
                     refs : Nat, linked : BOOLEAN])
    /\ \A e \in Executors :
           /\ tasks[e] \subseteq DOMAIN task
           /\ \A i \in tasks[e] : ExecutorOf(OpOf(i)) = e
           /\ \A k \in DOMAIN line[e] : ExecutorOf(OpOf(line[e][k])) = e
           /\ disposed[e] \in BOOLEAN
    /\ \A i \in delayed \union {lruCallback} : OpOf(i) = "timer"
    /\ at \in [Threads -> [pc : Places, op : Ops, cur : 0 .. Len(task), new : 0 .. Len(task),
                           ex : Executors, batch : SUBSET DOMAIN task]]
    /\ {terminated, signalled, dropped} \subseteq BOOLEAN
    /\ calls \in 0 .. MaxCalls

\* The references of a task: its executor's, libdispatch's until the thread
\* has released it, and those of the loops that cancel.
InLine(i) == \E e \in Executors : \E k \in DOMAIN line[e] : line[e][k] = i

Owners(i) ==
    Cardinality({e \in Executors : i \in tasks[e]})
    + Cardinality({t \in Threads : i \in at[t].batch})
    + IF i \in delayed \/ InLine(i) \/ \E e \in Executors : at[e].cur = i THEN 1 ELSE 0

\* No task is deleted while something can still reach it, and none is leaked:
\* the reference count is at every moment the number of owners, and a thread
\* about to retain a task finds it alive.
RefsMatchOwners ==
    /\ \A i \in DOMAIN task : task[i].refs = Owners(i)
    /\ \A t \in Threads : at[t].pc = "retain" => task[at[t].new].refs > 0

\* Nothing of the client runs once its stores are reset, whoever enqueued or
\* scheduled it and whenever its timer came due.
ClientOutlivesWork ==
    at["worker"].pc = "run" /\ terminated => OpOf(at["worker"].cur) \notin {"work", "timer"}

\* Executor e has been disposed of: the loop over its tasks has ended.
Quiet(e) == disposed[e] /\ \A t \in Threads : at[t].pc \in {"cancel", "await"} => at[t].ex # e

\* When Dispose has returned, no task of the executor runs or ever will, other
\* than the one that called it, and none will call the executor back.
DisposeIsFinal ==
    \A e \in Executors : Quiet(e) =>
        /\ \A i \in DOMAIN task : ExecutorOf(OpOf(i)) = e =>
               \/ task[i].state \in {"Cancelled", "Done"}
               \/ i = at["user"].cur /\ e = "user" /\ ~task[i].linked
        /\ at[e].pc = "complete" => ~task[at[e].cur].linked

Destroying == \E t \in Threads : at[t].pc = "destroy" \/ at[t].op = "dispose"

\* The worker's next operation is ClearPersistence's, and the thread that
\* waits for the worker has its mutex.
ClearHoldsUp == Running("worker", {"clear"}) /\ firestoreMutex # None

\* The destructor runs on the worker, and waits for an operation that is queued
\* behind the one it runs in.
WaitsForItself == at["worker"].pc = "wait"

\* The destructor returns, also when it runs on the thread of the callbacks,
\* unless an operation of ClearPersistence holds it up or the worker itself
\* dropped the last reference.
DestructorEnds == Destroying ~> (~Destroying \/ ClearHoldsUp \/ WaitsForItself)
=============================================================================
