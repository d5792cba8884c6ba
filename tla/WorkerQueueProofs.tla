------------------------- MODULE WorkerQueueProofs -------------------------
(***************************************************************************)
(* Theorems about WorkerQueue, for any threads and any number of calls and *)
(* timers.                                                                 *)
(*                                                                         *)
(* The inductive invariant has four ideas.  Libdispatch has a task in one  *)
(* place, and so have the executor and the loops that cancel: the count is *)
(* the sum of the two (InOnePlace, HeldOnce, Counted).  A task that waits  *)
(* or runs is held by one of them, but for the callback that takes its own *)
(* executor down (StatesOK).  Whoever dispatches on the worker has the     *)
(* queue's mutex, and under it the mode does not change (MutexOK).  What   *)
(* stops the client was enqueued under a restricted mode and is therefore  *)
(* behind all work, and the only timer that can still fire is the one      *)
(* whose handle TerminateInternal cancels (StopOK).  DisposeOK follows the *)
(* one thread that takes Firestore down through the two executors; if that *)
(* is the worker, nothing signals it and it reaches neither of them.       *)
(***************************************************************************)
EXTENDS WorkerQueue, FiniteSetTheorems, TLAPS

-----------------------------------------------------------------------------
(* The inductive invariant.                                                *)

States == {"Initial", "Cancelled", "Running", "Done"}
TaskRecords == [op : Ops, state : States, refs : Nat, linked : BOOLEAN]
ThreadRecords(n) == [pc : Places, op : Ops, cur : 0 .. n, new : 0 .. n, ex : Executors,
               batch : SUBSET (1 .. n)]

Exec(i) == ExecutorOf(OpOf(i))
Stops == {"terminate", "dispose"}
HandingOver == {"enqueue", "insert", "retain"}
Looping == {"cancel", "await"}

\* A thread that is taking Firestore down.
Destroyer(t) == at[t].pc = "destroy" \/ at[t].op = "dispose"

\* The places of a thread that is inside an operation.
Inside == Places \ {"idle", "complete", "release"}

StateOK ==
    /\ mode \in {"Running", "Restricted", "Disposed"}
    /\ queueMutex \in Threads \union {None} /\ firestoreMutex \in Threads \union {None}
    /\ task \in Seq(TaskRecords)
    /\ tasks \in [Executors -> SUBSET DOMAIN task]
    /\ disposed \in [Executors -> BOOLEAN]
    /\ line \in [Executors -> Seq(DOMAIN task)]
    /\ delayed \subseteq DOMAIN task /\ lruCallback \in DOMAIN task
    /\ at \in [Threads -> ThreadRecords(Len(task))]
    /\ terminated \in BOOLEAN /\ signalled \in BOOLEAN /\ dropped \in BOOLEAN
    /\ calls \in 0 .. MaxCalls

\* Executors hold and run tasks of their own.
OwnTasks ==
    /\ \A e \in Executors : \A i \in tasks[e] : Exec(i) = e /\ task[i].linked
    /\ \A e \in Executors : \A k \in DOMAIN line[e] : Exec(line[e][k]) = e
    /\ \A e \in Executors : at[e].cur # 0 => Exec(at[e].cur) = e
    /\ \A i \in delayed \union {lruCallback} : OpOf(i) = "timer"
    /\ \A t \in Threads : at[t].pc = "retain" =>
           /\ at[t].new # 0 /\ OpOf(at[t].new) = at[t].op
           /\ at[t].new \in tasks[ExecutorOf(at[t].op)]

\* Where the threads can be.
WhereThreadsAre ==
    /\ \A t \in Threads :
           /\ at[t].pc \in {"wait", "close", "swap", "cancel", "await"} => at[t].op = "dispose"
           /\ at[t].op = "dispose" =>
                  at[t].pc \in HandingOver \union {"wait", "close", "swap", "cancel", "await"}
           /\ at[t].batch # {} => at[t].pc \in Looping \union {"cancelTimer"}
    /\ \A t \in Callers :
           /\ at[t].cur = 0 /\ at[t].op \notin {"callback", "timer"}
           /\ at[t].pc \notin {"run", "cancelTimer", "reset", "finish", "complete", "release"}
    /\ at["user"].pc \notin {"cancelTimer", "reset"} /\ at["user"].op \notin {"callback", "timer"}
    /\ at["worker"].pc \in {"idle", "enqueue", "insert", "retain", "run", "cancelTimer", "reset",
                            "finish", "complete", "release", "destroy", "wait"}
    /\ at["worker"].pc = "enqueue" => at["worker"].op \in {"timer", "dispose"}
    /\ at["worker"].pc \in {"insert", "retain"} => at["worker"].op \in {"callback", "timer", "dispose"}
    /\ \A e \in Executors : at[e].cur = 0 <=> at[e].pc = "idle"

\* Libdispatch has a task in one place at most.
InOnePlace ==
    /\ \A i \in delayed : ~InLine(i) /\ \A e \in Executors : at[e].cur # i
    /\ \A e \in Executors : \A k, l \in DOMAIN line[e] : line[e][k] = line[e][l] => k = l
    /\ \A e, f \in Executors : \A k \in DOMAIN line[e] : line[e][k] # at[f].cur
    /\ \A t \in Threads : at[t].pc = "retain" =>
           /\ at[t].new \notin delayed /\ ~InLine(at[t].new)
           /\ \A e \in Executors : at[e].cur # at[t].new
           /\ \A s \in Threads : at[s].pc = "retain" /\ at[s].new = at[t].new => s = t

\* So have the executor and the loops that cancel.
HeldOnce ==
    /\ \A t \in Threads : \A i \in at[t].batch :
           /\ \A e \in Executors : i \notin tasks[e]
           /\ \A s \in Threads : i \in at[s].batch => s = t
           /\ at[t].pc \in Looping => Exec(i) = at[t].ex
           /\ at[t].pc = "cancelTimer" => OpOf(i) = "timer"
    /\ \A t \in Threads : at[t].pc = "await" => at[t].new \in at[t].batch

Held(i) == (\E e \in Executors : i \in tasks[e]) \/ (\E t \in Threads : i \in at[t].batch)
Dispatched(i) == i \in delayed \/ InLine(i) \/ \E e \in Executors : at[e].cur = i

Counted ==
    \A i \in DOMAIN task :
        task[i].refs = (IF Held(i) THEN 1 ELSE 0) + (IF Dispatched(i) THEN 1 ELSE 0)

\* The states of tasks and the places of the threads that run them.
StatesOK ==
    /\ \A e \in Executors :
           /\ at[e].pc \in Inside => task[at[e].cur].state = "Running"
           /\ at[e].pc = "complete" =>
                  /\ task[at[e].cur].state = "Done"
                  /\ task[at[e].cur].linked => Held(at[e].cur)
           /\ at[e].pc = "release" => task[at[e].cur].state \in {"Done", "Cancelled"}
    /\ \A i \in DOMAIN task :
           /\ task[i].state = "Running" =>
                  /\ at[Exec(i)].cur = i /\ at[Exec(i)].pc \in Inside
                  /\ Held(i) \/ (Exec(i) = "user" /\ ~task[i].linked /\ disposed["user"])
           /\ task[i].state = "Initial" =>
                  /\ Held(i)
                  /\ \/ i \in delayed \/ InLine(i)
                     \/ \E t \in Threads : at[t].pc = "retain" /\ at[t].new = i

\* The mutex of the queue.
MutexOK ==
    /\ \A t \in Threads :
           queueMutex = t <=> at[t].pc \in {"insert", "retain"} /\ at[t].op # "callback"
    /\ \A t \in Threads : at[t].pc \in {"insert", "retain"} /\ at[t].op # "callback" =>
           /\ mode # "Disposed"
           /\ at[t].op \in {"work", "timer"} => mode = "Running"

\* Taking Firestore down.
DisposeOK ==
    /\ \A t, s \in Threads : Destroyer(t) /\ Destroyer(s) => t = s
    /\ \A t \in Threads : Destroyer(t) => dropped
    /\ \A t \in Threads : at[t].op = "dispose" => mode # "Running"
    /\ \A t \in Threads : at[t].pc \in {"swap", "cancel", "await"} => mode = "Disposed"
    /\ \A t \in Threads : Destroyer(t) /\ mode = "Disposed" =>
           at[t].pc \in {"swap", "cancel", "await"}
    /\ mode = "Disposed" => dropped
    /\ \A t \in Threads : at[t].pc \in {"close", "swap", "cancel", "await"} => signalled
    /\ \A t \in Threads : at[t].pc \in Looping => disposed[at[t].ex]
    /\ \A t \in Threads : at[t].pc \in {"swap", "cancel", "await"} /\ at[t].ex = "user" =>
           Quiet("worker")
    /\ \A e \in Executors : disposed[e] => tasks[e] = {} /\ mode = "Disposed" /\ signalled
    /\ disposed["user"] => Quiet("worker")
    /\ \A t \in Threads : at[t].pc = "swap" /\ at[t].ex = "worker" => ~disposed["worker"]
    /\ signalled => dropped
    /\ Destroyer("worker") => ~signalled

Ending == terminated \/ at["worker"].pc \in {"cancelTimer", "reset"}

\* What stops the client comes behind its work.
StopOK ==
    /\ \A j \in DOMAIN task : OpOf(j) \in Stops => mode # "Running"
    /\ \A j \in DOMAIN task : OpOf(j) = "dispose" => dropped
    /\ \A t \in Threads : at[t].pc \in HandingOver /\ at[t].op \in Stops => mode # "Running"
    /\ \A k, l \in DOMAIN line["worker"] :
           OpOf(line["worker"][k]) \in Stops /\ OpOf(line["worker"][l]) = "work" => l < k
    /\ at["worker"].pc = "run" /\ OpOf(at["worker"].cur) \in Stops =>
           \A i \in DOMAIN task : OpOf(i) = "work" => task[i].state # "Initial"
    /\ at["worker"].pc \in {"cancelTimer", "reset"} => OpOf(at["worker"].cur) \in Stops
    /\ Ending =>
           /\ mode # "Running"
           /\ \A i \in DOMAIN task : OpOf(i) \in {"work", "timer"} /\ task[i].state = "Initial" =>
                  at["worker"].pc = "cancelTimer" /\ i \in at["worker"].batch
    /\ \A i \in DOMAIN task : OpOf(i) = "timer" /\ task[i].state = "Initial" =>
           i = lruCallback \/ (at["worker"].pc = "retain" /\ at["worker"].new = i)
    /\ at["worker"].op = "timer" =>
           OpOf(at["worker"].cur) = "timer" /\ at["worker"].cur = lruCallback
    /\ at["worker"].pc = "run" /\ OpOf(at["worker"].cur) = "timer" =>
           at["worker"].cur = lruCallback
    /\ signalled => Ending
    /\ ClientOutlivesWork

IInv == /\ StateOK /\ OwnTasks /\ WhereThreadsAre /\ InOnePlace /\ HeldOnce /\ Counted
        /\ StatesOK /\ MutexOK /\ DisposeOK /\ StopOK

-----------------------------------------------------------------------------
(* What the parts of the invariant mean for one thread or one task.        *)

(* The types of what the variables hold.                                   *)
LEMMA TypeFacts ==
    ASSUME StateOK
    PROVE  /\ Len(task) \in Nat /\ DOMAIN task = 1 .. Len(task)
           /\ \A i \in DOMAIN task : task[i] \in TaskRecords /\ OpOf(i) \in Ops
                                     /\ Exec(i) \in Executors
           /\ \A t \in Threads : at[t] \in ThreadRecords(Len(task))
           /\ \A e \in Executors : e \in Threads
           /\ \A e \in Executors : line[e] \in Seq(DOMAIN task) /\ tasks[e] \subseteq DOMAIN task
<1>1. /\ Len(task) \in Nat /\ DOMAIN task = 1 .. Len(task)
      /\ \A i \in DOMAIN task : task[i] \in TaskRecords
    BY DEF StateOK
<1>2. \A i \in DOMAIN task : OpOf(i) \in Ops /\ Exec(i) \in Executors
    BY <1>1 DEF OpOf, Exec, ExecutorOf, TaskRecords, Executors
<1>3. \A t \in Threads : at[t] \in ThreadRecords(Len(task))
    BY DEF StateOK
<1>4. \A e \in Executors : e \in Threads
    BY DEF Threads
<1>5. \A e \in Executors : line[e] \in Seq(DOMAIN task) /\ tasks[e] \subseteq DOMAIN task
    BY DEF StateOK
<1> QED BY <1>1, <1>2, <1>3, <1>4, <1>5

(* A step of one thread moves no other.                                    *)
LEMMA OneThread ==
    ASSUME StateOK, NEW t \in Threads, NEW r, at' = [at EXCEPT ![t] = r]
    PROVE  at'[t] = r /\ \A x \in Threads : x # t => at'[x] = at[x]
BY DEF StateOK

(* A thread that moves without touching tasks leaves the owners alone.     *)
LEMMA SameOwners ==
    ASSUME UNCHANGED <<tasks, line, delayed>>,
           \A x \in Threads : at'[x].cur = at[x].cur /\ at'[x].batch = at[x].batch
    PROVE  \A i : /\ Held(i)' = Held(i) /\ Dispatched(i)' = Dispatched(i)
                  /\ InLine(i)' = InLine(i)
<1>1. \A e \in Executors : e \in Threads
    BY DEF Threads
<1>2. \A i : InLine(i)' = InLine(i)
    BY DEF InLine
<1>3. \A i : Held(i)' = Held(i)
    BY DEF Held
<1>4. \A i : Dispatched(i)' = Dispatched(i)
    BY <1>1, <1>2 DEF Dispatched
<1> QED BY <1>2, <1>3, <1>4

\* The parts of the invariant that are about tasks.
TaskPart == OwnTasks /\ InOnePlace /\ HeldOnce /\ Counted /\ StatesOK

(* A thread moves on within its call.                                      *)
LEMMA MoveOK ==
    ASSUME IInv, NEW t \in Threads, NEW r, at' = [at EXCEPT ![t] = r],
           UNCHANGED <<task, tasks, disposed, line, delayed, lruCallback>>,
           r.cur = at[t].cur, r.batch = {}, at[t].batch = {},
           at[t].pc # "retain", r.pc \notin {"retain", "await", "complete", "release"},
           t \in Executors => at[t].pc \in Inside /\ r.pc \in Inside
    PROVE  TaskPart'
<1>1. at'[t] = r /\ \A x \in Threads : x # t => at'[x] = at[x]
    BY OneThread DEF IInv
<1>2. \A x \in Threads : at'[x].cur = at[x].cur /\ at'[x].batch = at[x].batch
    BY <1>1
<1>3. \A x \in Threads : at'[x].pc \in {"retain", "await"} => x # t /\ at'[x] = at[x]
    BY <1>1
<1>4. \A e \in Executors : e \in Threads
    BY DEF Threads
<1>5. \A e \in Executors : \/ at'[e] = at[e]
                           \/ /\ at'[e].pc \in Inside /\ at[e].pc \in Inside
                              /\ at'[e].cur = at[e].cur
    BY <1>1, <1>4
<1>6. \A i : /\ Held(i)' = Held(i) /\ Dispatched(i)' = Dispatched(i)
             /\ InLine(i)' = InLine(i)
    BY <1>2, SameOwners
<1>7. \A i : OpOf(i)' = OpOf(i) /\ Exec(i)' = Exec(i)
    BY DEF OpOf, Exec
<1>8. OwnTasks'
    BY <1>2, <1>3, <1>4, <1>7 DEF IInv, OwnTasks
<1>9. InOnePlace'
    BY <1>2, <1>3, <1>4, <1>6 DEF IInv, InOnePlace
<1>10. HeldOnce'
    BY <1>1, <1>2, <1>3, <1>7 DEF IInv, HeldOnce
<1>11. Counted'
    BY <1>6 DEF IInv, Counted
<1>12. StatesOK'
    <2>1. \A e \in Executors :
           /\ at'[e].pc \in Inside => task[at'[e].cur].state = "Running"
           /\ at'[e].pc = "complete" =>
                  /\ task[at'[e].cur].state = "Done"
                  /\ task[at'[e].cur].linked => Held(at'[e].cur)
           /\ at'[e].pc = "release" => task[at'[e].cur].state \in {"Done", "Cancelled"}
        BY <1>5 DEF IInv, StatesOK, Inside
    <2>2. ASSUME NEW i \in DOMAIN task, task[i].state = "Running"
          PROVE  /\ at'[Exec(i)].cur = i /\ at'[Exec(i)].pc \in Inside
                 /\ Held(i) \/ (Exec(i) = "user" /\ ~task[i].linked /\ disposed["user"])
        BY <1>5, <2>2, TypeFacts DEF IInv, StatesOK
    <2>3. ASSUME NEW i \in DOMAIN task, task[i].state = "Initial"
          PROVE  /\ Held(i)
                 /\ \/ i \in delayed \/ InLine(i)
                    \/ \E x \in Threads : at'[x].pc = "retain" /\ at'[x].new = i
        BY <1>1, <2>3 DEF IInv, StatesOK
    <2> QED BY <1>6, <1>7, <2>1, <2>2, <2>3 DEF StatesOK
<1> QED BY <1>8, <1>9, <1>10, <1>11, <1>12 DEF TaskPart

(* A call of the app begins, or the last reference is dropped by a thread  *)
(* other than the worker.                                                  *)
LEMMA BeginKeepsIInv ==
    ASSUME IInv, NEW t \in Threads,
           Call(t) \/ ClearPersistence(t) \/ TerminateAsync(t) \/ (Free(t) /\ DropLast(t))
    PROVE  IInv'
<1>0. StateOK /\ Free(t)
    BY DEF IInv, Call, ClearPersistence, TerminateAsync, DropLast
<1>1. at[t] \in ThreadRecords(Len(task)) /\ Len(task) \in Nat
    BY <1>0, TypeFacts
<1>2. \E r \in ThreadRecords(Len(task)) :
          /\ at' = [at EXCEPT ![t] = r]
          /\ r.cur = at[t].cur /\ r.new = at[t].new /\ r.ex = at[t].ex /\ r.batch = at[t].batch
          /\ \/ r.pc = "enqueue" /\ r.op \in {"work", "clear"} /\ mode' = mode
                /\ dropped' = dropped /\ calls < MaxCalls /\ calls' = calls + 1
             \/ r.pc = "enqueue" /\ r.op = "terminate" /\ EnterRestrictedMode
                /\ dropped' = dropped /\ calls < MaxCalls /\ calls' = calls + 1
             \/ r.pc = "destroy" /\ r.op = at[t].op /\ mode' = mode /\ calls' = calls
                /\ ~dropped /\ dropped'
    <2>1. CASE Call(t) \/ ClearPersistence(t) \/ TerminateAsync(t)
        <3>1. PICK o \in {"work", "clear", "terminate"} :
                  /\ at' = [at EXCEPT ![t].pc = "enqueue", ![t].op = o]
                  /\ o = "terminate" => EnterRestrictedMode
                  /\ o # "terminate" => mode' = mode
                  /\ dropped' = dropped /\ calls < MaxCalls /\ calls' = calls + 1
            BY <2>1 DEF Call, ClearPersistence, TerminateAsync, client
        <3> DEFINE r == [at[t] EXCEPT !.pc = "enqueue", !.op = o]
        <3>2. at' = [at EXCEPT ![t] = r]
            BY <3>1
        <3>3. r = [at[t] EXCEPT !.pc = "enqueue", !.op = o]
            OBVIOUS
        <3> HIDE DEF r
        <3>4. /\ r \in ThreadRecords(Len(task)) /\ r.pc = "enqueue" /\ r.op = o
              /\ r.cur = at[t].cur /\ r.new = at[t].new /\ r.ex = at[t].ex
              /\ r.batch = at[t].batch
            BY <1>1, <3>3 DEF ThreadRecords, Places, Ops
        <3> QED BY <3>1, <3>2, <3>4
    <2>2. CASE DropLast(t)
        <3> DEFINE r == [at[t] EXCEPT !.pc = "destroy"]
        <3>1. /\ at' = [at EXCEPT ![t] = r] /\ mode' = mode /\ calls' = calls
              /\ ~dropped /\ dropped'
            BY <2>2 DEF DropLast
        <3>3. r = [at[t] EXCEPT !.pc = "destroy"]
            OBVIOUS
        <3> HIDE DEF r
        <3>4. /\ r \in ThreadRecords(Len(task)) /\ r.pc = "destroy" /\ r.op = at[t].op
              /\ r.cur = at[t].cur /\ r.new = at[t].new /\ r.ex = at[t].ex
              /\ r.batch = at[t].batch
            BY <1>1, <3>3 DEF ThreadRecords, Places
        <3> QED BY <3>1, <3>4
    <2> QED BY <2>1, <2>2
<1>3. PICK r \in ThreadRecords(Len(task)) :
          /\ at' = [at EXCEPT ![t] = r]
          /\ r.cur = at[t].cur /\ r.new = at[t].new /\ r.ex = at[t].ex /\ r.batch = at[t].batch
          /\ \/ r.pc = "enqueue" /\ r.op \in {"work", "clear"} /\ mode' = mode
                /\ dropped' = dropped /\ calls < MaxCalls /\ calls' = calls + 1
             \/ r.pc = "enqueue" /\ r.op = "terminate" /\ EnterRestrictedMode
                /\ dropped' = dropped /\ calls < MaxCalls /\ calls' = calls + 1
             \/ r.pc = "destroy" /\ r.op = at[t].op /\ mode' = mode /\ calls' = calls
                /\ ~dropped /\ dropped'
    BY <1>2
<1>4. at'[t] = r /\ \A x \in Threads : x # t => at'[x] = at[x]
    BY <1>0, <1>3, OneThread
<1>5. /\ UNCHANGED <<queueMutex, task, tasks, disposed, line, delayed, lruCallback,
                     terminated, signalled>>
      /\ firestoreMutex' \in Threads \union {None}
    BY <1>0 DEF Call, ClearPersistence, TerminateAsync, DropLast, client, StateOK, Unlock
<1>6. /\ at[t].pc \in {"idle", "run"} /\ t # "worker" /\ at[t].batch = {} /\ at[t].op # "dispose"
      /\ t \in Executors => t = "user" /\ at[t].pc = "run"
      /\ t \in Callers \/ t = "user"
      /\ at[t].op \notin {"callback", "timer"}
    BY <1>0, QueueAssumption DEF Free, IInv, WhereThreadsAre, Looping, HandingOver, Executors
<1>7. TaskPart'
    BY <1>3, <1>5, <1>6, MoveOK DEF Inside, Places
<1>8. StateOK'
    <2>1. calls' \in 0 .. MaxCalls
        BY <1>3, QueueAssumption DEF IInv, StateOK
    <2>2. at' \in [Threads -> ThreadRecords(Len(task))]
        BY <1>0, <1>3 DEF StateOK
    <2>3. mode' \in {"Running", "Restricted", "Disposed"} /\ dropped' \in BOOLEAN
        BY <1>0, <1>3 DEF StateOK, EnterRestrictedMode
    <2> QED BY <1>0, <1>5, <2>1, <2>2, <2>3 DEF StateOK
<1>9. WhereThreadsAre'
    BY <1>3, <1>4, <1>6 DEF IInv, WhereThreadsAre, HandingOver, Looping, Executors, Threads
<1>10. \/ mode' = mode
       \/ mode' = "Restricted" /\ mode # "Disposed" /\ queueMutex = None
    BY <1>3 DEF EnterRestrictedMode
<1>11. MutexOK'
    <2>1. None \notin Threads
        BY QueueAssumption
    <2> QED BY <1>3, <1>4, <1>5, <1>6, <1>10, <2>1 DEF IInv, MutexOK
<1>12. DisposeOK'
    <2>1. at["worker"] = at'["worker"] /\ dropped => dropped'
        BY <1>3, <1>4, <1>6 DEF Executors, Threads
    <2> QED BY <1>3, <1>4, <1>5, <1>6, <1>10, <2>1
               DEF IInv, DisposeOK, Destroyer, Quiet, Looping
<1>13. StopOK'
    <2>1. r.pc \in HandingOver /\ r.op = "terminate" => mode' # "Running"
        BY <1>3, <1>6 DEF EnterRestrictedMode, HandingOver
    <2>2. at["worker"] = at'["worker"]
        BY <1>4, <1>6 DEF Executors, Threads
    <2> QED BY <1>3, <1>4, <1>5, <1>6, <1>10, <2>1, <2>2
               DEF IInv, StopOK, Ending, Stops, HandingOver, ClientOutlivesWork, OpOf
<1> QED BY <1>7, <1>8, <1>9, <1>11, <1>12, <1>13 DEF IInv, TaskPart

(* A call returns to where the thread was before it.                       *)
LEMMA ReturnProps ==
    ASSUME IInv, NEW t \in Threads, NEW r, r = Return(t)
    PROVE  /\ r \in ThreadRecords(Len(task)) /\ r.op = "work" /\ r.cur = at[t].cur
           /\ r.new = 0 /\ r.batch = {}
           /\ t \in Executors => r.pc = "finish"
           /\ t \notin Executors => r.pc = "idle"
<1>1. at[t] \in ThreadRecords(Len(task)) /\ Len(task) \in Nat
    BY TypeFacts DEF IInv
<1>2. CASE t \in Executors
    <2>1. r = [pc |-> "finish", op |-> "work", cur |-> at[t].cur, new |-> 0, ex |-> "worker",
               batch |-> {}]
        BY <1>2 DEF Return, Idle
    <2>2. at[t].cur \in 0 .. Len(task)
        BY <1>1 DEF ThreadRecords
    <2> QED BY <1>1, <1>2, <2>1, <2>2 DEF ThreadRecords, Places, Ops, Executors
<1>3. CASE t \notin Executors
    <2>1. r = Idle
        BY <1>3 DEF Return
    <2>2. at[t].cur = 0
        BY <1>3 DEF Threads, IInv, WhereThreadsAre
    <2> QED BY <1>1, <1>3, <2>1, <2>2 DEF Idle, ThreadRecords, Places, Ops, Executors
<1> QED BY <1>2, <1>3

(* A thread that returns, without the mutex of the queue, disturbs nobody. *)
LEMMA ReturnOK ==
    ASSUME IInv, NEW t \in Threads, NEW r, r = Return(t), at' = [at EXCEPT ![t] = r],
           t \in Executors => at[t].pc \in Inside,
           at[t].pc # "cancelTimer",
           queueMutex' = Unlock(queueMutex, t),
           UNCHANGED <<mode, disposed, signalled, terminated, dropped, tasks>>
    PROVE  WhereThreadsAre' /\ MutexOK' /\ DisposeOK'
<1>0. StateOK /\ None \notin Threads
    BY QueueAssumption DEF IInv
<1>1. /\ r \in ThreadRecords(Len(task)) /\ r.op = "work" /\ r.cur = at[t].cur
      /\ r.new = 0 /\ r.batch = {}
      /\ t \in Executors => r.pc = "finish"
      /\ t \notin Executors => r.pc = "idle"
    BY ReturnProps
<1>2. at'[t] = r /\ \A x \in Threads : x # t => at'[x] = at[x]
    BY <1>0, OneThread
<1>3. WhereThreadsAre'
    <2>1. \A x \in Threads :
           /\ at'[x].pc \in {"wait", "close", "swap", "cancel", "await"} => at'[x].op = "dispose"
           /\ at'[x].op = "dispose" =>
                  at'[x].pc \in HandingOver \union {"wait", "close", "swap", "cancel", "await"}
           /\ at'[x].batch # {} => at'[x].pc \in Looping \union {"cancelTimer"}
        BY <1>1, <1>2 DEF IInv, WhereThreadsAre
    <2>2. \A e \in Executors : e \in Threads /\ e \notin Callers
        BY QueueAssumption DEF Threads
    <2>3. \A e \in Executors : at'[e].cur = 0 <=> at'[e].pc = "idle"
        BY <1>1, <1>2, <2>2 DEF IInv, WhereThreadsAre, Inside
    <2>4. \A x \in Callers :
           /\ at'[x].cur = 0 /\ at'[x].op \notin {"callback", "timer"}
           /\ at'[x].pc \notin {"run", "cancelTimer", "reset", "finish", "complete", "release"}
        BY <1>1, <1>2, <2>2 DEF IInv, WhereThreadsAre, Threads
    <2>5. /\ at'["user"].pc \notin {"cancelTimer", "reset"}
          /\ at'["user"].op \notin {"callback", "timer"}
          /\ at'["worker"].pc \in {"idle", "enqueue", "insert", "retain", "run", "cancelTimer",
                            "reset", "finish", "complete", "release", "destroy", "wait"}
          /\ at'["worker"].pc = "enqueue" => at'["worker"].op \in {"timer", "dispose"}
          /\ at'["worker"].pc \in {"insert", "retain"} =>
                 at'["worker"].op \in {"callback", "timer", "dispose"}
        BY <1>1, <1>2, <2>2 DEF IInv, WhereThreadsAre, Executors
    <2> QED BY <2>1, <2>3, <2>4, <2>5 DEF WhereThreadsAre
<1>4. MutexOK'
    BY <1>0, <1>1, <1>2 DEF IInv, MutexOK, Unlock, Executors
<1>5. DisposeOK'
    <2>1. "worker" \in Threads /\ ~Destroyer(t)'
        BY <1>1, <1>2 DEF Threads, Executors, Destroyer
    <2>2. Destroyer("worker")' => ~signalled
        BY <1>2, <2>1 DEF IInv, DisposeOK, Destroyer
    <2> QED BY <1>1, <1>2, <2>2 DEF IInv, DisposeOK, Destroyer, Quiet, Looping, Executors
<1> QED BY <1>3, <1>4, <1>5

(* The client's end as seen by a thread that moves outside the operations  *)
(* of the worker.                                                          *)
LEMMA StopUndisturbed ==
    ASSUME IInv, NEW t \in Threads, NEW r, at' = [at EXCEPT ![t] = r],
           UNCHANGED <<mode, terminated, task, line, lruCallback>>,
           signalled' => signalled \/ terminated, dropped => dropped',
           r.pc \in HandingOver /\ r.op \in Stops =>
               at[t].pc \in HandingOver /\ at[t].op \in Stops,
           t = "worker" => /\ r.pc \notin {"run", "cancelTimer", "reset"}
                           /\ at[t].pc \notin {"retain", "cancelTimer"}
                           /\ at[t].pc = "reset" => ~signalled'
                           /\ r.op = "timer" =>
                                  /\ r.cur = at[t].cur
                                  /\ \/ at[t].op = "timer"
                                     \/ at[t].pc = "run" /\ OpOf(at[t].cur) = "timer"
    PROVE  StopOK'
<1>0. StateOK /\ "worker" \in Threads
    BY DEF IInv, Threads, Executors
<1>1. at'[t] = r /\ \A x \in Threads : x # t => at'[x] = at[x]
    BY <1>0, OneThread
<1>2. \A i : OpOf(i)' = OpOf(i)
    BY DEF OpOf
<1>3. \/ at'["worker"] = at["worker"]
      \/ /\ at'["worker"].pc \notin {"run", "cancelTimer", "reset"}
         /\ at["worker"].pc \notin {"retain", "cancelTimer"}
         /\ at["worker"].pc = "reset" => ~signalled'
         /\ at'["worker"].op = "timer" =>
                /\ at'["worker"].cur = at["worker"].cur
                /\ \/ at["worker"].op = "timer"
                   \/ at["worker"].pc = "run" /\ OpOf(at["worker"].cur) = "timer"
    BY <1>0, <1>1
<1>4. Ending' => (Ending /\ at'["worker"] = at["worker"]) \/ terminated
    BY <1>3 DEF Ending
<1>5. \A x \in Threads : at'[x].pc \in HandingOver /\ at'[x].op \in Stops => mode # "Running"
    BY <1>1 DEF IInv, StopOK
<1>6. /\ at'["worker"].pc = "run" /\ OpOf(at'["worker"].cur) \in Stops =>
           \A i \in DOMAIN task : OpOf(i) = "work" => task[i].state # "Initial"
      /\ at'["worker"].pc \in {"cancelTimer", "reset"} => OpOf(at'["worker"].cur) \in Stops
    BY <1>3 DEF IInv, StopOK
<1>7. Ending' =>
           /\ mode # "Running"
           /\ \A i \in DOMAIN task : OpOf(i) \in {"work", "timer"} /\ task[i].state = "Initial" =>
                  at'["worker"].pc = "cancelTimer" /\ i \in at'["worker"].batch
    BY <1>3, <1>4 DEF IInv, StopOK, Ending
<1>8. \A i \in DOMAIN task : OpOf(i) = "timer" /\ task[i].state = "Initial" =>
           i = lruCallback \/ (at'["worker"].pc = "retain" /\ at'["worker"].new = i)
    BY <1>3 DEF IInv, StopOK
<1>9. signalled' => Ending'
    BY <1>3 DEF IInv, StopOK, Ending
<1>10. ClientOutlivesWork'
    BY <1>2, <1>3 DEF IInv, StopOK, ClientOutlivesWork
<1>11. /\ \A j \in DOMAIN task : OpOf(j) \in Stops => mode # "Running"
       /\ \A j \in DOMAIN task : OpOf(j) = "dispose" => dropped'
       /\ \A k, l \in DOMAIN line["worker"] :
           OpOf(line["worker"][k]) \in Stops /\ OpOf(line["worker"][l]) = "work" => l < k
    BY DEF IInv, StopOK
<1>12. /\ at'["worker"].op = "timer" =>
              OpOf(at'["worker"].cur) = "timer" /\ at'["worker"].cur = lruCallback
       /\ at'["worker"].pc = "run" /\ OpOf(at'["worker"].cur) = "timer" =>
              at'["worker"].cur = lruCallback
    BY <1>3 DEF IInv, StopOK
<1> QED BY <1>2, <1>5, <1>6, <1>7, <1>8, <1>9, <1>10, <1>11, <1>12 DEF StopOK

(* The mode is checked under the mutex.                                    *)
LEMMA EnqueueKeepsIInv ==
    ASSUME IInv, NEW t \in Threads, Enqueue(t)
    PROVE  IInv'
<1>0. StateOK /\ None \notin Threads /\ at[t].pc = "enqueue" /\ queueMutex = None
    BY QueueAssumption DEF IInv, Enqueue
<1>1. at[t] \in ThreadRecords(Len(task)) /\ Len(task) \in Nat
    BY <1>0, TypeFacts
<1>2. UNCHANGED <<mode, firestoreMutex, task, tasks, disposed, line, delayed,
                  lruCallback, terminated, signalled, dropped, calls>>
    BY DEF Enqueue, client
<1>3. at[t].batch = {} /\ at[t].op # "callback"
    <2>1. t \in Callers \/ t = "user" \/ t = "worker"
        BY DEF Threads, Executors
    <2> QED BY <1>0, <2>1 DEF IInv, WhereThreadsAre, Looping
<1>4. CASE Admits(at[t].op)
    <2> DEFINE r == [at[t] EXCEPT !.pc = "insert"]
    <2>1. at' = [at EXCEPT ![t] = r] /\ queueMutex' = t
        BY <1>4 DEF Enqueue
    <2>2. r = [at[t] EXCEPT !.pc = "insert"]
        OBVIOUS
    <2> HIDE DEF r
    <2>3. /\ r \in ThreadRecords(Len(task)) /\ r.pc = "insert" /\ r.op = at[t].op
          /\ r.cur = at[t].cur /\ r.new = at[t].new /\ r.ex = at[t].ex
          /\ r.batch = at[t].batch
        BY <1>1, <2>2 DEF ThreadRecords, Places
    <2>4. at'[t] = r /\ \A x \in Threads : x # t => at'[x] = at[x]
        BY <1>0, <2>1, OneThread
    <2>5. TaskPart'
        BY <1>0, <1>2, <1>3, <2>1, <2>3, MoveOK DEF Inside, Places
    <2>6. StateOK'
        <3>1. at' \in [Threads -> ThreadRecords(Len(task))]
            BY <1>0, <2>1, <2>3 DEF StateOK
        <3> QED BY <1>0, <1>2, <2>1, <3>1 DEF StateOK
    <2>7. WhereThreadsAre'
        <3>1. \A e \in Executors : e \in Threads /\ e \notin Callers
            BY QueueAssumption DEF Threads
        <3> QED BY <1>0, <2>3, <2>4, <3>1
                   DEF IInv, WhereThreadsAre, HandingOver, Looping, Executors, Threads
    <2>8. MutexOK'
        BY <1>0, <1>2, <1>3, <1>4, <2>1, <2>3, <2>4 DEF IInv, MutexOK, Admits
    <2>9. DisposeOK'
        <3>1. Destroyer("worker")' => Destroyer("worker")
            BY <2>3, <2>4 DEF Destroyer, Threads, Executors
        <3> QED BY <1>0, <1>2, <2>3, <2>4, <3>1 DEF IInv, DisposeOK, Destroyer, Quiet, Looping
    <2>10. StopOK'
        BY <1>0, <1>2, <2>1, <2>3, StopUndisturbed DEF HandingOver
    <2> QED BY <2>5, <2>6, <2>7, <2>8, <2>9, <2>10 DEF IInv, TaskPart
<1>5. CASE ~Admits(at[t].op)
    <2>1. at[t].op # "dispose"
        BY <1>0, <1>5 DEF IInv, DisposeOK, Destroyer, Admits, StateOK
    <2> DEFINE r == Return(t)
    <2>2. at' = [at EXCEPT ![t] = r] /\ queueMutex' = queueMutex
        BY <1>5, <2>1 DEF Enqueue, Back
    <2>3. r = Return(t)
        OBVIOUS
    <2> HIDE DEF r
    <2>4. /\ r \in ThreadRecords(Len(task)) /\ r.op = "work" /\ r.cur = at[t].cur
          /\ r.new = 0 /\ r.batch = {}
          /\ t \in Executors => r.pc = "finish"
          /\ t \notin Executors => r.pc = "idle"
        BY <2>3, ReturnProps
    <2>5. TaskPart'
        BY <1>0, <1>2, <1>3, <2>2, <2>4, MoveOK DEF Inside, Places
    <2>6. StateOK'
        <3>1. at' \in [Threads -> ThreadRecords(Len(task))]
            BY <1>0, <2>2, <2>4 DEF StateOK
        <3> QED BY <1>0, <1>2, <2>2, <3>1 DEF StateOK
    <2>7. queueMutex' = Unlock(queueMutex, t)
        BY <1>0, <2>2 DEF Unlock
    <2>8. WhereThreadsAre' /\ MutexOK' /\ DisposeOK'
        BY <1>0, <1>2, <2>2, <2>3, <2>7, ReturnOK DEF Inside, Places
    <2>9. StopOK'
        BY <1>0, <1>2, <2>2, <2>4, StopUndisturbed DEF HandingOver, Executors
    <2> QED BY <2>5, <2>6, <2>8, <2>9 DEF IInv, TaskPart
<1> QED BY <1>4, <1>5

(* A task is created and its executor told of it.                          *)
LEMMA InsertKeepsIInv ==
    ASSUME IInv, NEW t \in Threads, Insert(t)
    PROVE  IInv'
<1>e. PICK e : e = ExecutorOf(at[t].op)
    OBVIOUS
<1>0. StateOK /\ None \notin Threads /\ at[t].pc = "insert"
    BY QueueAssumption DEF IInv, Insert
<1>1. at[t] \in ThreadRecords(Len(task)) /\ Len(task) \in Nat /\ DOMAIN task = 1 .. Len(task)
    BY <1>0, TypeFacts
<1>2. UNCHANGED <<mode, firestoreMutex, disposed, line, delayed, lruCallback, terminated,
                  signalled, dropped, calls>>
    BY DEF Insert, client
<1>3. at[t].batch = {} /\ e \in Executors /\ at[t].op \in Ops
    BY <1>e, <1>0, <1>1 DEF IInv, WhereThreadsAre, Looping, ExecutorOf, Executors, ThreadRecords
<1>4. CASE disposed[e]
    <2>1. at[t].op = "callback"
        BY <1>e, <1>0, <1>4 DEF IInv, MutexOK, DisposeOK, ExecutorOf, Executors
    <2> DEFINE r == Return(t)
    <2>2. at' = [at EXCEPT ![t] = r] /\ queueMutex' = Unlock(queueMutex, t)
          /\ UNCHANGED <<task, tasks>>
        BY <1>e, <1>4, <2>1 DEF Insert, Back
    <2>3. r = Return(t)
        OBVIOUS
    <2> HIDE DEF r
    <2>4. /\ r \in ThreadRecords(Len(task)) /\ r.op = "work" /\ r.cur = at[t].cur
          /\ r.new = 0 /\ r.batch = {}
          /\ t \in Executors => r.pc = "finish"
          /\ t \notin Executors => r.pc = "idle"
        BY <2>3, ReturnProps
    <2>5. TaskPart'
        BY <1>0, <1>2, <1>3, <2>2, <2>4, MoveOK DEF Inside, Places
    <2>6. StateOK'
        <3>1. at' \in [Threads -> ThreadRecords(Len(task))]
            BY <1>0, <2>2, <2>4 DEF StateOK
        <3>2. queueMutex' \in Threads \union {None}
            BY <1>0, <2>2 DEF StateOK, Unlock
        <3> QED BY <1>0, <1>2, <2>2, <3>1, <3>2 DEF StateOK
    <2>7. WhereThreadsAre' /\ MutexOK' /\ DisposeOK'
        BY <1>0, <1>2, <2>2, <2>3, ReturnOK DEF Inside, Places
    <2>8. StopOK'
        BY <1>0, <1>2, <2>2, <2>4, StopUndisturbed DEF HandingOver, Executors
    <2> QED BY <2>5, <2>6, <2>7, <2>8 DEF IInv, TaskPart
<1>5. CASE ~disposed[e]
    <2>n. PICK n : n = Len(task) + 1
        OBVIOUS
    <2>r. PICK r : r = [at[t] EXCEPT !.pc = "retain", !.new = n]
        OBVIOUS
    <2>x. PICK x : x = NewTask(at[t].op)
        OBVIOUS
    <2>1. /\ task' = Append(task, x) /\ tasks' = [tasks EXCEPT ![e] = @ \union {n}]
          /\ at' = [at EXCEPT ![t] = r] /\ queueMutex' = queueMutex
        BY <1>e, <1>5, <2>n, <2>r, <2>x DEF Insert
    <2>3. x = [op |-> at[t].op, state |-> "Initial", refs |-> 1, linked |-> TRUE]
        BY <2>x DEF NewTask
    <2>4. /\ x \in TaskRecords /\ x.op = at[t].op /\ x.state = "Initial" /\ x.refs = 1
          /\ x.linked
        BY <1>3, <2>3 DEF TaskRecords, States
    <2>5. /\ Len(task') = n /\ DOMAIN task' = DOMAIN task \union {n} /\ n \notin DOMAIN task
          /\ task'[n] = x /\ \A i \in DOMAIN task : task'[i] = task[i]
          /\ task' \in Seq(TaskRecords) /\ DOMAIN task' = 1 .. n /\ n \in Nat
        BY <1>0, <1>1, <2>n, <2>1, <2>4 DEF StateOK
    <2>6. /\ r \in ThreadRecords(n) /\ r.pc = "retain" /\ r.op = at[t].op
          /\ r.cur = at[t].cur /\ r.new = n /\ r.ex = at[t].ex /\ r.batch = {}
        <3>1. /\ at[t] \in [pc : Places, op : Ops, cur : 0 .. n, new : 0 .. n, ex : Executors,
                           batch : SUBSET (1 .. n)]
              /\ n \in 0 .. n
            BY <1>1, <2>n DEF ThreadRecords
        <3> QED BY <1>3, <2>r, <3>1 DEF ThreadRecords, Places
    <2>7. at'[t] = r /\ \A y \in Threads : y # t => at'[y] = at[y]
        BY <1>0, <2>1, OneThread
    <2>8. \A f \in Executors : /\ tasks'[f] = IF f = e THEN tasks[f] \union {n} ELSE tasks[f]
                               /\ f \in Threads
        BY <1>0, <2>1 DEF StateOK, Threads
    <2>8a. \A f \in Executors : \A i : i \in tasks'[f] <=> i \in tasks[f] \/ (i = n /\ f = e)
        BY <2>8
    <2>9. \A i \in DOMAIN task : OpOf(i)' = OpOf(i) /\ Exec(i)' = Exec(i)
        BY <2>5 DEF OpOf, Exec
    <2>10. OpOf(n)' = at[t].op /\ Exec(n)' = e
        BY <1>e, <2>4, <2>5 DEF OpOf, Exec
    <2>11. /\ \A f \in Executors : /\ n \notin tasks[f] /\ tasks[f] \subseteq DOMAIN task
                                   /\ \A k \in DOMAIN line[f] : line[f][k] \in DOMAIN task
           /\ n \notin delayed /\ n # lruCallback
           /\ delayed \subseteq DOMAIN task /\ lruCallback \in DOMAIN task
        BY <1>0, <2>5 DEF StateOK
    <2>12. \A y \in Threads : /\ at[y].cur # n /\ at[y].new # n /\ n \notin at[y].batch
                              /\ at[y].batch \subseteq DOMAIN task
                              /\ at[y].cur # 0 => at[y].cur \in DOMAIN task
                              /\ at[y].new # 0 => at[y].new \in DOMAIN task
        <3>1. \A y \in Threads : at[y] \in ThreadRecords(Len(task))
            BY <1>0, TypeFacts
        <3> QED BY <1>1, <2>n, <3>1 DEF ThreadRecords
    <2>13. \A y \in Threads : at'[y].cur = at[y].cur /\ at'[y].batch = at[y].batch
        BY <1>3, <2>6, <2>7
    <2>14. \A i : InLine(i)' = InLine(i)
        BY <1>2 DEF InLine
    <2>15. ~InLine(n)
        BY <2>5, <2>11 DEF InLine
    <2>16. \A i \in DOMAIN task : Held(i)' = Held(i) /\ Dispatched(i)' = Dispatched(i)
        <3>1. \A i \in DOMAIN task : Held(i)' = Held(i)
            BY <2>5, <2>8a, <2>13 DEF Held
        <3>2. \A i \in DOMAIN task : Dispatched(i)' = Dispatched(i)
            BY <1>2, <2>8, <2>13, <2>14 DEF Dispatched
        <3> QED BY <3>1, <3>2
    <2>17. Held(n)' /\ ~Dispatched(n)'
        <3>1. Held(n)'
            BY <1>3, <2>8 DEF Held
        <3>2. ~Dispatched(n)'
            BY <1>2, <2>8, <2>11, <2>12, <2>13, <2>14, <2>15 DEF Dispatched
        <3> QED BY <3>1, <3>2
    <2>18. StateOK'
        <3>1. \A y \in Threads : at[y] \in ThreadRecords(n)
            <4>1. \A y \in Threads : at[y] \in ThreadRecords(Len(task))
                BY <1>0, TypeFacts
            <4> QED BY <1>1, <2>n, <4>1 DEF ThreadRecords
        <3>2. at' \in [Threads -> ThreadRecords(Len(task'))]
            BY <1>0, <2>1, <2>5, <2>6, <3>1 DEF StateOK
        <3>3. tasks' \in [Executors -> SUBSET DOMAIN task']
            BY <1>0, <2>1, <2>5 DEF StateOK
        <3>4. line' \in [Executors -> Seq(DOMAIN task')]
            <4>1. Seq(DOMAIN task) \subseteq Seq(DOMAIN task')
                BY <2>5
            <4> QED BY <1>0, <1>2, <4>1 DEF StateOK
        <3>5. delayed' \subseteq DOMAIN task' /\ lruCallback' \in DOMAIN task'
            BY <1>2, <2>5, <2>11
        <3> QED BY <1>0, <1>2, <2>1, <2>5, <3>2, <3>3, <3>4, <3>5 DEF StateOK
    <2>19. OwnTasks'
        <3>1. ASSUME NEW f \in Executors, NEW i \in tasks'[f]
              PROVE  Exec(i)' = f /\ task'[i].linked
            <4>1. CASE i = n /\ f = e
                BY <2>4, <2>5, <2>10, <4>1
            <4>2. CASE i \in tasks[f]
                <5>1. i \in DOMAIN task /\ Exec(i) = f /\ task[i].linked
                    BY <2>11, <4>2 DEF IInv, OwnTasks
                <5> QED BY <2>5, <2>9, <5>1
            <4> QED BY <2>8a, <4>1, <4>2
        <3>2. \A f \in Executors : \A k \in DOMAIN line[f] : ExecutorOf(task'[line[f][k]].op) = f
            <4>1. \A f \in Executors : \A k \in DOMAIN line[f] :
                      ExecutorOf(task[line[f][k]].op) = f
                BY DEF IInv, OwnTasks, Exec, OpOf
            <4> QED BY <2>5, <2>11, <4>1
        <3>3. \A i \in delayed \union {lruCallback} : OpOf(i)' = "timer"
            BY <2>9, <2>11 DEF IInv, OwnTasks
        <3>4. \A f \in Executors : at'[f].cur # 0 => ExecutorOf(task'[at'[f].cur].op) = f
            <4>1. ASSUME NEW f \in Executors, at'[f].cur # 0
                  PROVE  ExecutorOf(task'[at'[f].cur].op) = f
                <5>1. at'[f].cur = at[f].cur /\ at[f].cur \in DOMAIN task
                    BY <2>8, <2>12, <2>13, <4>1
                <5>2. Exec(at[f].cur) = f
                    BY <4>1, <5>1 DEF IInv, OwnTasks
                <5> QED BY <2>5, <5>1, <5>2 DEF Exec, OpOf
            <4> QED BY <4>1
        <3>5. \A y \in Threads : at'[y].pc = "retain" =>
                  /\ at'[y].new # 0 /\ task'[at'[y].new].op = at'[y].op
                  /\ at'[y].new \in tasks'[ExecutorOf(at'[y].op)]
            <4>1. ASSUME NEW y \in Threads, y # t, at'[y].pc = "retain"
                  PROVE  /\ at'[y].new # 0 /\ task'[at'[y].new].op = at'[y].op
                         /\ at'[y].new \in tasks'[ExecutorOf(at'[y].op)]
                <5>1. /\ at[y].new # 0 /\ OpOf(at[y].new) = at[y].op
                      /\ at[y].new \in tasks[ExecutorOf(at[y].op)] /\ at'[y] = at[y]
                    BY <2>7, <4>1 DEF IInv, OwnTasks
                <5>2. ExecutorOf(at[y].op) \in Executors
                    BY DEF ExecutorOf, Executors
                <5> QED BY <2>5, <2>8, <2>12, <5>1, <5>2 DEF OpOf
            <4>2. /\ r.new # 0 /\ task'[r.new].op = r.op /\ r.new \in tasks'[ExecutorOf(r.op)]
                BY <1>e, <1>1, <1>3, <2>n, <2>4, <2>5, <2>6, <2>8a
            <4> QED BY <2>7, <4>1, <4>2
        <3> QED BY <1>2, <3>1, <3>2, <3>3, <3>4, <3>5 DEF OwnTasks, Exec, OpOf
    <2>20. InOnePlace'
        <3>1. \A y \in Threads : at'[y].pc = "retain" =>
                  /\ at'[y].new \notin delayed /\ ~InLine(at'[y].new)
                  /\ \A f \in Executors : at'[f].cur # at'[y].new
                  /\ \A s \in Threads : at'[s].pc = "retain" /\ at'[s].new = at'[y].new => s = y
            <4>1. \A y \in Threads : at'[y].pc = "retain" =>
                      \/ y = t /\ at'[y].new = n
                      \/ y # t /\ at'[y] = at[y] /\ at[y].pc = "retain" /\ at[y].new # n
                BY <2>6, <2>7, <2>12
            <4>2. \A f \in Executors : at'[f].cur = at[f].cur /\ at[f].cur # n
                BY <2>8, <2>12, <2>13
            <4> QED BY <2>11, <2>15, <4>1, <4>2 DEF IInv, InOnePlace
        <3>2. \A f \in Executors : at'[f].cur = at[f].cur
            BY <2>8, <2>13
        <3>3. \A i \in delayed : ~InLine(i) /\ \A f \in Executors : at'[f].cur # i
            BY <3>2 DEF IInv, InOnePlace
        <3>4. /\ \A f \in Executors : \A k, l \in DOMAIN line[f] : line[f][k] = line[f][l] => k = l
              /\ \A f, g \in Executors : \A k \in DOMAIN line[f] : line[f][k] # at'[g].cur
            BY <3>2 DEF IInv, InOnePlace
        <3> QED BY <1>2, <3>1, <3>3, <3>4 DEF InOnePlace, InLine
    <2>21. HeldOnce'
        <3>1. ASSUME NEW y \in Threads, NEW i \in at'[y].batch
              PROVE  /\ \A f \in Executors : i \notin tasks'[f]
                     /\ \A s \in Threads : i \in at'[s].batch => s = y
                     /\ at'[y].pc \in Looping => Exec(i)' = at'[y].ex
                     /\ at'[y].pc = "cancelTimer" => OpOf(i)' = "timer"
            <4>1. i \in at[y].batch /\ i \in DOMAIN task /\ i # n /\ y # t /\ at'[y] = at[y]
                BY <1>3, <2>5, <2>7, <2>12, <2>13, <3>1
            <4>2. OpOf(i)' = OpOf(i) /\ Exec(i)' = Exec(i)
                BY <2>9, <4>1
            <4>3. /\ \A f \in Executors : i \notin tasks[f]
                  /\ \A s \in Threads : i \in at[s].batch => s = y
                  /\ at[y].pc \in Looping => Exec(i) = at[y].ex
                  /\ at[y].pc = "cancelTimer" => OpOf(i) = "timer"
                BY <4>1 DEF IInv, HeldOnce
            <4> QED BY <2>8a, <2>13, <4>1, <4>2, <4>3
        <3>2. \A y \in Threads : at'[y].pc = "await" => at'[y].new \in at'[y].batch
            BY <2>6, <2>7 DEF IInv, HeldOnce
        <3> QED BY <3>1, <3>2 DEF HeldOnce
    <2>22. Counted'
        <3>1. \A i \in DOMAIN task :
                  task'[i].refs = (IF Held(i)' THEN 1 ELSE 0) + (IF Dispatched(i)' THEN 1 ELSE 0)
            BY <2>5, <2>16 DEF IInv, Counted
        <3>2. task'[n].refs = (IF Held(n)' THEN 1 ELSE 0) + (IF Dispatched(n)' THEN 1 ELSE 0)
            BY <2>4, <2>5, <2>17
        <3> QED BY <2>5, <3>1, <3>2 DEF Counted
    <2>23. StatesOK'
        <3>1. ASSUME NEW f \in Executors
              PROVE  /\ at'[f].pc \in Inside => task'[at'[f].cur].state = "Running"
                     /\ at'[f].pc = "complete" =>
                          /\ task'[at'[f].cur].state = "Done"
                          /\ task'[at'[f].cur].linked => Held(at[f].cur)'
                     /\ at'[f].pc = "release" => task'[at'[f].cur].state \in {"Done", "Cancelled"}
            <4>1. at'[f].pc = at[f].pc \/ (at'[f].pc \in Inside /\ at[f].pc \in Inside)
                BY <1>0, <2>6, <2>7, <2>8 DEF Inside, Places
            <4>2. at'[f].pc # "idle" => at[f].cur \in DOMAIN task /\ at'[f].cur = at[f].cur
                BY <2>8, <2>12, <2>13, <4>1 DEF IInv, WhereThreadsAre, Inside
            <4>3. CASE at'[f].pc \in Inside
                BY <2>5, <4>1, <4>2, <4>3 DEF IInv, StatesOK, Inside
            <4>4. CASE at'[f].pc \in {"complete", "release"}
                <5>1. at[f].pc = at'[f].pc /\ at[f].cur \in DOMAIN task /\ at'[f].cur = at[f].cur
                      /\ Held(at[f].cur)' = Held(at[f].cur)
                    BY <2>16, <4>1, <4>2, <4>4 DEF Inside
                <5> QED BY <2>5, <4>4, <5>1 DEF IInv, StatesOK, Inside
            <4> QED BY <4>3, <4>4
        <3>2. ASSUME NEW i \in DOMAIN task, task'[i].state = "Running"
              PROVE  /\ at'[Exec(i)].cur = i /\ at'[Exec(i)].pc \in Inside
                     /\ Held(i)' \/ (Exec(i) = "user" /\ ~task'[i].linked /\ disposed["user"])
            <4>1. Exec(i) \in Executors
                BY <1>0, TypeFacts
            <4>2. task'[i] = task[i]
                BY <2>5
            <4>3. at'[Exec(i)].pc = at[Exec(i)].pc \/ at'[Exec(i)].pc \in Inside
                BY <2>6, <2>7, <2>8, <4>1 DEF Inside, Places
            <4>4. /\ at[Exec(i)].cur = i /\ at[Exec(i)].pc \in Inside
                  /\ Held(i) \/ (Exec(i) = "user" /\ ~task[i].linked /\ disposed["user"])
                BY <3>2, <4>2 DEF IInv, StatesOK
            <4>5. at'[Exec(i)].cur = i
                BY <2>8, <2>13, <4>1, <4>4
            <4>6. Held(i)' = Held(i)
                BY <2>16
            <4> QED BY <4>2, <4>3, <4>4, <4>5, <4>6
        <3>3. ASSUME NEW i \in DOMAIN task', task'[i].state = "Initial"
              PROVE  /\ Held(i)'
                     /\ \/ i \in delayed \/ InLine(i)'
                        \/ \E y \in Threads : at'[y].pc = "retain" /\ at'[y].new = i
            <4>1. CASE i = n
                BY <2>6, <2>7, <2>17, <4>1
            <4>2. CASE i \in DOMAIN task
                <5>1. task[i].state = "Initial"
                    BY <2>5, <3>3, <4>2
                <5>2. \/ i \in delayed \/ InLine(i)
                      \/ \E y \in Threads : at[y].pc = "retain" /\ at[y].new = i
                    BY <4>2, <5>1 DEF IInv, StatesOK
                <5>3. Held(i)'
                    BY <2>16, <4>2, <5>1 DEF IInv, StatesOK
                <5>4. ASSUME NEW y \in Threads, at[y].pc = "retain"
                      PROVE  at'[y] = at[y]
                    BY <1>0, <2>7, <5>4
                <5> QED BY <2>14, <5>2, <5>3, <5>4
            <4> QED BY <2>5, <4>1, <4>2
        <3>4. task'[n].state # "Running"
            BY <2>4, <2>5
        <3> QED BY <1>2, <2>5, <2>8, <2>9, <2>13, <3>1, <3>2, <3>3, <3>4 DEF StatesOK
    <2>24. WhereThreadsAre'
        <3>1. \A f \in Executors : f \notin Callers
            BY QueueAssumption
        <3> QED BY <1>0, <2>6, <2>7, <2>8, <3>1
                   DEF IInv, WhereThreadsAre, HandingOver, Looping, Executors, Threads
    <2>25. MutexOK'
        BY <1>0, <1>2, <2>1, <2>6, <2>7 DEF IInv, MutexOK
    <2>26. DisposeOK'
        <3>1. \A y \in Threads : at'[y].op = at[y].op /\ (at'[y] = at[y] \/
                    (at[y].pc = "insert" /\ at'[y].pc = "retain"))
            BY <1>0, <2>6, <2>7
        <3>2. Quiet("worker")' = Quiet("worker")
            BY <1>2, <3>1 DEF Quiet
        <3>3. \A f \in Executors : disposed[f] => tasks'[f] = tasks[f]
            BY <1>5, <2>8
        <3>4. Destroyer("worker")' => Destroyer("worker")
            BY <3>1 DEF Destroyer, Threads, Executors
        <3> QED BY <1>2, <3>1, <3>2, <3>3, <3>4 DEF IInv, DisposeOK, Destroyer, Looping
    <2>27. StopOK'
        <3>1. "worker" \in Threads /\ "worker" \in Executors
            BY DEF Threads, Executors
        <3>2. /\ at[t].op \in Stops => mode # "Running"
              /\ at[t].op \in {"work", "timer"} => mode = "Running"
            BY <1>0 DEF IInv, StopOK, HandingOver, MutexOK
        <3>3. at[t].op = "timer" => t = "worker"
            BY DEF IInv, WhereThreadsAre, Threads, Executors
        <3>4. \/ at'["worker"] = at["worker"]
              \/ /\ t = "worker" /\ at["worker"].pc = "insert" /\ at'["worker"].pc = "retain"
                 /\ at'["worker"].op = at["worker"].op /\ at'["worker"].cur = at["worker"].cur
            BY <1>0, <2>6, <2>7, <3>1
        <3>5. at["worker"].pc # "idle" => at["worker"].cur \in DOMAIN task
            BY <2>12, <3>1 DEF IInv, WhereThreadsAre
        <3>6. at["worker"].op = "timer" => at["worker"].cur \in DOMAIN task
            BY <2>11 DEF IInv, StopOK
        <3>7. \A j \in DOMAIN task' : task'[j].op \in Stops => mode # "Running"
            BY <2>4, <2>5, <3>2 DEF IInv, StopOK, OpOf
        <3>17. \A j \in DOMAIN task' : task'[j].op = "dispose" => dropped
            BY <2>4, <2>5 DEF IInv, StopOK, DisposeOK, Destroyer, OpOf
        <3>8. \A y \in Threads : at'[y].pc \in HandingOver /\ at'[y].op \in Stops => mode # "Running"
            BY <2>6, <2>7, <3>2 DEF IInv, StopOK
        <3>9. \A k, l \in DOMAIN line["worker"] :
                  task'[line["worker"][k]].op \in Stops /\ task'[line["worker"][l]].op = "work"
                  => l < k
            BY <2>5, <2>11, <3>1 DEF IInv, StopOK, OpOf
        <3>10. ASSUME at'["worker"].pc = "run", task'[at'["worker"].cur].op \in Stops
               PROVE  \A i \in DOMAIN task' : task'[i].op = "work" => task'[i].state # "Initial"
            <4>1. at["worker"].pc = "run" /\ at["worker"].cur \in DOMAIN task
                  /\ OpOf(at["worker"].cur) \in Stops
                BY <2>5, <3>4, <3>5, <3>10 DEF OpOf
            <4>2. mode # "Running"
                BY <4>1 DEF IInv, StopOK
            <4> QED BY <2>4, <2>5, <3>2, <4>1, <4>2 DEF IInv, StopOK, OpOf
        <3>11. at'["worker"].pc \in {"cancelTimer", "reset"} => task'[at'["worker"].cur].op \in Stops
            BY <2>5, <3>4, <3>5 DEF IInv, StopOK, OpOf
        <3>12. ASSUME Ending'
               PROVE  /\ mode # "Running"
                      /\ \A i \in DOMAIN task' :
                             task'[i].op \in {"work", "timer"} /\ task'[i].state = "Initial" =>
                             at'["worker"].pc = "cancelTimer" /\ i \in at'["worker"].batch
            <4>1. Ending /\ (at["worker"].pc = "cancelTimer" => at'["worker"] = at["worker"])
                BY <1>2, <3>4, <3>12 DEF Ending
            <4>2. mode # "Running"
                BY <4>1 DEF IInv, StopOK
            <4> QED BY <2>4, <2>5, <3>2, <4>1, <4>2 DEF IInv, StopOK, OpOf
        <3>13. \A i \in DOMAIN task' : task'[i].op = "timer" /\ task'[i].state = "Initial" =>
                   i = lruCallback \/ (at'["worker"].pc = "retain" /\ at'["worker"].new = i)
            <4>1. at[t].op = "timer" => at'["worker"].pc = "retain" /\ at'["worker"].new = n
                BY <2>6, <2>7, <3>3
            <4>2. at["worker"].pc = "retain" => at'["worker"] = at["worker"]
                BY <3>4
            <4> QED BY <2>4, <2>5, <4>1, <4>2 DEF IInv, StopOK, OpOf
        <3>14. /\ at'["worker"].op = "timer" =>
                     task'[at'["worker"].cur].op = "timer" /\ at'["worker"].cur = lruCallback
               /\ at'["worker"].pc = "run" /\ task'[at'["worker"].cur].op = "timer" =>
                     at'["worker"].cur = lruCallback
            BY <2>5, <3>4, <3>5, <3>6 DEF IInv, StopOK, OpOf
        <3>15. signalled => Ending'
            BY <1>2, <3>4 DEF IInv, StopOK, Ending
        <3>16. ClientOutlivesWork'
            BY <1>2, <2>5, <3>4, <3>5 DEF IInv, StopOK, ClientOutlivesWork, OpOf
        <3> QED BY <1>2, <3>7, <3>8, <3>9, <3>10, <3>11, <3>12, <3>13, <3>14, <3>15, <3>16,
                   <3>17 DEF StopOK, OpOf
    <2> QED BY <2>18, <2>19, <2>20, <2>21, <2>22, <2>23, <2>24, <2>25, <2>26, <2>27 DEF IInv
<1> QED BY <1>4, <1>5

(* A thread that moves keeps the types.                                    *)
LEMMA MoveStateOK ==
    ASSUME StateOK, NEW t \in Threads, NEW r \in ThreadRecords(Len(task)),
           at' = [at EXCEPT ![t] = r],
           mode' \in {"Running", "Restricted", "Disposed"},
           queueMutex' \in Threads \union {None}, firestoreMutex' \in Threads \union {None},
           signalled' \in BOOLEAN,
           UNCHANGED <<task, tasks, disposed, line, delayed, lruCallback, terminated, dropped,
                       calls>>
    PROVE  StateOK'
<1>1. at' \in [Threads -> ThreadRecords(Len(task))]
    BY DEF StateOK
<1> QED BY <1>1 DEF StateOK

(* The operations that do not stop the client.                             *)
LEMMA BodyKeepsIInv ==
    ASSUME IInv, RunWork \/ RunCallback \/ RunClear \/ RunTimer
    PROVE  IInv'
<1>0. StateOK /\ None \notin Threads /\ "worker" \in Threads /\ "user" \in Threads
    BY QueueAssumption DEF IInv, Threads, Executors
<1>1. PICK e \in Executors :
          /\ at[e].pc = "run"
          /\ \/ e = "worker" /\ at' = [at EXCEPT ![e].pc = "insert", ![e].op = "callback"]
             \/ /\ e = "worker" /\ at' = [at EXCEPT ![e].pc = "enqueue", ![e].op = "timer"]
                /\ OpOf(at[e].cur) = "timer"
             \/ at' = [at EXCEPT ![e].pc = "finish"]
    BY DEF RunWork, RunCallback, RunClear, RunTimer, Running, Executors
<1>2. at[e] \in ThreadRecords(Len(task)) /\ Len(task) \in Nat /\ e \in Threads
    BY <1>0, TypeFacts
<1>3. \E r \in ThreadRecords(Len(task)) :
          /\ at' = [at EXCEPT ![e] = r]
          /\ r.cur = at[e].cur /\ r.batch = at[e].batch
          /\ \/ e = "worker" /\ r.pc = "insert" /\ r.op = "callback"
             \/ e = "worker" /\ r.pc = "enqueue" /\ r.op = "timer" /\ OpOf(at[e].cur) = "timer"
             \/ r.pc = "finish" /\ r.op = at[e].op
    <2>1. CASE e = "worker" /\ at' = [at EXCEPT ![e].pc = "insert", ![e].op = "callback"]
        <3>1. PICK r : r = [at[e] EXCEPT !.pc = "insert", !.op = "callback"]
            OBVIOUS
        <3>2. at' = [at EXCEPT ![e] = r]
            BY <2>1, <3>1
        <3>3. /\ r \in ThreadRecords(Len(task)) /\ r.pc = "insert" /\ r.op = "callback"
              /\ r.cur = at[e].cur /\ r.batch = at[e].batch
            BY <1>2, <3>1 DEF ThreadRecords, Places, Ops
        <3> QED BY <2>1, <3>2, <3>3
    <2>2. CASE /\ e = "worker" /\ at' = [at EXCEPT ![e].pc = "enqueue", ![e].op = "timer"]
               /\ OpOf(at[e].cur) = "timer"
        <3>1. PICK r : r = [at[e] EXCEPT !.pc = "enqueue", !.op = "timer"]
            OBVIOUS
        <3>2. at' = [at EXCEPT ![e] = r]
            BY <2>2, <3>1
        <3>3. /\ r \in ThreadRecords(Len(task)) /\ r.pc = "enqueue" /\ r.op = "timer"
              /\ r.cur = at[e].cur /\ r.batch = at[e].batch
            BY <1>2, <3>1 DEF ThreadRecords, Places, Ops
        <3> QED BY <2>2, <3>2, <3>3
    <2>3. CASE at' = [at EXCEPT ![e].pc = "finish"]
        <3>1. PICK r : r = [at[e] EXCEPT !.pc = "finish"]
            OBVIOUS
        <3>2. at' = [at EXCEPT ![e] = r]
            BY <2>3, <3>1
        <3>3. /\ r \in ThreadRecords(Len(task)) /\ r.pc = "finish" /\ r.op = at[e].op
              /\ r.cur = at[e].cur /\ r.batch = at[e].batch
            BY <1>2, <3>1 DEF ThreadRecords, Places, Ops
        <3> QED BY <3>2, <3>3
    <2> QED BY <1>1, <2>1, <2>2, <2>3
<1>4. PICK r \in ThreadRecords(Len(task)) :
          /\ at' = [at EXCEPT ![e] = r]
          /\ r.cur = at[e].cur /\ r.batch = at[e].batch
          /\ \/ e = "worker" /\ r.pc = "insert" /\ r.op = "callback"
             \/ e = "worker" /\ r.pc = "enqueue" /\ r.op = "timer" /\ OpOf(at[e].cur) = "timer"
             \/ r.pc = "finish" /\ r.op = at[e].op
    BY <1>3
<1>5. UNCHANGED <<mode, queueMutex, task, tasks, disposed, line, delayed, lruCallback,
                  terminated, signalled, dropped, calls>>
    BY DEF RunWork, RunCallback, RunClear, RunTimer, client
<1>6. firestoreMutex' \in Threads \union {None}
    BY <1>0 DEF RunWork, RunCallback, RunClear, RunTimer, StateOK
<1>7. at[e].batch = {} /\ at[e].op # "dispose"
    BY <1>1, <1>2 DEF IInv, WhereThreadsAre, Looping, HandingOver
<1>8. at'[e] = r /\ \A x \in Threads : x # e => at'[x] = at[x]
    BY <1>0, <1>2, <1>4, OneThread
<1>9. TaskPart'
    BY <1>1, <1>2, <1>4, <1>5, <1>7, MoveOK DEF Inside, Places
<1>10. StateOK'
    BY <1>0, <1>2, <1>4, <1>5, <1>6, MoveStateOK DEF StateOK
<1>11. WhereThreadsAre'
    <2>1. \A f \in Executors : f \in Threads /\ f \notin Callers
        BY QueueAssumption DEF Threads
    <2> QED BY <1>1, <1>4, <1>7, <1>8, <2>1
               DEF IInv, WhereThreadsAre, HandingOver, Looping, Executors, Threads
<1>12. MutexOK'
    BY <1>0, <1>1, <1>2, <1>4, <1>5, <1>8 DEF IInv, MutexOK
<1>13. DisposeOK'
    <2>1. Destroyer("worker")' => Destroyer("worker")
        BY <1>0, <1>1, <1>4, <1>7, <1>8 DEF Destroyer
    <2> QED BY <1>1, <1>2, <1>4, <1>5, <1>7, <1>8, <2>1
               DEF IInv, DisposeOK, Destroyer, Quiet, Looping
<1>14. StopOK'
    BY <1>1, <1>2, <1>4, <1>5, <1>7, StopUndisturbed DEF HandingOver, Stops
<1> QED BY <1>9, <1>10, <1>11, <1>12, <1>13, <1>14 DEF IInv, TaskPart

(* The thread that takes Firestore down, and the worker if it does that,   *)
(* which does not get beyond waiting.                                      *)
LEMMA DestroyerFacts ==
    ASSUME IInv, NEW t \in Threads,
           at[t].pc \in {"destroy", "wait", "close", "swap", "cancel", "await"},
           t = "worker" => at[t].pc \in {"close", "swap", "cancel", "await"}
    PROVE  /\ StateOK /\ None \notin Threads /\ "worker" \in Threads /\ "user" \in Threads
           /\ at[t] \in ThreadRecords(Len(task)) /\ Len(task) \in Nat
           /\ DOMAIN task = 1 .. Len(task)
           /\ t # "worker" /\ (t \in Callers \/ t = "user")
           /\ t \in Callers => t \notin Executors /\ t # "worker" /\ t # "user"
           /\ dropped
           /\ \A s \in Threads : Destroyer(s) => s = t
           /\ queueMutex # t
<1>1. StateOK /\ None \notin Threads /\ "worker" \in Threads /\ "user" \in Threads
    BY QueueAssumption DEF IInv, Threads, Executors
<1>2. /\ at[t] \in ThreadRecords(Len(task)) /\ Len(task) \in Nat
      /\ DOMAIN task = 1 .. Len(task)
    BY <1>1, TypeFacts
<1>3. t # "worker"
    BY DEF IInv, WhereThreadsAre
<1>4. Destroyer(t)
    BY DEF IInv, WhereThreadsAre, Destroyer
<1>5. dropped /\ \A s \in Threads : Destroyer(s) => s = t
    BY <1>4 DEF IInv, DisposeOK
<1>6. queueMutex # t
    BY DEF IInv, MutexOK
<1>7. t \in Callers \/ t = "user"
    BY <1>3 DEF Threads, Executors
<1>8. t \in Callers => t \notin Executors /\ t # "worker" /\ t # "user"
    BY QueueAssumption DEF Executors
<1> QED BY <1>1, <1>2, <1>3, <1>5, <1>6, <1>7, <1>8

(* The worker drops the last reference and begins to take Firestore down.  *)
LEMMA WorkerDestroysKeepsIInv ==
    ASSUME IInv, (DestroysOwners /\ DropLast("worker")) \/ Destroy("worker")
    PROVE  IInv'
<1>0. StateOK /\ None \notin Threads /\ "worker" \in Threads /\ "user" \in Threads
    BY QueueAssumption DEF IInv, Threads, Executors
<1>1. /\ at["worker"] \in ThreadRecords(Len(task)) /\ Len(task) \in Nat
      /\ at["worker"].pc \in {"run", "reset", "finish", "destroy"}
    BY <1>0, TypeFacts DEF DestroysOwners, Running, Destroy
<1>2. at["worker"].batch = {} /\ at["worker"].op # "dispose" /\ queueMutex # "worker"
    BY <1>0, <1>1 DEF IInv, WhereThreadsAre, MutexOK, Looping, HandingOver
<1>3. /\ UNCHANGED <<queueMutex, task, tasks, disposed, line, delayed, lruCallback,
                     terminated, signalled, calls>>
      /\ firestoreMutex' \in Threads \union {None} /\ dropped'
    BY <1>0 DEF DropLast, Destroy, client, StateOK, Unlock, IInv, DisposeOK, Destroyer
<1>4. CASE DestroysOwners /\ DropLast("worker")
    <2>1. PICK r : r = [at["worker"] EXCEPT !.pc = "destroy"]
        OBVIOUS
    <2>2. /\ at' = [at EXCEPT !["worker"] = r] /\ mode' = mode /\ ~dropped
          /\ at["worker"].pc \in {"run", "reset", "finish"}
        BY <1>4, <2>1 DEF DropLast, DestroysOwners, Running
    <2>3. /\ r \in ThreadRecords(Len(task)) /\ r.pc = "destroy" /\ r.op = at["worker"].op
          /\ r.cur = at["worker"].cur /\ r.batch = {}
        BY <1>1, <1>2, <2>1 DEF ThreadRecords, Places
    <2>4. at'["worker"] = r /\ \A x \in Threads : x # "worker" => at'[x] = at[x]
        BY <1>0, <2>2, OneThread
    <2>5. ~signalled /\ mode # "Disposed" /\ \A x \in Threads : ~Destroyer(x)
        BY <2>2 DEF IInv, DisposeOK
    <2>6. TaskPart'
        BY <1>0, <1>2, <1>3, <2>2, <2>3, MoveOK DEF Inside, Places
    <2>7. StateOK'
        <3>1. at' \in [Threads -> ThreadRecords(Len(task))] /\ dropped' \in BOOLEAN
            BY <1>0, <1>3, <2>2, <2>3 DEF StateOK, DropLast
        <3> QED BY <1>0, <1>3, <2>2, <3>1 DEF StateOK
    <2>8. WhereThreadsAre'
        <3>1. \A e \in Executors : e \in Threads /\ e \notin Callers
            BY QueueAssumption DEF Threads
        <3> QED BY <1>2, <2>2, <2>3, <2>4, <3>1
                   DEF IInv, WhereThreadsAre, HandingOver, Looping, Executors, Threads
    <2>9. MutexOK'
        BY <1>0, <1>2, <1>3, <2>2, <2>3, <2>4 DEF IInv, MutexOK
    <2>10. DisposeOK'
        <3>1. \A x \in Threads :
                  /\ (at'[x].pc = "destroy" \/ at'[x].op = "dispose") => x = "worker"
                  /\ at'[x].op # "dispose"
                  /\ at'[x].pc \notin {"close", "swap", "cancel", "await"}
            BY <1>2, <2>3, <2>4, <2>5 DEF Destroyer, IInv, WhereThreadsAre
        <3>2. (\A e \in Executors : ~disposed'[e]) /\ ~signalled'
            BY <1>3, <2>5 DEF IInv, DisposeOK
        <3>3. dropped' /\ mode' # "Disposed" /\ "user" \in Executors
            BY <1>3, <2>2, <2>5 DEF Executors
        <3>4. /\ \A x, y \in Threads :
                     /\ at'[x].pc = "destroy" \/ at'[x].op = "dispose"
                     /\ at'[y].pc = "destroy" \/ at'[y].op = "dispose"
                     => x = y
              /\ \A x \in Threads : (at'[x].pc = "destroy" \/ at'[x].op = "dispose") => dropped'
              /\ \A x \in Threads : at'[x].op = "dispose" => mode' # "Running"
              /\ \A x \in Threads :
                     (at'[x].pc = "destroy" \/ at'[x].op = "dispose") /\ mode' = "Disposed" =>
                     at'[x].pc \in {"swap", "cancel", "await"}
            BY <3>1, <3>3
        <3>5. \A x \in Threads : at'[x].pc \notin Looping /\ at'[x].pc # "swap"
                                 /\ at'[x].pc \notin {"swap", "cancel", "await"}
                                 /\ at'[x].pc \notin {"close", "swap", "cancel", "await"}
            BY <3>1 DEF Looping
        <3>6. /\ mode' = "Disposed" => dropped'
              /\ \A e \in Executors : disposed'[e] =>
                     tasks'[e] = {} /\ mode' = "Disposed" /\ signalled'
              /\ disposed'["user"] => Quiet("worker")'
              /\ signalled' => dropped'
              /\ Destroyer("worker")' => ~signalled'
            BY <3>2, <3>3
        <3> QED BY <3>4, <3>5, <3>6 DEF DisposeOK, Destroyer
    <2>11. StopOK'
        BY <1>0, <1>3, <2>2, <2>3, <2>5, StopUndisturbed DEF HandingOver
    <2> QED BY <2>6, <2>7, <2>8, <2>9, <2>10, <2>11 DEF IInv, TaskPart
<1>5. CASE Destroy("worker")
    <2>1. PICK r : r = [at["worker"] EXCEPT !.pc = "enqueue", !.op = "dispose"]
        OBVIOUS
    <2>2. /\ at' = [at EXCEPT !["worker"] = r] /\ EnterRestrictedMode
          /\ at["worker"].pc = "destroy" /\ dropped' = dropped
        BY <1>5, <2>1 DEF Destroy, client
    <2>3. /\ r \in ThreadRecords(Len(task)) /\ r.pc = "enqueue" /\ r.op = "dispose"
          /\ r.cur = at["worker"].cur /\ r.batch = {}
        BY <1>1, <1>2, <2>1 DEF ThreadRecords, Places, Ops
    <2>4. at'["worker"] = r /\ \A x \in Threads : x # "worker" => at'[x] = at[x]
        BY <1>0, <2>2, OneThread
    <2>5. /\ ~signalled /\ mode # "Disposed" /\ Destroyer("worker")
          /\ \A x \in Threads : Destroyer(x) => x = "worker"
        BY <1>0, <2>2 DEF IInv, DisposeOK, Destroyer
    <2>6. mode' = "Restricted" /\ queueMutex = None
        BY <2>2, <2>5 DEF EnterRestrictedMode
    <2>7. TaskPart'
        BY <1>0, <1>2, <1>3, <2>2, <2>3, MoveOK DEF Inside, Places
    <2>8. StateOK'
        BY <1>0, <1>3, <2>2, <2>3, <2>6, MoveStateOK DEF StateOK
    <2>9. WhereThreadsAre'
        <3>1. \A e \in Executors : e \in Threads /\ e \notin Callers
            BY QueueAssumption DEF Threads
        <3> QED BY <1>2, <2>2, <2>3, <2>4, <3>1
                   DEF IInv, WhereThreadsAre, HandingOver, Looping, Executors, Threads
    <2>10. MutexOK'
        BY <1>0, <1>3, <2>3, <2>4, <2>6 DEF IInv, MutexOK
    <2>11. DisposeOK'
        <3>1. \A x \in Threads :
                  /\ (at'[x].pc = "destroy" \/ at'[x].op = "dispose") => x = "worker"
                  /\ at'[x].pc \notin {"close", "swap", "cancel", "await"}
            BY <2>3, <2>4, <2>5 DEF Destroyer, IInv, WhereThreadsAre
        <3>2. (\A e \in Executors : ~disposed'[e]) /\ ~signalled'
            BY <1>3, <2>5 DEF IInv, DisposeOK
        <3>3. dropped' /\ mode' = "Restricted" /\ "user" \in Executors
            BY <1>3, <2>6 DEF Executors
        <3>4. /\ \A x, y \in Threads :
                     /\ at'[x].pc = "destroy" \/ at'[x].op = "dispose"
                     /\ at'[y].pc = "destroy" \/ at'[y].op = "dispose"
                     => x = y
              /\ \A x \in Threads : (at'[x].pc = "destroy" \/ at'[x].op = "dispose") => dropped'
              /\ \A x \in Threads : at'[x].op = "dispose" => mode' # "Running"
              /\ \A x \in Threads :
                     (at'[x].pc = "destroy" \/ at'[x].op = "dispose") /\ mode' = "Disposed" =>
                     at'[x].pc \in {"swap", "cancel", "await"}
            BY <3>1, <3>3
        <3>5. \A x \in Threads : at'[x].pc \notin Looping /\ at'[x].pc # "swap"
                                 /\ at'[x].pc \notin {"swap", "cancel", "await"}
                                 /\ at'[x].pc \notin {"close", "swap", "cancel", "await"}
            BY <3>1 DEF Looping
        <3>6. /\ mode' = "Disposed" => dropped'
              /\ \A e \in Executors : disposed'[e] =>
                     tasks'[e] = {} /\ mode' = "Disposed" /\ signalled'
              /\ disposed'["user"] => Quiet("worker")'
              /\ signalled' => dropped'
              /\ Destroyer("worker")' => ~signalled'
            BY <3>2, <3>3
        <3> QED BY <3>4, <3>5, <3>6 DEF DisposeOK, Destroyer
    <2>12. StopOK'
        <3>1. Ending' => Ending
            BY <1>3, <2>3, <2>4 DEF Ending
        <3>2. \A x \in Threads : at'[x].pc \in HandingOver /\ at'[x].op \in Stops =>
                  mode' # "Running"
            BY <2>6
        <3> QED BY <1>3, <2>2, <2>3, <2>4, <2>5, <2>6, <3>1, <3>2
                   DEF IInv, StopOK, ClientOutlivesWork, OpOf
    <2> QED BY <2>7, <2>8, <2>9, <2>10, <2>11, <2>12 DEF IInv, TaskPart
<1> QED BY <1>4, <1>5

(* The worker waits in vain.                                               *)
LEMMA WorkerNeverCloses ==
    ASSUME IInv
    PROVE  ~Wait("worker") /\ ~Close("worker")
BY DEF IInv, Wait, Close, WhereThreadsAre, DisposeOK, Destroyer, Threads, Executors

(* ~Firestore up to the point where the executors are disposed of.         *)
LEMMA DestroyKeepsIInv ==
    ASSUME IInv, NEW t \in Threads, t # "worker", Destroy(t) \/ Wait(t) \/ Close(t)
    PROVE  IInv'
<1>0. at[t].pc \in {"destroy", "wait", "close"}
    BY DEF Destroy, Wait, Close
<1>1. /\ StateOK /\ None \notin Threads /\ "worker" \in Threads /\ "user" \in Threads
      /\ at[t] \in ThreadRecords(Len(task)) /\ Len(task) \in Nat
      /\ DOMAIN task = 1 .. Len(task)
      /\ t # "worker" /\ (t \in Callers \/ t = "user")
      /\ t \in Callers => t \notin Executors /\ t # "worker" /\ t # "user"
      /\ dropped
      /\ \A s \in Threads : Destroyer(s) => s = t
      /\ queueMutex # t
    BY <1>0, DestroyerFacts
<1>2. \E r \in ThreadRecords(Len(task)) :
          /\ at' = [at EXCEPT ![t] = r] /\ r.op = "dispose"
          /\ r.cur = at[t].cur /\ r.batch = at[t].batch
          /\ \/ at[t].pc = "destroy" /\ r.pc = "enqueue" /\ EnterRestrictedMode
             \/ at[t].pc = "wait" /\ r.pc = "close" /\ mode' = mode /\ signalled
             \/ /\ at[t].pc = "close" /\ r.pc = "swap" /\ mode' = "Disposed"
                /\ queueMutex = None /\ r.ex = "worker"
    <2>1. CASE Destroy(t)
        <3>1. PICK r : r = [at[t] EXCEPT !.pc = "enqueue", !.op = "dispose"]
            OBVIOUS
        <3>2. at' = [at EXCEPT ![t] = r] /\ EnterRestrictedMode /\ at[t].pc = "destroy"
            BY <2>1, <3>1 DEF Destroy
        <3>3. /\ r \in ThreadRecords(Len(task)) /\ r.pc = "enqueue" /\ r.op = "dispose"
              /\ r.cur = at[t].cur /\ r.batch = at[t].batch
            BY <1>1, <3>1 DEF ThreadRecords, Places, Ops
        <3> QED BY <3>2, <3>3
    <2>2. CASE Wait(t)
        <3>1. PICK r : r = [at[t] EXCEPT !.pc = "close"]
            OBVIOUS
        <3>2. /\ at' = [at EXCEPT ![t] = r] /\ mode' = mode /\ signalled /\ at[t].pc = "wait"
              /\ at[t].op = "dispose"
            BY <2>2, <3>1 DEF Wait, IInv, WhereThreadsAre
        <3>3. /\ r \in ThreadRecords(Len(task)) /\ r.pc = "close" /\ r.op = at[t].op
              /\ r.cur = at[t].cur /\ r.batch = at[t].batch
            BY <1>1, <3>1 DEF ThreadRecords, Places, Ops
        <3> QED BY <3>2, <3>3
    <2>3. CASE Close(t)
        <3>1. PICK r : r = [at[t] EXCEPT !.pc = "swap", !.ex = "worker"]
            OBVIOUS
        <3>2. /\ at' = [at EXCEPT ![t] = r] /\ mode' = "Disposed" /\ queueMutex = None
              /\ at[t].pc = "close" /\ at[t].op = "dispose"
            BY <2>3, <3>1 DEF Close, IInv, WhereThreadsAre
        <3>3. /\ r \in ThreadRecords(Len(task)) /\ r.pc = "swap" /\ r.op = at[t].op
              /\ r.cur = at[t].cur /\ r.batch = at[t].batch /\ r.ex = "worker"
            BY <1>1, <3>1 DEF ThreadRecords, Places, Ops, Executors
        <3> QED BY <3>2, <3>3
    <2> QED BY <2>1, <2>2, <2>3
<1>3. PICK r \in ThreadRecords(Len(task)) :
          /\ at' = [at EXCEPT ![t] = r] /\ r.op = "dispose"
          /\ r.cur = at[t].cur /\ r.batch = at[t].batch
          /\ \/ at[t].pc = "destroy" /\ r.pc = "enqueue" /\ EnterRestrictedMode
             \/ at[t].pc = "wait" /\ r.pc = "close" /\ mode' = mode /\ signalled
             \/ /\ at[t].pc = "close" /\ r.pc = "swap" /\ mode' = "Disposed"
                /\ queueMutex = None /\ r.ex = "worker"
    BY <1>2
<1>4. UNCHANGED <<queueMutex, task, tasks, disposed, line, delayed, lruCallback,
                  terminated, signalled, dropped, calls>>
    BY DEF Destroy, Wait, Close, client
<1>5. firestoreMutex' \in Threads \union {None}
    BY <1>1 DEF Destroy, Wait, Close, StateOK
<1>6. at[t].batch = {}
    BY <1>0 DEF IInv, WhereThreadsAre, Looping
<1>7. at'[t] = r /\ \A x \in Threads : x # t => at'[x] = at[x]
    BY <1>1, <1>3, OneThread
<1>8. at'["worker"] = at["worker"]
    BY <1>1, <1>7
<1>9. /\ mode' \in {"Running", "Restricted", "Disposed"}
      /\ mode # "Running" => mode' # "Running"
      /\ mode' # mode => queueMutex = None
      /\ at[t].pc # "wait" => mode' # "Running"
      /\ at[t].pc # "close" => (mode' = "Disposed" <=> mode = "Disposed")
    BY <1>0, <1>1, <1>3 DEF StateOK, EnterRestrictedMode
<1>10. TaskPart'
    BY <1>0, <1>3, <1>4, <1>6, MoveOK DEF Inside, Places
<1>11. StateOK'
    BY <1>1, <1>3, <1>4, <1>5, <1>9, MoveStateOK DEF StateOK
<1>12. WhereThreadsAre'
    BY <1>0, <1>1, <1>3, <1>6, <1>7, <1>8
       DEF IInv, WhereThreadsAre, HandingOver, Looping, Executors, Threads
<1>13. MutexOK'
    <2>1. \A x \in Threads :
              queueMutex = x <=> at'[x].pc \in {"insert", "retain"} /\ at'[x].op # "callback"
        BY <1>0, <1>1, <1>3, <1>7 DEF IInv, MutexOK
    <2> QED BY <1>1, <1>4, <1>7, <1>9, <2>1 DEF IInv, MutexOK
<1>14. DisposeOK'
    <2>1. \A s \in Threads : at'[s].op = "dispose" \/ at'[s].pc = "destroy" => s = t
        BY <1>1, <1>7 DEF Destroyer
    <2>2. \A s \in Threads : at'[s].pc \in {"swap", "cancel", "await"} =>
              /\ s = t /\ at'[s].pc = "swap" /\ at'[s].ex = "worker" /\ mode' = "Disposed"
              /\ signalled
        BY <1>0, <1>1, <1>3, <1>7 DEF IInv, WhereThreadsAre, Destroyer, DisposeOK
    <2>3. at'[t].pc = "close" => signalled
        BY <1>3, <1>7
    <2>4. at[t].op = "dispose" \/ at[t].pc = "destroy"
        BY <1>0 DEF IInv, WhereThreadsAre
    <2>5. mode # "Disposed"
        BY <1>0, <1>1, <2>4 DEF IInv, DisposeOK, Destroyer
    <2>6. mode' = "Disposed" => at'[t].pc = "swap"
        BY <1>0, <1>3, <1>7, <1>9, <2>5
    <2>7. mode' # "Running"
        BY <1>0, <1>9, <2>4 DEF IInv, DisposeOK
    <2>8. \A e \in Executors : ~disposed[e]
        BY <2>5 DEF IInv, DisposeOK
    <2>9. \A s \in Threads : at'[s].pc = "close" => s = t
        BY <1>1, <1>7 DEF IInv, WhereThreadsAre, Destroyer
    <2> QED BY <1>1, <1>4, <2>1, <2>2, <2>3, <2>6, <2>7, <2>8, <2>9
               DEF DisposeOK, Destroyer, Looping, Executors
<1>15. StopOK'
    <2>1. \A x \in Threads : at'[x].pc \in HandingOver /\ at'[x].op \in Stops => mode' # "Running"
        BY <1>0, <1>3, <1>7, <1>9 DEF IInv, StopOK, HandingOver
    <2> QED BY <1>1, <1>4, <1>8, <1>9, <2>1
               DEF IInv, StopOK, Ending, ClientOutlivesWork, OpOf
<1> QED BY <1>10, <1>11, <1>12, <1>13, <1>14, <1>15 DEF IInv, TaskPart

(* The loop over an executor's tasks has ended.                            *)
LEMMA ClearedKeepsIInv ==
    ASSUME IInv, NEW t \in Threads, Cleared(t)
    PROVE  IInv'
<1>0. at[t].pc = "cancel" /\ at[t].batch = {} /\ at[t].op = "dispose" /\ disposed[at[t].ex]
      /\ mode = "Disposed" /\ signalled
    BY DEF Cleared, IInv, WhereThreadsAre, DisposeOK, Looping
<1>1. /\ StateOK /\ None \notin Threads /\ "worker" \in Threads /\ "user" \in Threads
      /\ at[t] \in ThreadRecords(Len(task)) /\ Len(task) \in Nat
      /\ DOMAIN task = 1 .. Len(task)
      /\ t # "worker" /\ (t \in Callers \/ t = "user")
      /\ t \in Callers => t \notin Executors /\ t # "worker" /\ t # "user"
      /\ dropped
      /\ \A s \in Threads : Destroyer(s) => s = t
      /\ queueMutex # t
    BY <1>0, DestroyerFacts
<1>2. UNCHANGED <<mode, queueMutex, task, tasks, disposed, line, delayed, lruCallback,
                  terminated, signalled, dropped, calls>>
    BY DEF Cleared, client
<1>3. firestoreMutex' \in Threads \union {None}
    BY <1>1 DEF Cleared, StateOK
<1>4. CASE at[t].ex = "worker"
    <2>1. PICK r : r = [at[t] EXCEPT !.pc = "swap", !.ex = "user"]
        OBVIOUS
    <2>2. at' = [at EXCEPT ![t] = r]
        BY <1>4, <2>1 DEF Cleared
    <2>3. /\ r \in ThreadRecords(Len(task)) /\ r.pc = "swap" /\ r.op = at[t].op
          /\ r.cur = at[t].cur /\ r.batch = at[t].batch /\ r.ex = "user"
        BY <1>1, <2>1 DEF ThreadRecords, Places, Ops, Executors
    <2>4. at'[t] = r /\ \A x \in Threads : x # t => at'[x] = at[x]
        BY <1>1, <2>2, OneThread
    <2>5. at'["worker"] = at["worker"]
        BY <1>1, <2>4
    <2>6. TaskPart'
        BY <1>0, <1>2, <2>2, <2>3, MoveOK DEF Inside, Places
    <2>7. StateOK'
        BY <1>1, <1>2, <1>3, <2>2, <2>3, MoveStateOK DEF StateOK
    <2>8. WhereThreadsAre'
        BY <1>0, <1>1, <2>3, <2>4, <2>5
           DEF IInv, WhereThreadsAre, HandingOver, Looping, Executors, Threads
    <2>9. MutexOK'
        BY <1>0, <1>1, <1>2, <2>3, <2>4 DEF IInv, MutexOK
    <2>10. DisposeOK'
        <3>1. \A s \in Threads : at'[s].pc \in {"wait", "close", "swap", "cancel", "await", "destroy"}
                                     \/ at'[s].op = "dispose" => s = t
            BY <1>1, <2>4 DEF IInv, WhereThreadsAre, Destroyer
        <3>2. Quiet("worker")'
            BY <1>0, <1>2, <1>4, <2>3, <2>4, <3>1 DEF Quiet
        <3> QED BY <1>0, <1>1, <1>2, <2>3, <2>4, <3>1, <3>2
                   DEF IInv, DisposeOK, Destroyer, Looping
    <2>11. StopOK'
        BY <1>1, <1>2, <2>2, <2>3, StopUndisturbed DEF HandingOver
    <2> QED BY <2>6, <2>7, <2>8, <2>9, <2>10, <2>11 DEF IInv, TaskPart
<1>5. CASE at[t].ex # "worker"
    <2>1. PICK r : r = Return(t)
        OBVIOUS
    <2>2. at' = [at EXCEPT ![t] = r]
        BY <1>5, <2>1 DEF Cleared
    <2>4. /\ r \in ThreadRecords(Len(task)) /\ r.op = "work" /\ r.cur = at[t].cur
          /\ r.new = 0 /\ r.batch = {}
          /\ t \in Executors => r.pc = "finish"
          /\ t \notin Executors => r.pc = "idle"
        BY <2>1, ReturnProps
    <2>5. TaskPart'
        BY <1>0, <1>2, <2>2, <2>4, MoveOK DEF Inside, Places
    <2>6. StateOK'
        BY <1>1, <1>2, <1>3, <2>2, <2>4, MoveStateOK DEF StateOK
    <2>7. queueMutex' = Unlock(queueMutex, t)
        BY <1>1, <1>2 DEF Unlock
    <2>8. WhereThreadsAre' /\ MutexOK' /\ DisposeOK'
        BY <1>0, <1>2, <2>1, <2>2, <2>7, ReturnOK DEF Inside, Places
    <2>9. StopOK'
        BY <1>0, <1>1, <1>2, <2>2, <2>4, StopUndisturbed DEF HandingOver, Executors
    <2> QED BY <2>5, <2>6, <2>8, <2>9 DEF IInv, TaskPart
<1> QED BY <1>4, <1>5

(* Libdispatch puts a task at the end of an executor's queue.              *)
LEMMA AppendLine ==
    ASSUME StateOK, NEW e \in Executors, NEW n \in DOMAIN task,
           line' = [line EXCEPT ![e] = Append(@, n)]
    PROVE  /\ line' \in [Executors -> Seq(DOMAIN task)]
           /\ \A f \in Executors : f # e => line'[f] = line[f]
           /\ Len(line[e]) \in Nat /\ DOMAIN line[e] = 1 .. Len(line[e])
           /\ DOMAIN line'[e] = DOMAIN line[e] \union {Len(line[e]) + 1}
           /\ line'[e][Len(line[e]) + 1] = n
           /\ \A k \in DOMAIN line[e] : line'[e][k] = line[e][k] /\ k < Len(line[e]) + 1
           /\ \A i : InLine(i)' <=> InLine(i) \/ i = n
<1>1. line[e] \in Seq(DOMAIN task) /\ line \in [Executors -> Seq(DOMAIN task)]
    BY DEF StateOK
<1>2. /\ line' \in [Executors -> Seq(DOMAIN task)] /\ line'[e] = Append(line[e], n)
      /\ \A f \in Executors : f # e => line'[f] = line[f]
    BY <1>1
<1>3. /\ Len(line[e]) \in Nat /\ DOMAIN line[e] = 1 .. Len(line[e])
      /\ DOMAIN line'[e] = DOMAIN line[e] \union {Len(line[e]) + 1}
      /\ line'[e][Len(line[e]) + 1] = n
      /\ \A k \in DOMAIN line[e] : line'[e][k] = line[e][k] /\ k < Len(line[e]) + 1
    BY <1>1, <1>2
<1>4. ASSUME NEW i
      PROVE  InLine(i)' <=> InLine(i) \/ i = n
    <2>1. ASSUME InLine(i)' PROVE InLine(i) \/ i = n
        <3>1. PICK f \in Executors : \E k \in DOMAIN line'[f] : line'[f][k] = i
            BY <2>1 DEF InLine
        <3>2. PICK k \in DOMAIN line'[f] : line'[f][k] = i
            BY <3>1
        <3> QED BY <1>2, <1>3, <3>2 DEF InLine
    <2>2. ASSUME InLine(i) PROVE InLine(i)'
        <3>1. PICK f \in Executors : \E k \in DOMAIN line[f] : line[f][k] = i
            BY <2>2 DEF InLine
        <3>2. PICK k \in DOMAIN line[f] : line[f][k] = i
            BY <3>1
        <3>3. k \in DOMAIN line'[f] /\ line'[f][k] = i
            BY <1>2, <1>3, <3>2
        <3> QED BY <3>3 DEF InLine
    <2>3. ASSUME i = n PROVE InLine(i)'
        BY <1>3, <2>3 DEF InLine
    <2> QED BY <2>1, <2>2, <2>3
<1> QED BY <1>2, <1>3, <1>4

(* A timer comes due: libdispatch has it in another place.                 *)
LEMMA DueKeepsIInv ==
    ASSUME IInv, NEW i \in delayed, Due(i)
    PROVE  IInv'
<1>0. StateOK /\ i \in DOMAIN task /\ "worker" \in Executors
    BY DEF IInv, StateOK, Executors
<1>1. /\ delayed' = delayed \ {i} /\ line' = [line EXCEPT !["worker"] = Append(@, i)]
      /\ UNCHANGED <<mode, queueMutex, firestoreMutex, task, tasks, disposed, at, lruCallback,
                     terminated, signalled, dropped, calls>>
    BY DEF Due, client
<1>2. /\ line' \in [Executors -> Seq(DOMAIN task)]
      /\ \A f \in Executors : f # "worker" => line'[f] = line[f]
      /\ Len(line["worker"]) \in Nat /\ DOMAIN line["worker"] = 1 .. Len(line["worker"])
      /\ DOMAIN line'["worker"] = DOMAIN line["worker"] \union {Len(line["worker"]) + 1}
      /\ line'["worker"][Len(line["worker"]) + 1] = i
      /\ \A k \in DOMAIN line["worker"] : line'["worker"][k] = line["worker"][k]
                                          /\ k < Len(line["worker"]) + 1
      /\ \A j : InLine(j)' <=> InLine(j) \/ j = i
    BY <1>0, <1>1, AppendLine
<1>3. OpOf(i) = "timer" /\ Exec(i) = "worker"
    BY DEF IInv, OwnTasks, Exec, ExecutorOf
<1>4. \A f \in Executors : \A k \in DOMAIN line'[f] :
          \/ k \in DOMAIN line[f] /\ line'[f][k] = line[f][k]
          \/ f = "worker" /\ k = Len(line["worker"]) + 1 /\ line'[f][k] = i
    BY <1>2
<1>5. ~InLine(i) /\ \A f \in Executors : at[f].cur # i
    BY DEF IInv, InOnePlace
<1>6. \A f \in Executors : \A k \in DOMAIN line[f] : line[f][k] # i
    BY <1>5 DEF InLine
<1>7. \A j : Held(j)' = Held(j) /\ OpOf(j)' = OpOf(j) /\ Exec(j)' = Exec(j)
    BY <1>1 DEF Held, OpOf, Exec
<1>8. \A j : Dispatched(j)' <=> Dispatched(j)
    BY <1>1, <1>2 DEF Dispatched
<1>9. StateOK'
    BY <1>0, <1>1, <1>2 DEF StateOK
<1>10. OwnTasks'
    <2>1. \A f \in Executors : \A k \in DOMAIN line'[f] : Exec(line'[f][k]) = f
        BY <1>3, <1>4 DEF IInv, OwnTasks
    <2>2. \A f \in Executors : \A k \in DOMAIN line'[f] : ExecutorOf(task'[line'[f][k]].op) = f
        BY <1>1, <2>1 DEF Exec, OpOf
    <2> QED BY <1>1, <2>2 DEF IInv, OwnTasks, Exec, OpOf
<1>11. InOnePlace'
    <2>1. \A j \in delayed' : ~InLine(j)' /\ \A f \in Executors : at[f].cur # j
        BY <1>1, <1>2 DEF IInv, InOnePlace
    <2>2. \A f \in Executors : \A k, l \in DOMAIN line'[f] : line'[f][k] = line'[f][l] => k = l
        BY <1>4, <1>6 DEF IInv, InOnePlace
    <2>3. \A f, g \in Executors : \A k \in DOMAIN line'[f] : line'[f][k] # at[g].cur
        BY <1>4, <1>5 DEF IInv, InOnePlace
    <2>4. ASSUME NEW t \in Threads, at[t].pc = "retain"
          PROVE  /\ at[t].new \notin delayed'
                 /\ ~\E f \in Executors : \E k \in DOMAIN line'[f] : line'[f][k] = at[t].new
        <3>1. at[t].new \notin delayed /\ ~InLine(at[t].new)
            BY <2>4 DEF IInv, InOnePlace
        <3>2. at[t].new # i
            BY <3>1
        <3> QED BY <1>1, <1>4, <3>1, <3>2 DEF InLine
    <2>5. \A t \in Threads : at[t].pc = "retain" =>
              /\ \A f \in Executors : at[f].cur # at[t].new
              /\ \A s \in Threads : at[s].pc = "retain" /\ at[s].new = at[t].new => s = t
        BY DEF IInv, InOnePlace
    <2> QED BY <1>1, <2>1, <2>2, <2>3, <2>4, <2>5 DEF InOnePlace, InLine
<1>12. HeldOnce'
    BY <1>1, <1>7 DEF IInv, HeldOnce
<1>13. Counted'
    BY <1>1, <1>7, <1>8 DEF IInv, Counted
<1>14. StatesOK'
    <2>1. \A j : j \in delayed \/ InLine(j) <=> j \in delayed' \/ InLine(j)'
        BY <1>1, <1>2
    <2>2. \A j \in DOMAIN task : task[j].state = "Initial" =>
              /\ Held(j)'
              /\ \/ j \in delayed' \/ InLine(j)'
                 \/ \E t \in Threads : at[t].pc = "retain" /\ at[t].new = j
        BY <1>7, <2>1 DEF IInv, StatesOK
    <2> QED BY <1>1, <1>7, <2>2 DEF IInv, StatesOK
<1>15. WhereThreadsAre'
    BY <1>1 DEF IInv, WhereThreadsAre
<1>16. MutexOK'
    BY <1>1 DEF IInv, MutexOK
<1>17. DisposeOK'
    BY <1>1 DEF IInv, DisposeOK, Destroyer, Quiet
<1>18. StopOK'
    <2>1. \A k, l \in DOMAIN line'["worker"] :
              OpOf(line'["worker"][k]) \in Stops /\ OpOf(line'["worker"][l]) = "work" => l < k
        BY <1>0, <1>3, <1>4 DEF IInv, StopOK, Stops
    <2>2. ClientOutlivesWork' /\ Ending' = Ending
        BY <1>1 DEF IInv, StopOK, ClientOutlivesWork, OpOf, Ending
    <2> QED BY <1>1, <1>7, <2>1, <2>2 DEF IInv, StopOK, OpOf
<1> QED BY <1>9, <1>10, <1>11, <1>12, <1>13, <1>14, <1>15, <1>16, <1>17, <1>18 DEF IInv

(* Libdispatch gets its share of a new task.                               *)
LEMMA RetainKeepsIInv ==
    ASSUME IInv, NEW t \in Threads, Retain(t)
    PROVE  IInv'
<1>n. PICK n : n = at[t].new
    OBVIOUS
<1>e. PICK e : e = ExecutorOf(OpOf(n))
    OBVIOUS
<1>r. PICK r : r = Back(t, TRUE)
    OBVIOUS
<1>0. StateOK /\ None \notin Threads /\ at[t].pc = "retain"
      /\ "worker" \in Threads /\ "user" \in Threads
    BY QueueAssumption DEF IInv, Retain, Threads, Executors
<1>1. at[t] \in ThreadRecords(Len(task)) /\ Len(task) \in Nat /\ DOMAIN task = 1 .. Len(task)
    BY <1>0, TypeFacts
<1>2. /\ n \in DOMAIN task /\ OpOf(n) = at[t].op /\ e \in Executors /\ n \in tasks[e]
      /\ n \notin delayed /\ ~InLine(n)
      /\ \A f \in Executors : at[f].cur # n
      /\ \A s \in Threads : at[s].pc = "retain" /\ at[s].new = n => s = t
    <2>1. /\ n # 0 /\ OpOf(n) = at[t].op /\ n \in tasks[ExecutorOf(at[t].op)]
        BY <1>n, <1>0 DEF IInv, OwnTasks
    <2>2. n \in 0 .. Len(task)
        BY <1>n, <1>1 DEF ThreadRecords
    <2> QED BY <1>n, <1>e, <1>0, <1>1, <2>1, <2>2 DEF IInv, InOnePlace, ExecutorOf, Executors
<1>3. /\ UNCHANGED <<mode, firestoreMutex, tasks, disposed, terminated, signalled, dropped, calls>>
      /\ task' = [task EXCEPT ![n].refs = @ + 1]
      /\ queueMutex' = Unlock(queueMutex, t) /\ at' = [at EXCEPT ![t] = r]
      /\ OpOf(n) = "timer" =>
             delayed' = delayed \union {n} /\ lruCallback' = n /\ line' = line
      /\ OpOf(n) # "timer" => /\ line' = [line EXCEPT ![e] = Append(@, n)]
                              /\ delayed' = delayed /\ lruCallback' = lruCallback
    BY <1>n, <1>e, <1>r DEF Retain
<1>4. /\ r \in ThreadRecords(Len(task)) /\ r.cur = at[t].cur /\ r.new = 0 /\ r.batch = {}
      /\ \/ at[t].op = "dispose" /\ r.op = "dispose" /\ r.pc = "wait"
         \/ /\ at[t].op # "dispose" /\ r.op = "work" /\ r = Return(t)
            /\ t \in Executors => r.pc = "finish"
            /\ t \notin Executors => r.pc = "idle"
      /\ at[t].batch = {}
    <2>1. CASE at[t].op = "dispose"
        <3>1. r = [at[t] EXCEPT !.pc = "wait", !.new = 0] /\ 0 \in 0 .. Len(task)
            BY <1>r, <1>1, <2>1 DEF Back
        <3>2. at[t].batch = {}
            BY <1>0 DEF IInv, WhereThreadsAre, Looping
        <3> QED BY <1>1, <2>1, <3>1, <3>2 DEF ThreadRecords, Places
    <2>2. CASE at[t].op # "dispose"
        <3>1. r = Return(t)
            BY <1>r, <2>2 DEF Back
        <3>2. at[t].batch = {}
            BY <1>0 DEF IInv, WhereThreadsAre, Looping
        <3> QED BY <2>2, <3>1, <3>2, ReturnProps
    <2> QED BY <2>1, <2>2
<1>5. at'[t] = r /\ \A x \in Threads : x # t => at'[x] = at[x]
    BY <1>0, <1>3, OneThread
<1>6. /\ task' \in Seq(TaskRecords) /\ DOMAIN task' = DOMAIN task /\ Len(task') = Len(task)
      /\ \A i \in DOMAIN task : i # n => task'[i] = task[i]
      /\ task'[n].refs = task[n].refs + 1
      /\ \A i \in DOMAIN task : /\ task'[i].op = task[i].op /\ task'[i].state = task[i].state
                                /\ task'[i].linked = task[i].linked
    <2>1. task \in Seq(TaskRecords) /\ task[n] \in TaskRecords
        BY <1>0, <1>2 DEF StateOK
    <2>2. PICK y : y = [task[n] EXCEPT !.refs = @ + 1]
        OBVIOUS
    <2>3. /\ y \in TaskRecords /\ y.op = task[n].op /\ y.state = task[n].state
          /\ y.linked = task[n].linked /\ y.refs = task[n].refs + 1
        <3>1. task[n].refs + 1 \in Nat
            BY <2>1 DEF TaskRecords
        <3>2. y \in TaskRecords
            BY <2>1, <2>2, <3>1 DEF TaskRecords
        <3>3. y.op = task[n].op /\ y.state = task[n].state /\ y.refs = task[n].refs + 1
            BY <2>1, <2>2 DEF TaskRecords
        <3>4. y.linked = task[n].linked
            BY <2>1, <2>2, Zenon DEF TaskRecords
        <3> QED BY <3>2, <3>3, <3>4
    <2>4. task' = [task EXCEPT ![n] = y]
        BY <1>3, <2>2
    <2> QED BY <1>2, <2>1, <2>3, <2>4
<1>7. \A i \in DOMAIN task : OpOf(i)' = OpOf(i) /\ Exec(i)' = Exec(i)
    BY <1>6 DEF OpOf, Exec
<1>8. \A x \in Threads : at'[x].cur = at[x].cur /\ at'[x].batch = at[x].batch
    BY <1>4, <1>5
<1>9. \A f \in Executors : f \in Threads
    BY DEF Threads
<1>10. OpOf(n) # "timer" =>
      /\ line' \in [Executors -> Seq(DOMAIN task)]
      /\ \A f \in Executors : f # e => line'[f] = line[f]
      /\ Len(line[e]) \in Nat /\ DOMAIN line[e] = 1 .. Len(line[e])
      /\ DOMAIN line'[e] = DOMAIN line[e] \union {Len(line[e]) + 1}
      /\ line'[e][Len(line[e]) + 1] = n
      /\ \A k \in DOMAIN line[e] : line'[e][k] = line[e][k] /\ k < Len(line[e]) + 1
      /\ \A j : InLine(j)' <=> InLine(j) \/ j = n
    BY <1>0, <1>2, <1>3, AppendLine
<1>11. \A f \in Executors : \A k \in DOMAIN line'[f] :
          \/ k \in DOMAIN line[f] /\ line'[f][k] = line[f][k]
          \/ f = e /\ k = Len(line[e]) + 1 /\ line'[f][k] = n /\ OpOf(n) # "timer"
    BY <1>3, <1>10
<1>12. \A i : InLine(i)' <=> InLine(i) \/ (i = n /\ OpOf(n) # "timer")
    <2>1. CASE OpOf(n) = "timer"
        BY <1>3, <2>1 DEF InLine
    <2> QED BY <1>10, <2>1
<1>13. \A i : i \in delayed' <=> i \in delayed \/ (i = n /\ OpOf(n) = "timer")
    BY <1>3
<1>14. \A i : Held(i)' <=> Held(i)
    BY <1>3, <1>8 DEF Held
<1>15. \A i : Dispatched(i)' <=> Dispatched(i) \/ i = n
    BY <1>8, <1>9, <1>12, <1>13 DEF Dispatched
<1>16. \A f \in Executors : \A k \in DOMAIN line[f] : line[f][k] # n /\ line[f][k] \in DOMAIN task
    <2>1. \A f \in Executors : \A k \in DOMAIN line[f] : line[f][k] # n
        BY <1>2 DEF InLine
    <2>2. \A f \in Executors : \A k \in DOMAIN line[f] : line[f][k] \in DOMAIN task
        BY <1>0 DEF StateOK
    <2> QED BY <2>1, <2>2
<1>17. \A f \in Executors : at[f].cur # 0 => at[f].cur \in DOMAIN task
    <2>1. \A f \in Executors : at[f] \in ThreadRecords(Len(task))
        BY <1>0, <1>9, TypeFacts
    <2> QED BY <1>1, <2>1 DEF ThreadRecords
<1>18. \A x \in Threads : at'[x].pc = "retain" =>
           /\ x # t /\ at'[x] = at[x] /\ at[x].new # n /\ at[x].new \in DOMAIN task
    <2>1. \A x \in Threads : at'[x].pc = "retain" => x # t /\ at'[x] = at[x] /\ at[x].new # n
        BY <1>2, <1>4, <1>5
    <2>2. \A x \in Threads : at[x] \in ThreadRecords(Len(task))
        BY <1>0, TypeFacts
    <2>3. \A x \in Threads : at[x].pc = "retain" => at[x].new # 0
        BY DEF IInv, OwnTasks
    <2>4. \A x \in Threads : at[x].new \in 0 .. Len(task)
        BY <2>2 DEF ThreadRecords
    <2> QED BY <1>1, <2>1, <2>3, <2>4
<1>19. StateOK'
    <2>1. at' \in [Threads -> ThreadRecords(Len(task'))]
        BY <1>0, <1>3, <1>4, <1>6 DEF StateOK
    <2>2. queueMutex' \in Threads \union {None}
        BY <1>0, <1>3 DEF StateOK, Unlock
    <2>3. line' \in [Executors -> Seq(DOMAIN task)]
        BY <1>0, <1>3, <1>10 DEF StateOK
    <2>4. delayed' \subseteq DOMAIN task /\ lruCallback' \in DOMAIN task
        BY <1>0, <1>2, <1>3, <1>13 DEF StateOK
    <2> QED BY <1>0, <1>3, <1>6, <2>1, <2>2, <2>3, <2>4 DEF StateOK
<1>20. OwnTasks'
    <2>1. \A f \in Executors : \A i \in tasks[f] : Exec(i)' = f /\ task'[i].linked
        BY <1>0, <1>6, <1>7 DEF IInv, OwnTasks, StateOK
    <2>2. \A f \in Executors : \A k \in DOMAIN line'[f] : ExecutorOf(task'[line'[f][k]].op) = f
        <3>1. \A f \in Executors : \A k \in DOMAIN line[f] : ExecutorOf(task[line[f][k]].op) = f
            BY DEF IInv, OwnTasks, Exec, OpOf
        <3>2. ExecutorOf(task[n].op) = e
            BY <1>e DEF OpOf
        <3> QED BY <1>2, <1>6, <1>11, <1>16, <3>1, <3>2
    <2>3. \A f \in Executors : at'[f].cur # 0 => ExecutorOf(task'[at'[f].cur].op) = f
        BY <1>6, <1>8, <1>9, <1>17 DEF IInv, OwnTasks, Exec, OpOf
    <2>4. \A i \in delayed' \union {lruCallback'} : OpOf(i)' = "timer"
        BY <1>0, <1>2, <1>3, <1>7, <1>13 DEF IInv, OwnTasks, StateOK
    <2>5. \A x \in Threads : at'[x].pc = "retain" =>
              /\ at'[x].new # 0 /\ task'[at'[x].new].op = at'[x].op
              /\ at'[x].new \in tasks[ExecutorOf(at'[x].op)]
        BY <1>6, <1>18 DEF IInv, OwnTasks, OpOf
    <2> QED BY <1>3, <2>1, <2>2, <2>3, <2>4, <2>5 DEF OwnTasks, Exec, OpOf
<1>21. InOnePlace'
    <2>1. \A i \in delayed' : ~InLine(i)' /\ \A f \in Executors : at'[f].cur # i
        BY <1>2, <1>8, <1>9, <1>12, <1>13 DEF IInv, InOnePlace
    <2>2. \A f \in Executors : \A k, l \in DOMAIN line'[f] : line'[f][k] = line'[f][l] => k = l
        BY <1>11, <1>16 DEF IInv, InOnePlace
    <2>3. \A f, g \in Executors : \A k \in DOMAIN line'[f] : line'[f][k] # at'[g].cur
        BY <1>2, <1>8, <1>9, <1>11 DEF IInv, InOnePlace
    <2>4. ASSUME NEW x \in Threads, at'[x].pc = "retain"
          PROVE  /\ at'[x].new \notin delayed'
                 /\ ~\E f \in Executors : \E k \in DOMAIN line'[f] : line'[f][k] = at'[x].new
        <3>1. x # t /\ at'[x] = at[x] /\ at[x].new # n /\ at[x].pc = "retain"
            BY <1>18, <2>4
        <3>2. at[x].new \notin delayed /\ ~InLine(at[x].new)
            BY <3>1 DEF IInv, InOnePlace
        <3> QED BY <1>11, <1>13, <3>1, <3>2 DEF InLine
    <2>5. \A x \in Threads : at'[x].pc = "retain" =>
              /\ \A f \in Executors : at'[f].cur # at'[x].new
              /\ \A s \in Threads : at'[s].pc = "retain" /\ at'[s].new = at'[x].new => s = x
        BY <1>8, <1>9, <1>18 DEF IInv, InOnePlace
    <2> QED BY <2>1, <2>2, <2>3, <2>4, <2>5 DEF InOnePlace, InLine
<1>22. HeldOnce'
    <2>1. ASSUME NEW x \in Threads, NEW i \in at'[x].batch
          PROVE  /\ \A f \in Executors : i \notin tasks'[f]
                 /\ \A s \in Threads : i \in at'[s].batch => s = x
                 /\ at'[x].pc \in Looping => Exec(i)' = at'[x].ex
                 /\ at'[x].pc = "cancelTimer" => OpOf(i)' = "timer"
        <3>1. i \in at[x].batch /\ x # t /\ at'[x] = at[x]
            BY <1>4, <1>5, <2>1
        <3>2. at[x] \in ThreadRecords(Len(task))
            BY <1>0, TypeFacts
        <3>3. i \in DOMAIN task
            BY <1>1, <3>1, <3>2 DEF ThreadRecords
        <3> QED BY <1>3, <1>7, <1>8, <3>1, <3>3 DEF IInv, HeldOnce
    <2>2. \A x \in Threads : at'[x].pc = "await" => at'[x].new \in at'[x].batch
        BY <1>4, <1>5 DEF IInv, HeldOnce
    <2> QED BY <2>1, <2>2 DEF HeldOnce
<1>23. Counted'
    <2>1. ~Dispatched(n)
        BY <1>2 DEF Dispatched
    <2>2. task[n].refs = (IF Held(n) THEN 1 ELSE 0) + (IF Dispatched(n) THEN 1 ELSE 0)
        BY <1>2 DEF IInv, Counted
    <2>3. task'[n].refs = (IF Held(n)' THEN 1 ELSE 0) + (IF Dispatched(n)' THEN 1 ELSE 0)
        BY <1>2, <1>6, <1>14, <1>15, <2>1, <2>2
    <2>4. \A i \in DOMAIN task : i # n =>
              task'[i].refs = (IF Held(i)' THEN 1 ELSE 0) + (IF Dispatched(i)' THEN 1 ELSE 0)
        BY <1>6, <1>14, <1>15 DEF IInv, Counted
    <2> QED BY <1>6, <2>3, <2>4 DEF Counted
<1>24. \A f \in Executors : \/ at'[f] = at[f]
                            \/ at'[f].pc \in Inside /\ at[f].pc \in Inside /\ at'[f].cur = at[f].cur
    BY <1>0, <1>4, <1>5, <1>9 DEF Inside, Places
<1>25. StatesOK'
    <2>1. ASSUME NEW f \in Executors
          PROVE  /\ at'[f].pc \in Inside => task'[at'[f].cur].state = "Running"
                 /\ at'[f].pc = "complete" =>
                        /\ task'[at'[f].cur].state = "Done"
                        /\ task'[at'[f].cur].linked => Held(at[f].cur)'
                 /\ at'[f].pc = "release" => task'[at'[f].cur].state \in {"Done", "Cancelled"}
        <3>1. at'[f].cur = at[f].cur
            BY <1>8, <1>9
        <3>2. at[f].pc # "idle" => at[f].cur \in DOMAIN task
            BY <1>17 DEF IInv, WhereThreadsAre
        <3>3. PICK c : c = at[f].cur
            OBVIOUS
        <3>4. Held(c)' <=> Held(c)
            BY <1>14
        <3> QED BY <1>6, <1>24, <3>1, <3>2, <3>3, <3>4 DEF IInv, StatesOK, Inside
    <2>2. ASSUME NEW i \in DOMAIN task, task'[i].state = "Running"
          PROVE  /\ at'[Exec(i)].cur = i /\ at'[Exec(i)].pc \in Inside
                 /\ Held(i)' \/ (Exec(i) = "user" /\ ~task'[i].linked /\ disposed["user"])
        <3>1. Exec(i) \in Executors
            BY <1>0, TypeFacts
        <3>2. task[i].state = "Running" /\ task'[i].linked = task[i].linked
            BY <1>6, <2>2
        <3> QED BY <1>14, <1>24, <3>1, <3>2 DEF IInv, StatesOK
    <2>3. ASSUME NEW i \in DOMAIN task, task'[i].state = "Initial"
          PROVE  /\ Held(i)'
                 /\ \/ i \in delayed' \/ InLine(i)'
                    \/ \E x \in Threads : at'[x].pc = "retain" /\ at'[x].new = i
        <3>1. task[i].state = "Initial"
            BY <1>6, <2>3
        <3>2. Held(i)'
            BY <1>14, <3>1 DEF IInv, StatesOK
        <3>3. CASE i = n
            BY <1>12, <1>13, <3>2, <3>3
        <3>4. CASE i # n
            <4>1. \/ i \in delayed \/ InLine(i)
                  \/ \E x \in Threads : at[x].pc = "retain" /\ at[x].new = i
                BY <3>1 DEF IInv, StatesOK
            <4>2. \A x \in Threads : at[x].new = i /\ at[x].pc = "retain" => at'[x] = at[x]
                BY <1>n, <1>5, <3>4
            <4> QED BY <1>12, <1>13, <3>2, <4>1, <4>2
        <3> QED BY <3>3, <3>4
    <2> QED BY <1>3, <1>6, <1>7, <2>1, <2>2, <2>3 DEF StatesOK
<1>26. WhereThreadsAre' /\ MutexOK' /\ DisposeOK'
    <2>1. CASE at[t].op = "dispose"
        <3>1. /\ r.op = "dispose" /\ r.pc = "wait" /\ queueMutex = t /\ queueMutex' = None
              /\ mode # "Disposed"
            BY <1>0, <1>3, <1>4, <2>1 DEF IInv, MutexOK, WhereThreadsAre, Unlock
        <3>2. WhereThreadsAre'
            <4>1. \A f \in Executors : f \in Threads /\ f \notin Callers
                BY QueueAssumption DEF Threads
            <4> QED BY <1>0, <1>4, <1>5, <2>1, <3>1, <4>1
                       DEF IInv, WhereThreadsAre, HandingOver, Looping, Executors, Threads
        <3>3. MutexOK'
            BY <1>0, <1>3, <1>5, <3>1 DEF IInv, MutexOK
        <3>4. DisposeOK'
            <4>1. Destroyer("worker")' => Destroyer("worker")
                BY <1>0, <1>5, <2>1 DEF Destroyer
            <4> QED BY <1>3, <1>4, <1>5, <2>1, <3>1, <4>1
                       DEF IInv, DisposeOK, Destroyer, Quiet, Looping
        <3> QED BY <3>2, <3>3, <3>4
    <2>2. CASE at[t].op # "dispose"
        <3>1. r = Return(t)
            BY <1>4, <2>2
        <3> QED BY <1>0, <1>3, <2>2, <3>1, ReturnOK DEF Inside, Places
    <2> QED BY <2>1, <2>2
<1>27. /\ \/ t # "worker" /\ at'["worker"] = at["worker"]
          \/ t = "worker" /\ at'["worker"].pc \in {"finish", "wait"} /\ at'["worker"].op # "timer"
       /\ at[t].op = "timer" => t = "worker"
       /\ at[t].op \in Stops => mode # "Running"
       /\ at[t].op \in {"work", "timer"} => mode = "Running"
    <2>1. at[t].op = "timer" => t = "worker"
        BY DEF IInv, WhereThreadsAre, Threads, Executors
    <2>2. "worker" \in Executors
        BY DEF Executors
    <2>3. /\ at[t].op \in Stops => mode # "Running"
          /\ at[t].op \in {"work", "timer"} => mode = "Running"
        BY <1>0 DEF IInv, StopOK, HandingOver, MutexOK
    <2> QED BY <1>0, <1>4, <1>5, <2>1, <2>2, <2>3
<1>28. StopOK'
    <2>1. \A x \in Threads : at'[x].pc \in HandingOver /\ at'[x].op \in Stops => mode # "Running"
        BY <1>4, <1>5 DEF IInv, StopOK, HandingOver
    <2>2. \A j \in DOMAIN task : OpOf(j) \in Stops => mode # "Running"
        BY DEF IInv, StopOK
    <2>3. \A k, l \in DOMAIN line'["worker"] :
              OpOf(line'["worker"][k]) \in Stops /\ OpOf(line'["worker"][l]) = "work" => l < k
        <3>1. "worker" \in Executors
            BY DEF Executors
        <3>2. ASSUME NEW k \in DOMAIN line'["worker"], NEW l \in DOMAIN line'["worker"],
                     OpOf(line'["worker"][k]) \in Stops, OpOf(line'["worker"][l]) = "work"
              PROVE  l < k
            <4>1. CASE k \in DOMAIN line["worker"] /\ line'["worker"][k] = line["worker"][k]
                <5>1. mode # "Running"
                    BY <1>16, <2>2, <3>1, <3>2, <4>1
                <5>2. line'["worker"][l] # n
                    BY <1>2, <1>27, <3>2, <5>1
                <5>3. l \in DOMAIN line["worker"] /\ line'["worker"][l] = line["worker"][l]
                    BY <1>11, <3>1, <3>2, <5>2
                <5> QED BY <3>2, <4>1, <5>3 DEF IInv, StopOK
            <4>2. CASE e = "worker" /\ k = Len(line[e]) + 1 /\ line'["worker"][k] = n
                       /\ OpOf(n) # "timer"
                <5>1. line'["worker"][l] # n
                    BY <3>2, <4>2 DEF Stops
                <5>2. l \in DOMAIN line["worker"]
                    BY <1>11, <3>1, <3>2, <5>1
                <5> QED BY <1>10, <4>2, <5>2
            <4> QED BY <1>11, <3>1, <3>2, <4>1, <4>2
        <3> QED BY <3>2
    <2>4. \A f \in Executors : \A k \in DOMAIN line'[f] : line'[f][k] \in DOMAIN task
        BY <1>2, <1>11, <1>16
    <2>5. \A k, l \in DOMAIN line'["worker"] :
              task'[line'["worker"][k]].op \in Stops /\ task'[line'["worker"][l]].op = "work" => l < k
        BY <1>6, <2>3, <2>4 DEF OpOf, Executors
    <2>6. at["worker"].pc # "idle" => at["worker"].cur \in DOMAIN task
        BY <1>17 DEF IInv, WhereThreadsAre, Executors
    <2>7. /\ at'["worker"].pc = "run" /\ task'[at'["worker"].cur].op \in Stops =>
               \A i \in DOMAIN task : OpOf(i) = "work" => task'[i].state # "Initial"
          /\ at'["worker"].pc \in {"cancelTimer", "reset"} => task'[at'["worker"].cur].op \in Stops
        BY <1>6, <1>27, <2>6 DEF IInv, StopOK, OpOf
    <2>8. Ending' =>
               /\ mode # "Running"
               /\ \A i \in DOMAIN task :
                      task[i].op \in {"work", "timer"} /\ task'[i].state = "Initial" =>
                      at'["worker"].pc = "cancelTimer" /\ i \in at'["worker"].batch
        <3>1. Ending' => Ending /\ (at["worker"].pc = "cancelTimer" => at'["worker"] = at["worker"])
            BY <1>0, <1>3, <1>27 DEF Ending
        <3> QED BY <1>6, <3>1 DEF IInv, StopOK, OpOf
    <2>9. \A i \in DOMAIN task : OpOf(i) = "timer" /\ task'[i].state = "Initial" =>
               i = lruCallback' \/ (at'["worker"].pc = "retain" /\ at'["worker"].new = i)
        <3>1. ASSUME NEW i \in DOMAIN task, OpOf(i) = "timer", task[i].state = "Initial"
              PROVE  i = lruCallback' \/ (at'["worker"].pc = "retain" /\ at'["worker"].new = i)
            <4>1. i = lruCallback \/ (at["worker"].pc = "retain" /\ at["worker"].new = i)
                BY <3>1 DEF IInv, StopOK
            <4>2. CASE OpOf(n) = "timer"
                <5>1. t = "worker" /\ at["worker"].op = "timer" /\ at["worker"].cur = lruCallback
                    BY <1>2, <1>27, <4>2 DEF IInv, StopOK
                <5>2. task[lruCallback].state = "Running"
                    BY <1>0, <5>1 DEF IInv, StatesOK, Inside, Places, Executors
                <5> QED BY <1>n, <1>3, <3>1, <4>1, <4>2, <5>1, <5>2
            <4>3. CASE OpOf(n) # "timer"
                <5>1. t = "worker" => i # at["worker"].new
                    BY <1>n, <3>1, <4>3
                <5> QED BY <1>3, <1>27, <4>1, <4>3, <5>1
            <4> QED BY <4>2, <4>3
        <3> QED BY <1>6, <3>1
    <2>10. signalled => Ending'
        BY <1>0, <1>3, <1>27 DEF IInv, StopOK, Ending
    <2>11. ClientOutlivesWork'
        BY <1>3, <1>6, <1>27, <2>6 DEF IInv, StopOK, ClientOutlivesWork, OpOf
    <2>12. /\ at'["worker"].op = "timer" =>
                  task'[at'["worker"].cur].op = "timer" /\ at'["worker"].cur = lruCallback'
           /\ at'["worker"].pc = "run" /\ task'[at'["worker"].cur].op = "timer" =>
                  at'["worker"].cur = lruCallback'
        <3>1. t # "worker" => lruCallback' = lruCallback
            BY <1>2, <1>3, <1>27
        <3>2. at["worker"].op = "timer" => at["worker"].cur \in DOMAIN task
            BY <1>0 DEF IInv, StopOK, StateOK
        <3> QED BY <1>6, <1>27, <2>6, <3>1, <3>2 DEF IInv, StopOK, OpOf
    <2>13. \A j \in DOMAIN task : OpOf(j) = "dispose" => dropped
        BY DEF IInv, StopOK
    <2> QED BY <1>3, <1>6, <2>1, <2>2, <2>5, <2>7, <2>8, <2>9, <2>10, <2>11, <2>12, <2>13
               DEF StopOK, OpOf
<1> QED BY <1>19, <1>20, <1>21, <1>22, <1>23, <1>25, <1>26, <1>28 DEF IInv

(* What a thread refers to are tasks.                                      *)
LEMMA Referred ==
    ASSUME StateOK
    PROVE  /\ \A x \in Threads : /\ at[x].cur # 0 => at[x].cur \in DOMAIN task
                                 /\ at[x].new # 0 => at[x].new \in DOMAIN task
                                 /\ at[x].batch \subseteq DOMAIN task
           /\ \A e \in Executors : /\ tasks[e] \subseteq DOMAIN task
                                   /\ \A k \in DOMAIN line[e] : line[e][k] \in DOMAIN task
<1>1. \A x \in Threads : at[x] \in ThreadRecords(Len(task))
    BY TypeFacts
<1>2. Len(task) \in Nat /\ DOMAIN task = 1 .. Len(task)
    BY TypeFacts
<1>3. \A x \in Threads : /\ at[x].cur \in 0 .. Len(task) /\ at[x].new \in 0 .. Len(task)
                         /\ at[x].batch \subseteq 1 .. Len(task)
    BY <1>1 DEF ThreadRecords
<1>4. \A e \in Executors : /\ tasks[e] \subseteq DOMAIN task
                           /\ \A k \in DOMAIN line[e] : line[e][k] \in DOMAIN task
    BY DEF StateOK
<1> QED BY <1>2, <1>3, <1>4

(* One task changes, and not what it does.                                 *)
LEMMA TaskUpdated ==
    ASSUME StateOK, NEW i \in DOMAIN task, NEW y \in TaskRecords, y.op = task[i].op,
           task' = [task EXCEPT ![i] = y]
    PROVE  /\ task' \in Seq(TaskRecords) /\ DOMAIN task' = DOMAIN task /\ Len(task') = Len(task)
           /\ task'[i] = y /\ \A j \in DOMAIN task : j # i => task'[j] = task[j]
           /\ \A j \in DOMAIN task : task'[j].op = task[j].op
<1>1. task \in Seq(TaskRecords)
    BY DEF StateOK
<1> QED BY <1>1

(* Owners let go of tasks, and take none.                                  *)
LEMMA ShareLess ==
    ASSUME IInv, DOMAIN task' = DOMAIN task,
           \A j \in DOMAIN task : task'[j].op = task[j].op,
           UNCHANGED <<line, delayed, lruCallback>>,
           \A f \in Executors : /\ tasks'[f] \subseteq tasks[f]
                                /\ \A j \in tasks'[f] : task'[j].linked,
           \A x \in Threads :
               /\ at'[x].cur = at[x].cur \/ at'[x].cur = 0
               /\ at'[x].batch \subseteq at[x].batch
               /\ at'[x].batch # {} => /\ at'[x].ex = at[x].ex
                                       /\ at'[x].pc \in Looping => at[x].pc \in Looping
                                       /\ at'[x].pc = "cancelTimer" => at[x].pc = "cancelTimer"
               /\ at'[x].pc = "retain" =>
                      at'[x] = at[x] /\ at[x].new \in tasks'[ExecutorOf(at[x].op)]
               /\ at'[x].pc = "await" => at'[x].new \in at'[x].batch
    PROVE  OwnTasks' /\ InOnePlace' /\ HeldOnce'
<1>0. StateOK
    BY DEF IInv
<1>1. /\ \A x \in Threads : /\ at[x].cur # 0 => at[x].cur \in DOMAIN task
                            /\ at[x].new # 0 => at[x].new \in DOMAIN task
                            /\ at[x].batch \subseteq DOMAIN task
      /\ \A e \in Executors : /\ tasks[e] \subseteq DOMAIN task
                              /\ \A k \in DOMAIN line[e] : line[e][k] \in DOMAIN task
    BY <1>0, Referred
<1>2. \A f \in Executors : f \in Threads
    BY DEF Threads
<1>3. \A j \in DOMAIN task : OpOf(j)' = OpOf(j) /\ Exec(j)' = Exec(j)
    BY DEF OpOf, Exec
<1>4. OwnTasks'
    <2>1. \A f \in Executors : \A i \in tasks'[f] : Exec(i)' = f /\ task'[i].linked
        BY <1>1, <1>3 DEF IInv, OwnTasks
    <2>2. \A f \in Executors : \A k \in DOMAIN line[f] : ExecutorOf(task'[line[f][k]].op) = f
        BY <1>1 DEF IInv, OwnTasks, Exec, OpOf
    <2>3. \A f \in Executors : at'[f].cur # 0 => ExecutorOf(task'[at'[f].cur].op) = f
        BY <1>1, <1>2 DEF IInv, OwnTasks, Exec, OpOf
    <2>4. \A i \in delayed \union {lruCallback} : OpOf(i)' = "timer"
        BY <1>0, <1>3 DEF IInv, OwnTasks, StateOK
    <2>5. \A x \in Threads : at'[x].pc = "retain" =>
              /\ at'[x].new # 0 /\ task'[at'[x].new].op = at'[x].op
              /\ at'[x].new \in tasks'[ExecutorOf(at'[x].op)]
        BY <1>1 DEF IInv, OwnTasks, OpOf
    <2> QED BY <2>1, <2>2, <2>3, <2>4, <2>5 DEF OwnTasks, Exec, OpOf
<1>5. InOnePlace'
    <2>1. \A i : InLine(i)' <=> InLine(i)
        BY DEF InLine
    <2>2. 0 \notin DOMAIN task
        BY <1>0, TypeFacts
    <2>3. \A i \in delayed : ~InLine(i) /\ \A f \in Executors : at'[f].cur # i
        <3>1. \A i \in delayed : i # 0
            BY <1>0, <2>2 DEF StateOK
        <3>2. \A i \in delayed : ~InLine(i) /\ \A f \in Executors : at[f].cur # i
            BY DEF IInv, InOnePlace
        <3> QED BY <1>2, <3>1, <3>2
    <2>4. \A f, g \in Executors : \A k \in DOMAIN line[f] : line[f][k] # at'[g].cur
        BY <1>1, <1>2, <2>2 DEF IInv, InOnePlace
    <2>5. \A x \in Threads : at'[x].pc = "retain" =>
              /\ at'[x].new \notin delayed
              /\ ~\E f \in Executors : \E k \in DOMAIN line[f] : line[f][k] = at'[x].new
              /\ \A f \in Executors : at'[f].cur # at'[x].new
              /\ \A s \in Threads : at'[s].pc = "retain" /\ at'[s].new = at'[x].new => s = x
        <3>1. \A x \in Threads : at'[x].pc = "retain" => at'[x] = at[x] /\ at[x].new # 0
            BY DEF IInv, OwnTasks
        <3> QED BY <1>2, <3>1 DEF IInv, InOnePlace, InLine
    <2>6. \A e \in Executors : \A k, l \in DOMAIN line[e] : line[e][k] = line[e][l] => k = l
        BY DEF IInv, InOnePlace
    <2> QED BY <2>1, <2>3, <2>4, <2>5, <2>6 DEF InOnePlace, InLine
<1>6. HeldOnce'
    <2>1. ASSUME NEW x \in Threads, NEW i \in at'[x].batch
          PROVE  /\ \A f \in Executors : i \notin tasks'[f]
                 /\ \A s \in Threads : i \in at'[s].batch => s = x
                 /\ at'[x].pc \in Looping => Exec(i)' = at'[x].ex
                 /\ at'[x].pc = "cancelTimer" => OpOf(i)' = "timer"
        <3>1. i \in at[x].batch /\ i \in DOMAIN task
            BY <1>1, <2>1
        <3>2. Exec(i)' = Exec(i) /\ OpOf(i)' = OpOf(i)
            BY <1>3, <3>1
        <3>3. /\ \A f \in Executors : i \notin tasks[f]
              /\ \A s \in Threads : i \in at[s].batch => s = x
              /\ at[x].pc \in Looping => Exec(i) = at[x].ex
              /\ at[x].pc = "cancelTimer" => OpOf(i) = "timer"
            BY <3>1 DEF IInv, HeldOnce
        <3> QED BY <2>1, <3>2, <3>3
    <2> QED BY <2>1 DEF HeldOnce
<1> QED BY <1>4, <1>5, <1>6

(* Tasks come and go without the client's end being disturbed.             *)
LEMMA StopKept ==
    ASSUME IInv, DOMAIN task' = DOMAIN task,
           \A j \in DOMAIN task : /\ task'[j].op = task[j].op
                                  /\ task'[j].state = "Initial" => task[j].state = "Initial",
           UNCHANGED <<mode, signalled, terminated, dropped, line, lruCallback>>,
           \A x \in Threads : at'[x].pc \in HandingOver => at[x].pc \in HandingOver
                                                           /\ at'[x].op = at[x].op,
           \/ at'["worker"] = at["worker"]
           \/ /\ at'["worker"].pc \notin {"run", "cancelTimer", "reset"}
              /\ at["worker"].pc \notin {"retain", "cancelTimer", "reset"}
              /\ at'["worker"].op = "timer" =>
                     at'["worker"].cur = at["worker"].cur /\ at["worker"].op = "timer"
    PROVE  StopOK'
<1>0. StateOK /\ "worker" \in Threads /\ "worker" \in Executors
    BY DEF IInv, Threads, Executors
<1>1. /\ at["worker"].pc # "idle" => at["worker"].cur \in DOMAIN task
      /\ at["worker"].op = "timer" => at["worker"].cur \in DOMAIN task
    BY <1>0, Referred DEF IInv, WhereThreadsAre, StopOK, StateOK
<1>2. \A x \in Threads : at'[x].pc \in HandingOver /\ at'[x].op \in Stops => mode # "Running"
    BY DEF IInv, StopOK
<1>3. \A j \in DOMAIN task : /\ task'[j].op \in Stops => mode # "Running"
                             /\ task'[j].op = "dispose" => dropped
    BY DEF IInv, StopOK, OpOf
<1>4. \A k, l \in DOMAIN line["worker"] :
          task'[line["worker"][k]].op \in Stops /\ task'[line["worker"][l]].op = "work" => l < k
    <2>1. \A k \in DOMAIN line["worker"] : line["worker"][k] \in DOMAIN task
        BY <1>0, Referred
    <2> QED BY <2>1 DEF IInv, StopOK, OpOf
<1>5. /\ at'["worker"].pc = "run" /\ task'[at'["worker"].cur].op \in Stops =>
           \A i \in DOMAIN task : task'[i].op = "work" => task'[i].state # "Initial"
      /\ at'["worker"].pc \in {"cancelTimer", "reset"} => task'[at'["worker"].cur].op \in Stops
    BY <1>1 DEF IInv, StopOK, OpOf
<1>6. Ending' =>
           /\ mode # "Running"
           /\ \A i \in DOMAIN task : task'[i].op \in {"work", "timer"} /\ task'[i].state = "Initial" =>
                  at'["worker"].pc = "cancelTimer" /\ i \in at'["worker"].batch
    <2>1. Ending' => Ending /\ (at["worker"].pc = "cancelTimer" => at'["worker"] = at["worker"])
        BY DEF Ending
    <2> QED BY <2>1 DEF IInv, StopOK, OpOf
<1>7. \A i \in DOMAIN task : task'[i].op = "timer" /\ task'[i].state = "Initial" =>
           i = lruCallback \/ (at'["worker"].pc = "retain" /\ at'["worker"].new = i)
    BY DEF IInv, StopOK, OpOf
<1>8. signalled => Ending'
    BY DEF IInv, StopOK, Ending
<1>9. ClientOutlivesWork'
    BY <1>1 DEF IInv, StopOK, ClientOutlivesWork, OpOf
<1>10. /\ at'["worker"].op = "timer" =>
              task'[at'["worker"].cur].op = "timer" /\ at'["worker"].cur = lruCallback
       /\ at'["worker"].pc = "run" /\ task'[at'["worker"].cur].op = "timer" =>
              at'["worker"].cur = lruCallback
    BY <1>1 DEF IInv, StopOK, OpOf
<1> QED BY <1>2, <1>3, <1>4, <1>5, <1>6, <1>7, <1>8, <1>9, <1>10 DEF StopOK, OpOf

(* An executor's thread that finishes a task, tells its executor or        *)
(* releases it keeps the parts about threads.                              *)
LEMMA EndingTask ==
    ASSUME IInv, NEW e \in Executors, NEW r,
           at' = [at EXCEPT ![e] = r], at[e].pc \in {"finish", "complete", "release"},
           \/ /\ r.pc \in {"complete", "release"}
              /\ r.op = at[e].op /\ r.cur = at[e].cur
           \/ r.pc = "idle" /\ r.op = "work" /\ r.cur = 0,
           r.batch = {},
           UNCHANGED <<mode, queueMutex, disposed, signalled, terminated, dropped>>,
           \A f \in Executors : tasks'[f] \subseteq tasks[f]
    PROVE  WhereThreadsAre' /\ MutexOK' /\ DisposeOK'
<1>0. StateOK /\ e \in Threads
    BY DEF IInv, Threads
<1>1. at'[e] = r /\ \A x \in Threads : x # e => at'[x] = at[x]
    BY <1>0, OneThread
<1>2. \A f \in Executors : f \in Threads /\ f \notin Callers
    BY QueueAssumption DEF Threads
<1>3. at[e].op # "dispose" /\ at[e].cur # 0
    BY <1>0 DEF IInv, WhereThreadsAre, HandingOver
<1>4. WhereThreadsAre'
    BY <1>0, <1>1, <1>2, <1>3
       DEF IInv, WhereThreadsAre, HandingOver, Looping, Executors, Threads
<1>5. MutexOK'
    BY <1>0, <1>1 DEF IInv, MutexOK
<1>6. DisposeOK'
    <2>1. \A x \in Threads : \/ at'[x] = at[x]
                             \/ /\ ~Destroyer(x) /\ at'[x].op # "dispose"
                                /\ at'[x].pc \in {"complete", "release", "idle"}
                                /\ at[x].pc \in {"finish", "complete", "release"}
        BY <1>0, <1>1, <1>3 DEF Destroyer
    <2>2. Quiet("worker")' <=> Quiet("worker")
        BY <2>1 DEF Quiet
    <2> QED BY <2>1, <2>2 DEF IInv, DisposeOK, Destroyer, Looping, Executors
<1> QED BY <1>4, <1>5, <1>6

(* An operation has returned.                                              *)
LEMMA FinishKeepsIInv ==
    ASSUME IInv, NEW e \in Executors, Finish(e)
    PROVE  IInv'
<1>i. PICK i : i = at[e].cur
    OBVIOUS
<1>r. PICK r : r = [at[e] EXCEPT !.pc = "complete"]
    OBVIOUS
<1>y. PICK y : y = [task[i] EXCEPT !.state = "Done"]
    OBVIOUS
<1>0. StateOK /\ None \notin Threads /\ e \in Threads /\ "worker" \in Threads
      /\ at[e].pc = "finish" /\ Len(task) \in Nat
    BY QueueAssumption, TypeFacts DEF IInv, Finish, Threads, Executors
<1>1. i \in DOMAIN task /\ task[i] \in TaskRecords /\ Exec(i) = e /\ task[i].state = "Running"
    <2>1. i # 0
        BY <1>i, <1>0 DEF IInv, WhereThreadsAre
    <2>2. i \in DOMAIN task
        BY <1>i, <1>0, <2>1, Referred
    <2> QED BY <1>i, <1>0, <2>1, <2>2, TypeFacts DEF IInv, OwnTasks, StatesOK, Inside, Places
<1>2. /\ task' = [task EXCEPT ![i] = y] /\ at' = [at EXCEPT ![e] = r]
      /\ firestoreMutex' = Unlock(firestoreMutex, e)
      /\ UNCHANGED <<mode, queueMutex, tasks, disposed, line, delayed, lruCallback,
                     terminated, signalled, dropped, calls>>
    BY <1>i, <1>r, <1>y DEF Finish, client
<1>3. /\ r \in ThreadRecords(Len(task)) /\ r.pc = "complete" /\ r.op = at[e].op /\ r.cur = at[e].cur
      /\ r.batch = at[e].batch
    <2>1. at[e] \in ThreadRecords(Len(task))
        BY <1>0, TypeFacts
    <2> QED BY <1>r, <1>0, <2>1 DEF ThreadRecords, Places
<1>4. at[e].batch = {}
    BY <1>0 DEF IInv, WhereThreadsAre, Looping
<1>5. y \in TaskRecords /\ y.op = task[i].op /\ y.state = "Done" /\ y.refs = task[i].refs
    BY <1>y, <1>1 DEF TaskRecords, States
<1>6. y.linked = task[i].linked
    BY <1>y, <1>1, Zenon DEF TaskRecords
<1>7. at'[e] = r /\ \A x \in Threads : x # e => at'[x] = at[x]
    BY <1>0, <1>2, OneThread
<1>8. /\ task' \in Seq(TaskRecords) /\ DOMAIN task' = DOMAIN task /\ Len(task') = Len(task)
      /\ task'[i] = y /\ \A j \in DOMAIN task : j # i => task'[j] = task[j]
      /\ \A j \in DOMAIN task : task'[j].op = task[j].op
    BY <1>0, <1>1, <1>2, <1>5, TaskUpdated
<1>9. \A x \in Threads : at'[x].cur = at[x].cur /\ at'[x].batch = at[x].batch
    BY <1>3, <1>7
<1>10. \A j : /\ Held(j)' = Held(j) /\ Dispatched(j)' = Dispatched(j)
              /\ InLine(j)' = InLine(j)
    BY <1>2, <1>9, SameOwners
<1>11. OwnTasks' /\ InOnePlace' /\ HeldOnce'
    <2>1. \A f \in Executors : \A j \in tasks[f] : task'[j].linked
        BY <1>0, <1>5, <1>6, <1>8, Referred DEF IInv, OwnTasks
    <2>2. \A x \in Threads : at'[x].pc = "retain" => at'[x] = at[x]
        BY <1>3, <1>7
    <2>3. \A x \in Threads : at[x].pc = "retain" => at[x].new \in tasks[ExecutorOf(at[x].op)]
        BY DEF IInv, OwnTasks
    <2>4. \A x \in Threads : /\ at'[x].pc = "await" => at'[x].new \in at'[x].batch
                             /\ at'[x].batch # {} => at'[x] = at[x]
        BY <1>3, <1>4, <1>7 DEF IInv, HeldOnce
    <2> QED BY <1>2, <1>8, <1>9, <2>1, <2>2, <2>3, <2>4, ShareLess
<1>12. Counted'
    BY <1>1, <1>5, <1>8, <1>10 DEF IInv, Counted
<1>13. StatesOK'
    <2>1. ASSUME NEW f \in Executors
          PROVE  /\ at'[f].pc \in Inside => task'[at'[f].cur].state = "Running"
                 /\ at'[f].pc = "complete" =>
                        /\ task'[at'[f].cur].state = "Done"
                        /\ task'[at'[f].cur].linked => Held(at[f].cur)'
                 /\ at'[f].pc = "release" => task'[at'[f].cur].state \in {"Done", "Cancelled"}
        <3>1. PICK c : c = at[f].cur
            OBVIOUS
        <3>2. at'[f].cur = c /\ (Held(c)' <=> Held(c)) /\ f \in Threads
            BY <1>9, <1>10, <3>1 DEF Threads
        <3>3. CASE f = e
            <4>1. task[i].linked => Held(i)
                BY <1>1 DEF IInv, StatesOK
            <4> QED BY <1>i, <1>3, <1>5, <1>6, <1>7, <1>8, <3>1, <3>2, <3>3, <4>1 DEF Inside
        <3>4. CASE f # e
            <4>1. at'[f] = at[f]
                BY <1>7, <3>2, <3>4
            <4>2. at[f].pc # "idle" => c \in DOMAIN task /\ Exec(c) = f
                BY <1>0, <3>1, <3>2, Referred DEF IInv, WhereThreadsAre, OwnTasks
            <4>3. at[f].pc # "idle" => task'[c] = task[c]
                BY <1>1, <1>8, <3>4, <4>2
            <4> QED BY <3>1, <3>2, <4>1, <4>3 DEF IInv, StatesOK, Inside
        <3> QED BY <3>3, <3>4
    <2>2. ASSUME NEW j \in DOMAIN task, task'[j].state = "Running"
          PROVE  /\ at'[Exec(j)].cur = j /\ at'[Exec(j)].pc \in Inside
                 /\ Held(j)' \/ (Exec(j) = "user" /\ ~task'[j].linked /\ disposed["user"])
        <3>1. Exec(j) \in Executors /\ Exec(j) \in Threads
            BY <1>0, TypeFacts
        <3>2. j # i /\ task'[j] = task[j]
            BY <1>5, <1>8, <2>2
        <3>3. at[Exec(j)].cur = j
            BY <2>2, <3>2 DEF IInv, StatesOK
        <3>4. at'[Exec(j)] = at[Exec(j)]
            BY <1>i, <1>7, <3>1, <3>2, <3>3
        <3> QED BY <1>10, <2>2, <3>2, <3>4 DEF IInv, StatesOK
    <2>3. ASSUME NEW j \in DOMAIN task, task'[j].state = "Initial"
          PROVE  /\ Held(j)'
                 /\ \/ j \in delayed' \/ InLine(j)'
                    \/ \E x \in Threads : at'[x].pc = "retain" /\ at'[x].new = j
        <3>1. task[j].state = "Initial"
            BY <1>5, <1>8, <2>3
        <3>2. \A x \in Threads : at[x].pc = "retain" => at'[x] = at[x]
            BY <1>0, <1>7
        <3> QED BY <1>2, <1>10, <3>1, <3>2 DEF IInv, StatesOK
    <2>4. \A j \in DOMAIN task : Exec(j)' = Exec(j)
        BY <1>8 DEF Exec, OpOf
    <2> QED BY <1>2, <1>8, <2>1, <2>2, <2>3, <2>4 DEF StatesOK
<1>14. StateOK'
    <2>1. at' \in [Threads -> ThreadRecords(Len(task'))]
        BY <1>0, <1>2, <1>3, <1>8 DEF StateOK
    <2>2. firestoreMutex' \in Threads \union {None}
        BY <1>0, <1>2 DEF StateOK, Unlock
    <2> QED BY <1>0, <1>2, <1>8, <2>1, <2>2 DEF StateOK
<1>15. WhereThreadsAre' /\ MutexOK' /\ DisposeOK'
    BY <1>0, <1>2, <1>3, <1>4, EndingTask
<1>16. StopOK'
    <2>1. \A j \in DOMAIN task : task'[j].state = "Initial" => task[j].state = "Initial"
        BY <1>5, <1>8
    <2>2. \A x \in Threads : at'[x].pc \in HandingOver => at'[x] = at[x]
        BY <1>3, <1>7 DEF HandingOver
    <2>3. \/ at'["worker"] = at["worker"]
          \/ /\ at'["worker"].pc = "complete" /\ at["worker"].pc = "finish"
             /\ at'["worker"].op = at["worker"].op /\ at'["worker"].cur = at["worker"].cur
        BY <1>0, <1>3, <1>7
    <2> QED BY <1>2, <1>8, <2>1, <2>2, <2>3, StopKept
<1> QED BY <1>11, <1>12, <1>13, <1>14, <1>15, <1>16 DEF IInv

(* The executor is told, if it still holds the task.                       *)
LEMMA CompleteKeepsIInv ==
    ASSUME IInv, NEW e \in Executors, Complete(e)
    PROVE  IInv'
<1>i. PICK i : i = at[e].cur
    OBVIOUS
<1>r. PICK r : r = [at[e] EXCEPT !.pc = "release"]
    OBVIOUS
<1>g. PICK gone : gone = IF task[i].linked /\ i \in tasks[e] THEN {i} ELSE {}
    OBVIOUS
<1>y. PICK y : y = [task[i] EXCEPT !.refs = IF i \in gone THEN @ - 1 ELSE @]
    OBVIOUS
<1>0. StateOK /\ e \in Threads /\ "worker" \in Threads
      /\ at[e].pc = "complete" /\ Len(task) \in Nat
    BY TypeFacts DEF IInv, Complete, Threads, Executors
<1>1. i \in DOMAIN task /\ task[i] \in TaskRecords /\ Exec(i) = e /\ task[i].state = "Done"
    <2>1. i # 0
        BY <1>i, <1>0 DEF IInv, WhereThreadsAre
    <2>2. i \in DOMAIN task
        BY <1>i, <1>0, <2>1, Referred
    <2> QED BY <1>i, <1>0, <2>1, <2>2, TypeFacts DEF IInv, OwnTasks, StatesOK
<1>2. gone \subseteq {i} /\ gone \subseteq tasks[e]
    BY <1>g
<1>3. /\ Dispatched(i) /\ (i \in gone => Held(i))
      /\ task[i].refs = (IF Held(i) THEN 1 ELSE 0) + (IF Dispatched(i) THEN 1 ELSE 0)
    BY <1>i, <1>1, <1>2 DEF Dispatched, Held, IInv, Counted
<1>4. y \in TaskRecords /\ y.op = task[i].op /\ y.state = task[i].state
      /\ y.refs = IF i \in gone THEN task[i].refs - 1 ELSE task[i].refs
    <2>1. task[i].refs \in Nat /\ (i \in gone => task[i].refs - 1 \in Nat)
        BY <1>1, <1>3 DEF TaskRecords
    <2> QED BY <1>y, <1>1, <2>1 DEF TaskRecords, States
<1>5. y.linked = task[i].linked
    BY <1>y, <1>1, Zenon DEF TaskRecords
<1>6. /\ task' = [task EXCEPT ![i] = y] /\ at' = [at EXCEPT ![e] = r]
      /\ tasks' = [tasks EXCEPT ![e] = @ \ gone]
      /\ UNCHANGED <<mode, queueMutex, firestoreMutex, disposed, line, delayed, lruCallback,
                     terminated, signalled, dropped, calls>>
    <2>1. /\ at' = [at EXCEPT ![e] = r]
          /\ UNCHANGED <<mode, queueMutex, firestoreMutex, disposed, line, delayed, lruCallback,
                         terminated, signalled, dropped, calls>>
        BY <1>r DEF Complete, client
    <2>2. CASE task[i].linked /\ i \in tasks[e]
        <3>1. gone = {i} /\ y = [task[i] EXCEPT !.refs = @ - 1]
            BY <1>g, <1>y, <2>2
        <3>2. /\ tasks' = [tasks EXCEPT ![e] = @ \ {i}]
              /\ task' = [task EXCEPT ![i].refs = @ - 1]
            BY <1>i, <2>2 DEF Complete
        <3> QED BY <2>1, <3>1, <3>2
    <2>3. CASE ~(task[i].linked /\ i \in tasks[e])
        <3>1. gone = {} /\ y = [task[i] EXCEPT !.refs = @]
            BY <1>g, <1>y, <2>3
        <3>2. y = task[i]
            BY <1>1, <3>1 DEF TaskRecords
        <3>3. tasks' = tasks /\ task' = task
            BY <1>i, <2>3 DEF Complete
        <3>4. task = [task EXCEPT ![i] = y] /\ tasks = [tasks EXCEPT ![e] = @ \ gone]
            BY <1>0, <3>1, <3>2 DEF StateOK
        <3> QED BY <2>1, <3>3, <3>4
    <2> QED BY <2>2, <2>3
<1>7. /\ r \in ThreadRecords(Len(task)) /\ r.pc = "release" /\ r.op = at[e].op /\ r.cur = at[e].cur
      /\ r.batch = at[e].batch
    <2>1. at[e] \in ThreadRecords(Len(task))
        BY <1>0, TypeFacts
    <2> QED BY <1>r, <1>0, <2>1 DEF ThreadRecords, Places
<1>8. at[e].batch = {}
    BY <1>0 DEF IInv, WhereThreadsAre, Looping
<1>9. at'[e] = r /\ \A x \in Threads : x # e => at'[x] = at[x]
    BY <1>0, <1>6, OneThread
<1>10. /\ task' \in Seq(TaskRecords) /\ DOMAIN task' = DOMAIN task /\ Len(task') = Len(task)
       /\ task'[i] = y /\ \A j \in DOMAIN task : j # i => task'[j] = task[j]
       /\ \A j \in DOMAIN task : task'[j].op = task[j].op
    BY <1>0, <1>1, <1>4, <1>6, TaskUpdated
<1>11. \A j \in DOMAIN task : /\ task'[j].state = task[j].state
                              /\ task'[j].linked = task[j].linked
    BY <1>4, <1>5, <1>10
<1>12. \A x \in Threads : at'[x].cur = at[x].cur /\ at'[x].batch = at[x].batch
    BY <1>7, <1>9
<1>13. \A f \in Executors : \A j : j \in tasks'[f] <=> j \in tasks[f] /\ ~(f = e /\ j \in gone)
    BY <1>0, <1>6 DEF StateOK
<1>14. \A j : /\ Dispatched(j)' <=> Dispatched(j)
              /\ InLine(j)' <=> InLine(j)
    <2>1. \A j : InLine(j)' <=> InLine(j)
        BY <1>6 DEF InLine
    <2>2. \A f \in Executors : f \in Threads
        BY DEF Threads
    <2> QED BY <1>6, <1>12, <2>1, <2>2 DEF Dispatched
<1>15. \A j : Held(j)' <=> Held(j) /\ j \notin gone
    <2>1. \A j \in gone : \A f \in Executors : j \in tasks[f] => f = e
        BY <1>2 DEF IInv, OwnTasks
    <2>2. \A j \in gone : \A x \in Threads : j \notin at[x].batch
        BY <1>2 DEF IInv, HeldOnce
    <2> QED BY <1>12, <1>13, <2>1, <2>2 DEF Held
<1>16. OwnTasks' /\ InOnePlace' /\ HeldOnce'
    <2>1. \A f \in Executors : /\ tasks'[f] \subseteq tasks[f]
                               /\ \A j \in tasks'[f] : task'[j].linked
        BY <1>0, <1>11, <1>13, Referred DEF IInv, OwnTasks
    <2>2. \A x \in Threads : at'[x].pc = "retain" =>
              at'[x] = at[x] /\ at[x].new \in tasks'[ExecutorOf(at[x].op)]
        <3>1. \A x \in Threads : at'[x].pc = "retain" => at'[x] = at[x]
            BY <1>7, <1>9
        <3>2. \A x \in Threads : at[x].pc = "retain" => at[x].new \in tasks[ExecutorOf(at[x].op)]
            BY DEF IInv, OwnTasks
        <3>3. \A x \in Threads : at[x].pc = "retain" => at[x].new \notin gone
            BY <1>i, <1>2 DEF IInv, InOnePlace
        <3>4. \A x \in Threads : ExecutorOf(at[x].op) \in Executors
            BY DEF ExecutorOf, Executors
        <3> QED BY <1>13, <3>1, <3>2, <3>3, <3>4
    <2>3. \A x \in Threads : /\ at'[x].pc = "await" => at'[x].new \in at'[x].batch
                             /\ at'[x].batch # {} => at'[x] = at[x]
        BY <1>7, <1>8, <1>9 DEF IInv, HeldOnce
    <2> QED BY <1>6, <1>10, <1>12, <2>1, <2>2, <2>3, ShareLess
<1>17. Counted'
    <2>1. task'[i].refs = (IF Held(i)' THEN 1 ELSE 0) + (IF Dispatched(i)' THEN 1 ELSE 0)
        BY <1>3, <1>4, <1>10, <1>14, <1>15
    <2>2. \A j \in DOMAIN task : j # i =>
              task'[j].refs = (IF Held(j)' THEN 1 ELSE 0) + (IF Dispatched(j)' THEN 1 ELSE 0)
        BY <1>2, <1>10, <1>14, <1>15 DEF IInv, Counted
    <2> QED BY <1>10, <2>1, <2>2 DEF Counted
<1>18. StatesOK'
    <2>1. ASSUME NEW f \in Executors
          PROVE  /\ at'[f].pc \in Inside => task'[at'[f].cur].state = "Running"
                 /\ at'[f].pc = "complete" =>
                        /\ task'[at'[f].cur].state = "Done"
                        /\ task'[at'[f].cur].linked => Held(at[f].cur)'
                 /\ at'[f].pc = "release" => task'[at'[f].cur].state \in {"Done", "Cancelled"}
        <3>1. PICK c : c = at[f].cur
            OBVIOUS
        <3>2. at'[f].cur = c /\ f \in Threads
            BY <1>12, <3>1 DEF Threads
        <3>3. CASE f = e
            BY <1>i, <1>1, <1>7, <1>9, <1>11, <3>1, <3>2, <3>3 DEF Inside
        <3>4. CASE f # e
            <4>1. at'[f] = at[f]
                BY <1>9, <3>2, <3>4
            <4>2. at[f].pc # "idle" => c \in DOMAIN task /\ Exec(c) = f
                BY <1>0, <3>1, <3>2, Referred DEF IInv, WhereThreadsAre, OwnTasks
            <4>3. at[f].pc # "idle" => c # i /\ (Held(c)' <=> Held(c))
                BY <1>1, <1>2, <1>15, <3>4, <4>2
            <4> QED BY <1>11, <3>1, <3>2, <4>1, <4>2, <4>3 DEF IInv, StatesOK, Inside
        <3> QED BY <3>3, <3>4
    <2>2. ASSUME NEW j \in DOMAIN task, task'[j].state = "Running"
          PROVE  /\ at'[Exec(j)].cur = j /\ at'[Exec(j)].pc \in Inside
                 /\ Held(j)' \/ (Exec(j) = "user" /\ ~task'[j].linked /\ disposed["user"])
        <3>1. Exec(j) \in Executors /\ Exec(j) \in Threads
            BY <1>0, TypeFacts
        <3>2. j # i /\ task'[j] = task[j]
            BY <1>1, <1>10, <1>11, <2>2
        <3>3. at[Exec(j)].cur = j
            BY <2>2, <3>2 DEF IInv, StatesOK
        <3>4. at'[Exec(j)] = at[Exec(j)]
            BY <1>i, <1>9, <3>1, <3>2, <3>3
        <3> QED BY <1>2, <1>15, <2>2, <3>2, <3>4 DEF IInv, StatesOK
    <2>3. ASSUME NEW j \in DOMAIN task, task'[j].state = "Initial"
          PROVE  /\ Held(j)'
                 /\ \/ j \in delayed' \/ InLine(j)'
                    \/ \E x \in Threads : at'[x].pc = "retain" /\ at'[x].new = j
        <3>1. task[j].state = "Initial" /\ j \notin gone
            BY <1>1, <1>2, <1>11, <2>3
        <3>2. \A x \in Threads : at[x].pc = "retain" => at'[x] = at[x]
            BY <1>0, <1>9
        <3> QED BY <1>6, <1>14, <1>15, <3>1, <3>2 DEF IInv, StatesOK
    <2>4. \A j \in DOMAIN task : Exec(j)' = Exec(j)
        BY <1>10 DEF Exec, OpOf
    <2> QED BY <1>6, <1>10, <2>1, <2>2, <2>3, <2>4 DEF StatesOK
<1>19. StateOK'
    <2>1. at' \in [Threads -> ThreadRecords(Len(task'))]
        BY <1>0, <1>6, <1>7, <1>10 DEF StateOK
    <2>2. tasks' \in [Executors -> SUBSET DOMAIN task]
        BY <1>0, <1>6 DEF StateOK
    <2> QED BY <1>0, <1>6, <1>10, <2>1, <2>2 DEF StateOK
<1>20. WhereThreadsAre' /\ MutexOK' /\ DisposeOK'
    <2>1. \A f \in Executors : tasks'[f] \subseteq tasks[f]
        BY <1>13
    <2> QED BY <1>0, <1>6, <1>7, <1>8, <2>1, EndingTask
<1>21. StopOK'
    <2>1. \A x \in Threads : at'[x].pc \in HandingOver => at'[x] = at[x]
        BY <1>7, <1>9 DEF HandingOver
    <2>2. \/ at'["worker"] = at["worker"]
          \/ /\ at'["worker"].pc = "release" /\ at["worker"].pc = "complete"
             /\ at'["worker"].op = at["worker"].op /\ at'["worker"].cur = at["worker"].cur
        BY <1>0, <1>7, <1>9
    <2> QED BY <1>6, <1>10, <1>11, <2>1, <2>2, StopKept
<1> QED BY <1>16, <1>17, <1>18, <1>19, <1>20, <1>21 DEF IInv

(* Libdispatch lets go of the task.                                        *)
LEMMA ReleaseKeepsIInv ==
    ASSUME IInv, NEW e \in Executors, Release(e)
    PROVE  IInv'
<1>i. PICK i : i = at[e].cur
    OBVIOUS
<1>r. PICK r : r = Idle
    OBVIOUS
<1>y. PICK y : y = [task[i] EXCEPT !.refs = @ - 1]
    OBVIOUS
<1>0. StateOK /\ e \in Threads /\ "worker" \in Threads
      /\ at[e].pc = "release" /\ Len(task) \in Nat
    BY TypeFacts DEF IInv, Release, Threads, Executors
<1>1. /\ i \in DOMAIN task /\ task[i] \in TaskRecords /\ Exec(i) = e /\ i # 0
      /\ task[i].state \in {"Done", "Cancelled"}
    <2>1. i # 0
        BY <1>i, <1>0 DEF IInv, WhereThreadsAre
    <2>2. i \in DOMAIN task
        BY <1>i, <1>0, <2>1, Referred
    <2> QED BY <1>i, <1>0, <2>1, <2>2, TypeFacts DEF IInv, OwnTasks, StatesOK
<1>2. /\ Dispatched(i) /\ i \notin delayed /\ ~InLine(i)
      /\ \A f \in Executors : f # e => at[f].cur # i
      /\ task[i].refs = (IF Held(i) THEN 1 ELSE 0) + (IF Dispatched(i) THEN 1 ELSE 0)
    <2>1. Dispatched(i)
        BY <1>i DEF Dispatched
    <2>2. i \notin delayed /\ ~InLine(i)
        BY <1>i DEF IInv, InOnePlace, InLine
    <2>3. \A f \in Executors : f # e => at[f].cur # i
        BY <1>1 DEF IInv, OwnTasks
    <2> QED BY <1>1, <2>1, <2>2, <2>3 DEF IInv, Counted
<1>3. y \in TaskRecords /\ y.op = task[i].op /\ y.state = task[i].state
      /\ y.refs = task[i].refs - 1
    <2>1. task[i].refs \in Nat /\ task[i].refs - 1 \in Nat
        BY <1>1, <1>2 DEF TaskRecords
    <2> QED BY <1>y, <1>1, <2>1 DEF TaskRecords, States
<1>4. y.linked = task[i].linked
    BY <1>y, <1>1, Zenon DEF TaskRecords
<1>5. /\ task' = [task EXCEPT ![i] = y] /\ at' = [at EXCEPT ![e] = r]
      /\ UNCHANGED <<mode, queueMutex, firestoreMutex, tasks, disposed, line, delayed, lruCallback,
                     terminated, signalled, dropped, calls>>
    BY <1>i, <1>r, <1>y DEF Release, client
<1>6. /\ r \in ThreadRecords(Len(task)) /\ r.pc = "idle" /\ r.op = "work" /\ r.cur = 0
      /\ r.batch = {}
    BY <1>r, <1>0 DEF Idle, ThreadRecords, Places, Ops, Executors
<1>7. at[e].batch = {}
    BY <1>0 DEF IInv, WhereThreadsAre, Looping
<1>8. at'[e] = r /\ \A x \in Threads : x # e => at'[x] = at[x]
    BY <1>0, <1>5, OneThread
<1>9. /\ task' \in Seq(TaskRecords) /\ DOMAIN task' = DOMAIN task /\ Len(task') = Len(task)
      /\ task'[i] = y /\ \A j \in DOMAIN task : j # i => task'[j] = task[j]
      /\ \A j \in DOMAIN task : task'[j].op = task[j].op
    BY <1>0, <1>1, <1>3, <1>5, TaskUpdated
<1>10. \A j \in DOMAIN task : /\ task'[j].state = task[j].state
                              /\ task'[j].linked = task[j].linked
    BY <1>3, <1>4, <1>9
<1>11. \A x \in Threads : at'[x].batch = at[x].batch
    BY <1>6, <1>7, <1>8
<1>12. \A j : /\ Held(j)' <=> Held(j)
              /\ InLine(j)' <=> InLine(j)
    BY <1>5, <1>11 DEF Held, InLine
<1>13. \A j \in DOMAIN task : Dispatched(j)' <=> Dispatched(j) /\ j # i
    <2>1. \A f \in Executors : f \in Threads
        BY DEF Threads
    <2>2. 0 \notin DOMAIN task
        BY <1>0, TypeFacts
    <2>3. ASSUME NEW j \in DOMAIN task
          PROVE  (\E f \in Executors : at'[f].cur = j) <=> ((\E f \in Executors : at[f].cur = j) /\ j # i)
        BY <1>i, <1>2, <1>6, <1>8, <2>1, <2>2
    <2> QED BY <1>2, <1>5, <1>12, <2>3 DEF Dispatched
<1>14. OwnTasks' /\ InOnePlace' /\ HeldOnce'
    <2>1. \A f \in Executors : \A j \in tasks[f] : task'[j].linked
        BY <1>0, <1>10, Referred DEF IInv, OwnTasks
    <2>2. \A x \in Threads : at'[x].pc = "retain" => at'[x] = at[x]
        BY <1>6, <1>8
    <2>3. \A x \in Threads : at[x].pc = "retain" => at[x].new \in tasks[ExecutorOf(at[x].op)]
        BY DEF IInv, OwnTasks
    <2>4. \A x \in Threads : /\ at'[x].pc = "await" => at'[x].new \in at'[x].batch
                             /\ at'[x].batch # {} => at'[x] = at[x]
                             /\ at'[x].cur = at[x].cur \/ at'[x].cur = 0
        BY <1>6, <1>7, <1>8 DEF IInv, HeldOnce
    <2> QED BY <1>5, <1>9, <1>11, <2>1, <2>2, <2>3, <2>4, ShareLess
<1>15. Counted'
    <2>1. task'[i].refs = (IF Held(i)' THEN 1 ELSE 0) + (IF Dispatched(i)' THEN 1 ELSE 0)
        BY <1>1, <1>2, <1>3, <1>9, <1>12, <1>13
    <2>2. \A j \in DOMAIN task : j # i =>
              task'[j].refs = (IF Held(j)' THEN 1 ELSE 0) + (IF Dispatched(j)' THEN 1 ELSE 0)
        BY <1>9, <1>12, <1>13 DEF IInv, Counted
    <2> QED BY <1>9, <2>1, <2>2 DEF Counted
<1>16. StatesOK'
    <2>1. ASSUME NEW f \in Executors
          PROVE  /\ at'[f].pc \in Inside => task'[at'[f].cur].state = "Running"
                 /\ at'[f].pc = "complete" =>
                        /\ task'[at'[f].cur].state = "Done"
                        /\ task'[at'[f].cur].linked => Held(at[f].cur)'
                 /\ at'[f].pc = "release" => task'[at'[f].cur].state \in {"Done", "Cancelled"}
        <3>1. PICK c : c = at[f].cur
            OBVIOUS
        <3>2. f \in Threads
            BY DEF Threads
        <3>3. CASE f = e
            BY <1>6, <1>8, <3>3 DEF Inside
        <3>4. CASE f # e
            <4>1. at'[f] = at[f]
                BY <1>8, <3>2, <3>4
            <4>2. at[f].pc # "idle" => c \in DOMAIN task
                BY <1>0, <3>1, <3>2, Referred DEF IInv, WhereThreadsAre
            <4>3. Held(c)' <=> Held(c)
                BY <1>12
            <4> QED BY <1>10, <3>1, <3>2, <4>1, <4>2, <4>3 DEF IInv, StatesOK, Inside
        <3> QED BY <3>3, <3>4
    <2>2. ASSUME NEW j \in DOMAIN task, task'[j].state = "Running"
          PROVE  /\ at'[Exec(j)].cur = j /\ at'[Exec(j)].pc \in Inside
                 /\ Held(j)' \/ (Exec(j) = "user" /\ ~task'[j].linked /\ disposed["user"])
        <3>1. Exec(j) \in Executors /\ Exec(j) \in Threads
            BY <1>0, TypeFacts
        <3>2. j # i /\ task'[j] = task[j]
            BY <1>1, <1>9, <1>10, <2>2
        <3>3. at[Exec(j)].cur = j
            BY <2>2, <3>2 DEF IInv, StatesOK
        <3>4. at'[Exec(j)] = at[Exec(j)]
            BY <1>i, <1>8, <3>1, <3>2, <3>3
        <3> QED BY <1>12, <2>2, <3>2, <3>4 DEF IInv, StatesOK
    <2>3. ASSUME NEW j \in DOMAIN task, task'[j].state = "Initial"
          PROVE  /\ Held(j)'
                 /\ \/ j \in delayed' \/ InLine(j)'
                    \/ \E x \in Threads : at'[x].pc = "retain" /\ at'[x].new = j
        <3>1. task[j].state = "Initial"
            BY <1>10, <2>3
        <3>2. \A x \in Threads : at[x].pc = "retain" => at'[x] = at[x]
            BY <1>0, <1>8
        <3> QED BY <1>5, <1>12, <3>1, <3>2 DEF IInv, StatesOK
    <2>4. \A j \in DOMAIN task : Exec(j)' = Exec(j)
        BY <1>9 DEF Exec, OpOf
    <2> QED BY <1>5, <1>9, <2>1, <2>2, <2>3, <2>4 DEF StatesOK
<1>17. StateOK'
    <2>1. at' \in [Threads -> ThreadRecords(Len(task'))]
        BY <1>0, <1>5, <1>6, <1>9 DEF StateOK
    <2> QED BY <1>0, <1>5, <1>9, <2>1 DEF StateOK
<1>18. WhereThreadsAre' /\ MutexOK' /\ DisposeOK'
    BY <1>0, <1>5, <1>6, EndingTask
<1>19. StopOK'
    <2>1. \A x \in Threads : at'[x].pc \in HandingOver => at'[x] = at[x]
        BY <1>6, <1>8 DEF HandingOver
    <2>2. \/ at'["worker"] = at["worker"]
          \/ /\ at'["worker"].pc = "idle" /\ at["worker"].pc = "release"
             /\ at'["worker"].op = "work"
        BY <1>0, <1>6, <1>8
    <2> QED BY <1>5, <1>9, <1>10, <2>1, <2>2, StopKept
<1> QED BY <1>14, <1>15, <1>16, <1>17, <1>18, <1>19 DEF IInv

(* Libdispatch takes the task at the head of an executor's queue.          *)
LEMMA TailLine ==
    ASSUME IInv, NEW e \in Executors, NEW i, line[e] # <<>>, i = Head(line[e]),
           line' = [line EXCEPT ![e] = Tail(@)]
    PROVE  /\ line' \in [Executors -> Seq(DOMAIN task)]
           /\ \A f \in Executors : f # e => line'[f] = line[f]
           /\ i \in DOMAIN task /\ Exec(i) = e /\ InLine(i)
           /\ 1 \in DOMAIN line[e] /\ line[e][1] = i
           /\ \A k \in DOMAIN line'[e] : /\ k \in Nat /\ k + 1 \in DOMAIN line[e]
                                         /\ line'[e][k] = line[e][k + 1] /\ line'[e][k] # i
           /\ \A j : InLine(j)' <=> InLine(j) /\ j # i
<1>1. line[e] \in Seq(DOMAIN task) /\ line \in [Executors -> Seq(DOMAIN task)]
    BY DEF IInv, StateOK
<1>2. /\ line' \in [Executors -> Seq(DOMAIN task)] /\ line'[e] = Tail(line[e])
      /\ \A f \in Executors : f # e => line'[f] = line[f]
    BY <1>1
<1>3. 1 \in DOMAIN line[e] /\ line[e][1] = i /\ i \in DOMAIN task
    BY <1>1
<1>4. Exec(i) = e /\ InLine(i)
    BY <1>3 DEF IInv, OwnTasks, InLine
<1>5. Len(line[e]) \in Nat /\ DOMAIN line[e] = 1 .. Len(line[e])
      /\ DOMAIN line'[e] = 1 .. (Len(line[e]) - 1)
      /\ \A k \in DOMAIN line'[e] : line'[e][k] = line[e][k + 1]
    BY <1>1, <1>2
<1>6. \A k \in DOMAIN line'[e] : k \in Nat /\ k + 1 \in DOMAIN line[e] /\ k + 1 # 1
    BY <1>5
<1>7. \A k \in DOMAIN line[e] : k # 1 => k - 1 \in DOMAIN line'[e] /\ (k - 1) + 1 = k
    BY <1>5
<1>8. \A k \in DOMAIN line[e] : k # 1 => line[e][k] # i
    BY <1>3 DEF IInv, InOnePlace
<1>9. \A f \in Executors : f # e => \A k \in DOMAIN line[f] : line[f][k] # i
    BY <1>4 DEF IInv, OwnTasks
<1>10. ASSUME NEW j
       PROVE  InLine(j)' <=> InLine(j) /\ j # i
    <2>1. ASSUME InLine(j)' PROVE InLine(j) /\ j # i
        <3>1. PICK f \in Executors : \E k \in DOMAIN line'[f] : line'[f][k] = j
            BY <2>1 DEF InLine
        <3>2. PICK k \in DOMAIN line'[f] : line'[f][k] = j
            BY <3>1
        <3>3. CASE f = e
            BY <1>5, <1>6, <1>8, <3>2, <3>3 DEF InLine
        <3>4. CASE f # e
            BY <1>2, <1>9, <3>2, <3>4 DEF InLine
        <3> QED BY <3>3, <3>4
    <2>2. ASSUME InLine(j), j # i PROVE InLine(j)'
        <3>1. PICK f \in Executors : \E k \in DOMAIN line[f] : line[f][k] = j
            BY <2>2 DEF InLine
        <3>2. PICK k \in DOMAIN line[f] : line[f][k] = j
            BY <3>1
        <3>3. CASE f = e
            <4>1. k # 1
                BY <1>3, <2>2, <3>2, <3>3
            <4>2. k - 1 \in DOMAIN line'[e] /\ line'[e][k - 1] = j
                BY <1>5, <1>7, <3>2, <3>3, <4>1
            <4> QED BY <4>2 DEF InLine
        <3>4. CASE f # e
            BY <1>2, <3>2, <3>4 DEF InLine
        <3> QED BY <3>3, <3>4
    <2> QED BY <2>1, <2>2
<1> QED BY <1>2, <1>3, <1>4, <1>5, <1>6, <1>8, <1>10

(* A task starts, unless it was cancelled.                                 *)
LEMMA TakeKeepsIInv ==
    ASSUME IInv, NEW e \in Executors, Take(e)
    PROVE  IInv'
<1>i. PICK i : i = Head(line[e])
    OBVIOUS
<1>r. PICK r : r = [at[e] EXCEPT !.pc = IF task[i].state = "Initial" THEN "run" ELSE "release",
                                 !.cur = i]
    OBVIOUS
<1>y. PICK y : y = [task[i] EXCEPT !.state = IF @ = "Initial" THEN "Running" ELSE @]
    OBVIOUS
<1>0. StateOK /\ e \in Threads /\ "worker" \in Threads /\ "worker" \in Executors
      /\ at[e].pc = "idle" /\ at[e].cur = 0 /\ line[e] # <<>>
      /\ Len(task) \in Nat /\ DOMAIN task = 1 .. Len(task) /\ 0 \notin DOMAIN task
    BY TypeFacts DEF IInv, Take, Threads, Executors, WhereThreadsAre
<1>1. /\ line' = [line EXCEPT ![e] = Tail(@)] /\ at' = [at EXCEPT ![e] = r]
      /\ UNCHANGED <<mode, queueMutex, firestoreMutex, tasks, disposed, delayed, lruCallback,
                     terminated, signalled, dropped, calls>>
    BY <1>i, <1>r DEF Take, client
<1>2. /\ line' \in [Executors -> Seq(DOMAIN task)]
      /\ \A f \in Executors : f # e => line'[f] = line[f]
      /\ i \in DOMAIN task /\ Exec(i) = e /\ InLine(i)
      /\ 1 \in DOMAIN line[e] /\ line[e][1] = i
      /\ \A k \in DOMAIN line'[e] : /\ k \in Nat /\ k + 1 \in DOMAIN line[e]
                                    /\ line'[e][k] = line[e][k + 1] /\ line'[e][k] # i
      /\ \A j : InLine(j)' <=> InLine(j) /\ j # i
    <2>1. line[e] # <<>> /\ line' = [line EXCEPT ![e] = Tail(@)]
        BY <1>0, <1>1
    <2> QED BY <1>i, <2>1, TailLine, Zenon
<1>3. task[i] \in TaskRecords
    BY <1>0, <1>2, TypeFacts
<1>4. y \in TaskRecords /\ y.op = task[i].op /\ y.refs = task[i].refs
      /\ y.state = IF task[i].state = "Initial" THEN "Running" ELSE task[i].state
    BY <1>y, <1>3 DEF TaskRecords, States
<1>5. y.linked = task[i].linked
    BY <1>y, <1>3, Zenon DEF TaskRecords
<1>6. task' = [task EXCEPT ![i] = y]
    <2>1. CASE task[i].state = "Initial"
        <3>1. y = [task[i] EXCEPT !.state = "Running"]
            BY <1>y, <2>1
        <3>2. task' = [task EXCEPT ![i].state = "Running"]
            BY <1>i, <2>1 DEF Take
        <3> QED BY <3>1, <3>2
    <2>2. CASE task[i].state # "Initial"
        <3>1. y = [task[i] EXCEPT !.state = @]
            BY <1>y, <2>2
        <3>2. y = task[i]
            BY <1>3, <3>1 DEF TaskRecords
        <3>3. task' = task
            BY <1>i, <2>2 DEF Take
        <3> QED BY <1>0, <3>2, <3>3 DEF StateOK
    <2> QED BY <2>1, <2>2
<1>7. /\ r \in ThreadRecords(Len(task)) /\ r.op = at[e].op /\ r.cur = i /\ r.new = at[e].new
      /\ r.batch = at[e].batch
      /\ r.pc = IF task[i].state = "Initial" THEN "run" ELSE "release"
    <2>1. at[e] \in ThreadRecords(Len(task)) /\ i \in 0 .. Len(task)
        BY <1>0, <1>2, TypeFacts
    <2> QED BY <1>r, <2>1 DEF ThreadRecords, Places
<1>8. at[e].batch = {} /\ at[e].op # "dispose"
    BY <1>0 DEF IInv, WhereThreadsAre, Looping, HandingOver
<1>9. at'[e] = r /\ \A x \in Threads : x # e => at'[x] = at[x]
    BY <1>0, <1>1, OneThread
<1>10. /\ task' \in Seq(TaskRecords) /\ DOMAIN task' = DOMAIN task /\ Len(task') = Len(task)
       /\ task'[i] = y /\ \A j \in DOMAIN task : j # i => task'[j] = task[j]
       /\ \A j \in DOMAIN task : task'[j].op = task[j].op
    BY <1>0, <1>2, <1>4, <1>6, TaskUpdated
<1>11. \A f \in Executors : f \in Threads
    BY DEF Threads
<1>12. /\ i \notin delayed /\ \A f \in Executors : at[f].cur # i
       /\ \A x \in Threads : at[x].pc = "retain" => at[x].new # i
    <2>1. i \notin delayed /\ \A f \in Executors : at[f].cur # i
        BY <1>2 DEF IInv, InOnePlace
    <2>2. \A x \in Threads : at[x].pc = "retain" => at[x].new # i
        BY <1>2 DEF IInv, InOnePlace, InLine
    <2> QED BY <2>1, <2>2
<1>13. \A x \in Threads : /\ at'[x].batch = at[x].batch
                          /\ at'[x].pc = "retain" <=> at[x].pc = "retain"
                          /\ at[x].pc = "retain" => at'[x] = at[x]
    BY <1>0, <1>7, <1>9
<1>14. \A j : Held(j)' <=> Held(j)
    BY <1>1, <1>13 DEF Held
<1>15. \A j \in DOMAIN task : Dispatched(j)' <=> Dispatched(j)
    <2>1. \A j \in DOMAIN task :
              (\E f \in Executors : at'[f].cur = j) <=> (\E f \in Executors : at[f].cur = j) \/ j = i
        BY <1>0, <1>7, <1>9, <1>11
    <2> QED BY <1>1, <1>2, <2>1 DEF Dispatched
<1>16. \A f \in Executors : \A k \in DOMAIN line'[f] :
           \E l \in DOMAIN line[f] : line'[f][k] = line[f][l] /\ line'[f][k] # i
    <2>1. \A f \in Executors : f # e => \A k \in DOMAIN line[f] : line[f][k] # i
        BY <1>2 DEF IInv, OwnTasks
    <2> QED BY <1>2, <2>1
<1>17. /\ \A x \in Threads : /\ at[x].cur # 0 => at[x].cur \in DOMAIN task
                             /\ at[x].new # 0 => at[x].new \in DOMAIN task
                             /\ at[x].batch \subseteq DOMAIN task
       /\ \A f \in Executors : /\ tasks[f] \subseteq DOMAIN task
                               /\ \A k \in DOMAIN line[f] : line[f][k] \in DOMAIN task
    BY <1>0, Referred
<1>18. \A j \in DOMAIN task : OpOf(j)' = OpOf(j) /\ Exec(j)' = Exec(j)
    BY <1>10 DEF OpOf, Exec
<1>19. StateOK'
    <2>1. at' \in [Threads -> ThreadRecords(Len(task'))]
        BY <1>0, <1>1, <1>7, <1>10 DEF StateOK
    <2> QED BY <1>0, <1>1, <1>2, <1>10, <2>1 DEF StateOK
<1>20. OwnTasks'
    <2>1. \A f \in Executors : \A j \in tasks[f] : Exec(j)' = f /\ task'[j].linked
        BY <1>5, <1>10, <1>17, <1>18 DEF IInv, OwnTasks
    <2>2. \A f \in Executors : \A k \in DOMAIN line'[f] : ExecutorOf(task'[line'[f][k]].op) = f
        <3>1. \A f \in Executors : \A k \in DOMAIN line[f] : ExecutorOf(task[line[f][k]].op) = f
            BY DEF IInv, OwnTasks, Exec, OpOf
        <3> QED BY <1>10, <1>16, <1>17, <3>1
    <2>3. \A f \in Executors : at'[f].cur # 0 => ExecutorOf(task'[at'[f].cur].op) = f
        <3>1. \A f \in Executors : at[f].cur # 0 => ExecutorOf(task[at[f].cur].op) = f
            BY DEF IInv, OwnTasks, Exec, OpOf
        <3>2. ExecutorOf(task[i].op) = e
            BY <1>2 DEF Exec, OpOf
        <3>3. ASSUME NEW f \in Executors, at'[f].cur # 0
              PROVE  ExecutorOf(task'[at'[f].cur].op) = f
            <4>1. CASE f = e
                <5>1. at'[f].cur = i /\ task'[i].op = task[i].op
                    BY <1>2, <1>7, <1>9, <1>10, <4>1
                <5> QED BY <3>2, <4>1, <5>1
            <4>2. CASE f # e
                <5>1. at'[f] = at[f] /\ at[f].cur \in DOMAIN task
                    BY <1>9, <1>11, <1>17, <3>3, <4>2
                <5>2. task'[at[f].cur].op = task[at[f].cur].op
                    BY <1>10, <5>1
                <5> QED BY <3>1, <3>3, <5>1, <5>2
            <4> QED BY <4>1, <4>2
        <3> QED BY <3>3
    <2>4. \A j \in delayed \union {lruCallback} : OpOf(j)' = "timer"
        BY <1>0, <1>18 DEF IInv, OwnTasks, StateOK
    <2>5. \A x \in Threads : at'[x].pc = "retain" =>
              /\ at'[x].new # 0 /\ task'[at'[x].new].op = at'[x].op
              /\ at'[x].new \in tasks[ExecutorOf(at'[x].op)]
        BY <1>10, <1>13, <1>17 DEF IInv, OwnTasks, OpOf
    <2> QED BY <1>1, <2>1, <2>2, <2>3, <2>4, <2>5 DEF OwnTasks, Exec, OpOf
<1>21. InOnePlace'
    <2>1. \A f \in Executors : at'[f].cur = at[f].cur \/ at'[f].cur = i
        BY <1>7, <1>9, <1>11
    <2>2. \A j \in delayed : ~InLine(j)' /\ \A f \in Executors : at'[f].cur # j
        BY <1>2, <1>12, <2>1 DEF IInv, InOnePlace
    <2>3. \A f \in Executors : \A k, l \in DOMAIN line'[f] : line'[f][k] = line'[f][l] => k = l
        <3>1. \A f \in Executors : \A k, l \in DOMAIN line[f] : line[f][k] = line[f][l] => k = l
            BY DEF IInv, InOnePlace
        <3>2. \A k, l \in DOMAIN line'[e] : line'[e][k] = line'[e][l] => k + 1 = l + 1
            BY <1>2, <3>1
        <3>3. \A k, l \in DOMAIN line'[e] : k + 1 = l + 1 => k = l
            BY <1>2
        <3> QED BY <1>2, <3>1, <3>2, <3>3
    <2>4. \A f, g \in Executors : \A k \in DOMAIN line'[f] : line'[f][k] # at'[g].cur
        <3>1. \A f, g \in Executors : \A k \in DOMAIN line[f] : line[f][k] # at[g].cur
            BY DEF IInv, InOnePlace
        <3> QED BY <1>16, <2>1, <3>1
    <2>5. \A x \in Threads : at'[x].pc = "retain" =>
              /\ at'[x].new \notin delayed
              /\ ~\E f \in Executors : \E k \in DOMAIN line'[f] : line'[f][k] = at'[x].new
              /\ \A f \in Executors : at'[f].cur # at'[x].new
        <3>1. \A x \in Threads : at[x].pc = "retain" =>
              /\ at[x].new \notin delayed
              /\ ~\E f \in Executors : \E k \in DOMAIN line[f] : line[f][k] = at[x].new
              /\ \A f \in Executors : at[f].cur # at[x].new
            BY DEF IInv, InOnePlace, InLine
        <3> QED BY <1>12, <1>13, <1>16, <2>1, <3>1
    <2>6. \A x, s \in Threads : at'[x].pc = "retain" /\ at'[s].pc = "retain" /\ at'[s].new = at'[x].new
                                    => s = x
        BY <1>13 DEF IInv, InOnePlace
    <2> QED BY <1>1, <2>2, <2>3, <2>4, <2>5, <2>6 DEF InOnePlace, InLine
<1>22. HeldOnce'
    <2>1. ASSUME NEW x \in Threads, NEW j \in at'[x].batch
          PROVE  /\ \A f \in Executors : j \notin tasks'[f]
                 /\ \A s \in Threads : j \in at'[s].batch => s = x
                 /\ at'[x].pc \in Looping => Exec(j)' = at'[x].ex
                 /\ at'[x].pc = "cancelTimer" => OpOf(j)' = "timer"
        <3>1. j \in at[x].batch /\ j \in DOMAIN task /\ at'[x] = at[x]
            BY <1>8, <1>9, <1>13, <1>17, <2>1
        <3> QED BY <1>1, <1>13, <1>18, <3>1 DEF IInv, HeldOnce
    <2>2. \A x \in Threads : at'[x].pc = "await" => at'[x].new \in at'[x].batch
        BY <1>7, <1>9 DEF IInv, HeldOnce
    <2> QED BY <2>1, <2>2 DEF HeldOnce
<1>23. Counted'
    <2>1. \A j \in DOMAIN task : task'[j].refs = task[j].refs
        BY <1>4, <1>10
    <2> QED BY <1>10, <1>14, <1>15, <2>1 DEF IInv, Counted
<1>24. task[i].state # "Running" /\ task[i].state \in States
    <2>1. task[i].state # "Running"
        BY <1>0, <1>2 DEF IInv, StatesOK
    <2> QED BY <1>3, <2>1 DEF TaskRecords
<1>25. StatesOK'
    <2>1. ASSUME NEW f \in Executors
          PROVE  /\ at'[f].pc \in Inside => task'[at'[f].cur].state = "Running"
                 /\ at'[f].pc = "complete" =>
                        /\ task'[at'[f].cur].state = "Done"
                        /\ task'[at'[f].cur].linked => Held(at[f].cur)'
                 /\ at'[f].pc = "release" => task'[at'[f].cur].state \in {"Done", "Cancelled"}
        <3>1. CASE f = e
            BY <1>4, <1>7, <1>9, <1>10, <1>24, <3>1 DEF Inside, States
        <3>2. CASE f # e
            <4>1. PICK c : c = at[f].cur
                OBVIOUS
            <4>2. at'[f] = at[f] /\ c # i
                BY <1>9, <1>11, <1>12, <3>2, <4>1
            <4>3. at[f].pc # "idle" => c \in DOMAIN task
                BY <1>11, <1>17, <4>1 DEF IInv, WhereThreadsAre
            <4>4. Held(c)' <=> Held(c)
                BY <1>14
            <4> QED BY <1>10, <4>1, <4>2, <4>3, <4>4 DEF IInv, StatesOK, Inside
        <3> QED BY <3>1, <3>2
    <2>2. ASSUME NEW j \in DOMAIN task, task'[j].state = "Running"
          PROVE  /\ at'[Exec(j)].cur = j /\ at'[Exec(j)].pc \in Inside
                 /\ Held(j)' \/ (Exec(j) = "user" /\ ~task'[j].linked /\ disposed["user"])
        <3>1. CASE j = i
            <4>1. task[i].state = "Initial"
                BY <1>4, <1>10, <1>24, <2>2, <3>1
            <4>2. Held(i)
                BY <1>2, <4>1 DEF IInv, StatesOK
            <4> QED BY <1>2, <1>7, <1>9, <1>14, <3>1, <4>1, <4>2 DEF Inside, Places
        <3>2. CASE j # i
            <4>1. Exec(j) \in Executors /\ Exec(j) \in Threads /\ task'[j] = task[j]
                BY <1>0, <1>10, <3>2, TypeFacts
            <4>2. at[Exec(j)].cur = j /\ at[Exec(j)].pc \in Inside
                BY <2>2, <4>1 DEF IInv, StatesOK
            <4>3. at'[Exec(j)] = at[Exec(j)]
                BY <1>0, <1>9, <4>1, <4>2
            <4> QED BY <1>14, <2>2, <4>1, <4>3 DEF IInv, StatesOK
        <3> QED BY <3>1, <3>2
    <2>3. ASSUME NEW j \in DOMAIN task, task'[j].state = "Initial"
          PROVE  /\ Held(j)'
                 /\ \/ j \in delayed' \/ InLine(j)'
                    \/ \E x \in Threads : at'[x].pc = "retain" /\ at'[x].new = j
        <3>1. task[j].state = "Initial" /\ j # i
            BY <1>4, <1>10, <2>3
        <3> QED BY <1>1, <1>2, <1>13, <1>14, <3>1 DEF IInv, StatesOK
    <2> QED BY <1>1, <1>10, <1>18, <2>1, <2>2, <2>3 DEF StatesOK
<1>26. WhereThreadsAre'
    <2>1. \A f \in Executors : f \in Threads /\ f \notin Callers
        BY QueueAssumption DEF Threads
    <2>2. /\ r.pc \in {"run", "release"} /\ r.op = at[e].op /\ r.batch = {} /\ r.cur # 0
          /\ r.op # "dispose"
        BY <1>0, <1>2, <1>7, <1>8
    <2> QED BY <1>9, <2>1, <2>2
               DEF IInv, WhereThreadsAre, HandingOver, Looping, Executors, Threads
<1>27. MutexOK'
    BY <1>0, <1>1, <1>7, <1>9 DEF IInv, MutexOK
<1>28. DisposeOK'
    <2>1. \A x \in Threads : \/ at'[x] = at[x]
                             \/ /\ ~Destroyer(x) /\ at'[x].op # "dispose"
                                /\ at'[x].pc \in {"run", "release"} /\ at[x].pc = "idle"
        BY <1>0, <1>7, <1>8, <1>9 DEF Destroyer
    <2>2. Quiet("worker")' <=> Quiet("worker")
        BY <1>1, <2>1 DEF Quiet
    <2>3. Destroyer("worker")' => Destroyer("worker")
        BY <1>0, <2>1 DEF Destroyer, Threads, Executors
    <2> QED BY <1>1, <2>1, <2>2, <2>3 DEF IInv, DisposeOK, Destroyer, Looping, Executors
<1>29. \/ e # "worker" /\ at'["worker"] = at["worker"]
       \/ /\ e = "worker" /\ at["worker"].pc = "idle" /\ at'["worker"].cur = i
          /\ at'["worker"].op # "timer"
          /\ \/ at'["worker"].pc = "run" /\ task[i].state = "Initial"
             \/ at'["worker"].pc = "release"
    <2>1. e = "worker" => at["worker"].op # "timer"
        BY <1>0 DEF IInv, StopOK, StateOK
    <2> QED BY <1>0, <1>7, <1>9, <2>1
<1>30. StopOK'
    <2>1. \A x \in Threads : at'[x].pc \in HandingOver /\ at'[x].op \in Stops => mode # "Running"
        BY <1>7, <1>9 DEF IInv, StopOK, HandingOver
    <2>2. \A j \in DOMAIN task : /\ task'[j].op \in Stops => mode # "Running"
                                 /\ task'[j].op = "dispose" => dropped
        BY <1>10 DEF IInv, StopOK, OpOf
    <2>3. \A k, l \in DOMAIN line["worker"] :
              task'[line["worker"][k]].op \in Stops /\ task'[line["worker"][l]].op = "work" => l < k
        BY <1>0, <1>10, <1>17 DEF IInv, StopOK, OpOf
    <2>4. \A k, l \in DOMAIN line'["worker"] :
              task'[line'["worker"][k]].op \in Stops /\ task'[line'["worker"][l]].op = "work" => l < k
        <3>1. CASE e = "worker"
            <4>1. \A k, l \in DOMAIN line'["worker"] :
                      task'[line'["worker"][k]].op \in Stops /\ task'[line'["worker"][l]].op = "work"
                      => l + 1 < k + 1
                <5>1. ASSUME NEW k \in DOMAIN line'["worker"], NEW l \in DOMAIN line'["worker"],
                             task'[line'["worker"][k]].op \in Stops,
                             task'[line'["worker"][l]].op = "work"
                      PROVE  l + 1 < k + 1
                    <6>1. /\ k + 1 \in DOMAIN line["worker"] /\ l + 1 \in DOMAIN line["worker"]
                          /\ line'["worker"][k] = line["worker"][k + 1]
                          /\ line'["worker"][l] = line["worker"][l + 1]
                        BY <1>2, <3>1, <5>1
                    <6> QED BY <2>3, <5>1, <6>1
                <5> QED BY <5>1
            <4>2. \A k, l \in DOMAIN line'["worker"] : l + 1 < k + 1 => l < k
                BY <1>2, <3>1
            <4> QED BY <4>1, <4>2
        <3>2. CASE e # "worker"
            BY <1>0, <1>2, <2>3, <3>2
        <3> QED BY <3>1, <3>2
    <2>5. at["worker"].pc # "idle" => at["worker"].cur \in DOMAIN task
        BY <1>0, <1>17 DEF IInv, WhereThreadsAre
    <2>6. \A j \in DOMAIN task : task'[j].state = "Initial" => task[j].state = "Initial"
        BY <1>4, <1>10
    <2>7. ASSUME at'["worker"].pc = "run", task'[at'["worker"].cur].op \in Stops,
                 NEW w \in DOMAIN task, task[w].op = "work"
          PROVE  task'[w].state # "Initial"
        <3>1. CASE e # "worker"
            <4>1. at["worker"].pc = "run" /\ OpOf(at["worker"].cur) \in Stops
                BY <1>10, <1>29, <2>5, <2>7, <3>1 DEF OpOf
            <4> QED BY <2>6, <2>7, <4>1 DEF IInv, StopOK, OpOf
        <3>2. CASE e = "worker"
            <4>1. at'["worker"].cur = i /\ OpOf(i) \in Stops
                BY <1>2, <1>10, <1>29, <2>7, <3>2 DEF OpOf
            <4>2. mode # "Running"
                BY <1>2, <4>1 DEF IInv, StopOK
            <4>3. SUFFICES ASSUME task[w].state = "Initial" PROVE FALSE
                BY <2>6
            <4>4. w \notin delayed
                BY <2>7 DEF IInv, OwnTasks, OpOf
            <4>5. \A x \in Threads : ~(at[x].pc = "retain" /\ at[x].new = w)
                <5>1. ASSUME NEW x \in Threads, at[x].pc = "retain", at[x].new = w
                      PROVE  FALSE
                    <6>1. at[x].op = "work"
                        BY <2>7, <5>1 DEF IInv, OwnTasks, OpOf
                    <6> QED BY <4>2, <5>1, <6>1 DEF IInv, MutexOK
                <5> QED BY <5>1
            <4>6. InLine(w)
                BY <4>3, <4>4, <4>5 DEF IInv, StatesOK
            <4>7. PICK f \in Executors : \E l \in DOMAIN line[f] : line[f][l] = w
                BY <4>6 DEF InLine
            <4>8. PICK l \in DOMAIN line[f] : line[f][l] = w
                BY <4>7
            <4>9. f = "worker"
                BY <2>7, <4>8 DEF IInv, OwnTasks, Exec, OpOf, ExecutorOf
            <4>10. l < 1
                <5>1. /\ 1 \in DOMAIN line["worker"] /\ OpOf(line["worker"][1]) \in Stops
                      /\ l \in DOMAIN line["worker"] /\ OpOf(line["worker"][l]) = "work"
                    BY <1>2, <2>7, <3>2, <4>1, <4>8, <4>9 DEF OpOf
                <5> QED BY <5>1 DEF IInv, StopOK
            <4>11. l \in Nat /\ l >= 1
                BY <1>0, <4>8 DEF StateOK
            <4> QED BY <4>10, <4>11
        <3> QED BY <3>1, <3>2
    <2>8. at'["worker"].pc \in {"cancelTimer", "reset"} => task'[at'["worker"].cur].op \in Stops
        BY <1>10, <1>29, <2>5 DEF IInv, StopOK, OpOf
    <2>9. Ending' =>
               /\ mode # "Running"
               /\ \A j \in DOMAIN task : task'[j].op \in {"work", "timer"} /\ task'[j].state = "Initial" =>
                      at'["worker"].pc = "cancelTimer" /\ j \in at'["worker"].batch
        <3>1. Ending' => Ending /\ (at["worker"].pc = "cancelTimer" => at'["worker"] = at["worker"])
            BY <1>1, <1>29 DEF Ending
        <3> QED BY <1>10, <2>6, <3>1 DEF IInv, StopOK, OpOf
    <2>10. \A j \in DOMAIN task : task'[j].op = "timer" /\ task'[j].state = "Initial" =>
               j = lruCallback \/ (at'["worker"].pc = "retain" /\ at'["worker"].new = j)
        <3>1. at["worker"].pc = "retain" => at'["worker"] = at["worker"]
            BY <1>29
        <3> QED BY <1>10, <2>6, <3>1 DEF IInv, StopOK, OpOf
    <2>11. signalled => Ending'
        BY <1>1, <1>29 DEF IInv, StopOK, Ending
    <2>12. ClientOutlivesWork'
        <3>1. ASSUME at'["worker"].pc = "run", terminated
              PROVE  task'[at'["worker"].cur].op \notin {"work", "timer"}
            <4>1. CASE e = "worker"
                <5>1. task[i].state = "Initial" /\ Ending /\ at'["worker"].cur = i
                    BY <1>29, <3>1, <4>1 DEF Ending
                <5>2. OpOf(i) \notin {"work", "timer"}
                    BY <1>0, <1>2, <4>1, <5>1 DEF IInv, StopOK
                <5> QED BY <1>2, <1>10, <5>1, <5>2 DEF OpOf
            <4>2. CASE e # "worker"
                BY <1>10, <1>29, <2>5, <3>1, <4>2 DEF IInv, StopOK, ClientOutlivesWork, OpOf
            <4> QED BY <4>1, <4>2
        <3> QED BY <1>1, <3>1 DEF ClientOutlivesWork, OpOf
    <2>13. /\ at'["worker"].op = "timer" =>
                  task'[at'["worker"].cur].op = "timer" /\ at'["worker"].cur = lruCallback
           /\ at'["worker"].pc = "run" /\ task'[at'["worker"].cur].op = "timer" =>
                  at'["worker"].cur = lruCallback
        <3>1. at["worker"].op = "timer" => at["worker"].cur \in DOMAIN task
            BY <1>0 DEF IInv, StopOK, StateOK
        <3>2. CASE e # "worker"
            BY <1>10, <1>29, <2>5, <3>1, <3>2 DEF IInv, StopOK, OpOf
        <3>3. CASE e = "worker"
            <4>1. task[i].op = "timer" /\ task[i].state = "Initial" => i = lruCallback
                BY <1>0, <1>2, <3>3 DEF IInv, StopOK, OpOf
            <4> QED BY <1>2, <1>10, <1>29, <3>3, <4>1
        <3> QED BY <3>2, <3>3
    <2>14. \A j \in DOMAIN task : task'[j].op = task[j].op
        BY <1>10
    <2> QED BY <1>1, <1>10, <2>1, <2>2, <2>4, <2>7, <2>8, <2>9, <2>10, <2>11, <2>12, <2>13, <2>14
               DEF StopOK, OpOf
<1> QED BY <1>19, <1>20, <1>21, <1>22, <1>23, <1>25, <1>26, <1>27, <1>28, <1>30 DEF IInv

(* Nobody holds a task of an executor that has been disposed of: the loop  *)
(* has let go of all of them, and the worker cancels its timer within an   *)
(* operation, which the loop would still be waiting for.                   *)
LEMMA QuietHoldsNothing ==
    ASSUME IInv, NEW e \in Executors, Quiet(e), NEW i \in DOMAIN task, Exec(i) = e
    PROVE  ~Held(i)
<1>0. StateOK /\ tasks[e] = {} /\ \A x \in Threads : at[x].pc \in Looping => at[x].ex # e
    BY DEF IInv, DisposeOK, Quiet, Looping
<1>1. ASSUME NEW j \in DOMAIN task, Exec(j) = e, Held(j)
      PROVE  e = "worker" /\ at["worker"].pc = "cancelTimer" /\ OpOf(j) = "timer"
    <2>1. \A f \in Executors : j \notin tasks[f]
        BY <1>0, <1>1 DEF IInv, OwnTasks
    <2>2. PICK x \in Threads : j \in at[x].batch
        BY <1>1, <2>1 DEF Held
    <2>3. at[x].pc \notin Looping
        BY <1>0, <1>1, <2>2 DEF IInv, HeldOnce
    <2>4. at[x].pc = "cancelTimer"
        BY <2>2, <2>3 DEF IInv, WhereThreadsAre
    <2>5. x = "worker"
        BY <2>4 DEF IInv, WhereThreadsAre, Threads, Executors
    <2>6. OpOf(j) = "timer"
        BY <2>2, <2>4 DEF IInv, HeldOnce
    <2> QED BY <1>1, <2>4, <2>5, <2>6 DEF Exec, ExecutorOf
<1>2. SUFFICES ASSUME Held(i) PROVE FALSE
    OBVIOUS
<1>3. e = "worker" /\ at["worker"].pc = "cancelTimer"
    BY <1>1, <1>2
<1>4. PICK c : c = at["worker"].cur
    OBVIOUS
<1>5. /\ c \in DOMAIN task /\ Exec(c) = "worker" /\ OpOf(c) \in Stops
      /\ task[c].state = "Running"
    <2>1. c # 0 /\ "worker" \in Executors /\ "worker" \in Threads
        BY <1>3, <1>4 DEF IInv, WhereThreadsAre, Executors, Threads
    <2>2. c \in DOMAIN task
        BY <1>0, <1>4, <2>1, Referred
    <2> QED BY <1>3, <1>4, <2>1, <2>2 DEF IInv, OwnTasks, StopOK, StatesOK, Inside, Places
<1>6. Held(c)
    BY <1>5 DEF IInv, StatesOK
<1> QED BY <1>1, <1>3, <1>5, <1>6 DEF Stops

(* tasks_ moves into local_tasks.                                          *)
LEMMA SwapKeepsIInv ==
    ASSUME IInv, NEW t \in Threads, Swap(t)
    PROVE  IInv'
<1>e. PICK e : e = at[t].ex
    OBVIOUS
<1>b. PICK b : b = tasks[e]
    OBVIOUS
<1>r. PICK r : r = [at[t] EXCEPT !.pc = "cancel", !.batch = b]
    OBVIOUS
<1>0. at[t].pc = "swap" /\ at[t].op = "dispose" /\ mode = "Disposed" /\ signalled
      /\ at[t].batch = {}
    BY DEF Swap, IInv, WhereThreadsAre, DisposeOK, Looping
<1>1. /\ StateOK /\ None \notin Threads /\ "worker" \in Threads /\ "user" \in Threads
      /\ at[t] \in ThreadRecords(Len(task)) /\ Len(task) \in Nat
      /\ DOMAIN task = 1 .. Len(task)
      /\ t # "worker" /\ (t \in Callers \/ t = "user")
      /\ t \in Callers => t \notin Executors /\ t # "worker" /\ t # "user"
      /\ dropped
      /\ \A s \in Threads : Destroyer(s) => s = t
      /\ queueMutex # t
    BY <1>0, DestroyerFacts
<1>2. /\ disposed' = [disposed EXCEPT ![e] = TRUE] /\ at' = [at EXCEPT ![t] = r]
      /\ tasks' = [tasks EXCEPT ![e] = {}]
      /\ UNCHANGED <<mode, queueMutex, firestoreMutex, task, line, delayed, lruCallback,
                     terminated, signalled, dropped, calls>>
    BY <1>e, <1>b, <1>r DEF Swap, client
<1>3. e \in Executors /\ b \subseteq DOMAIN task
    <2>1. e \in Executors
        BY <1>e, <1>1 DEF ThreadRecords
    <2> QED BY <1>b, <1>1, <2>1 DEF StateOK
<1>4. /\ r \in ThreadRecords(Len(task)) /\ r.pc = "cancel" /\ r.op = "dispose"
      /\ r.cur = at[t].cur /\ r.ex = e /\ r.batch = b
    BY <1>e, <1>r, <1>0, <1>1, <1>3 DEF ThreadRecords, Places
<1>5. at'[t] = r /\ \A x \in Threads : x # t => at'[x] = at[x]
    BY <1>1, <1>2, OneThread
<1>6. \A f \in Executors : /\ tasks'[f] = IF f = e THEN {} ELSE tasks[f]
                           /\ disposed'[f] = (f = e \/ disposed[f])
                           /\ f \in Threads
    BY <1>1, <1>2, <1>3 DEF StateOK, Threads
<1>7. /\ \A x \in Threads : /\ at[x].cur # 0 => at[x].cur \in DOMAIN task
                            /\ at[x].new # 0 => at[x].new \in DOMAIN task
                            /\ at[x].batch \subseteq DOMAIN task
      /\ \A f \in Executors : /\ tasks[f] \subseteq DOMAIN task
                              /\ \A k \in DOMAIN line[f] : line[f][k] \in DOMAIN task
    BY <1>1, Referred
<1>8. \A x \in Threads : at'[x].cur = at[x].cur
    BY <1>4, <1>5
<1>9. \A i : OpOf(i)' = OpOf(i) /\ Exec(i)' = Exec(i) /\ InLine(i)' = InLine(i)
    BY <1>2 DEF OpOf, Exec, InLine
<1>10. \A i : Dispatched(i)' <=> Dispatched(i)
    BY <1>2, <1>6, <1>8, <1>9 DEF Dispatched
<1>11. \A i : Held(i)' <=> Held(i)
    <2>1. \A x \in Threads : \A i : i \in at'[x].batch <=> i \in at[x].batch \/ (x = t /\ i \in tasks[e])
        BY <1>b, <1>0, <1>4, <1>5
    <2> QED BY <1>3, <1>6, <2>1 DEF Held
<1>12. e = "user" => Quiet("worker")
    BY <1>e, <1>0 DEF IInv, DisposeOK
<1>13. \A x \in Threads : at[x].pc = "retain" => ExecutorOf(at[x].op) # e
    <2>1. ASSUME NEW x \in Threads, at[x].pc = "retain", ExecutorOf(at[x].op) = e
          PROVE  FALSE
        <3>1. at[x].op = "callback"
            BY <1>0, <2>1 DEF IInv, MutexOK
        <3>2. x = "worker" /\ e = "user"
            BY <2>1, <3>1 DEF IInv, WhereThreadsAre, Threads, Executors, ExecutorOf
        <3>3. PICK c : c = at["worker"].cur
            OBVIOUS
        <3>4. c # 0 /\ "worker" \in Executors
            BY <2>1, <3>2, <3>3 DEF IInv, WhereThreadsAre, Executors
        <3>5. c \in DOMAIN task /\ Exec(c) = "worker" /\ task[c].state = "Running"
            BY <1>1, <1>7, <2>1, <3>2, <3>3, <3>4 DEF IInv, OwnTasks, StatesOK, Inside, Places
        <3>6. Held(c)
            BY <3>5 DEF IInv, StatesOK
        <3> QED BY <1>12, <3>2, <3>4, <3>5, <3>6, QuietHoldsNothing
    <2> QED BY <2>1
<1>14. StateOK'
    <2>1. at' \in [Threads -> ThreadRecords(Len(task))]
        BY <1>1, <1>2, <1>4 DEF StateOK
    <2>2. tasks' \in [Executors -> SUBSET DOMAIN task] /\ disposed' \in [Executors -> BOOLEAN]
        BY <1>1, <1>2, <1>3 DEF StateOK
    <2> QED BY <1>1, <1>2, <2>1, <2>2 DEF StateOK
<1>15. \A x \in Threads : at'[x].pc = "retain" => at'[x] = at[x] /\ x # t
    BY <1>4, <1>5
<1>16. OwnTasks'
    <2>1. \A f \in Executors : \A i \in tasks'[f] : Exec(i) = f /\ task[i].linked
        BY <1>6 DEF IInv, OwnTasks
    <2>2. \A x \in Threads : at'[x].pc = "retain" =>
              /\ at'[x].new # 0 /\ task[at'[x].new].op = at'[x].op
              /\ at'[x].new \in tasks'[ExecutorOf(at'[x].op)]
        <3>1. \A x \in Threads : ExecutorOf(at[x].op) \in Executors
            BY DEF ExecutorOf, Executors
        <3> QED BY <1>6, <1>13, <1>15, <3>1 DEF IInv, OwnTasks, OpOf
    <2>3. \A f \in Executors : at'[f].cur # 0 => ExecutorOf(task[at'[f].cur].op) = f
        BY <1>6, <1>8 DEF IInv, OwnTasks, Exec, OpOf
    <2>4. /\ \A f \in Executors : \A k \in DOMAIN line[f] : ExecutorOf(task[line[f][k]].op) = f
          /\ \A i \in delayed \union {lruCallback} : task[i].op = "timer"
        BY DEF IInv, OwnTasks, Exec, OpOf
    <2> QED BY <1>2, <2>1, <2>2, <2>3, <2>4 DEF OwnTasks, Exec, OpOf
<1>17. InOnePlace'
    <2>1. \A f \in Executors : at'[f].cur = at[f].cur
        BY <1>6, <1>8
    <2> QED BY <1>2, <1>15, <2>1 DEF IInv, InOnePlace, InLine
<1>18. HeldOnce'
    <2>1. ASSUME NEW x \in Threads, NEW i \in at'[x].batch
          PROVE  /\ \A f \in Executors : i \notin tasks'[f]
                 /\ \A s \in Threads : i \in at'[s].batch => s = x
                 /\ at'[x].pc \in Looping => Exec(i) = at'[x].ex
                 /\ at'[x].pc = "cancelTimer" => OpOf(i) = "timer"
        <3>1. CASE x = t
            <4>1. i \in tasks[e] /\ Exec(i) = e
                BY <1>b, <1>3, <1>4, <1>5, <2>1, <3>1 DEF IInv, OwnTasks
            <4>2. \A f \in Executors : i \notin tasks'[f]
                BY <1>6, <4>1 DEF IInv, OwnTasks
            <4>3. \A s \in Threads : s # t => i \notin at[s].batch
                BY <1>3, <4>1 DEF IInv, HeldOnce
            <4> QED BY <1>4, <1>5, <3>1, <4>1, <4>2, <4>3
        <3>2. CASE x # t
            <4>1. i \in at[x].batch /\ at'[x] = at[x]
                BY <1>5, <2>1, <3>2
            <4>2. /\ \A f \in Executors : i \notin tasks[f]
                  /\ \A s \in Threads : i \in at[s].batch => s = x
                  /\ at[x].pc \in Looping => Exec(i) = at[x].ex
                  /\ at[x].pc = "cancelTimer" => OpOf(i) = "timer"
                BY <4>1 DEF IInv, HeldOnce
            <4> QED BY <1>b, <1>3, <1>4, <1>5, <1>6, <4>1, <4>2
        <3> QED BY <3>1, <3>2
    <2>2. \A x \in Threads : at'[x].pc = "await" => at'[x].new \in at'[x].batch
        BY <1>4, <1>5 DEF IInv, HeldOnce
    <2> QED BY <1>9, <2>1, <2>2 DEF HeldOnce
<1>19. Counted'
    BY <1>2, <1>10, <1>11 DEF IInv, Counted
<1>20. StatesOK'
    <2>1. ASSUME NEW f \in Executors
          PROVE  /\ at'[f].pc \in Inside => task[at'[f].cur].state = "Running"
                 /\ at'[f].pc = "complete" =>
                        /\ task[at'[f].cur].state = "Done"
                        /\ task[at'[f].cur].linked => Held(at[f].cur)'
                 /\ at'[f].pc = "release" => task[at'[f].cur].state \in {"Done", "Cancelled"}
        <3>1. PICK c : c = at[f].cur
            OBVIOUS
        <3>2. at'[f].cur = c /\ (Held(c)' <=> Held(c))
            BY <1>6, <1>8, <1>11, <3>1
        <3>3. at'[f] = at[f] \/ (at'[f].pc = "cancel" /\ at[f].pc = "swap")
            BY <1>0, <1>4, <1>5, <1>6
        <3> QED BY <3>1, <3>2, <3>3 DEF IInv, StatesOK, Inside, Places
    <2>2. ASSUME NEW j \in DOMAIN task, task[j].state = "Running"
          PROVE  /\ at'[Exec(j)].cur = j /\ at'[Exec(j)].pc \in Inside
                 /\ Held(j)' \/ (Exec(j) = "user" /\ ~task[j].linked /\ disposed'["user"])
        <3>1. Exec(j) \in Executors /\ Exec(j) \in Threads
            BY <1>1, TypeFacts
        <3>2. at'[Exec(j)] = at[Exec(j)] \/ at'[Exec(j)].pc = "cancel"
            BY <1>4, <1>5, <3>1
        <3>3. disposed["user"] => disposed'["user"]
            BY <1>6 DEF Executors
        <3> QED BY <1>8, <1>11, <2>2, <3>1, <3>2, <3>3 DEF IInv, StatesOK, Inside, Places
    <2>3. ASSUME NEW j \in DOMAIN task, task[j].state = "Initial"
          PROVE  /\ Held(j)'
                 /\ \/ j \in delayed' \/ InLine(j)'
                    \/ \E x \in Threads : at'[x].pc = "retain" /\ at'[x].new = j
        <3>1. \A x \in Threads : at[x].pc = "retain" => at'[x] = at[x]
            BY <1>0, <1>5
        <3> QED BY <1>2, <1>9, <1>11, <2>3, <3>1 DEF IInv, StatesOK
    <2> QED BY <1>2, <1>9, <2>1, <2>2, <2>3 DEF StatesOK
<1>21. WhereThreadsAre'
    <2>1. \A f \in Executors : f \in Threads /\ f \notin Callers
        BY QueueAssumption DEF Threads
    <2> QED BY <1>0, <1>1, <1>4, <1>5, <2>1
               DEF IInv, WhereThreadsAre, HandingOver, Looping, Executors, Threads
<1>22. MutexOK'
    BY <1>0, <1>1, <1>2, <1>4, <1>5 DEF IInv, MutexOK
<1>23. DisposeOK'
    <2>1. \A s \in Threads : at'[s].pc \in {"wait", "close", "swap", "cancel", "await", "destroy"}
                                 \/ at'[s].op = "dispose" => s = t
        BY <1>1, <1>5 DEF IInv, WhereThreadsAre, Destroyer
    <2>2. at'[t].pc = "cancel" /\ at'[t].op = "dispose" /\ at'[t].ex = e
        BY <1>4, <1>5
    <2>3. e = "user" => Quiet("worker")'
        <3>1. e = "user" => disposed'["worker"]
            BY <1>6, <1>12 DEF Quiet, Executors
        <3> QED BY <2>1, <2>2, <3>1 DEF Quiet
    <2>4. disposed'["user"] => Quiet("worker")'
        <3>1. e = "worker" => ~disposed["user"]
            BY <1>e, <1>0 DEF IInv, DisposeOK, Quiet
        <3>2. disposed'["user"] => e = "user"
            BY <1>3, <1>6, <3>1 DEF Executors
        <3> QED BY <2>3, <3>2
    <2>5. \A f \in Executors : disposed'[f] => tasks'[f] = {}
        BY <1>6 DEF IInv, DisposeOK
    <2>6. disposed'[e]
        BY <1>3, <1>6
    <2> QED BY <1>0, <1>1, <1>2, <2>1, <2>2, <2>3, <2>4, <2>5, <2>6 DEF DisposeOK, Destroyer, Looping
<1>24. StopOK'
    BY <1>1, <1>2, <1>4, StopUndisturbed DEF HandingOver
<1> QED BY <1>14, <1>16, <1>17, <1>18, <1>19, <1>20, <1>21, <1>22, <1>23, <1>24 DEF IInv

(* A step of the loop over an executor's tasks: it cuts task i off from    *)
(* the executor, or lets it go.                                            *)
LEMMA LoopStepKeepsIInv ==
    ASSUME IInv, NEW t \in Threads, NEW i, NEW r \in ThreadRecords(Len(task)),
           NEW y \in TaskRecords,
           at[t].pc \in Looping, i \in at[t].batch, ~Locked(i),
           task' = [task EXCEPT ![i] = y], at' = [at EXCEPT ![t] = r],
           UNCHANGED <<mode, queueMutex, firestoreMutex, tasks, disposed, line, delayed, lruCallback,
                       terminated, signalled, dropped, calls>>,
           y.op = task[i].op, r.pc \in Looping, r.op = "dispose", r.cur = at[t].cur,
           r.ex = at[t].ex, r.pc = "await" => r.new \in r.batch,
           \/ r.batch = at[t].batch /\ y.refs = task[i].refs /\ y.state = task[i].state
           \/ /\ r.batch = at[t].batch \ {i} /\ y.refs = task[i].refs - 1
              /\ y.state = IF task[i].state = "Initial" THEN "Cancelled" ELSE task[i].state
              /\ task[i].state = "Running" => at[t].cur = i /\ ~y.linked
    PROVE  IInv'
<1>0. at[t].op = "dispose" /\ mode = "Disposed" /\ signalled
    BY DEF IInv, WhereThreadsAre, DisposeOK, Looping
<1>1. /\ StateOK /\ None \notin Threads /\ "worker" \in Threads /\ "user" \in Threads
      /\ at[t] \in ThreadRecords(Len(task)) /\ Len(task) \in Nat
      /\ DOMAIN task = 1 .. Len(task)
      /\ t # "worker" /\ (t \in Callers \/ t = "user")
      /\ t \in Callers => t \notin Executors /\ t # "worker" /\ t # "user"
      /\ dropped
      /\ \A s \in Threads : Destroyer(s) => s = t
      /\ queueMutex # t
    BY DestroyerFacts DEF Looping
<1>2. /\ \A x \in Threads : /\ at[x].cur # 0 => at[x].cur \in DOMAIN task
                            /\ at[x].new # 0 => at[x].new \in DOMAIN task
                            /\ at[x].batch \subseteq DOMAIN task
      /\ \A f \in Executors : /\ tasks[f] \subseteq DOMAIN task
                              /\ \A k \in DOMAIN line[f] : line[f][k] \in DOMAIN task
    BY <1>1, Referred
<1>3. /\ i \in DOMAIN task /\ task[i] \in TaskRecords /\ Held(i) /\ Exec(i) = at[t].ex
      /\ \A f \in Executors : i \notin tasks[f]
      /\ \A s \in Threads : i \in at[s].batch => s = t
    <2>1. i \in DOMAIN task
        BY <1>2
    <2>2. task[i] \in TaskRecords
        BY <1>1, <2>1, TypeFacts
    <2> QED BY <2>1, <2>2 DEF Held, IInv, HeldOnce
<1>4. /\ task' \in Seq(TaskRecords) /\ DOMAIN task' = DOMAIN task /\ Len(task') = Len(task)
      /\ task'[i] = y /\ \A j \in DOMAIN task : j # i => task'[j] = task[j]
      /\ \A j \in DOMAIN task : task'[j].op = task[j].op
    BY <1>1, <1>3, TaskUpdated
<1>5. at'[t] = r /\ \A x \in Threads : x # t => at'[x] = at[x]
    BY <1>1, OneThread
<1>6. \A f \in Executors : f \in Threads
    BY DEF Threads
<1>7. \A x \in Threads : at'[x].cur = at[x].cur
    BY <1>5
<1>8. \A j : /\ Dispatched(j)' <=> Dispatched(j)
             /\ InLine(j)' <=> InLine(j)
    <2>1. \A j : InLine(j)' <=> InLine(j)
        BY DEF InLine
    <2> QED BY <1>6, <1>7, <2>1 DEF Dispatched
<1>9. \A j : Held(j)' <=> Held(j) /\ (j = i => r.batch = at[t].batch)
    <2>1. \A x \in Threads : \A j : j \in at'[x].batch <=>
              j \in at[x].batch /\ (j = i => r.batch = at[t].batch)
        BY <1>3, <1>5
    <2> QED BY <1>3, <2>1 DEF Held
<1>10. \A x \in Threads : at'[x].pc = "retain" <=> at[x].pc = "retain"
    BY <1>5 DEF Looping
<1>11. \A x \in Threads : at[x].pc = "retain" => at'[x] = at[x]
    BY <1>5 DEF Looping
<1>12. OwnTasks' /\ InOnePlace' /\ HeldOnce'
    <2>1. \A f \in Executors : \A j \in tasks[f] : task'[j].linked
        BY <1>2, <1>3, <1>4 DEF IInv, OwnTasks
    <2>2. \A x \in Threads : at'[x].pc = "retain" =>
              at'[x] = at[x] /\ at[x].new \in tasks[ExecutorOf(at[x].op)]
        BY <1>10, <1>11 DEF IInv, OwnTasks
    <2>3. \A x \in Threads : at'[x].pc = "await" => at'[x].new \in at'[x].batch
        BY <1>5 DEF IInv, HeldOnce
    <2>4. \A x \in Threads : /\ at'[x].ex = at[x].ex /\ at'[x].batch \subseteq at[x].batch
                             /\ at'[x].pc \in Looping => at[x].pc \in Looping
                             /\ at'[x].pc = "cancelTimer" => at[x].pc = "cancelTimer"
        BY <1>5 DEF Looping
    <2> QED BY <1>4, <1>7, <2>1, <2>2, <2>3, <2>4, ShareLess
<1>13. Counted'
    <2>1. task[i].refs = (IF Held(i) THEN 1 ELSE 0) + (IF Dispatched(i) THEN 1 ELSE 0)
        BY <1>3 DEF IInv, Counted
    <2>2. r.batch # at[t].batch \/ y.refs = task[i].refs
        OBVIOUS
    <2>3. task'[i].refs = (IF Held(i)' THEN 1 ELSE 0) + (IF Dispatched(i)' THEN 1 ELSE 0)
        BY <1>3, <1>4, <1>8, <1>9, <2>1
    <2>4. \A j \in DOMAIN task : j # i =>
              task'[j].refs = (IF Held(j)' THEN 1 ELSE 0) + (IF Dispatched(j)' THEN 1 ELSE 0)
        BY <1>4, <1>8, <1>9 DEF IInv, Counted
    <2> QED BY <1>4, <2>3, <2>4 DEF Counted
<1>14. \A f \in Executors : \/ at'[f] = at[f]
                            \/ f = t /\ at'[f].pc \in Inside /\ at[f].pc \in Inside
    BY <1>5, <1>6 DEF Looping, Inside, Places
<1>15. StatesOK'
    <2>1. ASSUME NEW f \in Executors
          PROVE  /\ at'[f].pc \in Inside => task'[at'[f].cur].state = "Running"
                 /\ at'[f].pc = "complete" =>
                        /\ task'[at'[f].cur].state = "Done"
                        /\ task'[at'[f].cur].linked => Held(at[f].cur)'
                 /\ at'[f].pc = "release" => task'[at'[f].cur].state \in {"Done", "Cancelled"}
        <3>1. PICK c : c = at[f].cur
            OBVIOUS
        <3>2. at'[f].cur = c
            BY <1>6, <1>7, <3>1
        <3>3. at[f].pc # "idle" => c \in DOMAIN task
            BY <1>2, <1>6, <3>1 DEF IInv, WhereThreadsAre
        <3>4. at[f].pc # "idle" /\ task[c].state # "Initial" => task'[c].state = task[c].state
            BY <1>3, <1>4, <3>3
        <3>5. CASE at[f].pc = "complete"
            <4>1. c # i /\ task'[c] = task[c] /\ (Held(c)' <=> Held(c)) /\ at'[f] = at[f]
                BY <1>4, <1>9, <1>14, <3>1, <3>3, <3>5 DEF Locked, Inside
            <4> QED BY <3>1, <3>2, <3>5, <4>1 DEF IInv, StatesOK, Inside
        <3>6. CASE at[f].pc # "complete"
            BY <1>14, <3>1, <3>2, <3>4, <3>6 DEF IInv, StatesOK, Inside
        <3> QED BY <3>5, <3>6
    <2>2. ASSUME NEW j \in DOMAIN task, task'[j].state = "Running"
          PROVE  /\ at'[Exec(j)].cur = j /\ at'[Exec(j)].pc \in Inside
                 /\ Held(j)' \/ (Exec(j) = "user" /\ ~task'[j].linked /\ disposed["user"])
        <3>1. Exec(j) \in Executors /\ Exec(j) \in Threads
            BY <1>1, TypeFacts
        <3>2. task[j].state = "Running"
            BY <1>3, <1>4, <2>2
        <3>3. at'[Exec(j)].cur = j /\ at'[Exec(j)].pc \in Inside
            BY <1>7, <1>14, <3>1, <3>2 DEF IInv, StatesOK
        <3>4. CASE j # i
            BY <1>4, <1>9, <3>2, <3>3, <3>4 DEF IInv, StatesOK
        <3>5. CASE j = i /\ r.batch = at[t].batch
            BY <1>3, <1>9, <3>3, <3>5
        <3>6. CASE j = i /\ r.batch # at[t].batch
            <4>1. at[t].cur = i /\ ~y.linked
                BY <3>2, <3>6
            <4>2. t = "user"
                <5>1. at[t].cur # 0
                    BY <1>1, <1>3, <4>1
                <5> QED BY <1>1, <5>1 DEF IInv, WhereThreadsAre
            <4>3. Exec(i) = "user" /\ disposed["user"]
                <5>1. "user" \in Executors
                    BY DEF Executors
                <5>2. Exec(i) = "user"
                    BY <1>1, <1>3, <4>1, <4>2, <5>1 DEF IInv, OwnTasks
                <5> QED BY <1>3, <4>2, <5>2 DEF IInv, DisposeOK
            <4> QED BY <1>4, <3>3, <3>6, <4>1, <4>3
        <3> QED BY <3>4, <3>5, <3>6
    <2>3. ASSUME NEW j \in DOMAIN task, task'[j].state = "Initial"
          PROVE  /\ Held(j)'
                 /\ \/ j \in delayed' \/ InLine(j)'
                    \/ \E x \in Threads : at'[x].pc = "retain" /\ at'[x].new = j
        <3>1. task[j].state = "Initial" /\ (j = i => r.batch = at[t].batch)
            BY <1>3, <1>4, <2>3
        <3> QED BY <1>8, <1>9, <1>11, <3>1 DEF IInv, StatesOK
    <2>4. \A j \in DOMAIN task : Exec(j)' = Exec(j)
        BY <1>4 DEF Exec, OpOf
    <2> QED BY <1>4, <2>1, <2>2, <2>3, <2>4 DEF StatesOK
<1>16. StateOK'
    <2>1. at' \in [Threads -> ThreadRecords(Len(task'))]
        BY <1>1, <1>4 DEF StateOK
    <2> QED BY <1>1, <1>4, <2>1 DEF StateOK
<1>17. WhereThreadsAre'
    <2>1. \A f \in Executors : f \in Threads /\ f \notin Callers
        BY QueueAssumption DEF Threads
    <2>2. r.pc \in {"cancel", "await"} /\ at[t].pc \in {"cancel", "await"}
        BY DEF Looping
    <2> QED BY <1>0, <1>1, <1>5, <2>1, <2>2
               DEF IInv, WhereThreadsAre, HandingOver, Looping, Executors, Threads
<1>18. MutexOK'
    BY <1>1, <1>5 DEF IInv, MutexOK, Looping
<1>19. DisposeOK'
    <2>1. \A x \in Threads : \/ at'[x] = at[x]
                             \/ /\ x = t /\ at'[x].op = at[x].op /\ at'[x].ex = at[x].ex
                                /\ at'[x].pc \in {"cancel", "await"}
                                /\ at[x].pc \in {"cancel", "await"}
        BY <1>0, <1>5 DEF Looping
    <2>2. Quiet("worker")' <=> Quiet("worker")
        BY <2>1 DEF Quiet
    <2> QED BY <2>1, <2>2 DEF IInv, DisposeOK, Destroyer, Looping
<1>20. StopOK'
    <2>1. \A x \in Threads : at'[x].pc \in HandingOver => at'[x] = at[x]
        BY <1>5 DEF HandingOver, Looping
    <2>2. at'["worker"] = at["worker"]
        BY <1>1, <1>5
    <2>3. \A j \in DOMAIN task : task'[j].state = "Initial" => task[j].state = "Initial"
        BY <1>3, <1>4
    <2> QED BY <1>4, <2>1, <2>2, <2>3, StopKept
<1> QED BY <1>12, <1>13, <1>15, <1>16, <1>17, <1>18, <1>19, <1>20 DEF IInv

(* What Task::Cancel leaves of a task.                                     *)
LEMMA CancelledProps ==
    ASSUME NEW x \in TaskRecords, NEW y, y = Cancelled(x), x.refs # 0
    PROVE  /\ y \in TaskRecords /\ y.op = x.op /\ y.refs = x.refs - 1
           /\ y.state = IF x.state = "Initial" THEN "Cancelled" ELSE x.state
           /\ x.state = "Running" => ~y.linked
<1>1. /\ x.op \in Ops /\ x.state \in States /\ x.refs \in Nat /\ x.linked \in BOOLEAN
      /\ x.refs - 1 \in Nat
    BY DEF TaskRecords
<1>2. y = [op |-> x.op, state |-> IF x.state = "Initial" THEN "Cancelled" ELSE x.state,
           refs |-> x.refs - 1, linked |-> x.linked /\ x.state = "Done"]
    BY DEF Cancelled, TaskRecords
<1>3. y.linked = (x.linked /\ x.state = "Done")
    BY <1>2, SMT
<1>4. y.linked \in BOOLEAN
    BY <1>3, Zenon
<1>5. x.state = "Running" => ~y.linked
    BY <1>3
<1>6. y.op = x.op /\ y.refs = x.refs - 1
      /\ y.state = IF x.state = "Initial" THEN "Cancelled" ELSE x.state
    BY <1>2
<1>7. y.state \in States
    BY <1>1, <1>6 DEF States
<1>8. y \in [op : Ops, state : States, refs : Nat, linked : BOOLEAN]
    <2>1. DOMAIN y = {"op", "state", "refs", "linked"} /\ y = [z \in DOMAIN y |-> y[z]]
        BY <1>2
    <2> QED BY <1>1, <1>4, <1>6, <1>7, <2>1
<1> QED BY <1>5, <1>6, <1>8 DEF TaskRecords

(* A task that a loop holds counts it.                                     *)
LEMMA HeldIsCounted ==
    ASSUME IInv, NEW t \in Threads, NEW i \in at[t].batch
    PROVE  i \in DOMAIN task /\ task[i] \in TaskRecords /\ task[i].refs # 0
<1>1. i \in DOMAIN task
    BY Referred DEF IInv
<1>2. task[i] \in TaskRecords
    BY <1>1, TypeFacts DEF IInv
<1>3. Held(i)
    BY DEF Held
<1> QED BY <1>1, <1>2, <1>3 DEF IInv, Counted

(* The loop cancels a task, or finds it running and has to wait.           *)
LEMMA CancelKeepsIInv ==
    ASSUME IInv, NEW t \in Threads, NEW i \in at[t].batch, Cancel(t, i)
    PROVE  IInv'
<1>0. /\ StateOK /\ at[t].pc = "cancel" /\ ~Locked(i) /\ at[t].op = "dispose"
      /\ at[t] \in ThreadRecords(Len(task)) /\ Len(task) \in Nat /\ at[t].pc \in Looping
      /\ DOMAIN task = 1 .. Len(task)
    <2>1. at[t] \in ThreadRecords(Len(task)) /\ Len(task) \in Nat /\ DOMAIN task = 1 .. Len(task)
        BY TypeFacts DEF IInv
    <2> QED BY <2>1 DEF IInv, Cancel, WhereThreadsAre, Looping
<1>1. i \in DOMAIN task /\ task[i] \in TaskRecords /\ task[i].refs # 0
    BY HeldIsCounted
<1>2. UNCHANGED <<mode, queueMutex, firestoreMutex, tasks, disposed, line, delayed, lruCallback,
                  terminated, signalled, dropped, calls>>
    BY DEF Cancel, client
<1>3. CASE MustAwait(t, i)
    <2>1. PICK y : y = [task[i] EXCEPT !.linked = FALSE]
        OBVIOUS
    <2>2. PICK r : r = [at[t] EXCEPT !.pc = "await", !.new = i]
        OBVIOUS
    <2>3. task' = [task EXCEPT ![i] = y] /\ at' = [at EXCEPT ![t] = r]
        BY <1>3, <2>1, <2>2 DEF Cancel
    <2>4. /\ y \in TaskRecords /\ y.op = task[i].op /\ y.refs = task[i].refs
          /\ y.state = task[i].state
        BY <1>1, <2>1 DEF TaskRecords
    <2>5. /\ r \in ThreadRecords(Len(task)) /\ r.pc = "await" /\ r.op = at[t].op
          /\ r.cur = at[t].cur /\ r.new = i /\ r.ex = at[t].ex /\ r.batch = at[t].batch
        <3>1. i \in 0 .. Len(task)
            BY <1>0, <1>1
        <3> QED BY <1>0, <2>2, <3>1 DEF ThreadRecords, Places
    <2>6. r.pc \in Looping /\ (r.pc = "await" => r.new \in r.batch)
        BY <2>5 DEF Looping
    <2> QED BY <1>0, <1>2, <2>3, <2>4, <2>5, <2>6, LoopStepKeepsIInv
<1>4. CASE ~MustAwait(t, i)
    <2>1. PICK y : y = Cancelled(task[i])
        OBVIOUS
    <2>2. PICK r : r = [at[t] EXCEPT !.batch = @ \ {i}]
        OBVIOUS
    <2>3. task' = [task EXCEPT ![i] = y] /\ at' = [at EXCEPT ![t] = r]
        BY <1>4, <2>1, <2>2 DEF Cancel
    <2>4. /\ y \in TaskRecords /\ y.op = task[i].op /\ y.refs = task[i].refs - 1
          /\ y.state = IF task[i].state = "Initial" THEN "Cancelled" ELSE task[i].state
          /\ task[i].state = "Running" => ~y.linked
        BY <1>1, <2>1, CancelledProps
    <2>5. /\ r \in ThreadRecords(Len(task)) /\ r.pc = "cancel" /\ r.op = at[t].op
          /\ r.cur = at[t].cur /\ r.ex = at[t].ex /\ r.batch = at[t].batch \ {i}
        BY <1>0, <2>2 DEF ThreadRecords, Places
    <2>6. task[i].state = "Running" => at[t].cur = i
        BY <1>4 DEF MustAwait
    <2>7. r.pc \in Looping /\ (r.pc = "await" => r.new \in r.batch)
        BY <2>5 DEF Looping
    <2> QED BY <1>0, <1>2, <2>3, <2>4, <2>5, <2>6, <2>7, LoopStepKeepsIInv
<1> QED BY <1>3, <1>4

(* The task that was awaited is done.                                      *)
LEMMA AwaitKeepsIInv ==
    ASSUME IInv, NEW t \in Threads, Await(t)
    PROVE  IInv'
<1>i. PICK i : i = at[t].new
    OBVIOUS
<1>r. PICK r : r = [at[t] EXCEPT !.pc = "cancel", !.batch = @ \ {i}, !.new = 0]
    OBVIOUS
<1>y. PICK y : y = [task[i] EXCEPT !.refs = @ - 1]
    OBVIOUS
<1>0. /\ StateOK /\ at[t].pc = "await" /\ ~Locked(i) /\ at[t].op = "dispose"
      /\ at[t] \in ThreadRecords(Len(task)) /\ Len(task) \in Nat /\ at[t].pc \in Looping
      /\ i \in at[t].batch /\ task[i].state = "Done"
    <2>1. at[t] \in ThreadRecords(Len(task)) /\ Len(task) \in Nat
        BY TypeFacts DEF IInv
    <2> QED BY <1>i, <2>1 DEF IInv, Await, WhereThreadsAre, HeldOnce, Looping
<1>1. i \in DOMAIN task /\ task[i] \in TaskRecords /\ task[i].refs # 0
    BY <1>0, HeldIsCounted
<1>2. /\ task' = [task EXCEPT ![i] = y] /\ at' = [at EXCEPT ![t] = r]
      /\ UNCHANGED <<mode, queueMutex, firestoreMutex, tasks, disposed, line, delayed, lruCallback,
                     terminated, signalled, dropped, calls>>
    BY <1>i, <1>r, <1>y DEF Await, client
<1>3. /\ y \in TaskRecords /\ y.op = task[i].op /\ y.refs = task[i].refs - 1
      /\ y.state = task[i].state
    <2>1. task[i].refs - 1 \in Nat
        BY <1>1 DEF TaskRecords
    <2> QED BY <1>y, <1>1, <2>1 DEF TaskRecords
<1>4. /\ r \in ThreadRecords(Len(task)) /\ r.pc = "cancel" /\ r.op = at[t].op
      /\ r.cur = at[t].cur /\ r.ex = at[t].ex /\ r.batch = at[t].batch \ {i}
    <2>1. 0 \in 0 .. Len(task)
        BY <1>0
    <2> QED BY <1>r, <1>0, <2>1 DEF ThreadRecords, Places
<1>5. r.pc \in Looping /\ r.pc # "await" /\ task[i].state \notin {"Initial", "Running"}
    BY <1>0, <1>4 DEF Looping
<1> QED BY <1>0, <1>2, <1>3, <1>4, <1>5, LoopStepKeepsIInv

(* The worker goes on within an operation that stops the client.           *)
LEMMA WorkerMoves ==
    ASSUME IInv, NEW r, at' = [at EXCEPT !["worker"] = r],
           at["worker"].pc \in {"run", "cancelTimer", "reset"},
           r.pc \in {"finish", "insert", "cancelTimer", "reset"}, r.pc = "insert" => r.op = "callback",
           r.op # "dispose", r.cur = at["worker"].cur, r.batch # {} => r.pc = "cancelTimer",
           UNCHANGED <<mode, queueMutex, disposed, dropped>>, signalled => signalled',
           signalled' => dropped,
           \A f \in Executors : tasks'[f] \subseteq tasks[f]
    PROVE  WhereThreadsAre' /\ MutexOK' /\ DisposeOK'
<1>0. StateOK /\ "worker" \in Threads
    BY DEF IInv, Threads, Executors
<1>1. at'["worker"] = r /\ \A x \in Threads : x # "worker" => at'[x] = at[x]
    BY <1>0, OneThread
<1>2. \A f \in Executors : f \in Threads /\ f \notin Callers
    BY QueueAssumption DEF Threads
<1>3. at["worker"].op # "dispose" /\ at["worker"].cur # 0
    BY <1>0 DEF IInv, WhereThreadsAre, HandingOver, Executors
<1>4. WhereThreadsAre'
    BY <1>0, <1>1, <1>2, <1>3
       DEF IInv, WhereThreadsAre, HandingOver, Looping, Executors, Threads
<1>5. MutexOK'
    BY <1>0, <1>1 DEF IInv, MutexOK
<1>6. DisposeOK'
    <2>1. \A x \in Threads : \/ at'[x] = at[x]
                             \/ /\ ~Destroyer(x) /\ at'[x].op # "dispose"
                                /\ at'[x].pc \in {"finish", "insert", "cancelTimer", "reset"}
                                /\ at[x].pc \in {"run", "cancelTimer", "reset"}
        BY <1>0, <1>1, <1>3 DEF Destroyer
    <2>2. Quiet("worker")' <=> Quiet("worker")
        BY <2>1 DEF Quiet
    <2>3. ~Destroyer("worker")'
        BY <1>1 DEF Destroyer
    <2> QED BY <2>1, <2>2, <2>3 DEF IInv, DisposeOK, Destroyer, Looping, Executors
<1> QED BY <1>4, <1>5, <1>6

(* Where TerminateInternal returns to.                                     *)
LEMMA TerminatedProps ==
    ASSUME IInv, NEW r, r = Terminated(at["worker"])
    PROVE  /\ r \in ThreadRecords(Len(task)) /\ r.cur = at["worker"].cur
           /\ \/ r.pc = "finish" /\ r.op = "work" /\ r.batch = {}
              \/ r.pc = "insert" /\ r.op = "callback" /\ r.batch = at["worker"].batch
<1>0. "worker" \in Threads /\ "worker" \in Executors
    BY DEF Threads, Executors
<1>1. at["worker"] \in ThreadRecords(Len(task)) /\ Len(task) \in Nat
    BY <1>0, TypeFacts DEF IInv
<1>2. CASE OpOf(at["worker"].cur) = "dispose"
    <2>1. r = Return("worker")
        BY <1>2 DEF Terminated
    <2> QED BY <1>0, <2>1, ReturnProps
<1>3. CASE OpOf(at["worker"].cur) # "dispose"
    <2>1. r = [at["worker"] EXCEPT !.pc = "insert", !.op = "callback"]
        BY <1>3 DEF Terminated
    <2> QED BY <1>1, <2>1 DEF ThreadRecords, Places, Ops
<1> QED BY <1>2, <1>3

(* TerminateInternal begins: the timer moves from the executor to the      *)
(* thread that cancels it.                                                 *)
LEMMA RunTerminateKeepsIInv ==
    ASSUME IInv, RunTerminate
    PROVE  IInv'
<1>0. /\ StateOK /\ "worker" \in Threads /\ "worker" \in Executors /\ "user" \in Executors
      /\ at["worker"].pc = "run" /\ OpOf(at["worker"].cur) \in Stops
      /\ at["worker"].batch = {} /\ signalled' \in BOOLEAN /\ (signalled => signalled')
      /\ UNCHANGED <<mode, queueMutex, firestoreMutex, task, disposed, line, delayed, lruCallback,
                     terminated, dropped, calls>>
    <2>1. at["worker"].pc = "run" /\ OpOf(at["worker"].cur) \in Stops
        BY DEF RunTerminate, Running, Stops
    <2>2. "worker" \in Threads /\ "worker" \in Executors /\ "user" \in Executors
        BY DEF Threads, Executors
    <2>3. at["worker"].batch = {}
        BY <2>1, <2>2 DEF IInv, WhereThreadsAre, Looping
    <2>4. signalled' \in BOOLEAN /\ (signalled => signalled')
        BY DEF RunTerminate
    <2> QED BY <2>1, <2>2, <2>3, <2>4 DEF IInv, RunTerminate
<1>d. signalled' => dropped
    <2>1. at["worker"].cur \in DOMAIN task
        BY <1>0, Referred DEF IInv, WhereThreadsAre
    <2>2. OpOf(at["worker"].cur) = "dispose" => dropped
        BY <2>1 DEF IInv, StopOK
    <2>3. signalled' => signalled \/ OpOf(at["worker"].cur) = "dispose"
        BY DEF RunTerminate, Signals
    <2> QED BY <2>2, <2>3 DEF IInv, DisposeOK
<1>1. at["worker"] \in ThreadRecords(Len(task)) /\ Len(task) \in Nat /\ DOMAIN task = 1 .. Len(task)
    BY <1>0, TypeFacts
<1>2. CASE terminated
    <2>1. PICK r : r = Terminated(at["worker"])
        OBVIOUS
    <2>2. at' = [at EXCEPT !["worker"] = r] /\ tasks' = tasks
        BY <1>2, <2>1 DEF RunTerminate
    <2>3. /\ r \in ThreadRecords(Len(task)) /\ r.cur = at["worker"].cur /\ r.batch = {}
          /\ \/ r.pc = "finish" /\ r.op = "work"
             \/ r.pc = "insert" /\ r.op = "callback"
        BY <1>0, <2>1, TerminatedProps
    <2>4. TaskPart'
        BY <1>0, <2>2, <2>3, MoveOK DEF Inside, Places
    <2>5. StateOK'
        BY <1>0, <2>2, <2>3, MoveStateOK DEF StateOK
    <2>6. WhereThreadsAre' /\ MutexOK' /\ DisposeOK'
        BY <1>0, <1>d, <2>2, <2>3, WorkerMoves
    <2>7. StopOK'
        BY <1>0, <1>2, <2>2, <2>3, StopUndisturbed DEF Stops
    <2> QED BY <2>4, <2>5, <2>6, <2>7 DEF IInv, TaskPart
<1>3. CASE ~terminated
    <2>g. PICK g : g = tasks["worker"] \intersect {lruCallback}
        OBVIOUS
    <2>r. PICK r : r = [at["worker"] EXCEPT !.pc = "cancelTimer", !.batch = g]
        OBVIOUS
    <2>1. /\ at' = [at EXCEPT !["worker"] = r]
          /\ tasks' = [tasks EXCEPT !["worker"] = @ \ g]
        BY <1>3, <2>g, <2>r DEF RunTerminate
    <2>2. g \subseteq DOMAIN task /\ g \subseteq tasks["worker"] /\ \A i \in g : OpOf(i) = "timer"
        BY <1>0, <2>g DEF StateOK, IInv, OwnTasks
    <2>3. /\ r \in ThreadRecords(Len(task)) /\ r.pc = "cancelTimer" /\ r.op = at["worker"].op
          /\ r.cur = at["worker"].cur /\ r.batch = g
        BY <2>r, <1>1, <2>2 DEF ThreadRecords, Places
    <2>4. at'["worker"] = r /\ \A x \in Threads : x # "worker" => at'[x] = at[x]
        BY <1>0, <2>1, OneThread
    <2>5. \A f \in Executors : /\ tasks'[f] = IF f = "worker" THEN tasks[f] \ g ELSE tasks[f]
                               /\ f \in Threads
        BY <1>0, <2>1 DEF StateOK, Threads
    <2>6. \A x \in Threads : at'[x].cur = at[x].cur
        BY <2>3, <2>4
    <2>7. \A i : OpOf(i)' = OpOf(i) /\ Exec(i)' = Exec(i) /\ InLine(i)' = InLine(i)
        BY <1>0 DEF OpOf, Exec, InLine
    <2>8. \A i : Dispatched(i)' <=> Dispatched(i)
        BY <1>0, <2>5, <2>6, <2>7 DEF Dispatched
    <2>9. \A i : Held(i)' <=> Held(i)
        <3>1. \A x \in Threads : \A i : i \in at'[x].batch <=> i \in at[x].batch \/ (x = "worker" /\ i \in g)
            BY <1>0, <2>3, <2>4
        <3>2. \A f \in Executors : \A i : i \in tasks'[f] <=> i \in tasks[f] /\ ~(f = "worker" /\ i \in g)
            BY <2>5
        <3> QED BY <1>0, <2>2, <3>1, <3>2 DEF Held
    <2>10. \A x \in Threads : at'[x].pc = "retain" => at'[x] = at[x] /\ x # "worker"
        BY <2>3, <2>4
    <2>11. StateOK'
        <3>1. at' \in [Threads -> ThreadRecords(Len(task))]
            BY <1>0, <2>1, <2>3 DEF StateOK
        <3>2. tasks' \in [Executors -> SUBSET DOMAIN task]
            BY <1>0, <2>1 DEF StateOK
        <3> QED BY <1>0, <3>1, <3>2 DEF StateOK
    <2>12. OwnTasks'
        <3>1. \A f \in Executors : \A i \in tasks'[f] : Exec(i) = f /\ task[i].linked
            BY <2>5 DEF IInv, OwnTasks
        <3>2. \A x \in Threads : at'[x].pc = "retain" =>
                  /\ at'[x].new # 0 /\ task[at'[x].new].op = at'[x].op
                  /\ at'[x].new \in tasks'[ExecutorOf(at'[x].op)]
            <4>1. \A x \in Threads : ExecutorOf(at[x].op) \in Executors
                BY DEF ExecutorOf, Executors
            <4>2. \A x \in Threads : at[x].pc = "retain" =>
                      /\ at[x].new # 0 /\ task[at[x].new].op = at[x].op
                      /\ at[x].new \in tasks[ExecutorOf(at[x].op)]
                BY DEF IInv, OwnTasks, OpOf
            <4>3. \A x \in Threads : x # "worker" => at[x].op # "timer"
                BY DEF IInv, WhereThreadsAre, Threads, Executors
            <4>4. \A x \in Threads : at[x].pc = "retain" /\ x # "worker" => at[x].new \notin g
                BY <2>2, <4>2, <4>3 DEF OpOf
            <4>5. ASSUME NEW x \in Threads, at'[x].pc = "retain"
                  PROVE  /\ at'[x].new # 0 /\ task[at'[x].new].op = at'[x].op
                         /\ at'[x].new \in tasks'[ExecutorOf(at'[x].op)]
                <5>1. at'[x] = at[x] /\ x # "worker"
                    BY <2>10, <4>5
                <5>2. /\ at[x].new # 0 /\ task[at[x].new].op = at[x].op
                      /\ at[x].new \in tasks[ExecutorOf(at[x].op)] /\ at[x].new \notin g
                    BY <4>2, <4>4, <4>5, <5>1
                <5>3. at[x].new \in tasks'[ExecutorOf(at[x].op)]
                    BY <2>5, <4>1, <5>2
                <5> QED BY <5>1, <5>2, <5>3
            <4> QED BY <4>5
        <3>3. \A f \in Executors : at'[f].cur # 0 => ExecutorOf(task[at'[f].cur].op) = f
            BY <2>5, <2>6 DEF IInv, OwnTasks, Exec, OpOf
        <3>4. /\ \A f \in Executors : \A k \in DOMAIN line[f] : ExecutorOf(task[line[f][k]].op) = f
              /\ \A i \in delayed \union {lruCallback} : task[i].op = "timer"
            BY DEF IInv, OwnTasks, Exec, OpOf
        <3> QED BY <1>0, <3>1, <3>2, <3>3, <3>4 DEF OwnTasks, Exec, OpOf
    <2>13. InOnePlace'
        <3>1. \A f \in Executors : at'[f].cur = at[f].cur
            BY <2>5, <2>6
        <3> QED BY <1>0, <2>10, <3>1 DEF IInv, InOnePlace, InLine
    <2>14. HeldOnce'
        <3>1. ASSUME NEW x \in Threads, NEW i \in at'[x].batch
              PROVE  /\ \A f \in Executors : i \notin tasks'[f]
                     /\ \A s \in Threads : i \in at'[s].batch => s = x
                     /\ at'[x].pc \in Looping => Exec(i) = at'[x].ex
                     /\ at'[x].pc = "cancelTimer" => OpOf(i) = "timer"
            <4>1. CASE x = "worker"
                <5>1. i \in g /\ i \in tasks["worker"] /\ Exec(i) = "worker" /\ OpOf(i) = "timer"
                    BY <1>0, <2>2, <2>3, <2>4, <3>1, <4>1 DEF IInv, OwnTasks
                <5>2. \A f \in Executors : i \notin tasks'[f]
                    <6>1. \A f \in Executors : f # "worker" => i \notin tasks[f]
                        BY <5>1 DEF IInv, OwnTasks
                    <6> QED BY <2>5, <5>1, <6>1
                <5>3. \A s \in Threads : s # "worker" => i \notin at[s].batch
                    BY <1>0, <5>1 DEF IInv, HeldOnce
                <5> QED BY <2>3, <2>4, <4>1, <5>1, <5>2, <5>3 DEF Looping
            <4>2. CASE x # "worker"
                <5>1. i \in at[x].batch /\ at'[x] = at[x]
                    BY <2>4, <3>1, <4>2
                <5>2. /\ \A f \in Executors : i \notin tasks[f]
                      /\ \A s \in Threads : i \in at[s].batch => s = x
                      /\ at[x].pc \in Looping => Exec(i) = at[x].ex
                      /\ at[x].pc = "cancelTimer" => OpOf(i) = "timer"
                    BY <5>1 DEF IInv, HeldOnce
                <5> QED BY <1>0, <2>2, <2>3, <2>4, <2>5, <5>1, <5>2
            <4> QED BY <4>1, <4>2
        <3>2. \A x \in Threads : at'[x].pc = "await" => at'[x].new \in at'[x].batch
            BY <2>3, <2>4 DEF IInv, HeldOnce
        <3> QED BY <2>7, <3>1, <3>2 DEF HeldOnce
    <2>15. Counted'
        BY <1>0, <2>8, <2>9 DEF IInv, Counted
    <2>16. StatesOK'
        <3>1. ASSUME NEW f \in Executors
              PROVE  /\ at'[f].pc \in Inside => task[at'[f].cur].state = "Running"
                     /\ at'[f].pc = "complete" =>
                            /\ task[at'[f].cur].state = "Done"
                            /\ task[at'[f].cur].linked => Held(at[f].cur)'
                     /\ at'[f].pc = "release" => task[at'[f].cur].state \in {"Done", "Cancelled"}
            <4>1. PICK c : c = at[f].cur
                OBVIOUS
            <4>2. at'[f].cur = c /\ (Held(c)' <=> Held(c))
                BY <2>5, <2>6, <2>9, <4>1
            <4>3. at'[f] = at[f] \/ (at'[f].pc = "cancelTimer" /\ at[f].pc = "run")
                BY <1>0, <2>3, <2>4, <2>5
            <4> QED BY <4>1, <4>2, <4>3 DEF IInv, StatesOK, Inside, Places
        <3>2. ASSUME NEW j \in DOMAIN task, task[j].state = "Running"
              PROVE  /\ at'[Exec(j)].cur = j /\ at'[Exec(j)].pc \in Inside
                     /\ Held(j)' \/ (Exec(j) = "user" /\ ~task[j].linked /\ disposed["user"])
            <4>1. Exec(j) \in Executors /\ Exec(j) \in Threads
                BY <1>0, TypeFacts
            <4>2. at'[Exec(j)] = at[Exec(j)] \/ at'[Exec(j)].pc = "cancelTimer"
                BY <2>3, <2>4, <4>1
            <4> QED BY <2>6, <2>9, <3>2, <4>1, <4>2 DEF IInv, StatesOK, Inside, Places
        <3>3. ASSUME NEW j \in DOMAIN task, task[j].state = "Initial"
              PROVE  /\ Held(j)'
                     /\ \/ j \in delayed' \/ InLine(j)'
                        \/ \E x \in Threads : at'[x].pc = "retain" /\ at'[x].new = j
            <4>1. \A x \in Threads : at[x].pc = "retain" => at'[x] = at[x]
                BY <1>0, <2>4
            <4> QED BY <1>0, <2>7, <2>9, <3>3, <4>1 DEF IInv, StatesOK
        <3> QED BY <1>0, <2>7, <3>1, <3>2, <3>3 DEF StatesOK
    <2>17. WhereThreadsAre' /\ MutexOK' /\ DisposeOK'
        <3>1. \A f \in Executors : tasks'[f] \subseteq tasks[f]
            BY <2>5
        <3>2. r.op # "dispose"
            BY <1>0, <2>3 DEF IInv, WhereThreadsAre, HandingOver
        <3> QED BY <1>0, <1>d, <2>1, <2>3, <3>1, <3>2, WorkerMoves
    <2>18. StopOK'
        <3>1. at["worker"].cur \in DOMAIN task
            BY <1>0, Referred DEF IInv, WhereThreadsAre
        <3>2. mode # "Running"
            BY <1>0, <3>1 DEF IInv, StopOK
        <3>3. \A i \in DOMAIN task : OpOf(i) = "work" => task[i].state # "Initial"
            BY <1>0 DEF IInv, StopOK
        <3>4. ASSUME NEW i \in DOMAIN task, OpOf(i) = "timer", task[i].state = "Initial"
              PROVE  i \in g /\ i = lruCallback
            <4>1. i = lruCallback
                BY <1>0, <3>4 DEF IInv, StopOK
            <4>2. Exec(i) = "worker"
                BY <3>4 DEF Exec, ExecutorOf
            <4>3. Held(i)
                BY <3>4 DEF IInv, StatesOK
            <4>4. ~Ending /\ ~signalled
                BY <1>0, <1>3 DEF Ending, IInv, StopOK
            <4>5. \A x \in Threads : i \notin at[x].batch
                <5>1. ASSUME NEW x \in Threads, i \in at[x].batch
                      PROVE  FALSE
                    <6>1. at[x].pc \in Looping \/ at[x].pc = "cancelTimer"
                        BY <5>1 DEF IInv, WhereThreadsAre
                    <6>2. at[x].pc # "cancelTimer"
                        BY <1>0 DEF IInv, WhereThreadsAre, Threads, Executors
                    <6> QED BY <4>4, <6>1, <6>2 DEF IInv, DisposeOK, Looping
                <5> QED BY <5>1
            <4>6. i \in tasks["worker"]
                BY <4>2, <4>3, <4>5 DEF Held, IInv, OwnTasks
            <4> QED BY <2>g, <4>1, <4>6
        <3>5. at["worker"].op # "timer"
            BY <1>0 DEF IInv, StopOK, Stops
        <3>6. \A x \in Threads : at'[x].pc \in HandingOver => at'[x] = at[x]
            BY <2>3, <2>4 DEF HandingOver
        <3>7. Ending'
            BY <2>3, <2>4 DEF Ending
        <3>8. ClientOutlivesWork'
            BY <2>3, <2>4 DEF ClientOutlivesWork
        <3>9. /\ \A j \in DOMAIN task : OpOf(j) \in Stops => mode # "Running"
              /\ \A j \in DOMAIN task : OpOf(j) = "dispose" => dropped
              /\ \A x \in Threads : at[x].pc \in HandingOver /\ at[x].op \in Stops => mode # "Running"
              /\ \A k, l \in DOMAIN line["worker"] :
                     OpOf(line["worker"][k]) \in Stops /\ OpOf(line["worker"][l]) = "work" => l < k
            BY DEF IInv, StopOK
        <3>10. \A i \in DOMAIN task : OpOf(i) \in {"work", "timer"} /\ task[i].state = "Initial" =>
                   at'["worker"].pc = "cancelTimer" /\ i \in at'["worker"].batch
            BY <2>3, <2>4, <3>3, <3>4
        <3> QED BY <1>0, <2>3, <2>4, <3>2, <3>3, <3>4, <3>5, <3>6, <3>7, <3>8, <3>9, <3>10
                   DEF StopOK, OpOf
    <2> QED BY <2>11, <2>12, <2>13, <2>14, <2>15, <2>16, <2>17, <2>18 DEF IInv
<1> QED BY <1>2, <1>3

(* TerminateInternal goes on: the timer found is cancelled.                *)
LEMMA CancelTimerKeepsIInv ==
    ASSUME IInv, CancelTimer
    PROVE  IInv'
<1>b. PICK b : b = at["worker"].batch
    OBVIOUS
<1>r. PICK r : r = [at["worker"] EXCEPT !.pc = "reset", !.batch = {}]
    OBVIOUS
<1>0. /\ StateOK /\ "worker" \in Threads /\ "worker" \in Executors /\ "user" \in Executors
      /\ at["worker"].pc = "cancelTimer"
      /\ task' = [i \in DOMAIN task |-> IF i \in b THEN Cancelled(task[i]) ELSE task[i]]
      /\ at' = [at EXCEPT !["worker"] = r]
      /\ UNCHANGED <<mode, queueMutex, firestoreMutex, tasks, disposed, line, delayed, lruCallback,
                     terminated, signalled, dropped, calls>>
    BY <1>b, <1>r DEF IInv, CancelTimer, client, Threads, Executors
<1>1. Len(task) \in Nat /\ DOMAIN task = 1 .. Len(task)
    BY <1>0, TypeFacts
<1>2. /\ r \in ThreadRecords(Len(task)) /\ r.cur = at["worker"].cur /\ r.batch = {}
      /\ r.pc = "reset" /\ r.op = at["worker"].op /\ r.op # "dispose"
    <2>1. at["worker"] \in ThreadRecords(Len(task)) /\ at["worker"].op # "dispose"
        BY <1>0, TypeFacts DEF IInv, WhereThreadsAre, HandingOver
    <2> QED BY <1>r, <2>1 DEF ThreadRecords, Places
<1>3. at'["worker"] = r /\ \A x \in Threads : x # "worker" => at'[x] = at[x]
    BY <1>0, OneThread
<1>4. b \subseteq DOMAIN task /\ \A i \in b : task[i] \in TaskRecords /\ task[i].refs # 0
    BY <1>b, <1>0, HeldIsCounted
<1>5. PICK c : c = at["worker"].cur
    OBVIOUS
<1>6. c \in DOMAIN task /\ OpOf(c) \in Stops /\ task[c].state = "Running"
    <2>1. c # 0
        BY <1>0, <1>5 DEF IInv, WhereThreadsAre
    <2>2. c \in DOMAIN task
        BY <1>0, <1>5, <2>1, Referred
    <2> QED BY <1>0, <1>5, <2>2 DEF IInv, StopOK, StatesOK, Inside, Places
<1>7. \A i \in b : /\ OpOf(i) = "timer" /\ Exec(i) = "worker" /\ task[i].state # "Running" /\ i # c
                   /\ \A f \in Executors : i \notin tasks[f]
                   /\ \A s \in Threads : i \in at[s].batch => s = "worker"
    <2>1. \A i \in b : /\ OpOf(i) = "timer"
                       /\ \A f \in Executors : i \notin tasks[f]
                       /\ \A s \in Threads : i \in at[s].batch => s = "worker"
        BY <1>b, <1>0 DEF IInv, HeldOnce
    <2>2. \A i \in b : Exec(i) = "worker" /\ i # c
        BY <1>6, <2>1 DEF Exec, ExecutorOf, Stops
    <2>3. \A i \in b : task[i].state # "Running"
        BY <1>4, <1>5, <2>2 DEF IInv, StatesOK
    <2> QED BY <2>1, <2>2, <2>3
<1>8. \A i \in b : /\ task'[i] \in TaskRecords /\ task'[i].op = task[i].op
                   /\ task'[i].refs = task[i].refs - 1
                   /\ task'[i].state = IF task[i].state = "Initial" THEN "Cancelled" ELSE task[i].state
    <2>1. ASSUME NEW i \in b
          PROVE  /\ task'[i] \in TaskRecords /\ task'[i].op = task[i].op
                 /\ task'[i].refs = task[i].refs - 1
                 /\ task'[i].state = IF task[i].state = "Initial" THEN "Cancelled" ELSE task[i].state
        <3>1. task'[i] = Cancelled(task[i])
            BY <1>0, <1>4
        <3>2. PICK x : x = task[i]
            OBVIOUS
        <3>3. PICK y : y = Cancelled(x)
            OBVIOUS
        <3>4. x \in TaskRecords /\ x.refs # 0
            BY <1>4, <3>2
        <3>5. /\ y \in TaskRecords /\ y.op = x.op /\ y.refs = x.refs - 1
              /\ y.state = IF x.state = "Initial" THEN "Cancelled" ELSE x.state
            BY <3>3, <3>4, CancelledProps
        <3> QED BY <3>1, <3>2, <3>3, <3>5
    <2> QED BY <2>1
<1>9. \A i \in DOMAIN task : i \notin b => task'[i] = task[i]
    BY <1>0
<1>10. /\ DOMAIN task' = DOMAIN task /\ Len(task') = Len(task) /\ task' \in Seq(TaskRecords)
       /\ \A j \in DOMAIN task : task'[j].op = task[j].op
    <2>1. DOMAIN task' = 1 .. Len(task) /\ \A i \in 1 .. Len(task) : task'[i] \in TaskRecords
        BY <1>0, <1>1, <1>8, <1>9, TypeFacts
    <2>2. task' \in [1 .. Len(task) -> TaskRecords]
        BY <1>0, <1>1, <2>1
    <2>3. task' \in Seq(TaskRecords) /\ Len(task') = Len(task)
        BY <1>1, <2>2
    <2> QED BY <1>1, <1>8, <1>9, <2>1, <2>3
<1>11. \A f \in Executors : f \in Threads
    BY DEF Threads
<1>12. \A x \in Threads : at'[x].cur = at[x].cur
    BY <1>2, <1>3
<1>13. \A j : /\ Dispatched(j)' <=> Dispatched(j)
              /\ InLine(j)' <=> InLine(j)
    <2>1. \A j : InLine(j)' <=> InLine(j)
        BY <1>0 DEF InLine
    <2> QED BY <1>0, <1>11, <1>12, <2>1 DEF Dispatched
<1>14. \A j : Held(j)' <=> Held(j) /\ j \notin b
    <2>1. \A x \in Threads : \A j : j \in at'[x].batch <=> j \in at[x].batch /\ j \notin b
        BY <1>b, <1>2, <1>3, <1>7
    <2> QED BY <1>0, <1>7, <2>1 DEF Held
<1>15. OwnTasks' /\ InOnePlace' /\ HeldOnce'
    <2>1. \A f \in Executors : \A j \in tasks[f] : task'[j].linked
        BY <1>0, <1>7, <1>9, Referred DEF IInv, OwnTasks
    <2>2. \A x \in Threads : at'[x].pc = "retain" => at'[x] = at[x]
        BY <1>2, <1>3
    <2>3. \A x \in Threads : at[x].pc = "retain" => at[x].new \in tasks[ExecutorOf(at[x].op)]
        BY DEF IInv, OwnTasks
    <2>4. \A x \in Threads : /\ at'[x].pc = "await" => at'[x].new \in at'[x].batch
                             /\ at'[x].batch # {} => at'[x] = at[x]
                             /\ at'[x].batch \subseteq at[x].batch
        BY <1>2, <1>3 DEF IInv, HeldOnce
    <2> QED BY <1>0, <1>10, <1>12, <2>1, <2>2, <2>3, <2>4, ShareLess
<1>16. Counted'
    <2>1. ASSUME NEW j \in DOMAIN task
          PROVE  task'[j].refs = (IF Held(j)' THEN 1 ELSE 0) + (IF Dispatched(j)' THEN 1 ELSE 0)
        <3>1. task[j].refs = (IF Held(j) THEN 1 ELSE 0) + (IF Dispatched(j) THEN 1 ELSE 0)
            BY DEF IInv, Counted
        <3>2. CASE j \in b
            <4>1. Held(j)
                BY <1>b, <1>0, <3>2 DEF Held
            <4> QED BY <1>8, <1>13, <1>14, <3>1, <3>2, <4>1
        <3>3. CASE j \notin b
            BY <1>9, <1>13, <1>14, <3>1, <3>3
        <3> QED BY <3>2, <3>3
    <2> QED BY <1>10, <2>1 DEF Counted
<1>17. StatesOK'
    <2>1. ASSUME NEW f \in Executors
          PROVE  /\ at'[f].pc \in Inside => task'[at'[f].cur].state = "Running"
                 /\ at'[f].pc = "complete" =>
                        /\ task'[at'[f].cur].state = "Done"
                        /\ task'[at'[f].cur].linked => Held(at[f].cur)'
                 /\ at'[f].pc = "release" => task'[at'[f].cur].state \in {"Done", "Cancelled"}
        <3>1. CASE f = "worker"
            <4>1. at'[f].cur = c /\ task'[c].state = "Running"
                BY <1>2, <1>3, <1>5, <1>6, <1>7, <1>9, <3>1
            <4> QED BY <1>2, <1>3, <3>1, <4>1 DEF Inside
        <3>2. CASE f # "worker"
            <4>1. PICK d : d = at[f].cur
                OBVIOUS
            <4>2. at'[f] = at[f]
                BY <1>3, <1>11, <3>2
            <4>3. at[f].pc # "idle" => d \in DOMAIN task /\ Exec(d) = f
                BY <1>0, <1>11, <4>1, Referred DEF IInv, WhereThreadsAre, OwnTasks
            <4>4. at[f].pc # "idle" => d \notin b /\ task'[d] = task[d] /\ (Held(d)' <=> Held(d))
                BY <1>7, <1>9, <1>14, <3>2, <4>3
            <4> QED BY <4>1, <4>2, <4>4 DEF IInv, StatesOK, Inside
        <3> QED BY <3>1, <3>2
    <2>2. ASSUME NEW j \in DOMAIN task, task'[j].state = "Running"
          PROVE  /\ at'[Exec(j)].cur = j /\ at'[Exec(j)].pc \in Inside
                 /\ Held(j)' \/ (Exec(j) = "user" /\ ~task'[j].linked /\ disposed["user"])
        <3>1. Exec(j) \in Executors /\ Exec(j) \in Threads
            BY <1>0, TypeFacts
        <3>2. j \notin b
            BY <1>7, <1>8, <2>2
        <3>3. task'[j] = task[j] /\ (Held(j)' <=> Held(j))
            BY <1>9, <1>14, <3>2
        <3>4. at'[Exec(j)] = at[Exec(j)] \/ at'[Exec(j)].pc \in Inside
            BY <1>2, <1>3, <3>1 DEF Inside, Places
        <3> QED BY <1>12, <2>2, <3>1, <3>3, <3>4 DEF IInv, StatesOK
    <2>3. ASSUME NEW j \in DOMAIN task, task'[j].state = "Initial"
          PROVE  /\ Held(j)'
                 /\ \/ j \in delayed' \/ InLine(j)'
                    \/ \E x \in Threads : at'[x].pc = "retain" /\ at'[x].new = j
        <3>1. j \notin b
            BY <1>8, <2>3
        <3>2. task[j].state = "Initial"
            BY <1>9, <2>3, <3>1
        <3>3. \A x \in Threads : at[x].pc = "retain" => at'[x] = at[x]
            BY <1>0, <1>3
        <3> QED BY <1>0, <1>13, <1>14, <3>1, <3>2, <3>3 DEF IInv, StatesOK
    <2>4. \A j \in DOMAIN task : Exec(j)' = Exec(j)
        BY <1>10 DEF Exec, OpOf
    <2> QED BY <1>0, <1>10, <2>1, <2>2, <2>3, <2>4 DEF StatesOK
<1>18. StateOK'
    <2>1. at' \in [Threads -> ThreadRecords(Len(task'))]
        BY <1>0, <1>2, <1>10 DEF StateOK
    <2> QED BY <1>0, <1>10, <2>1 DEF StateOK
<1>19. WhereThreadsAre' /\ MutexOK' /\ DisposeOK'
    <2>1. signalled' => dropped
        BY <1>0 DEF IInv, DisposeOK
    <2> QED BY <1>0, <1>2, <2>1, WorkerMoves
<1>20. StopOK'
    <2>1. Ending
        BY <1>0 DEF Ending
    <2>2. \A i \in DOMAIN task : OpOf(i) \in {"work", "timer"} => task'[i].state # "Initial"
        <3>1. \A i \in DOMAIN task : OpOf(i) \in {"work", "timer"} /\ task[i].state = "Initial" => i \in b
            BY <1>b, <2>1 DEF IInv, StopOK
        <3> QED BY <1>8, <1>9, <3>1
    <2>3. mode # "Running"
        BY <2>1 DEF IInv, StopOK
    <2>4. \A k, l \in DOMAIN line["worker"] :
              task'[line["worker"][k]].op \in Stops /\ task'[line["worker"][l]].op = "work" => l < k
        <3>1. \A k \in DOMAIN line["worker"] : line["worker"][k] \in DOMAIN task
            BY <1>0, Referred
        <3> QED BY <1>10, <3>1 DEF IInv, StopOK, OpOf
    <2>5. /\ at'["worker"].pc = "reset" /\ at'["worker"].op # "timer"
          /\ at'["worker"].cur \in DOMAIN task /\ task'[at'["worker"].cur].op \in Stops
        <3>1. at["worker"].op # "timer"
            BY <1>5, <1>6 DEF IInv, StopOK, Stops
        <3> QED BY <1>2, <1>3, <1>5, <1>6, <1>10, <3>1 DEF OpOf
    <2>6. \A i \in DOMAIN task : task'[i].op \in {"work", "timer"} => task'[i].state # "Initial"
        BY <1>10, <2>2 DEF OpOf
    <2>7. ClientOutlivesWork' /\ Ending'
        BY <1>0, <2>5 DEF ClientOutlivesWork, Ending
    <2>8. \A j \in DOMAIN task : task'[j].op = "dispose" => dropped
        BY <1>10 DEF IInv, StopOK, OpOf
    <2> QED BY <1>0, <1>10, <2>3, <2>4, <2>5, <2>6, <2>7, <2>8 DEF StopOK, OpOf
<1> QED BY <1>15, <1>16, <1>17, <1>18, <1>19, <1>20 DEF IInv

(* TerminateInternal ends: the stores are reset.                           *)
LEMMA ResetStoresKeepsIInv ==
    ASSUME IInv, ResetStores
    PROVE  IInv'
<1>r. PICK r : r = Terminated(at["worker"])
    OBVIOUS
<1>0. /\ StateOK /\ "worker" \in Threads /\ "worker" \in Executors
      /\ at["worker"].pc = "reset" /\ terminated' = TRUE
      /\ at' = [at EXCEPT !["worker"] = r]
      /\ UNCHANGED <<mode, queueMutex, firestoreMutex, task, tasks, disposed, line, delayed,
                     lruCallback, signalled, dropped, calls>>
    BY <1>r DEF IInv, ResetStores, Threads, Executors
<1>1. at["worker"].batch = {}
    BY <1>0 DEF IInv, WhereThreadsAre, Looping
<1>2. /\ r \in ThreadRecords(Len(task)) /\ r.cur = at["worker"].cur /\ r.batch = {}
      /\ \/ r.pc = "finish" /\ r.op = "work"
         \/ r.pc = "insert" /\ r.op = "callback"
    BY <1>r, <1>1, TerminatedProps
<1>3. at'["worker"] = r /\ \A x \in Threads : x # "worker" => at'[x] = at[x]
    BY <1>0, OneThread
<1>4. TaskPart'
    BY <1>0, <1>1, <1>2, MoveOK DEF Inside, Places
<1>5. StateOK'
    <2>1. at' \in [Threads -> ThreadRecords(Len(task))]
        BY <1>0, <1>2 DEF StateOK
    <2> QED BY <1>0, <2>1 DEF StateOK
<1>6. WhereThreadsAre' /\ MutexOK' /\ DisposeOK'
    <2>1. signalled' => dropped
        BY <1>0 DEF IInv, DisposeOK
    <2> QED BY <1>0, <1>2, <2>1, WorkerMoves
<1>7. StopOK'
    <2>1. /\ mode # "Running"
          /\ \A i \in DOMAIN task : OpOf(i) \in {"work", "timer"} => task[i].state # "Initial"
        BY <1>0 DEF IInv, StopOK, Ending
    <2>2. at'["worker"].pc \in {"finish", "insert"} /\ at'["worker"].op # "timer"
        BY <1>2, <1>3
    <2>3. ClientOutlivesWork' /\ Ending'
        BY <1>0, <2>2 DEF ClientOutlivesWork, Ending
    <2>4. /\ \A j \in DOMAIN task : OpOf(j) = "dispose" => dropped
          /\ \A k, l \in DOMAIN line["worker"] :
                 OpOf(line["worker"][k]) \in Stops /\ OpOf(line["worker"][l]) = "work" => l < k
        BY DEF IInv, StopOK
    <2> QED BY <1>0, <2>1, <2>2, <2>3, <2>4 DEF StopOK, OpOf
<1> QED BY <1>4, <1>5, <1>6, <1>7 DEF IInv, TaskPart

-----------------------------------------------------------------------------
(* The invariant holds throughout.                                         *)

(* FirestoreClient::Initialize leaves one task: the first garbage          *)
(* collection, which the worker's executor and libdispatch share.          *)
LEMMA InitOK == Init => IInv
<1> SUFFICES ASSUME Init PROVE IInv
    OBVIOUS
<1>y. PICK y : y = NewTask("timer")
    OBVIOUS
<1>x. PICK x : x = [y EXCEPT !.refs = 2]
    OBVIOUS
<1>1. x \in TaskRecords /\ x.op = "timer" /\ x.state = "Initial" /\ x.refs = 2 /\ x.linked
    <2>1. y \in TaskRecords /\ y.op = "timer" /\ y.state = "Initial"
        BY <1>y DEF NewTask, TaskRecords, Ops, States
    <2>2. y.linked
        BY <1>y DEF NewTask
    <2>3. x \in TaskRecords /\ x.op = y.op /\ x.state = y.state /\ x.refs = 2
        BY <1>x, <2>1 DEF TaskRecords
    <2>4. x.linked = y.linked
        BY <1>x, <2>1, Zenon DEF TaskRecords
    <2> QED BY <2>1, <2>2, <2>3, <2>4
<1>2. task = <<x>>
    BY <1>x, <1>y DEF Init
<1>3. task \in Seq(TaskRecords) /\ Len(task) = 1 /\ DOMAIN task = {1} /\ task[1] = x
    BY <1>1, <1>2
<1>4. /\ OpOf(1) = "timer" /\ Exec(1) = "worker"
      /\ "worker" \in Executors /\ "user" \in Executors
      /\ "worker" \in Threads /\ "user" \in Threads /\ None \notin Threads
      /\ Executors = {"worker", "user"}
    BY <1>1, <1>3, QueueAssumption DEF OpOf, Exec, ExecutorOf, Executors, Threads
<1>r. PICK r : r = Idle
    OBVIOUS
<1>5. /\ r \in ThreadRecords(Len(task)) /\ r.pc = "idle" /\ r.op = "work" /\ r.cur = 0
      /\ r.batch = {}
    BY <1>r, <1>3 DEF Idle, ThreadRecords, Places, Ops, Executors
<1>6. at \in [Threads -> ThreadRecords(Len(task))] /\ \A t \in Threads : at[t] = r
    BY <1>r, <1>5 DEF Init
<1>7. /\ \A t \in Threads : /\ at[t].pc = "idle" /\ at[t].op = "work" /\ at[t].cur = 0
                            /\ at[t].batch = {}
      /\ \A e \in Executors : e \in Threads
    BY <1>5, <1>6 DEF Threads
<1>8. /\ tasks["worker"] = {1} /\ tasks["user"] = {} /\ delayed = {1} /\ lruCallback = 1
      /\ \A e \in Executors : line[e] = <<>> /\ DOMAIN line[e] = {} /\ ~disposed[e]
      /\ mode = "Running" /\ queueMutex = None
      /\ ~terminated /\ ~signalled /\ ~dropped
    BY <1>4 DEF Init
<1>9. StateOK
    <2>1. line \in [Executors -> Seq(DOMAIN task)]
        BY DEF Init
    <2>2. tasks \in [Executors -> SUBSET DOMAIN task]
        BY <1>3 DEF Init
    <2>3. calls \in 0 .. MaxCalls
        BY QueueAssumption DEF Init
    <2> QED BY <1>3, <1>6, <2>1, <2>2, <2>3 DEF Init, StateOK
<1>10. Held(1) /\ Dispatched(1) /\ \A i : ~InLine(i)
    BY <1>4, <1>8 DEF Held, Dispatched, InLine
<1>11. OwnTasks
    BY <1>1, <1>3, <1>4, <1>7, <1>8 DEF OwnTasks
<1>12. WhereThreadsAre
    BY <1>4, <1>7 DEF WhereThreadsAre, Threads, HandingOver, Looping
<1>13. InOnePlace /\ HeldOnce
    BY <1>7, <1>8, <1>10 DEF InOnePlace, HeldOnce
<1>14. Counted
    BY <1>1, <1>3, <1>10 DEF Counted
<1>15. StatesOK
    BY <1>1, <1>3, <1>7, <1>8, <1>10 DEF StatesOK, Inside
<1>16. MutexOK
    BY <1>4, <1>7, <1>8 DEF MutexOK
<1>17. DisposeOK
    BY <1>4, <1>7, <1>8 DEF DisposeOK, Destroyer, Looping
<1>18. StopOK
    <2>1. ~Ending /\ ClientOutlivesWork
        BY <1>4, <1>7, <1>8 DEF Ending, ClientOutlivesWork
    <2> QED BY <1>3, <1>4, <1>7, <1>8, <2>1 DEF StopOK, HandingOver, Stops
<1> QED BY <1>9, <1>11, <1>12, <1>13, <1>14, <1>15, <1>16, <1>17, <1>18 DEF IInv

(* Every step of every thread keeps it.                                    *)
LEMMA NextOK == IInv /\ [Next]_vars => IInv'
<1> SUFFICES ASSUME IInv, [Next]_vars PROVE IInv'
    OBVIOUS
<1>1. ASSUME NEW t \in Threads,
             Call(t) \/ ClearPersistence(t) \/ TerminateAsync(t) \/ DropLast(t)
      PROVE  IInv'
    <2>1. CASE Call(t) \/ ClearPersistence(t) \/ TerminateAsync(t)
        BY <2>1, BeginKeepsIInv
    <2>2. CASE DropLast(t)
        <3>1. Free(t) \/ (t = "worker" /\ DestroysOwners)
            BY <2>2 DEF DropLast
        <3> QED BY <2>2, <3>1, BeginKeepsIInv, WorkerDestroysKeepsIInv
    <2> QED BY <1>1, <2>1, <2>2
<1>2. ASSUME NEW t \in Threads, Handing(t)
      PROVE  IInv'
    BY <1>2, EnqueueKeepsIInv, InsertKeepsIInv, RetainKeepsIInv DEF Handing
<1>3. ASSUME NEW t \in Threads, Disposing(t)
      PROVE  IInv'
    <2>1. CASE Destroy(t) \/ Wait(t) \/ Close(t)
        <3>1. CASE t = "worker"
            BY <2>1, <3>1, WorkerDestroysKeepsIInv, WorkerNeverCloses
        <3>2. CASE t # "worker"
            BY <2>1, <3>2, DestroyKeepsIInv
        <3> QED BY <3>1, <3>2
    <2>2. CASE Swap(t)
        BY <2>2, SwapKeepsIInv
    <2>3. CASE \E i \in at[t].batch : Cancel(t, i)
        BY <2>3, CancelKeepsIInv
    <2>4. CASE Await(t)
        BY <2>4, AwaitKeepsIInv
    <2>5. CASE Cleared(t)
        BY <2>5, ClearedKeepsIInv
    <2> QED BY <1>3, <2>1, <2>2, <2>3, <2>4, <2>5 DEF Disposing
<1>4. ASSUME NEW e \in Executors, Executing(e)
      PROVE  IInv'
    BY <1>4, TakeKeepsIInv, FinishKeepsIInv, CompleteKeepsIInv, ReleaseKeepsIInv DEF Executing
<1>5. CASE Body
    BY <1>5, BodyKeepsIInv, RunTerminateKeepsIInv, CancelTimerKeepsIInv,
       ResetStoresKeepsIInv DEF Body
<1>6. ASSUME NEW i \in delayed, Due(i)
      PROVE  IInv'
    BY <1>6, DueKeepsIInv
<1>7. CASE UNCHANGED vars
    <2>1. \A i : /\ OpOf(i)' = OpOf(i) /\ Exec(i)' = Exec(i) /\ InLine(i)' = InLine(i)
                 /\ Held(i)' = Held(i) /\ Dispatched(i)' = Dispatched(i)
        BY <1>7 DEF vars, client, Exec, OpOf, InLine, Held, Dispatched
    <2>2. StateOK' /\ OwnTasks' /\ WhereThreadsAre'
        BY <1>7, <2>1 DEF vars, client, IInv, StateOK, OwnTasks, WhereThreadsAre
    <2>3. InOnePlace' /\ HeldOnce' /\ Counted'
        BY <1>7, <2>1 DEF vars, client, IInv, InOnePlace, HeldOnce, Counted
    <2>4. StatesOK'
        BY <1>7, <2>1 DEF vars, client, IInv, StatesOK
    <2>5. MutexOK' /\ DisposeOK'
        BY <1>7 DEF vars, client, IInv, MutexOK, DisposeOK, Destroyer, Quiet
    <2>6. StopOK'
        BY <1>7, <2>1 DEF vars, client, IInv, StopOK, Ending, ClientOutlivesWork
    <2> QED BY <2>2, <2>3, <2>4, <2>5, <2>6 DEF IInv
<1> QED BY <1>1, <1>2, <1>3, <1>4, <1>5, <1>6, <1>7 DEF Next

(* So it holds in every reachable state.                                   *)
LEMMA IInvHolds == Spec => []IInv
BY InitOK, NextOK, PTL DEF Spec
-----------------------------------------------------------------------------
(* What it implies.                                                        *)

(* The state keeps its type, and executors hold and run only tasks of      *)
(* their own, whichever threads hand over, run and cancel them             *)
(* (executor_libdispatch.mm:103-116, task.cc:88-134).                      *)
THEOREM TypesHold == Spec => []TypeOK
<1>1. ASSUME IInv PROVE TypeOK
    <2>1. StateOK /\ OwnTasks
        BY <1>1 DEF IInv
    <2>2. DOMAIN task = 1 .. Len(task)
        BY <2>1, TypeFacts
    <2>3. at \in [Threads -> [pc : Places, op : Ops, cur : 0 .. Len(task), new : 0 .. Len(task),
                              ex : Executors, batch : SUBSET DOMAIN task]]
        BY <2>1, <2>2 DEF StateOK, ThreadRecords
    <2>4. task \in Seq([op : Ops, state : {"Initial", "Cancelled", "Running", "Done"},
                        refs : Nat, linked : BOOLEAN])
        BY <2>1 DEF StateOK, TaskRecords, States
    <2>5. {terminated, signalled, dropped} \subseteq BOOLEAN
        BY <2>1, Zenon DEF StateOK
    <2>6. \A e \in Executors : /\ tasks[e] \subseteq DOMAIN task
                               /\ disposed[e] \in BOOLEAN
        BY <2>1 DEF StateOK
    <2>7. \A e \in Executors :
              /\ \A i \in tasks[e] : ExecutorOf(OpOf(i)) = e
              /\ \A k \in DOMAIN line[e] : ExecutorOf(OpOf(line[e][k])) = e
        BY <2>1 DEF OwnTasks, Exec
    <2>8. /\ mode \in {"Running", "Restricted", "Disposed"}
          /\ {queueMutex, firestoreMutex} \subseteq Threads \union {None}
          /\ calls \in 0 .. MaxCalls
        BY <2>1 DEF StateOK
    <2>9. \A i \in delayed \union {lruCallback} : OpOf(i) = "timer"
        BY <2>1 DEF OwnTasks
    <2> QED BY <2>3, <2>4, <2>5, <2>6, <2>7, <2>8, <2>9 DEF TypeOK
<1> QED BY <1>1, IInvHolds, PTL

(* A set that has an element or none, and no two.                          *)
LEMMA AtMostOne ==
    ASSUME NEW S, \A x, y \in S : x = y
    PROVE  Cardinality(S) = IF S = {} THEN 0 ELSE 1
<1>1. CASE S = {}
    BY <1>1, FS_EmptySet
<1>2. CASE S # {}
    <2>1. PICK x : x \in S
        BY <1>2
    <2>2. S = {x}
        BY <2>1
    <2>3. Cardinality({x}) = 1
        BY FS_Singleton
    <2> QED BY <1>2, <2>2, <2>3
<1> QED BY <1>1, <1>2

(* A task's count is the number of its owners at every moment: it is never *)
(* deleted while an executor, a cancelling loop or libdispatch can reach   *)
(* it, and it is deleted when the last of them lets go (Task::Release,     *)
(* task.cc:71-86).                                                         *)
THEOREM RefsCountOwners == Spec => []RefsMatchOwners
<1>1. ASSUME IInv, NEW i \in DOMAIN task
      PROVE  task[i].refs = Owners(i)
    <2>e. PICK E : E = {e \in Executors : i \in tasks[e]}
        OBVIOUS
    <2>t. PICK T : T = {t \in Threads : i \in at[t].batch}
        OBVIOUS
    <2>1. Cardinality(E) = IF E = {} THEN 0 ELSE 1
        <3>1. \A e, f \in E : e = f
            BY <1>1, <2>e DEF IInv, OwnTasks
        <3> QED BY <3>1, AtMostOne
    <2>2. Cardinality(T) = IF T = {} THEN 0 ELSE 1
        <3>1. \A t, s \in T : t = s
            BY <1>1, <2>t DEF IInv, HeldOnce
        <3> QED BY <3>1, AtMostOne
    <2>3. E = {} \/ T = {}
        BY <1>1, <2>e, <2>t DEF IInv, HeldOnce
    <2>4. Held(i) <=> E # {} \/ T # {}
        BY <2>e, <2>t DEF Held
    <2>5. Cardinality(E) + Cardinality(T) = IF Held(i) THEN 1 ELSE 0
        BY <2>1, <2>2, <2>3, <2>4
    <2>6. Owners(i) = Cardinality(E) + Cardinality(T) + IF Dispatched(i) THEN 1 ELSE 0
        BY <2>e, <2>t DEF Owners, Dispatched
    <2>7. task[i].refs = (IF Held(i) THEN 1 ELSE 0) + (IF Dispatched(i) THEN 1 ELSE 0)
        BY <1>1 DEF IInv, Counted
    <2> QED BY <2>5, <2>6, <2>7
<1>2. ASSUME IInv, NEW t \in Threads, at[t].pc = "retain"
      PROVE  task[at[t].new].refs > 0
    <2>n. PICK n : n = at[t].new
        OBVIOUS
    <2>1. n # 0 /\ n \in tasks[ExecutorOf(at[t].op)] /\ ExecutorOf(at[t].op) \in Executors
        BY <1>2, <2>n DEF IInv, OwnTasks, ExecutorOf, Executors
    <2>2. n \in DOMAIN task /\ Held(n)
        BY <1>2, <2>n, <2>1, Referred DEF IInv, Held
    <2> QED BY <1>2, <2>n, <2>2 DEF IInv, Counted
<1>3. IInv => RefsMatchOwners
    BY <1>1, <1>2 DEF RefsMatchOwners
<1> QED BY <1>3, IInvHolds, PTL

(* No operation of the client and no garbage collection runs once          *)
(* TerminateInternal has reset the stores: the queue admits them only      *)
(* before it is restricted, and what was admitted before is ahead of what  *)
(* terminates, or is the timer that TerminateInternal cancels              *)
(* (firestore_client.cc:322-345, async_queue.cc:93-136).                   *)
THEOREM WorkEndsFirst == Spec => []ClientOutlivesWork
<1>1. IInv => ClientOutlivesWork
    BY DEF IInv, StopOK
<1> QED BY <1>1, IInvHolds, PTL

(* When ExecutorLibdispatch::Dispose has returned, no task of the executor *)
(* runs or ever will, other than the one whose operation called it, and    *)
(* none calls the executor back (executor_libdispatch.mm:63-81).           *)
THEOREM NothingAfterDispose == Spec => []DisposeIsFinal
<1>1. ASSUME IInv, NEW e \in Executors, Quiet(e), NEW i \in DOMAIN task, ExecutorOf(OpOf(i)) = e
      PROVE  \/ task[i].state \in {"Cancelled", "Done"}
             \/ i = at["user"].cur /\ e = "user" /\ ~task[i].linked
    <2>1. Exec(i) = e /\ ~Held(i)
        BY <1>1, QuietHoldsNothing DEF Exec
    <2>2. task[i].state \in States
        BY <1>1, TypeFacts DEF IInv, TaskRecords
    <2>3. task[i].state # "Initial"
        BY <1>1, <2>1 DEF IInv, StatesOK
    <2>4. task[i].state = "Running" => i = at["user"].cur /\ e = "user" /\ ~task[i].linked
        BY <1>1, <2>1 DEF IInv, StatesOK
    <2> QED BY <2>2, <2>3, <2>4 DEF States
<1>2. ASSUME IInv, NEW e \in Executors, Quiet(e), at[e].pc = "complete"
      PROVE  ~task[at[e].cur].linked
    <2>i. PICK i : i = at[e].cur
        OBVIOUS
    <2>1. i # 0 /\ e \in Threads
        BY <1>2, <2>i DEF IInv, WhereThreadsAre, Threads
    <2>2. i \in DOMAIN task /\ Exec(i) = e
        BY <1>2, <2>i, <2>1, Referred DEF IInv, OwnTasks
    <2>3. ~Held(i)
        BY <1>2, <2>2, QuietHoldsNothing
    <2> QED BY <1>2, <2>i, <2>3 DEF IInv, StatesOK
<1>3. IInv => DisposeIsFinal
    BY <1>1, <1>2 DEF DisposeIsFinal
<1> QED BY <1>3, IInvHolds, PTL
=============================================================================
