----------------------------- MODULE WorkerPool -----------------------------
(***************************************************************************)
(* The bounded worker pool of src/src/worker.cpp.                          *)
(*                                                                         *)
(* Every critical section of the code (a scope that holds mutex_) is one   *)
(* step; what the code does between two critical sections is a step of its *)
(* own, so the window between unlocking and notifying, between popping an  *)
(* entry and looking at its token, and between two joins are all visible   *)
(* to the other threads.                                                   *)
(*                                                                         *)
(* A task is a model value that is submitted at most once.  Its body is    *)
(* opaque; the tasks in Spinners return only after their token has been    *)
(* cancelled.                                                              *)
(***************************************************************************)
EXTENDS Naturals, Sequences, FiniteSets

CONSTANTS Tasks,      \* the tasks the clients may submit
          Spinners,   \* those whose body returns only once it is cancelled
          NumThreads, \* thread_count_
          MaxQueue,   \* max_queue_
          CancelArgs, \* the arguments shutdown() is called with
          NoTask      \* the entry of a worker that holds none

ASSUME PoolAssumption ==
    /\ NumThreads \in Nat \ {0}     \* start() refuses a pool of no threads
    /\ MaxQueue \in Nat
    /\ NoTask \notin Tasks
    /\ Spinners \subseteq Tasks
    /\ CancelArgs \subseteq BOOLEAN

VARIABLES running, accepting,  \* running_, accepting_
          queue,               \* queue_, front first
          active,              \* active_
          cancelled,           \* the tasks whose CancellationSource is set
          status,              \* what has become of each task
          wpc, entry,          \* worker_loop: control point, entry held
          signals,             \* submit() calls that have not notified yet
          spc, joining,        \* shutdown(): control point, next thread to join
          caller               \* shutdown(): the thread that runs it

vars == <<running, accepting, queue, active, cancelled, status, wpc, entry,
          signals, spc, joining, caller>>

flags == <<running, accepting>>
work == <<queue, active, cancelled>>
workers == <<wpc, entry>>
shutdown == <<spc, joining, caller>>

Workers == 1..NumThreads       \* threads_, in the order they are joined
Outside == 0                   \* a caller of shutdown() that is not a worker

Unfinished == {"queued", "held", "body"}
Statuses == Unfinished \cup
            {"new", "refused", "executed", "skipped", "discarded", "lost"}
Busy == {"popped", "body", "after"}

Queued == {queue[i] : i \in DOMAIN queue}
BusyWorkers == {w \in Workers : wpc[w] \in Busy}
Held == {entry[w] : w \in BusyWorkers}

\* outstanding_ holds a weak reference to every source; the ones that can
\* still be locked belong to entries in the queue or in a worker's hands, and
\* compact_outstanding_locked only drops the others.
Outstanding == Queued \cup Held

Init ==
    /\ running = FALSE
    /\ accepting = FALSE
    /\ queue = <<>>
    /\ active = 0
    /\ cancelled = {}
    /\ status = [t \in Tasks |-> "new"]
    /\ wpc = [w \in Workers |-> "none"]
    /\ entry = [w \in Workers |-> NoTask]
    /\ signals = 0
    /\ spc = "idle"
    /\ joining = 1
    /\ caller = Outside

-----------------------------------------------------------------------------
\* Clients.

\* The runtime starts a pool it has just made; the code also takes one whose
\* shutdown() has returned.  Either way threads_ is empty.
Start ==
    /\ ~running
    /\ spc \in {"idle", "stopped"}
    /\ accepting' = TRUE
    /\ running' = TRUE
    /\ wpc' = [w \in Workers |-> "check"]
    /\ spc' = "idle"
    /\ UNCHANGED <<work, status, entry, signals, joining, caller>>

\* ShuttingDown when the pool takes no work, CapacityExceeded when it is full.
SubmitRefused(t) ==
    /\ status[t] = "new"
    /\ ~running \/ ~accepting \/ Len(queue) >= MaxQueue
    /\ status' = [status EXCEPT ![t] = "refused"]
    /\ UNCHANGED <<flags, work, signals, workers, shutdown>>

SubmitAccepted(t) ==
    /\ status[t] = "new"
    /\ running /\ accepting
    /\ Len(queue) < MaxQueue
    /\ queue' = Append(queue, t)
    /\ status' = [status EXCEPT ![t] = "queued"]
    /\ signals' = signals + 1
    /\ UNCHANGED <<flags, active, cancelled, workers, shutdown>>

Submit(t) == SubmitRefused(t) \/ SubmitAccepted(t)

\* Mutant: the notification is forgotten.
NotifyNobody ==
    /\ signals > 0
    /\ signals' = signals - 1
    /\ UNCHANGED <<flags, work, status, workers, shutdown>>

\* work_available_.notify_one() after submit() has released the mutex.
NotifyOne ==
    /\ signals > 0
    /\ signals' = signals - 1
    /\ \/ \E w \in Workers : /\ wpc[w] = "wait"
                             /\ wpc' = [wpc EXCEPT ![w] = "check"]
       \/ /\ \A w \in Workers : wpc[w] # "wait"
          /\ UNCHANGED wpc
    /\ UNCHANGED <<flags, work, status, entry, shutdown>>

\* Mutant: the queued tokens are cancelled but the queue is kept.
CancelPendingKeepsQueue ==
    /\ queue # <<>>
    /\ cancelled' = cancelled \cup Queued
    /\ status' = [t \in Tasks |-> IF t \in Queued THEN "discarded"
                                                  ELSE status[t]]
    /\ UNCHANGED <<flags, queue, active, signals, workers, shutdown>>

CancelPending ==
    /\ queue # <<>>
    /\ cancelled' = cancelled \cup Queued
    /\ status' = [t \in Tasks |-> IF t \in Queued THEN "discarded"
                                                  ELSE status[t]]
    /\ queue' = <<>>
    /\ UNCHANGED <<flags, active, signals, workers, shutdown>>

-----------------------------------------------------------------------------
\* worker_loop.

\* Mutant: the predicate of the wait forgets that the pool may have stopped.
WorkerWaitForWork(w) ==
    /\ wpc[w] = "check"
    /\ queue = <<>>
    /\ wpc' = [wpc EXCEPT ![w] = "wait"]
    /\ UNCHANGED <<flags, work, status, entry, signals, shutdown>>

\* The predicate of the wait is false: the worker blocks on the condition.
WorkerWait(w) ==
    /\ wpc[w] = "check"
    /\ queue = <<>> /\ running
    /\ wpc' = [wpc EXCEPT ![w] = "wait"]
    /\ UNCHANGED <<flags, work, status, entry, signals, shutdown>>

\* A condition variable may wake without having been notified.
SpuriousWake(w) ==
    /\ wpc[w] = "wait"
    /\ wpc' = [wpc EXCEPT ![w] = "check"]
    /\ UNCHANGED <<flags, work, status, entry, signals, shutdown>>

\* Mutant: a worker leaves as soon as the pool is shut down.
WorkerExitEarly(w) ==
    /\ wpc[w] = "check"
    /\ ~running
    /\ wpc' = [wpc EXCEPT ![w] = "exited"]
    /\ UNCHANGED <<flags, work, status, entry, signals, shutdown>>

WorkerExit(w) ==
    /\ wpc[w] = "check"
    /\ ~running /\ queue = <<>>
    /\ wpc' = [wpc EXCEPT ![w] = "exited"]
    /\ UNCHANGED <<flags, work, status, entry, signals, shutdown>>

WorkerPop(w) ==
    /\ wpc[w] = "check"
    /\ queue # <<>>
    /\ entry' = [entry EXCEPT ![w] = Head(queue)]
    /\ queue' = Tail(queue)
    /\ status' = [status EXCEPT ![Head(queue)] = "held"]
    /\ active' = active + 1
    /\ wpc' = [wpc EXCEPT ![w] = "popped"]
    /\ UNCHANGED <<flags, cancelled, signals, shutdown>>

\* Mutant: a cancelled entry is passed over without the final critical section.
WorkerSkipUncounted(w) ==
    /\ wpc[w] = "popped"
    /\ entry[w] \in cancelled
    /\ status' = [status EXCEPT ![entry[w]] = "skipped"]
    /\ entry' = [entry EXCEPT ![w] = NoTask]
    /\ wpc' = [wpc EXCEPT ![w] = "check"]
    /\ UNCHANGED <<flags, work, signals, shutdown>>

WorkerSkip(w) ==
    /\ wpc[w] = "popped"
    /\ entry[w] \in cancelled
    /\ status' = [status EXCEPT ![entry[w]] = "skipped"]
    /\ wpc' = [wpc EXCEPT ![w] = "after"]
    /\ UNCHANGED <<flags, work, entry, signals, shutdown>>

WorkerRun(w) ==
    /\ wpc[w] = "popped"
    /\ entry[w] \notin cancelled
    /\ status' = [status EXCEPT ![entry[w]] = "body"]
    /\ wpc' = [wpc EXCEPT ![w] = "body"]
    /\ UNCHANGED <<flags, work, entry, signals, shutdown>>

\* The body returns; one that called shutdown() is busy until that returns.
BodyReturn(w) ==
    /\ wpc[w] = "body"
    /\ entry[w] \in Spinners => entry[w] \in cancelled
    /\ caller # w
    /\ status' = [status EXCEPT ![entry[w]] = "executed"]
    /\ wpc' = [wpc EXCEPT ![w] = "after"]
    /\ UNCHANGED <<flags, work, entry, signals, shutdown>>

WorkerRetire(w) ==
    /\ wpc[w] = "after"
    /\ active' = active - 1
    /\ entry' = [entry EXCEPT ![w] = NoTask]
    /\ wpc' = [wpc EXCEPT ![w] = "check"]
    /\ UNCHANGED <<flags, queue, cancelled, status, signals, shutdown>>

\* What the scheduler owes a worker: every step but a spurious wake-up.
WorkerStep(w) == \/ WorkerWait(w)
                 \/ WorkerExit(w)
                 \/ WorkerPop(w)
                 \/ WorkerSkip(w)
                 \/ WorkerRun(w)
                 \/ BodyReturn(w)
                 \/ WorkerRetire(w)

-----------------------------------------------------------------------------
\* shutdown(), called by thread c.  One call at a time: the runtime's state_
\* serialises its callers.

ShutdownBegin(c, cancelRunning) ==
    /\ running
    /\ spc = "idle"
    /\ c # Outside => wpc[c] = "body"
    /\ caller' = c
    /\ cancelled' = IF cancelRunning THEN cancelled \cup Outstanding
                                     ELSE cancelled
    /\ accepting' = FALSE
    /\ running' = FALSE
    /\ spc' = "notify"
    /\ UNCHANGED <<queue, active, status, signals, joining, workers>>

ShutdownNotifyAll ==
    /\ spc = "notify"
    /\ wpc' = [w \in Workers |-> IF wpc[w] = "wait" THEN "check" ELSE wpc[w]]
    /\ spc' = "join"
    /\ joining' = 1
    /\ UNCHANGED <<flags, work, status, entry, signals, caller>>

ShutdownJoin ==
    /\ spc = "join"
    /\ joining \in Workers
    /\ wpc[joining] = "exited"
    /\ joining' = joining + 1
    /\ UNCHANGED <<flags, work, status, signals, spc, caller, workers>>

\* threads_.clear(), then the queue and the outstanding tokens are cleared.
ShutdownClear ==
    /\ spc = "join"
    /\ joining \notin Workers
    /\ status' = [t \in Tasks |-> IF t \in Queued THEN "lost" ELSE status[t]]
    /\ queue' = <<>>
    /\ wpc' = [w \in Workers |-> "none"]
    /\ spc' = "stopped"
    /\ UNCHANGED <<flags, active, cancelled, entry, signals, joining, caller>>

ShutdownStep == ShutdownNotifyAll \/ ShutdownJoin \/ ShutdownClear

\* A thread joins itself: std::thread::join throws, nothing in the worker loop
\* catches, and the process is terminated.
SelfJoin ==
    /\ spc = "join"
    /\ joining = caller
    /\ spc' = "terminated"
    /\ UNCHANGED <<flags, work, status, signals, joining, caller, workers>>

-----------------------------------------------------------------------------
Next ==
    \/ Start
    \/ \E t \in Tasks : Submit(t)
    \/ NotifyOne
    \/ CancelPending
    \/ \E w \in Workers : WorkerStep(w) \/ SpuriousWake(w)
    \/ \E cancelRunning \in CancelArgs : ShutdownBegin(Outside, cancelRunning)
    \/ ShutdownStep

Spec == Init /\ [][Next]_vars

\* Threads are scheduled and task bodies return.
Fairness ==
    /\ WF_vars(NotifyOne)
    /\ \A w \in Workers : WF_vars(WorkerStep(w))
    /\ WF_vars(ShutdownStep)

FairSpec == Spec /\ Fairness

\* The pool when a task body may call shutdown() on its own pool.
NextWithWorkerShutdown ==
    \/ Next
    \/ \E w \in Workers, cancelRunning \in CancelArgs :
          ShutdownBegin(w, cancelRunning)
    \/ SelfJoin

WorkerShutdownSpec == Init /\ [][NextWithWorkerShutdown]_vars

-----------------------------------------------------------------------------
\* The type invariant; it includes the bound of the queue that submit()
\* enforces.
TypeOK ==
    /\ running \in BOOLEAN
    /\ accepting \in BOOLEAN
    /\ queue \in Seq(Tasks)
    /\ Len(queue) <= MaxQueue
    /\ active \in Nat
    /\ cancelled \subseteq Tasks
    /\ status \in [Tasks -> Statuses]
    /\ wpc \in [Workers -> Busy \cup {"none", "check", "wait", "exited"}]
    /\ entry \in [Workers -> Tasks \cup {NoTask}]
    /\ signals \in Nat
    /\ spc \in {"idle", "notify", "join", "stopped", "terminated"}
    /\ joining \in 1..(NumThreads + 1)
    /\ caller \in Workers \cup {Outside}

\* active_ counts exactly the workers that hold an entry; drain() and the
\* statistics rely on it although it is changed in two separate critical
\* sections of worker_loop.
ActiveCountsHolders ==
    active = Cardinality(BusyWorkers)

\* A task accepted by submit() is in exactly one place until it is finished:
\* once in the queue, or with exactly one worker.
TaskHasOneOwner ==
    /\ \A t \in Tasks : status[t] = "queued" <=> t \in Queued
    /\ \A i, j \in DOMAIN queue : queue[i] = queue[j] => i = j
    /\ \A t \in Tasks : status[t] \in {"held", "body"} =>
          \E w \in Workers : entry[w] = t /\ wpc[w] \in {"popped", "body"}
    /\ \A w \in Workers : wpc[w] \in Busy <=> entry[w] # NoTask
    /\ \A v, w \in Workers : entry[v] = entry[w] /\ entry[v] # NoTask => v = w

\* shutdown() drains: the queue_.clear() after the joins never throws away a
\* task that submit() accepted, and when shutdown() has returned every task
\* has been executed, skipped because it was cancelled, or reported dropped
\* by cancel_pending().
NothingLost ==
    /\ \A t \in Tasks : status[t] # "lost"
    /\ spc = "stopped" => \A t \in Tasks : status[t] \notin Unfinished

\* What makes NothingLost inductive: a worker exits only when the pool has been
\* stopped and the queue is empty, so the last join leaves nothing to clear;
\* and what each step of shutdown() has established so far.
ShutdownProgress ==
    /\ \A w \in Workers : wpc[w] = "exited" => ~running /\ queue = <<>>
    /\ spc \in {"idle", "stopped"} /\ ~running =>
          queue = <<>> /\ \A w \in Workers : wpc[w] = "none"
    /\ spc # "idle" => ~running
    /\ spc = "join" => \A w \in 1..(joining - 1) : wpc[w] = "exited"

\* A worker's control point and the status of the task it holds agree.
EntryStatus ==
    \A w \in Workers :
        /\ wpc[w] = "popped" => status[entry[w]] = "held"
        /\ wpc[w] = "body" => status[entry[w]] = "body"
        /\ wpc[w] = "after" => status[entry[w]] \in {"executed", "skipped"}

PoolCore == /\ TypeOK
            /\ ActiveCountsHolders
            /\ TaskHasOneOwner
            /\ ShutdownProgress
            /\ EntryStatus

PoolInv == PoolCore /\ NothingLost

\* "shutdown() ... must not be called from a worker thread; the pool detects
\* that case and reports it instead of deadlocking" (worker.hpp:12-13): a call
\* from a worker does not bring the process down.
WorkerShutdownIsReported == spc # "terminated"

\* shutdown() returns: the workers are woken, finish the queue and exit.  With
\* cancel_running it does so even when running tasks wait for their token.
ShutdownReturns == spc = "notify" ~> spc = "stopped"

\* A task that submit() accepted does not stay queued or half done for ever, as
\* long as tasks that never return leave one thread free.
AcceptedTaskFinishes ==
    \A t \in Tasks \ Spinners :
        status[t] = "queued" ~> status[t] \notin Unfinished

=============================================================================
