---------------------------- MODULE BatchPipeline ----------------------------
(***************************************************************************)
(* The asynchronous half of src/src/runtime.cpp: submit_batch(), drain(),  *)
(* start() and stop() over the worker pool they share.                     *)
(*                                                                         *)
(* The runtime hands out a raw pointer to its pool and uses it after its   *)
(* own mutex is released.  A pointer is modelled by the generation of the  *)
(* pool it was read from: start() replaces the pool, so a pointer of an    *)
(* older generation dangles.                                               *)
(*                                                                         *)
(* drain() is called once in a behaviour, at any moment: the code keeps no *)
(* state between two calls.                                                *)
(***************************************************************************)
EXTENDS WorkerPool

CONSTANTS Clients,        \* threads that call submit_batch()
          MaxPending,     \* kMaxPendingBatches
          Orders,         \* the operand orders of pending() + active()
          MaxGenerations, \* bound: how often start() may make a pool
          NoPool          \* the null pool pointer

ASSUME PipelineAssumption ==
    /\ IsFiniteSet(Clients)
    /\ MaxPending \in Nat \ {0}
    /\ Orders \subseteq {"pending first", "active first"}
    /\ MaxGenerations \in Nat
    /\ NoPool \notin 1..MaxGenerations
    /\ FALSE \in CancelArgs  \* every shutdown() of the runtime lets tasks end

VARIABLES state,      \* state_
          mutex,      \* mutex_, while a call holds it for several steps
          generation, \* pool_: the number of pools made so far
          batch,      \* submit_batch(): the task a client is about to submit
          pointer,    \* submit_batch(): the pool pointer it has read
          dpc,        \* drain(): control point
          dpointer,   \* drain(): the pool pointer it has read
          first,      \* drain(): value of the operand evaluated first
          before      \* history: tasks unfinished when drain() was called

runtime == <<state, generation>>
client == <<batch, pointer>>
drain == <<mutex, dpc, dpointer, first, before>>
allVars == <<vars, runtime, client, drain>>

Pool == IF generation = 0 THEN NoPool ELSE generation
Idle == {c \in Clients : batch[c] = NoTask}
Unsubmitted == {t \in Tasks : status[t] = "new" /\ \A c \in Clients : batch[c] # t}

PipelineInit ==
    /\ Init
    /\ state = "Created"
    /\ mutex = "free"
    /\ generation = 0
    /\ batch = [c \in Clients |-> NoTask]
    /\ pointer = [c \in Clients |-> NoPool]
    /\ dpc = "idle"
    /\ dpointer = NoPool
    /\ first = 0
    /\ before = {}

-----------------------------------------------------------------------------
\* start() and stop().

\* After a failed start() the pool is left running.  The next start() destroys
\* it, and the destructor runs shutdown(false) while start() holds the mutex.
RestartBegin ==
    /\ mutex = "free"
    /\ state = "Failed" /\ generation < MaxGenerations
    /\ ShutdownBegin(Outside, FALSE)
    /\ mutex' = "start"
    /\ UNCHANGED <<runtime, client, dpc, dpointer, first, before>>

\* start() replaces a pool whose shutdown has returned by a new one.  Opening
\* or restoring the store may then fail.
RuntimeStart ==
    /\ \/ mutex = "free" /\ state \in {"Created", "Stopped"}
       \/ mutex = "start"
    /\ generation < MaxGenerations
    /\ Start
    /\ generation' = generation + 1
    /\ state' \in {"Running", "Failed"}
    /\ mutex' = "free"
    /\ UNCHANGED <<client, dpc, dpointer, first, before>>

\* The first critical section of stop().
StopBegin ==
    /\ mutex = "free"
    /\ state \in {"Created", "Running", "Failed"}
    /\ state' = "Stopping"
    /\ UNCHANGED <<vars, generation, client, drain>>

StopPool ==
    /\ state = "Stopping"
    /\ ShutdownBegin(Outside, FALSE)
    /\ UNCHANGED <<runtime, client, drain>>

\* Mutant: stop() does not wait for the pool.
StopEndEarly ==
    /\ mutex = "free"
    /\ state = "Stopping"
    /\ state' = "Stopped"
    /\ UNCHANGED <<vars, generation, client, drain>>

\* The second critical section, when shutdown() has returned or had no pool.
StopEnd ==
    /\ mutex = "free"
    /\ state = "Stopping"
    /\ generation = 0 \/ spc = "stopped"
    /\ state' = "Stopped"
    /\ UNCHANGED <<vars, generation, client, drain>>

-----------------------------------------------------------------------------
\* submit_batch().

\* The check under the runtime mutex fails.
SubmitBatchRefused(c, t) ==
    /\ mutex = "free"
    /\ c \in Idle /\ t \in Unsubmitted
    /\ state # "Running" \/ Len(queue) >= MaxPending
    /\ status' = [status EXCEPT ![t] = "refused"]
    /\ UNCHANGED <<flags, work, signals, workers, shutdown>>
    /\ UNCHANGED <<runtime, client, drain>>

\* Mutant: the limit on pending batches is not checked.
SubmitBatchUnbounded(c, t) ==
    /\ mutex = "free"
    /\ c \in Idle /\ t \in Unsubmitted
    /\ state = "Running"
    /\ batch' = [batch EXCEPT ![c] = t]
    /\ pointer' = [pointer EXCEPT ![c] = Pool]
    /\ UNCHANGED <<vars, runtime, drain>>

\* It succeeds: the pointer is read and the mutex released.
SubmitBatchChecked(c, t) ==
    /\ mutex = "free"
    /\ c \in Idle /\ t \in Unsubmitted
    /\ state = "Running" /\ Len(queue) < MaxPending
    /\ batch' = [batch EXCEPT ![c] = t]
    /\ pointer' = [pointer EXCEPT ![c] = Pool]
    /\ UNCHANGED <<vars, runtime, drain>>

\* pool->submit(...) through the pointer that was read.
SubmitBatchSubmit(c) ==
    /\ c \notin Idle
    /\ pointer[c] = Pool
    /\ Submit(batch[c])
    /\ batch' = [batch EXCEPT ![c] = NoTask]
    /\ pointer' = [pointer EXCEPT ![c] = NoPool]
    /\ UNCHANGED <<runtime, drain>>

\* The same call when start() has replaced the pool in between.
SubmitBatchDangling(c) ==
    /\ c \notin Idle
    /\ pointer[c] # Pool
    /\ status' = [status EXCEPT ![batch[c]] = "lost"]
    /\ batch' = [batch EXCEPT ![c] = NoTask]
    /\ pointer' = [pointer EXCEPT ![c] = NoPool]
    /\ UNCHANGED <<flags, work, signals, workers, shutdown>>
    /\ UNCHANGED <<runtime, drain>>

-----------------------------------------------------------------------------
\* drain().

DrainLock ==
    /\ dpc = "idle" /\ mutex = "free"
    /\ mutex' = "drain"
    /\ dpc' = "locked"
    /\ before' = {t \in Tasks : status[t] \in Unfinished}
    /\ UNCHANGED <<vars, runtime, client, dpointer, first>>

\* Mutant: the runtime mutex is held while drain() waits.
DrainKeepsLock ==
    /\ dpc = "locked"
    /\ dpointer' = Pool
    /\ dpc' = IF Pool = NoPool THEN "returned" ELSE "first"
    /\ UNCHANGED <<vars, runtime, client, mutex, first, before>>

\* The pool pointer is read and the mutex released.
DrainUnlock ==
    /\ dpc = "locked"
    /\ mutex' = "free"
    /\ dpointer' = Pool
    /\ dpc' = IF Pool = NoPool THEN "returned" ELSE "first"
    /\ UNCHANGED <<vars, runtime, client, first, before>>

\* The operands of pending() + active() are two critical sections of the pool;
\* C++ leaves their order to the compiler.
DrainFirst(order) ==
    /\ dpc = "first" /\ dpointer = Pool
    /\ first' = IF order = "pending first" THEN Len(queue) ELSE active
    /\ dpc' = order
    /\ UNCHANGED <<vars, runtime, client, mutex, dpointer, before>>

\* Mutant: only the queue is waited for.
DrainSecondIgnoresActive ==
    /\ dpc \in {"pending first", "active first"} /\ dpointer = Pool
    /\ dpc' = IF first = 0 THEN "returned" ELSE "first"
    /\ first' = 0
    /\ UNCHANGED <<vars, runtime, client, mutex, dpointer, before>>

DrainSecond ==
    /\ dpc \in {"pending first", "active first"} /\ dpointer = Pool
    /\ LET second == IF dpc = "pending first" THEN active ELSE Len(queue)
       IN  dpc' = IF first + second = 0 THEN "returned" ELSE "first"
    /\ first' = 0
    /\ UNCHANGED <<vars, runtime, client, mutex, dpointer, before>>

\* start() has replaced the pool: the reads yield anything.
DrainDangling ==
    /\ dpc \in {"first", "pending first", "active first"}
    /\ dpointer # Pool
    /\ dpc' \in {"first", "returned"}
    /\ first' = 0
    /\ UNCHANGED <<vars, runtime, client, mutex, dpointer, before>>

DrainStep == \/ DrainUnlock
             \/ \E order \in Orders : DrainFirst(order)
             \/ DrainSecond
             \/ DrainDangling

-----------------------------------------------------------------------------
\* The body of a batch is ingest_batch() and compare_all(), which take the
\* runtime mutex; the rest of worker_loop does not.
PipelineWorker(w) ==
    /\ wpc[w] = "body" => mutex = "free"
    /\ WorkerStep(w)
    /\ UNCHANGED <<runtime, client, drain>>

PoolStep ==
    /\ NotifyOne \/ (\E w \in Workers : SpuriousWake(w)) \/ ShutdownStep
    /\ UNCHANGED <<runtime, client, drain>>

PipelineNext ==
    \/ RestartBegin \/ RuntimeStart \/ StopBegin \/ StopPool \/ StopEnd
    \/ \E c \in Clients, t \in Tasks :
          SubmitBatchRefused(c, t) \/ SubmitBatchChecked(c, t)
    \/ \E c \in Clients : SubmitBatchSubmit(c) \/ SubmitBatchDangling(c)
    \/ DrainLock \/ DrainStep
    \/ \E w \in Workers : PipelineWorker(w)
    \/ PoolStep

PipelineSpec == PipelineInit /\ [][PipelineNext]_allVars

\* Threads are scheduled and batch bodies return; nobody is made to submit or
\* to call start(), stop() or drain().
PipelineFairness ==
    /\ WF_allVars((NotifyOne \/ ShutdownStep)
                  /\ UNCHANGED <<runtime, client, drain>>)
    /\ \A w \in Workers : WF_allVars(PipelineWorker(w))
    /\ WF_allVars(StopPool \/ StopEnd)
    /\ WF_allVars(mutex = "start" /\ RuntimeStart)
    /\ \A c \in Clients : WF_allVars(SubmitBatchSubmit(c))
    /\ WF_allVars(DrainStep)

FairPipelineSpec == PipelineSpec /\ PipelineFairness

-----------------------------------------------------------------------------
PipelineTypeOK ==
    /\ TypeOK
    /\ state \in {"Created", "Running", "Stopping", "Stopped", "Failed"}
    /\ mutex \in {"free", "drain", "start"}
    /\ generation \in 0..MaxGenerations
    /\ batch \in [Clients -> Tasks \cup {NoTask}]
    /\ pointer \in [Clients -> 1..MaxGenerations \cup {NoPool}]
    /\ dpc \in {"idle", "locked", "first", "returned"} \cup Orders
    /\ dpointer \in 1..MaxGenerations \cup {NoPool}
    /\ first \in Nat
    /\ before \subseteq Tasks

\* "drain() returns only when nothing is queued or running"
\* (docs/concurrency.md:67): a batch that was queued or running when drain()
\* was called has been dealt with when it returns.
DrainComplete ==
    dpc = "returned" => \A t \in before : status[t] \notin Unfinished

\* submit_batch() compares the queue with kMaxPendingBatches in one critical
\* section and appends in another, so the queue may outgrow the limit; it does
\* so by less than one batch for each client, counting those still to append.
PendingBounded ==
    /\ PipelineTypeOK
    /\ Len(queue) + Cardinality(Clients \ Idle) < MaxPending + Cardinality(Clients)

\* stop() drains: a batch whose submission was reported as accepted has been
\* executed when the runtime is stopped, and no batch is taken afterwards.
StoppedIsQuiet ==
    state = "Stopped" => /\ \A t \in Tasks : status[t] \notin Unfinished
                         /\ active = 0

\* "Submitting after shutdown returns ShuttingDown rather than silently
\* dropping the task" (docs/concurrency.md:51): the pool that submit_batch()
\* hands a batch to still exists.
SubmittedToLivePool == \A t \in Tasks : status[t] # "lost"

\* drain() returns once clients stop submitting: it never waits for a batch
\* that is itself waiting for the runtime mutex.  The one way out is that
\* start() destroys the pool it polls, after which it reads anything.
DrainReturns ==
    dpc = "locked" ~> \/ dpc = "returned"
                      \/ dpc # "locked" /\ dpointer # Pool

\* stop() returns although batches are queued and running.
StopReturns == state = "Stopping" ~> state = "Stopped"

\* Neither of the two calls that wait for batches waits for ever, with both in
\* progress at once and with a start() between them.
WaitsEnd == DrainReturns /\ StopReturns

=============================================================================
