------------------------ MODULE BatchPipelineProofs ------------------------
(***************************************************************************)
(* Safety of the worker pool for any number of threads, tasks and queue    *)
(* slots, where PoolInv is inductive; then of submit_batch(), drain(),     *)
(* start() and stop() over it, for any numbers of clients, pools and       *)
(* pending batches.  There the pool is used through its own invariant,     *)
(* PoolCore.                                                               *)
(***************************************************************************)
EXTENDS BatchPipeline, FiniteSetTheorems, TLAPS

USE DEF Outside

\* What submit()'s push_back does to the set of queued tasks.
LEMMA AppendFacts ==
    ASSUME NEW q \in Seq(Tasks), NEW t \in Tasks
    PROVE  /\ Append(q, t) \in Seq(Tasks)
           /\ Len(Append(q, t)) = Len(q) + 1
           /\ \A i \in DOMAIN q : Append(q, t)[i] = q[i]
           /\ Append(q, t)[Len(q) + 1] = t
           /\ DOMAIN Append(q, t) = DOMAIN q \cup {Len(q) + 1}
OBVIOUS

\* What worker_loop's pop_front does to the queue.
LEMMA TailFacts ==
    ASSUME NEW q \in Seq(Tasks), q # <<>>
    PROVE  /\ Tail(q) \in Seq(Tasks)
           /\ Head(q) \in Tasks
           /\ Head(q) = q[1]
           /\ Len(Tail(q)) = Len(q) - 1
           /\ \A i \in DOMAIN Tail(q) : i + 1 \in DOMAIN q /\ Tail(q)[i] = q[i + 1]
           /\ \A i \in DOMAIN q : i # 1 => i - 1 \in DOMAIN Tail(q)
           /\ 1 \in DOMAIN q
OBVIOUS

\* The workers are finitely many, so the busy ones can be counted.
LEMMA BusyFinite ==
    IsFiniteSet(BusyWorkers) /\ IsFiniteSet(BusyWorkers')
<1>1. IsFiniteSet(Workers)
  BY PoolAssumption, FS_Interval DEF Workers
<1>2. BusyWorkers \subseteq Workers /\ BusyWorkers' \subseteq Workers
  BY DEF BusyWorkers, Workers
<1> QED BY <1>1, <1>2, FS_Subset

\* The initial state satisfies the invariant.
LEMMA PoolInit ==
    ASSUME Init
    PROVE  PoolInv
<1> USE PoolAssumption DEF Init
<1>1. TypeOK
  <2>1. queue \in Seq(Tasks) /\ Len(queue) <= MaxQueue
    OBVIOUS
  <2>2. status \in [Tasks -> Statuses]
    BY DEF Statuses
  <2>3. /\ wpc \in [Workers -> Busy \cup {"none", "check", "wait", "exited"}]
        /\ entry \in [Workers -> Tasks \cup {NoTask}]
    OBVIOUS
  <2>4. joining \in 1..(NumThreads + 1)
    OBVIOUS
  <2> QED BY <2>1, <2>2, <2>3, <2>4 DEF TypeOK
<1>2. BusyWorkers = {}
  BY DEF BusyWorkers, Busy
<1>3. ActiveCountsHolders
  BY <1>2, FS_EmptySet DEF ActiveCountsHolders
<1>4. Queued = {}
  BY DEF Queued
<1>5. TaskHasOneOwner
  BY <1>4 DEF TaskHasOneOwner, Busy
<1>6. NothingLost /\ ShutdownProgress /\ EntryStatus
  BY DEF NothingLost, ShutdownProgress, EntryStatus
<1> QED BY <1>1, <1>3, <1>5, <1>6 DEF PoolInv, PoolCore

-----------------------------------------------------------------------------
\* A busy worker is counted, so active_ is positive when it is lowered.
LEMMA BusyIsCounted ==
    ASSUME PoolCore, NEW w \in Workers, wpc[w] \in Busy
    PROVE  active > 0
<1>1. w \in BusyWorkers
  BY DEF BusyWorkers
<1>2. Cardinality(BusyWorkers) \in Nat /\ Cardinality(BusyWorkers) # 0
  BY <1>1, BusyFinite, FS_CardinalityType, FS_EmptySet
<1> QED BY <1>2 DEF PoolCore, ActiveCountsHolders

\* No step of the pool leaves the types or overfills the queue.
LEMMA TypeStep ==
    ASSUME PoolCore, Next
    PROVE  TypeOK'
<1> USE PoolAssumption
<1>0. TypeOK
  BY DEF PoolCore
<1> USE <1>0 DEF flags, work, workers, shutdown
<1>1. CASE Start
  BY <1>1 DEF Start, TypeOK
<1>2. ASSUME NEW t \in Tasks, SubmitRefused(t)
      PROVE  TypeOK'
  BY <1>2 DEF SubmitRefused, TypeOK, Statuses
<1>3. ASSUME NEW t \in Tasks, SubmitAccepted(t)
      PROVE  TypeOK'
  <2>1. queue' \in Seq(Tasks) /\ Len(queue') <= MaxQueue
    BY <1>3, AppendFacts DEF SubmitAccepted, TypeOK
  <2>2. status' \in [Tasks -> Statuses] /\ signals' \in Nat
    BY <1>3 DEF SubmitAccepted, TypeOK, Statuses, Unfinished
  <2> QED BY <1>3, <2>1, <2>2 DEF SubmitAccepted, TypeOK
<1>4. CASE NotifyOne
  BY <1>4 DEF NotifyOne, TypeOK
<1>5. CASE CancelPending
  <2>1. Queued \subseteq Tasks
    BY DEF Queued, TypeOK
  <2>2. status' \in [Tasks -> Statuses] /\ cancelled' \subseteq Tasks
    BY <1>5, <2>1 DEF CancelPending, TypeOK, Statuses
  <2>3. queue' \in Seq(Tasks) /\ Len(queue') <= MaxQueue
    BY <1>5 DEF CancelPending
  <2> QED BY <1>5, <2>2, <2>3 DEF CancelPending, TypeOK
<1>6. ASSUME NEW w \in Workers, WorkerWait(w) \/ SpuriousWake(w) \/ WorkerExit(w)
      PROVE  TypeOK'
  BY <1>6 DEF WorkerWait, SpuriousWake, WorkerExit, TypeOK
<1>7. ASSUME NEW w \in Workers, WorkerPop(w)
      PROVE  TypeOK'
  <2>1. queue' \in Seq(Tasks) /\ Len(queue') <= MaxQueue /\ Head(queue) \in Tasks
    BY <1>7, TailFacts DEF WorkerPop, TypeOK
  <2>2. status' \in [Tasks -> Statuses] /\ entry' \in [Workers -> Tasks \cup {NoTask}]
    BY <1>7, <2>1 DEF WorkerPop, TypeOK, Statuses, Unfinished
  <2>3. wpc' \in [Workers -> Busy \cup {"none", "check", "wait", "exited"}]
    BY <1>7 DEF WorkerPop, TypeOK, Busy
  <2> QED BY <1>7, <2>1, <2>2, <2>3 DEF WorkerPop, TypeOK
<1>8. ASSUME NEW w \in Workers, WorkerSkip(w) \/ WorkerRun(w) \/ BodyReturn(w)
      PROVE  TypeOK'
  <2>1. status' \in [Tasks -> Statuses]
    BY <1>8 DEF WorkerSkip, WorkerRun, BodyReturn, TypeOK, Statuses, Unfinished
  <2>2. wpc' \in [Workers -> Busy \cup {"none", "check", "wait", "exited"}]
    BY <1>8 DEF WorkerSkip, WorkerRun, BodyReturn, TypeOK, Busy
  <2> QED BY <1>8, <2>1, <2>2 DEF WorkerSkip, WorkerRun, BodyReturn, TypeOK
<1>9. ASSUME NEW w \in Workers, WorkerRetire(w)
      PROVE  TypeOK'
  <2>1. active > 0
    BY <1>9, BusyIsCounted DEF WorkerRetire, Busy
  <2> QED BY <1>9, <2>1 DEF WorkerRetire, TypeOK
<1>10. ASSUME NEW cancelRunning \in CancelArgs, ShutdownBegin(Outside, cancelRunning)
       PROVE  TypeOK'
  <2>1. Outstanding \subseteq Tasks \cup {NoTask}
    BY DEF Outstanding, Queued, Held, BusyWorkers, TypeOK
  <2>2. NoTask \notin Outstanding
    BY DEF PoolCore, TaskHasOneOwner, Outstanding, Queued, Held, BusyWorkers, TypeOK
  <2> QED BY <1>10, <2>1, <2>2 DEF ShutdownBegin, TypeOK
<1>11. CASE ShutdownNotifyAll
  BY <1>11 DEF ShutdownNotifyAll, TypeOK
<1>12. CASE ShutdownJoin
  BY <1>12 DEF ShutdownJoin, TypeOK, Workers
<1>13. CASE ShutdownClear
  <2>1. queue' \in Seq(Tasks) /\ Len(queue') <= MaxQueue
    BY <1>13 DEF ShutdownClear
  <2>2. status' \in [Tasks -> Statuses]
    BY <1>13 DEF ShutdownClear, TypeOK, Statuses
  <2> QED BY <1>13, <2>1, <2>2 DEF ShutdownClear, TypeOK
<1> QED
  BY <1>1, <1>2, <1>3, <1>4, <1>5, <1>6, <1>7, <1>8, <1>9, <1>10, <1>11, <1>12,
     <1>13 DEF Next, Submit, WorkerStep, ShutdownStep

-----------------------------------------------------------------------------
\* When shutdown() has joined every thread, all of them are gone and the queue
\* is empty.
LEMMA AllJoined ==
    ASSUME PoolCore, spc = "join", joining \notin Workers
    PROVE  queue = <<>> /\ \A w \in Workers : wpc[w] = "exited"
<1>1. joining = NumThreads + 1
  BY PoolAssumption DEF PoolCore, TypeOK, Workers
<1>2. \A w \in Workers : wpc[w] = "exited"
  BY <1>1, PoolAssumption DEF PoolCore, ShutdownProgress, Workers
<1>3. 1 \in Workers
  BY PoolAssumption DEF Workers
<1> QED BY <1>2, <1>3 DEF PoolCore, ShutdownProgress

\* Every step keeps active_ equal to the number of workers that hold an entry.
LEMMA CountStep ==
    ASSUME PoolCore, Next
    PROVE  ActiveCountsHolders'
<1>0. TypeOK /\ ActiveCountsHolders
  BY DEF PoolCore
<1> USE <1>0 DEF flags, work, workers, shutdown
<1>1. ASSUME BusyWorkers' = BusyWorkers, active' = active
      PROVE  ActiveCountsHolders'
  BY <1>1 DEF ActiveCountsHolders
<1>2. CASE Start
  <2>1. BusyWorkers = {} /\ BusyWorkers' = {}
    BY <1>2 DEF Start, PoolCore, ShutdownProgress, BusyWorkers, Busy
  <2> QED BY <1>1, <1>2, <2>1 DEF Start
<1>3. ASSUME NEW t \in Tasks, Submit(t)
      PROVE  ActiveCountsHolders'
  BY <1>1, <1>3 DEF Submit, SubmitRefused, SubmitAccepted, BusyWorkers
<1>4. CASE NotifyOne
  <2>1. BusyWorkers' = BusyWorkers
    BY <1>4 DEF NotifyOne, TypeOK, BusyWorkers, Busy
  <2> QED BY <1>1, <1>4, <2>1 DEF NotifyOne
<1>5. CASE CancelPending
  BY <1>1, <1>5 DEF CancelPending, BusyWorkers
<1>6. ASSUME NEW w \in Workers,
             \/ WorkerWait(w) \/ SpuriousWake(w) \/ WorkerExit(w)
             \/ WorkerSkip(w) \/ WorkerRun(w) \/ BodyReturn(w)
      PROVE  ActiveCountsHolders'
  <2>1. BusyWorkers' = BusyWorkers
    BY <1>6 DEF WorkerWait, SpuriousWake, WorkerExit, WorkerSkip, WorkerRun,
                BodyReturn, TypeOK, BusyWorkers, Busy
  <2> QED BY <1>1, <1>6, <2>1 DEF WorkerWait, SpuriousWake, WorkerExit, WorkerSkip,
                                  WorkerRun, BodyReturn
<1>7. ASSUME NEW w \in Workers, WorkerPop(w)
      PROVE  ActiveCountsHolders'
  <2>1. BusyWorkers' = BusyWorkers \cup {w} /\ w \notin BusyWorkers
    BY <1>7 DEF WorkerPop, TypeOK, BusyWorkers, Busy
  <2>2. Cardinality(BusyWorkers') = Cardinality(BusyWorkers) + 1
    BY <2>1, BusyFinite, FS_AddElement
  <2> QED BY <1>7, <2>2 DEF WorkerPop, ActiveCountsHolders
<1>8. ASSUME NEW w \in Workers, WorkerRetire(w)
      PROVE  ActiveCountsHolders'
  <2>1. BusyWorkers' = BusyWorkers \ {w} /\ w \in BusyWorkers
    BY <1>8 DEF WorkerRetire, TypeOK, BusyWorkers, Busy
  <2>2. Cardinality(BusyWorkers') = Cardinality(BusyWorkers) - 1
    BY <2>1, BusyFinite, FS_RemoveElement
  <2> QED BY <1>8, <2>2 DEF WorkerRetire, ActiveCountsHolders
<1>9. ASSUME NEW cancelRunning \in CancelArgs, ShutdownBegin(Outside, cancelRunning)
      PROVE  ActiveCountsHolders'
  BY <1>1, <1>9 DEF ShutdownBegin, BusyWorkers
<1>10. CASE ShutdownNotifyAll
  <2>1. BusyWorkers' = BusyWorkers
    BY <1>10 DEF ShutdownNotifyAll, TypeOK, BusyWorkers, Busy
  <2> QED BY <1>1, <1>10, <2>1 DEF ShutdownNotifyAll
<1>11. CASE ShutdownJoin
  BY <1>1, <1>11 DEF ShutdownJoin, BusyWorkers
<1>12. CASE ShutdownClear
  <2>1. BusyWorkers = {} /\ BusyWorkers' = {}
    BY <1>12, AllJoined DEF ShutdownClear, BusyWorkers, Busy
  <2> QED BY <1>1, <1>12, <2>1 DEF ShutdownClear
<1> QED
  BY <1>2, <1>3, <1>4, <1>5, <1>6, <1>7, <1>8, <1>9, <1>10, <1>11, <1>12
  DEF Next, WorkerStep, ShutdownStep

\* Every step keeps what shutdown() has established.
LEMMA ProgressStep ==
    ASSUME PoolCore, Next
    PROVE  ShutdownProgress'
<1> USE PoolAssumption
<1>0. TypeOK /\ ShutdownProgress
  BY DEF PoolCore
<1> USE <1>0 DEF flags, work, workers, shutdown, ShutdownProgress
<1>1. CASE Start
  BY <1>1 DEF Start
<1>2. ASSUME NEW t \in Tasks, Submit(t)
      PROVE  ShutdownProgress'
  BY <1>2 DEF Submit, SubmitRefused, SubmitAccepted
<1>3. CASE NotifyOne
  BY <1>3 DEF NotifyOne, TypeOK
<1>4. CASE CancelPending
  BY <1>4 DEF CancelPending
<1>5. ASSUME NEW w \in Workers, WorkerStep(w) \/ SpuriousWake(w)
      PROVE  ShutdownProgress'
  <2>1. \A v \in Workers \ {w} : wpc'[v] = wpc[v]
    BY <1>5 DEF WorkerStep, SpuriousWake, WorkerWait, WorkerExit, WorkerPop,
                WorkerSkip, WorkerRun, BodyReturn, WorkerRetire, TypeOK
  <2>2. wpc[w] \notin {"none", "exited"}
    BY <1>5 DEF WorkerStep, SpuriousWake, WorkerWait, WorkerExit, WorkerPop,
                WorkerSkip, WorkerRun, BodyReturn, WorkerRetire
  <2>3. wpc'[w] = "exited" => ~running /\ queue = <<>>
    BY <1>5 DEF WorkerStep, SpuriousWake, WorkerWait, WorkerExit, WorkerPop,
                WorkerSkip, WorkerRun, BodyReturn, WorkerRetire, TypeOK
  <2>4. queue = <<>> => queue' = <<>>
    BY <1>5 DEF WorkerStep, SpuriousWake, WorkerWait, WorkerExit, WorkerPop,
                WorkerSkip, WorkerRun, BodyReturn, WorkerRetire
  <2>5. running' = running /\ spc' = spc /\ joining' = joining
    BY <1>5 DEF WorkerStep, SpuriousWake, WorkerWait, WorkerExit, WorkerPop,
                WorkerSkip, WorkerRun, BodyReturn, WorkerRetire
  <2>6. 1..(joining - 1) \subseteq Workers
    BY DEF TypeOK, Workers
  <2> QED BY <2>1, <2>2, <2>3, <2>4, <2>5, <2>6
<1>6. ASSUME NEW cancelRunning \in CancelArgs, ShutdownBegin(Outside, cancelRunning)
      PROVE  ShutdownProgress'
  BY <1>6 DEF ShutdownBegin
<1>7. CASE ShutdownNotifyAll
  BY <1>7 DEF ShutdownNotifyAll, TypeOK
<1>8. CASE ShutdownJoin
  BY <1>8 DEF ShutdownJoin, TypeOK, Workers
<1>9. CASE ShutdownClear
  BY <1>9 DEF ShutdownClear, TypeOK
<1> QED
  BY <1>1, <1>2, <1>3, <1>4, <1>5, <1>6, <1>7, <1>8, <1>9
  DEF Next, ShutdownStep

-----------------------------------------------------------------------------
\* Every step keeps a worker's control point and its task's status in line.
LEMMA EntryStep ==
    ASSUME PoolCore, Next
    PROVE  EntryStatus'
<1>0. TypeOK /\ EntryStatus /\ TaskHasOneOwner
  BY DEF PoolCore
<1> USE <1>0 DEF flags, work, workers, shutdown
<1>a. \A w \in Workers : wpc[w] \in Busy => entry[w] \in Tasks
  BY PoolAssumption DEF TypeOK, TaskHasOneOwner
<1>1. CASE Start
  BY <1>1 DEF Start, EntryStatus
<1>2. ASSUME NEW t \in Tasks, Submit(t)
      PROVE  EntryStatus'
  BY <1>2, <1>a DEF Submit, SubmitRefused, SubmitAccepted, EntryStatus, TypeOK, Busy
<1>3. CASE NotifyOne
  BY <1>3 DEF NotifyOne, EntryStatus, TypeOK
<1>4. CASE CancelPending
  BY <1>4, <1>a DEF CancelPending, EntryStatus, TypeOK, TaskHasOneOwner, Busy
<1>5. ASSUME NEW w \in Workers, WorkerWait(w) \/ SpuriousWake(w) \/ WorkerExit(w)
      PROVE  EntryStatus'
  BY <1>5 DEF WorkerWait, SpuriousWake, WorkerExit, EntryStatus, TypeOK
<1>6. ASSUME NEW w \in Workers, WorkerPop(w)
      PROVE  EntryStatus'
  <2>1. Head(queue) \in Tasks /\ status[Head(queue)] = "queued"
    BY <1>6, TailFacts DEF WorkerPop, TypeOK, TaskHasOneOwner, Queued
  <2>2. entry'[w] = Head(queue) /\ wpc'[w] = "popped" /\ status'[Head(queue)] = "held"
    BY <1>6, <2>1 DEF WorkerPop, TypeOK
  <2>3. ASSUME NEW v \in Workers, v # w
        PROVE  /\ wpc'[v] = wpc[v] /\ entry'[v] = entry[v]
               /\ wpc[v] \in Busy => status'[entry[v]] = status[entry[v]]
    BY <1>6, <1>a, <2>1, <2>3 DEF WorkerPop, TypeOK, EntryStatus, Busy
  <2> QED BY <2>2, <2>3 DEF EntryStatus, Busy
<1>7. ASSUME NEW w \in Workers, WorkerSkip(w) \/ WorkerRun(w) \/ BodyReturn(w)
      PROVE  EntryStatus'
  <2>1. entry[w] \in Tasks /\ wpc[w] \in Busy
    BY <1>7, <1>a DEF WorkerSkip, WorkerRun, BodyReturn, Busy
  <2>2. ASSUME NEW v \in Workers, v # w, wpc[v] \in Busy
        PROVE  status'[entry[v]] = status[entry[v]]
    BY <1>7, <1>a, <2>1, <2>2, PoolAssumption
    DEF WorkerSkip, WorkerRun, BodyReturn, TypeOK, TaskHasOneOwner
  <2>3. \A v \in Workers : v # w => wpc'[v] = wpc[v] /\ entry'[v] = entry[v]
    BY <1>7 DEF WorkerSkip, WorkerRun, BodyReturn, TypeOK
  <2>4. /\ entry'[w] = entry[w]
        /\ \/ wpc'[w] = "after" /\ status'[entry[w]] \in {"executed", "skipped"}
           \/ wpc'[w] = "body" /\ status'[entry[w]] = "body"
    BY <1>7, <2>1 DEF WorkerSkip, WorkerRun, BodyReturn, TypeOK
  <2> QED BY <2>2, <2>3, <2>4 DEF EntryStatus, Busy
<1>8. ASSUME NEW w \in Workers, WorkerRetire(w)
      PROVE  EntryStatus'
  BY <1>8 DEF WorkerRetire, EntryStatus, TypeOK
<1>9. ASSUME NEW cancelRunning \in CancelArgs, ShutdownBegin(Outside, cancelRunning)
      PROVE  EntryStatus'
  BY <1>9 DEF ShutdownBegin, EntryStatus
<1>10. CASE ShutdownNotifyAll
  BY <1>10 DEF ShutdownNotifyAll, EntryStatus, TypeOK
<1>11. CASE ShutdownJoin
  BY <1>11 DEF ShutdownJoin, EntryStatus
<1>12. CASE ShutdownClear
  BY <1>12 DEF ShutdownClear, EntryStatus
<1> QED
  BY <1>1, <1>2, <1>3, <1>4, <1>5, <1>6, <1>7, <1>8, <1>9, <1>10, <1>11, <1>12
  DEF Next, WorkerStep, ShutdownStep

\* A step that moves no task keeps every task where it is.
LEMMA OwnerUnchanged ==
    ASSUME TaskHasOneOwner, UNCHANGED <<status, queue, entry, wpc>>
    PROVE  TaskHasOneOwner'
<1>1. status' = status /\ queue' = queue /\ entry' = entry /\ wpc' = wpc
  OBVIOUS
<1>2. Queued' = Queued
  BY <1>1, Zenon DEF Queued
<1> QED BY <1>1, <1>2 DEF TaskHasOneOwner

\* Every step keeps an accepted task in exactly one place.
LEMMA OwnerStep ==
    ASSUME PoolCore, Next
    PROVE  TaskHasOneOwner'
<1>0. TypeOK /\ EntryStatus /\ TaskHasOneOwner
  BY DEF PoolCore
<1> USE <1>0 DEF flags, work, workers, shutdown
<1>a. \A w \in Workers : wpc[w] \in Busy => entry[w] \in Tasks
  BY PoolAssumption DEF TypeOK, TaskHasOneOwner
<1>b. \A w \in Workers : wpc[w] \notin Busy => entry[w] = NoTask
  BY DEF TaskHasOneOwner
<1>c. /\ \A t \in Tasks : status[t] = "queued" <=> t \in Queued
      /\ \A t \in Tasks : status[t] \in {"held", "body"} =>
            \E v \in Workers : entry[v] = t /\ wpc[v] \in {"popped", "body"}
      /\ \A v \in Workers : wpc[v] \in Busy <=> entry[v] # NoTask
      /\ \A v, u \in Workers : entry[v] = entry[u] /\ entry[v] # NoTask => v = u
  BY Zenon DEF TaskHasOneOwner
<1>d. \A i, j \in DOMAIN queue : queue[i] = queue[j] => i = j
  BY Zenon DEF TaskHasOneOwner
<1>1. CASE Start
  <2>1. \A w \in Workers : wpc[w] \notin Busy
    BY <1>1 DEF Start, PoolCore, ShutdownProgress, Busy
  <2>2. Queued' = Queued
    BY <1>1 DEF Start, Queued
  <2> QED BY <1>1, <1>b, <2>1, <2>2 DEF Start, TaskHasOneOwner, Busy
<1>2. ASSUME NEW t \in Tasks, SubmitRefused(t)
      PROVE  TaskHasOneOwner'
  <2>1. Queued' = Queued
    BY <1>2 DEF SubmitRefused, Queued
  <2> QED BY <1>2, <2>1 DEF SubmitRefused, TaskHasOneOwner, TypeOK
<1>3. ASSUME NEW t \in Tasks, SubmitAccepted(t)
      PROVE  TaskHasOneOwner'
  <2>1. t \notin Queued
    BY <1>3 DEF SubmitAccepted, TaskHasOneOwner
  <2>2. Queued' = Queued \cup {t}
    BY <1>3, AppendFacts DEF SubmitAccepted, Queued, TypeOK
  <2>3. \A i, j \in DOMAIN queue' : queue'[i] = queue'[j] => i = j
    BY <1>3, <2>1, AppendFacts DEF SubmitAccepted, Queued, TaskHasOneOwner, TypeOK
  <2> QED BY <1>3, <2>2, <2>3 DEF SubmitAccepted, TaskHasOneOwner, TypeOK
<1>4. CASE NotifyOne
  <2>1. Queued' = Queued
    BY <1>4 DEF NotifyOne, Queued
  <2>2. ASSUME NEW w \in Workers
        PROVE  wpc'[w] = wpc[w] \/ (wpc[w] \notin Busy /\ wpc'[w] \notin Busy)
    BY <1>4 DEF NotifyOne, TypeOK, Busy
  <2> QED BY <1>4, <2>1, <2>2 DEF NotifyOne, TaskHasOneOwner, Busy
<1>5. CASE CancelPending
  <2>1. Queued' = {}
    BY <1>5 DEF CancelPending, Queued
  <2> QED BY <1>5, <2>1 DEF CancelPending, TaskHasOneOwner, TypeOK
<1>6. ASSUME NEW w \in Workers, WorkerWait(w) \/ SpuriousWake(w) \/ WorkerExit(w)
      PROVE  TaskHasOneOwner'
  <2>1. Queued' = Queued
    BY <1>6 DEF WorkerWait, SpuriousWake, WorkerExit, Queued
  <2>2. \A v \in Workers : v # w => wpc'[v] = wpc[v]
    BY <1>6 DEF WorkerWait, SpuriousWake, WorkerExit, TypeOK
  <2>3. wpc[w] \notin Busy /\ wpc'[w] \notin Busy
    BY <1>6 DEF WorkerWait, SpuriousWake, WorkerExit, TypeOK, Busy
  <2>4. /\ status' = status /\ entry' = entry /\ queue' = queue
    BY <1>6 DEF WorkerWait, SpuriousWake, WorkerExit
  <2> QED BY <2>1, <2>2, <2>3, <2>4 DEF TaskHasOneOwner, Busy
<1>7. ASSUME NEW w \in Workers, WorkerPop(w)
      PROVE  TaskHasOneOwner'
  <2> DEFINE h == Head(queue)
  <2>1. h \in Tasks /\ h \in Queued /\ status[h] = "queued"
    BY <1>7, TailFacts DEF WorkerPop, TypeOK, TaskHasOneOwner, Queued
  <2>2. Queued' = Queued \ {h}
    <3>1. ASSUME NEW i \in DOMAIN Tail(queue)
          PROVE  Tail(queue)[i] \in Queued \ {h}
      BY <1>7, <3>1, TailFacts DEF WorkerPop, TypeOK, TaskHasOneOwner, Queued
    <3>2. ASSUME NEW i \in DOMAIN queue, queue[i] # h
          PROVE  queue[i] \in {Tail(queue)[j] : j \in DOMAIN Tail(queue)}
      <4>1. i # 1 /\ i - 1 \in DOMAIN Tail(queue) /\ Tail(queue)[i - 1] = queue[i]
        BY <1>7, <3>2, TailFacts DEF WorkerPop, TypeOK
      <4> QED BY <4>1
    <3> QED BY <1>7, <3>1, <3>2 DEF WorkerPop, Queued
  <2>3. \A i, j \in DOMAIN queue' : queue'[i] = queue'[j] => i = j
    BY <1>7, TailFacts DEF WorkerPop, TypeOK, TaskHasOneOwner
  <2>4. \A v \in Workers : entry[v] # h
    BY <1>a, <1>b, <2>1, PoolAssumption DEF EntryStatus, Busy
  <2>5. /\ entry'[w] = h /\ wpc'[w] = "popped"
        /\ \A v \in Workers : v # w => wpc'[v] = wpc[v] /\ entry'[v] = entry[v]
        /\ \A t \in Tasks : status'[t] = IF t = h THEN "held" ELSE status[t]
        /\ wpc[w] = "check"
    BY <1>7, <2>1 DEF WorkerPop, TypeOK
  <2>6. h # NoTask
    BY <2>1, PoolAssumption
  <2>7. \A t \in Tasks : status'[t] \in {"held", "body"} =>
          \E v \in Workers : entry'[v] = t /\ wpc'[v] \in {"popped", "body"}
    BY <2>5, <1>c
  <2>8. \A t \in Tasks : status'[t] = "queued" <=> t \in Queued'
    BY <2>1, <2>2, <2>5, <1>c
  <2>9. \A v \in Workers : wpc'[v] \in Busy <=> entry'[v] # NoTask
    BY <2>5, <2>6, <1>c DEF Busy
  <2>10. \A v, u \in Workers : entry'[v] = entry'[u] /\ entry'[v] # NoTask => v = u
    BY <2>4, <2>5, <1>c
  <2> QED BY <2>3, <2>7, <2>8, <2>9, <2>10, Zenon DEF TaskHasOneOwner
<1>8. ASSUME NEW w \in Workers, WorkerSkip(w) \/ WorkerRun(w) \/ BodyReturn(w)
      PROVE  TaskHasOneOwner'
  <2> DEFINE e == entry[w]
  <2>1. /\ e \in Tasks /\ wpc[w] \in Busy /\ wpc'[w] \in Busy
        /\ status[e] # "queued" /\ status'[e] # "queued"
        /\ status'[e] \in {"held", "body"} => wpc'[w] = "body"
    BY <1>8, <1>a
    DEF WorkerSkip, WorkerRun, BodyReturn, Busy, EntryStatus, TypeOK
  <2>2. /\ entry' = entry /\ queue' = queue
        /\ \A v \in Workers : v # w => wpc'[v] = wpc[v]
        /\ \A t \in Tasks : t # e => status'[t] = status[t]
    BY <1>8 DEF WorkerSkip, WorkerRun, BodyReturn, TypeOK
  <2>3. Queued' = Queued
    BY <2>2 DEF Queued
  <2>4. \A t \in Tasks : status'[t] = "queued" <=> t \in Queued'
    BY <1>c, <2>1, <2>2, <2>3
  <2>5. \A t \in Tasks : status'[t] \in {"held", "body"} =>
          \E v \in Workers : entry'[v] = t /\ wpc'[v] \in {"popped", "body"}
    BY <1>c, <2>1, <2>2
  <2>6. \A v \in Workers : wpc'[v] \in Busy <=> entry'[v] # NoTask
    BY <1>c, <2>1, <2>2
  <2> QED BY <1>c, <1>d, <2>2, <2>4, <2>5, <2>6 DEF TaskHasOneOwner
<1>9. ASSUME NEW w \in Workers, WorkerRetire(w)
      PROVE  TaskHasOneOwner'
  <2>1. Queued' = Queued
    BY <1>9 DEF WorkerRetire, Queued
  <2>2. status[entry[w]] \in {"executed", "skipped"} /\ entry[w] \in Tasks
    BY <1>9, <1>a DEF WorkerRetire, EntryStatus, Busy
  <2>3. /\ entry'[w] = NoTask /\ wpc'[w] = "check"
        /\ \A v \in Workers : v # w => wpc'[v] = wpc[v] /\ entry'[v] = entry[v]
        /\ status' = status /\ queue' = queue
    BY <1>9 DEF WorkerRetire, TypeOK
  <2>4. \A t \in Tasks : status'[t] \in {"held", "body"} =>
          \E v \in Workers : entry'[v] = t /\ wpc'[v] \in {"popped", "body"}
    BY <1>c, <2>2, <2>3
  <2>5. \A v \in Workers : wpc'[v] \in Busy <=> entry'[v] # NoTask
    BY <1>c, <2>3 DEF Busy
  <2>6. \A v, u \in Workers : entry'[v] = entry'[u] /\ entry'[v] # NoTask => v = u
    BY <1>c, <2>3
  <2> QED BY <1>c, <1>d, <2>1, <2>3, <2>4, <2>5, <2>6 DEF TaskHasOneOwner
<1>10. ASSUME NEW cancelRunning \in CancelArgs, ShutdownBegin(Outside, cancelRunning)
       PROVE  TaskHasOneOwner'
  <2>1. UNCHANGED <<status, queue, entry, wpc>>
    BY <1>10 DEF ShutdownBegin
  <2> QED BY <1>0, <2>1, OwnerUnchanged, Zenon
<1>11. CASE ShutdownNotifyAll
  <2>1. Queued' = Queued
    BY <1>11 DEF ShutdownNotifyAll, Queued
  <2>2. ASSUME NEW w \in Workers
        PROVE  wpc'[w] = wpc[w] \/ (wpc[w] \notin Busy /\ wpc'[w] \notin Busy)
    BY <1>11 DEF ShutdownNotifyAll, TypeOK, Busy
  <2> QED BY <1>11, <2>1, <2>2 DEF ShutdownNotifyAll, TaskHasOneOwner, Busy
<1>12. CASE ShutdownJoin
  <2>1. UNCHANGED <<status, queue, entry, wpc>>
    BY <1>12 DEF ShutdownJoin
  <2> QED BY <1>0, <2>1, OwnerUnchanged, Zenon
<1>13. CASE ShutdownClear
  <2>1. Queued = {} /\ Queued' = {}
    BY <1>13, AllJoined DEF ShutdownClear, Queued
  <2>2. \A w \in Workers : wpc[w] \notin Busy
    BY <1>13, AllJoined DEF ShutdownClear, Busy
  <2> QED BY <1>13, <2>1, <2>2 DEF ShutdownClear, TaskHasOneOwner, TypeOK, Busy
<1> QED
  BY <1>1, <1>2, <1>3, <1>4, <1>5, <1>6, <1>7, <1>8, <1>9, <1>10, <1>11, <1>12,
     <1>13 DEF Next, Submit, WorkerStep, ShutdownStep

-----------------------------------------------------------------------------
\* No step throws an accepted task away.
LEMMA LostStep ==
    ASSUME PoolInv, Next
    PROVE  NothingLost'
<1>1. \A t \in Tasks : status'[t] # "lost"
  <2>0. TypeOK /\ NothingLost /\ PoolCore
    BY DEF PoolInv, PoolCore
  <2>1. ASSUME NEW t \in Tasks, SubmitRefused(t) \/ SubmitAccepted(t)
        PROVE  \A u \in Tasks : status'[u] # "lost"
    BY <2>0, <2>1 DEF SubmitRefused, SubmitAccepted, NothingLost, TypeOK
  <2>2. CASE CancelPending
    BY <2>0, <2>2 DEF CancelPending, NothingLost
  <2>3. ASSUME NEW w \in Workers,
               WorkerPop(w) \/ WorkerSkip(w) \/ WorkerRun(w) \/ BodyReturn(w)
        PROVE  \A u \in Tasks : status'[u] # "lost"
    BY <2>0, <2>3 DEF WorkerPop, WorkerSkip, WorkerRun, BodyReturn, NothingLost, TypeOK
  <2>4. CASE ShutdownClear
    <3>1. Queued = {}
      BY <2>0, <2>4, AllJoined DEF ShutdownClear, Queued
    <3> QED BY <2>0, <2>4, <3>1 DEF ShutdownClear, NothingLost
  <2>5. CASE UNCHANGED status
    BY <2>0, <2>5 DEF NothingLost
  <2>6. \/ \E t \in Tasks : SubmitRefused(t) \/ SubmitAccepted(t)
        \/ CancelPending
        \/ \E w \in Workers :
              WorkerPop(w) \/ WorkerSkip(w) \/ WorkerRun(w) \/ BodyReturn(w)
        \/ ShutdownClear
        \/ UNCHANGED status
    BY DEF Next, Submit, WorkerStep, ShutdownStep, Start, NotifyOne, WorkerWait,
           SpuriousWake, WorkerExit, WorkerRetire, ShutdownBegin, ShutdownNotifyAll,
           ShutdownJoin
  <2> QED BY <2>1, <2>2, <2>3, <2>4, <2>5, <2>6
<1>2. TaskHasOneOwner' /\ ShutdownProgress'
  BY OwnerStep, ProgressStep DEF PoolInv
<1>3. ASSUME spc' = "stopped"
      PROVE  \A t \in Tasks : status'[t] \notin Unfinished
  <2>1. queue' = <<>> /\ \A w \in Workers : wpc'[w] = "none"
    BY <1>2, <1>3 DEF ShutdownProgress
  <2>2. Queued' = {}
    BY <2>1 DEF Queued
  <2> QED BY <1>2, <2>1, <2>2 DEF TaskHasOneOwner, Unfinished
<1> QED BY <1>1, <1>3 DEF NothingLost

\* PoolCore is inductive.
LEMMA PoolCoreStep ==
    ASSUME PoolCore, [Next]_vars
    PROVE  PoolCore'
<1>1. CASE Next
  BY <1>1, TypeStep, CountStep, OwnerStep, ProgressStep, EntryStep DEF PoolCore
<1>2. CASE UNCHANGED vars
  <2>1. UNCHANGED <<status, queue, entry, wpc, active>>
    BY <1>2 DEF vars, work, workers
  <2>2. TaskHasOneOwner'
    BY <2>1, OwnerUnchanged DEF PoolCore
  <2>3. TypeOK'
    BY <1>2 DEF vars, PoolCore, TypeOK
  <2>4. BusyWorkers' = BusyWorkers
    BY <2>1 DEF BusyWorkers
  <2>5. ActiveCountsHolders'
    BY <2>1, <2>4 DEF PoolCore, ActiveCountsHolders
  <2>6. ShutdownProgress' /\ EntryStatus'
    BY <1>2 DEF vars, PoolCore, ShutdownProgress, EntryStatus
  <2> QED BY <2>2, <2>3, <2>5, <2>6, Zenon DEF PoolCore
<1> QED BY <1>1, <1>2

\* PoolInv is inductive.
LEMMA PoolInvStep ==
    ASSUME PoolInv, [Next]_vars
    PROVE  PoolInv'
<1>1. CASE Next
  BY <1>1, PoolCoreStep, LostStep DEF PoolInv
<1>2. CASE UNCHANGED vars
  BY <1>2, PoolCoreStep DEF vars, PoolInv, NothingLost
<1> QED BY <1>1, <1>2

\* The pool keeps PoolInv: the queue never exceeds max_queue_, active_ counts
\* the workers that hold an entry, an accepted task is in exactly one place,
\* and a worker exits only from an empty queue, for any number of threads,
\* tasks and queue slots.
THEOREM PoolSafety == Spec => []PoolInv
<1>1. Init => PoolInv
  BY PoolInit
<1>2. PoolInv /\ [Next]_vars => PoolInv'
  BY PoolInvStep
<1> QED BY <1>1, <1>2, PTL DEF Spec

\* The type invariant of the pool, with the bound that submit() enforces.
THEOREM PoolTypeCorrect == Spec => []TypeOK
<1>1. PoolInv => TypeOK
  BY DEF PoolInv, PoolCore
<1> QED BY <1>1, PoolSafety, PTL

\* active_ is right in every reachable state, so the idle test of drain() can
\* rely on it.
THEOREM PoolCountsActive == Spec => []ActiveCountsHolders
<1>1. PoolInv => ActiveCountsHolders
  BY DEF PoolInv, PoolCore
<1> QED BY <1>1, PoolSafety, PTL

\* No accepted task is queued twice, held by two workers, or misplaced.
THEOREM PoolOwnership == Spec => []TaskHasOneOwner
<1>1. PoolInv => TaskHasOneOwner
  BY DEF PoolInv, PoolCore
<1> QED BY <1>1, PoolSafety, PTL

\* shutdown() never throws away a task that submit() accepted, and leaves none
\* unfinished when it returns.
THEOREM PoolLosesNothing == Spec => []NothingLost
<1>1. PoolInv => NothingLost
  BY DEF PoolInv, PoolCore
<1> QED BY <1>1, PoolSafety, PTL

-----------------------------------------------------------------------------
\* The batch pipeline.

\* A batch that never reaches the pool: refused, or handed to one that is gone.
Mark(t, s) ==
    /\ status[t] = "new" /\ status' = [status EXCEPT ![t] = s]
    /\ UNCHANGED <<flags, work, signals, workers, shutdown>>

Pending == Clients \ Idle

\* A client is about to submit a task that is its own and still new.
BatchesAreNew ==
    /\ \A c \in Clients : batch[c] # NoTask => status[batch[c]] = "new"
    /\ \A b, c \in Clients : batch[b] = batch[c] /\ batch[b] # NoTask => b = c

\* No thread runs before the first start() and after stop(), and only a start()
\* that follows a failed one holds the mutex for several steps.
NoneRuns ==
    /\ state = "Stopped" => ~ running /\ spc \in {"idle", "stopped"}
    /\ generation = 0 => ~ running /\ spc = "idle"
    /\ mutex = "start" => state = "Failed"

PipelineInv == PendingBounded /\ PoolCore /\ BatchesAreNew /\ NoneRuns

-----------------------------------------------------------------------------
\* A pool that runs no thread holds no task.
LEMMA IdlePoolIsQuiet ==
    ASSUME PoolCore, ~ running, spc \in {"idle", "stopped"}
    PROVE  active = 0 /\ \A t \in Tasks : status[t] \notin Unfinished
<1>1. queue = <<>> /\ \A w \in Workers : wpc[w] = "none"
  BY DEF PoolCore, ShutdownProgress
<1>2. Queued = {} /\ BusyWorkers = {}
  BY <1>1 DEF Queued, BusyWorkers, Busy
<1>3. active = 0
  BY <1>2, FS_EmptySet DEF PoolCore, ActiveCountsHolders
<1>4. \A t \in Tasks : status[t] \notin Unfinished
  BY <1>1, <1>2 DEF PoolCore, TaskHasOneOwner, Unfinished
<1> QED
  BY <1>3, <1>4

\* A worker that has popped a task holds one of the tasks, not yet finished.
LEMMA HolderFacts ==
    ASSUME TypeOK, TaskHasOneOwner, EntryStatus, NEW w \in Workers,
           wpc[w] \in {"popped", "body"}
    PROVE  entry[w] \in Tasks /\ status[entry[w]] \in {"held", "body"}
<1>1. entry[w] \in Tasks \cup {NoTask}
  BY DEF TypeOK
<1>2. entry[w] # NoTask
  BY DEF TaskHasOneOwner, Busy
<1>3. status[entry[w]] \in {"held", "body"}
  BY DEF EntryStatus
<1> QED
  BY <1>1, <1>2, <1>3

\* Marking a task leaves the pool as it is.
LEMMA MarkStep ==
    ASSUME PoolCore, NEW t \in Tasks, NEW s \in {"refused", "lost"}, Mark(t, s)
    PROVE  PoolCore'
<1>0. TypeOK /\ ActiveCountsHolders /\ TaskHasOneOwner /\ ShutdownProgress /\ EntryStatus
  BY DEF PoolCore
<1>a. /\ status[t] = "new" /\ status' = [status EXCEPT ![t] = s]
      /\ UNCHANGED <<running, accepting, queue, active, cancelled, wpc, entry, signals, spc,
                     joining, caller>>
  BY DEF Mark, flags, work, workers, shutdown
<1>1. TypeOK'
  BY <1>0, <1>a DEF TypeOK, Statuses
<1>2. BusyWorkers' = BusyWorkers /\ Queued' = Queued
  BY <1>a DEF BusyWorkers, Queued
<1>3. ActiveCountsHolders' /\ ShutdownProgress'
  BY <1>0, <1>2, <1>a DEF ActiveCountsHolders, ShutdownProgress
<1>4. \A u \in Tasks : status'[u] = IF u = t THEN s ELSE status[u]
  BY <1>0, <1>a DEF TypeOK
<1>5. TaskHasOneOwner'
  <2>1. /\ \A u \in Tasks : status[u] = "queued" <=> u \in Queued
        /\ \A u \in Tasks : status[u] \in {"held", "body"} =>
              \E w \in Workers : entry[w] = u /\ wpc[w] \in {"popped", "body"}
    BY <1>0, Zenon DEF TaskHasOneOwner
  <2>2. /\ status[t] = "new" /\ entry' = entry /\ wpc' = wpc /\ queue' = queue
        /\ s \in {"refused", "lost"}
    BY <1>a
  <2>3. \A u \in Tasks : status'[u] = "queued" <=> u \in Queued'
    BY <1>2, <1>4, <2>1, <2>2
  <2>4. \A u \in Tasks : status'[u] \in {"held", "body"} =>
          \E w \in Workers : entry'[w] = u /\ wpc'[w] \in {"popped", "body"}
    BY <1>4, <2>1, <2>2
  <2> QED
    BY <1>0, <2>2, <2>3, <2>4 DEF TaskHasOneOwner
<1>6. \A w \in Workers : wpc[w] \in Busy => entry[w] \in Tasks /\ entry[w] # t
  <2>1. \A w \in Workers : entry[w] \in Tasks \cup {NoTask}
    BY <1>0 DEF TypeOK
  <2>2. \A w \in Workers : wpc[w] \in Busy => entry[w] # NoTask
    BY <1>0, Zenon DEF TaskHasOneOwner
  <2>3. \A w \in Workers : wpc[w] \in Busy => status[entry[w]] # "new"
    BY <1>0, <1>a DEF EntryStatus, Busy
  <2> QED
    BY <1>a, <2>1, <2>2, <2>3
<1>7. EntryStatus'
  BY <1>0, <1>4, <1>6, <1>a DEF EntryStatus, Busy
<1> QED
  BY <1>1, <1>3, <1>5, <1>7 DEF PoolCore

\* Every step is one of the pool, or marks a task, or leaves the pool alone.
LEMMA PoolOrMark ==
    ASSUME PipelineInv, [PipelineNext]_allVars
    PROVE  [Next]_vars \/ \E t \in Tasks, s \in {"refused", "lost"} : Mark(t, s)
<1> USE DEF flags, work, workers, shutdown
<1>1. CASE RestartBegin \/ StopPool
  BY <1>1, PipelineAssumption DEF RestartBegin, StopPool, Next
<1>2. CASE RuntimeStart
  BY <1>2 DEF RuntimeStart, Next
<1>3. CASE StopBegin \/ StopEnd \/ DrainLock \/ DrainStep \/ UNCHANGED allVars
  BY <1>3 DEF StopBegin, StopEnd, DrainLock, DrainStep, DrainUnlock, DrainFirst, DrainSecond,
              DrainDangling, allVars
<1>4. ASSUME NEW c \in Clients, NEW t \in Tasks, SubmitBatchRefused(c, t)
      PROVE  Mark(t, "refused")
  BY <1>4 DEF SubmitBatchRefused, Unsubmitted, Mark
<1>5. ASSUME NEW c \in Clients, NEW t \in Tasks, SubmitBatchChecked(c, t)
      PROVE  UNCHANGED vars
  BY <1>5 DEF SubmitBatchChecked
<1>6. ASSUME NEW c \in Clients, SubmitBatchSubmit(c)
      PROVE  Next
  BY <1>6 DEF SubmitBatchSubmit, Idle, PipelineInv, PendingBounded, PipelineTypeOK, Next
<1>7. ASSUME NEW c \in Clients, SubmitBatchDangling(c)
      PROVE  batch[c] \in Tasks /\ Mark(batch[c], "lost")
  BY <1>7 DEF SubmitBatchDangling, Idle, PipelineInv, PendingBounded, PipelineTypeOK,
              BatchesAreNew, Mark
<1>8. ASSUME NEW w \in Workers, PipelineWorker(w)
      PROVE  Next
  BY <1>8 DEF PipelineWorker, Next
<1>9. CASE PoolStep
  BY <1>9 DEF PoolStep, Next
<1> QED
  BY <1>1, <1>2, <1>3, <1>4, <1>5, <1>6, <1>7, <1>8, <1>9 DEF PipelineNext

\* So the pool keeps its invariant.
LEMMA PipelineKeepsPool ==
    ASSUME PipelineInv, [PipelineNext]_allVars
    PROVE  PoolCore'
  BY PoolOrMark, MarkStep, PoolCoreStep DEF PipelineInv

\* What a step of the pool does to the status of a task: a task that is no
\* longer new never is again, nor queued again, nor taken up once it is finished.
Moves ==
    \A t \in Tasks :
        \/ status'[t] = status[t]
        \/ status[t] = "new"
        \/ status[t] \in Unfinished /\ status'[t] \notin {"new", "queued"}

\* Every step of the pool moves tasks so,
LEMMA PoolMoves ==
    ASSUME PoolCore, [Next]_vars
    PROVE  Moves
<1>0. TypeOK /\ TaskHasOneOwner /\ EntryStatus
  BY DEF PoolCore
<1>1. CASE UNCHANGED status
  BY <1>1 DEF Moves
<1>2. ASSUME NEW t \in Tasks, SubmitRefused(t) \/ SubmitAccepted(t)
      PROVE  Moves
  BY <1>0, <1>2 DEF SubmitRefused, SubmitAccepted, TypeOK, Moves
<1>3. CASE CancelPending
  BY <1>0, <1>3 DEF CancelPending, TaskHasOneOwner, Unfinished, Moves
<1>4. ASSUME NEW w \in Workers, WorkerPop(w)
      PROVE  Moves
  <2>1. Head(queue) \in Tasks /\ status[Head(queue)] = "queued"
    BY <1>0, <1>4, TailFacts DEF WorkerPop, TypeOK, TaskHasOneOwner, Queued
  <2> QED
    BY <1>0, <1>4, <2>1 DEF WorkerPop, TypeOK, Unfinished, Moves
<1>5. ASSUME NEW w \in Workers, WorkerSkip(w) \/ WorkerRun(w) \/ BodyReturn(w)
      PROVE  Moves
  <2>1. entry[w] \in Tasks /\ status[entry[w]] \in {"held", "body"}
    BY <1>0, <1>5, HolderFacts DEF WorkerSkip, WorkerRun, BodyReturn
  <2>2. \E s \in {"skipped", "body", "executed"} : status' = [status EXCEPT ![entry[w]] = s]
    BY <1>5 DEF WorkerSkip, WorkerRun, BodyReturn
  <2>3. status \in [Tasks -> Statuses]
    BY <1>0 DEF TypeOK
  <2> QED
    BY <2>1, <2>2, <2>3 DEF Unfinished, Moves
<1>6. CASE ShutdownClear
  BY <1>0, <1>6 DEF ShutdownClear, TaskHasOneOwner, Unfinished, Moves
<1>7. \/ \E t \in Tasks : SubmitRefused(t) \/ SubmitAccepted(t)
      \/ CancelPending
      \/ \E w \in Workers : WorkerPop(w)
      \/ \E w \in Workers : WorkerSkip(w) \/ WorkerRun(w) \/ BodyReturn(w)
      \/ ShutdownClear
      \/ UNCHANGED status
  BY DEF Next, Submit, WorkerStep, ShutdownStep, Start, NotifyOne, WorkerWait,
         SpuriousWake, WorkerExit, WorkerRetire, ShutdownBegin, ShutdownNotifyAll,
         ShutdownJoin, vars
<1> QED
  BY <1>1, <1>2, <1>3, <1>4, <1>5, <1>6, <1>7

\* and every step of the runtime.
LEMMA PipelineMoves ==
    ASSUME PipelineInv, [PipelineNext]_allVars
    PROVE  Moves
<1>1. ASSUME NEW t \in Tasks, NEW s \in {"refused", "lost"}, Mark(t, s)
      PROVE  Moves
  BY <1>1 DEF Mark, Moves, PipelineInv, PoolCore, TypeOK
<1> QED
  BY <1>1, PoolOrMark, PoolMoves DEF PipelineInv

-----------------------------------------------------------------------------
\* The first state.
LEMMA PipelineStarts == PipelineInit => PipelineInv
<1> SUFFICES ASSUME PipelineInit PROVE PipelineInv
  OBVIOUS
<1>1. PoolCore /\ TypeOK
  BY PoolInit DEF PipelineInit, PoolInv, PoolCore
<1>2. PipelineTypeOK
  <2>0. MaxGenerations \in Nat
    BY PipelineAssumption
  <2>1. 0 \in 0..MaxGenerations
    BY <2>0
  <2>2. batch \in [Clients -> Tasks \cup {NoTask}] /\ before \subseteq Tasks
    BY DEF PipelineInit
  <2>3. /\ pointer \in [Clients -> 1..MaxGenerations \cup {NoPool}]
        /\ dpointer \in 1..MaxGenerations \cup {NoPool}
    BY DEF PipelineInit
  <2>4. /\ state = "Created" /\ mutex = "free" /\ generation = 0 /\ dpc = "idle" /\ first = 0
    BY DEF PipelineInit
  <2> HIDE DEF PipelineInit
  <2> QED
    BY <1>1, <2>1, <2>2, <2>3, <2>4 DEF PipelineTypeOK
<1>3. Len(queue) + Cardinality(Pending) < MaxPending + Cardinality(Clients)
  <2>1. Pending = {} /\ queue = <<>>
    BY DEF PipelineInit, Init, Pending, Idle
  <2>2. Cardinality(Pending) = 0 /\ Len(queue) = 0
    BY <2>1, FS_EmptySet
  <2>3. Cardinality(Clients) \in Nat /\ MaxPending \in Nat \ {0}
    BY PipelineAssumption, FS_CardinalityType
  <2> QED
    BY <2>2, <2>3
<1>4. BatchesAreNew /\ NoneRuns
  BY DEF PipelineInit, Init, BatchesAreNew, NoneRuns
<1> QED
  BY <1>1, <1>2, <1>3, <1>4 DEF PipelineInv, PendingBounded, Pending

\* Every step keeps what a client is about to submit its own.
LEMMA BatchesStep ==
    ASSUME PipelineInv, [PipelineNext]_allVars
    PROVE  BatchesAreNew'
<1>0. /\ BatchesAreNew /\ PoolCore /\ TypeOK /\ EntryStatus /\ TaskHasOneOwner
      /\ batch \in [Clients -> Tasks \cup {NoTask}] /\ status \in [Tasks -> Statuses]
  BY DEF PipelineInv, PoolCore, PendingBounded, PipelineTypeOK, TypeOK
<1>1. ASSUME UNCHANGED batch, \A t \in Tasks : status[t] = "new" => status'[t] = "new"
      PROVE  BatchesAreNew'
  BY <1>0, <1>1 DEF BatchesAreNew
<1>2. CASE UNCHANGED <<batch, status>>
  BY <1>1, <1>2
<1>3. CASE RestartBegin \/ RuntimeStart \/ StopBegin \/ StopPool \/ StopEnd \/ DrainLock
           \/ DrainStep \/ UNCHANGED allVars
  BY <1>2, <1>3 DEF RestartBegin, RuntimeStart, StopBegin, StopPool, StopEnd, DrainLock, DrainStep,
         DrainUnlock, DrainFirst, DrainSecond, DrainDangling, ShutdownBegin, Start, allVars, vars,
         client
<1>4. ASSUME NEW c \in Clients, NEW t \in Tasks, SubmitBatchRefused(c, t)
      PROVE  BatchesAreNew'
  BY <1>0, <1>4 DEF SubmitBatchRefused, Unsubmitted, BatchesAreNew, client
<1>5. ASSUME NEW c \in Clients, NEW t \in Tasks, SubmitBatchChecked(c, t)
      PROVE  BatchesAreNew'
  BY <1>0, <1>5, PoolAssumption DEF SubmitBatchChecked, Unsubmitted, BatchesAreNew, vars
<1>6. ASSUME NEW c \in Clients, SubmitBatchSubmit(c) \/ SubmitBatchDangling(c)
      PROVE  BatchesAreNew'
  <2>1. batch[c] \in Tasks /\ batch' = [batch EXCEPT ![c] = NoTask]
    BY <1>0, <1>6 DEF SubmitBatchSubmit, SubmitBatchDangling, Idle
  <2>2. \A t \in Tasks : t # batch[c] => status'[t] = status[t]
    BY <1>0, <1>6, <2>1
    DEF SubmitBatchSubmit, SubmitBatchDangling, Submit, SubmitRefused, SubmitAccepted
  <2> QED
    BY <1>0, <2>1, <2>2 DEF BatchesAreNew
<1>7. ASSUME NEW w \in Workers, WorkerStep(w), UNCHANGED client
      PROVE  BatchesAreNew'
  <2>1. CASE WorkerPop(w)
    <3>1. Head(queue) \in Tasks /\ status[Head(queue)] = "queued"
      BY <1>0, <2>1, TailFacts DEF WorkerPop, TypeOK, TaskHasOneOwner, Queued
    <3>2. status' = [status EXCEPT ![Head(queue)] = "held"] /\ UNCHANGED batch
      BY <1>7, <2>1 DEF WorkerPop, client
    <3>3. \A t \in Tasks : status[t] = "new" => status'[t] = "new"
      BY <1>0, <3>1, <3>2
    <3> QED
      BY <1>1, <3>2, <3>3
  <2>2. CASE WorkerSkip(w) \/ WorkerRun(w) \/ BodyReturn(w)
    <3>1. entry[w] \in Tasks /\ status[entry[w]] \in {"held", "body"}
      BY <1>0, <2>2, HolderFacts DEF WorkerSkip, WorkerRun, BodyReturn
    <3>2. \E s \in {"skipped", "body", "executed"} : status' = [status EXCEPT ![entry[w]] = s]
      BY <2>2 DEF WorkerSkip, WorkerRun, BodyReturn
    <3>3. \A t \in Tasks : status[t] = "new" => status'[t] = "new"
      BY <1>0, <3>1, <3>2
    <3>4. UNCHANGED batch
      BY <1>7 DEF client
    <3> QED
      BY <1>1, <3>3, <3>4
  <2>3. CASE WorkerWait(w) \/ WorkerExit(w) \/ WorkerRetire(w)
    BY <1>2, <1>7, <2>3 DEF WorkerWait, WorkerExit, WorkerRetire, client
  <2> QED
    BY <1>7, <2>1, <2>2, <2>3 DEF WorkerStep
<1>8. CASE PoolStep
  <2>0. UNCHANGED batch
    BY <1>8 DEF PoolStep, client
  <2>1. CASE NotifyOne \/ \E w \in Workers : SpuriousWake(w)
    BY <1>2, <2>0, <2>1 DEF NotifyOne, SpuriousWake
  <2>2. CASE ShutdownNotifyAll \/ ShutdownJoin
    BY <1>2, <2>0, <2>2 DEF ShutdownNotifyAll, ShutdownJoin
  <2>3. CASE ShutdownClear
    <3>1. \A t \in Tasks : t \in Queued => status[t] # "new"
      BY <1>0, Zenon DEF TaskHasOneOwner
    <3>2. status' = [t \in Tasks |-> IF t \in Queued THEN "lost" ELSE status[t]]
      BY <2>3 DEF ShutdownClear
    <3> QED
      BY <1>1, <2>0, <3>1, <3>2
  <2> QED
    BY <1>8, <2>1, <2>2, <2>3 DEF PoolStep, ShutdownStep
<1>9. ASSUME NEW w \in Workers, PipelineWorker(w)
      PROVE  BatchesAreNew'
  BY <1>7, <1>9 DEF PipelineWorker
<1> QED
  BY <1>3, <1>4, <1>5, <1>6, <1>8, <1>9 DEF PipelineNext

\* A step of the pool that is none of its clients': the queue gets no longer,
\* and nothing runs that did not.
LEMMA PoolAlone ==
    ASSUME PoolCore,
           PoolStep \/ \E w \in Workers : PipelineWorker(w)
    PROVE  /\ Len(queue') <= Len(queue) /\ running' = running
           /\ spc \in {"idle", "stopped"} => spc' = spc
           /\ UNCHANGED <<runtime, client, drain>>
<1>0. TypeOK
  BY DEF PoolCore
<1> USE <1>0 DEF flags, work, workers, shutdown
<1>1. Len(queue) \in Nat /\ Len(<<>>) = 0
  BY DEF TypeOK
<1>2. CASE PoolStep
  <2>0. UNCHANGED <<runtime, client, drain>>
    BY <1>2 DEF PoolStep
  <2>1. CASE NotifyOne \/ \E w \in Workers : SpuriousWake(w)
    <3>1. queue' = queue /\ running' = running /\ spc' = spc
      BY <2>1 DEF NotifyOne, SpuriousWake
    <3> QED
      BY <1>1, <2>0, <3>1
  <2>2. CASE ShutdownNotifyAll \/ ShutdownJoin
    <3>1. queue' = queue /\ running' = running /\ spc \notin {"idle", "stopped"}
      BY <2>2 DEF ShutdownNotifyAll, ShutdownJoin
    <3> QED
      BY <1>1, <2>0, <3>1
  <2>3. CASE ShutdownClear
    <3>1. queue' = <<>> /\ running' = running /\ spc \notin {"idle", "stopped"}
      BY <2>3 DEF ShutdownClear
    <3> QED
      BY <1>1, <2>0, <3>1
  <2> QED
    BY <1>2, <2>1, <2>2, <2>3 DEF PoolStep, ShutdownStep
<1>3. ASSUME NEW w \in Workers, PipelineWorker(w)
      PROVE  /\ Len(queue') <= Len(queue) /\ running' = running /\ spc' = spc
             /\ UNCHANGED <<runtime, client, drain>>
  <2>0. UNCHANGED <<runtime, client, drain>>
    BY <1>3 DEF PipelineWorker
  <2>1. CASE WorkerPop(w)
    <3>1. Len(Tail(queue)) = Len(queue) - 1
      BY <2>1, TailFacts DEF WorkerPop, TypeOK
    <3>2. queue' = Tail(queue) /\ running' = running /\ spc' = spc
      BY <2>1 DEF WorkerPop
    <3> QED
      BY <1>1, <2>0, <3>1, <3>2
  <2>2. CASE WorkerWait(w) \/ WorkerExit(w) \/ WorkerRetire(w)
    <3>1. queue' = queue /\ running' = running /\ spc' = spc
      BY <2>2 DEF WorkerWait, WorkerExit, WorkerRetire
    <3> QED
      BY <1>1, <2>0, <3>1
  <2>3. CASE WorkerSkip(w) \/ WorkerRun(w) \/ BodyReturn(w)
    <3>1. queue' = queue /\ running' = running /\ spc' = spc
      BY <2>3 DEF WorkerSkip, WorkerRun, BodyReturn
    <3> QED
      BY <1>1, <2>0, <3>1
  <2> QED
    BY <1>3, <2>1, <2>2, <2>3 DEF PipelineWorker, WorkerStep
<1> QED
  BY <1>2, <1>3

\* drain() changes nothing but its own variables and the mutex.
LEMMA DrainAlone ==
    ASSUME DrainLock \/ DrainStep \/ UNCHANGED allVars
    PROVE  UNCHANGED <<vars, runtime, client>> /\ mutex' \in {mutex, "free", "drain"}
<1>1. CASE DrainLock \/ UNCHANGED allVars
  BY <1>1 DEF DrainLock, allVars, drain
<1>2. CASE DrainUnlock \/ DrainDangling
  BY <1>2 DEF DrainUnlock, DrainDangling
<1>3. ASSUME NEW order \in Orders, DrainFirst(order)
      PROVE  UNCHANGED <<vars, runtime, client, mutex>>
  BY <1>3 DEF DrainFirst
<1>4. CASE DrainSecond
  BY <1>4 DEF DrainSecond
<1> QED
  BY <1>1, <1>2, <1>3, <1>4 DEF DrainStep

\* Every step keeps NoneRuns.
LEMMA NoneRunsStep ==
    ASSUME PipelineInv, [PipelineNext]_allVars
    PROVE  NoneRuns'
<1>0. NoneRuns /\ PoolCore /\ generation \in Nat
  <2>1. generation \in 0..MaxGenerations /\ MaxGenerations \in Nat
    BY PipelineAssumption DEF PipelineInv, PendingBounded, PipelineTypeOK
  <2>2. generation \in Nat
    BY <2>1
  <2> QED
    BY <2>2 DEF PipelineInv
<1> USE <1>0 DEF NoneRuns, runtime, client, drain
<1>1. CASE RestartBegin \/ StopPool
  BY <1>1 DEF RestartBegin, StopPool, ShutdownBegin
<1>2. CASE RuntimeStart
  BY <1>2 DEF RuntimeStart, Start
<1>3. CASE StopBegin
  BY <1>3 DEF StopBegin, vars
<1>4. CASE StopEnd
  <2>1. ~ running /\ spc \in {"idle", "stopped"}
    BY <1>4 DEF StopEnd, PoolCore, ShutdownProgress
  <2> QED
    BY <1>4, <2>1 DEF StopEnd, vars
<1>5. CASE DrainLock \/ DrainStep \/ UNCHANGED allVars
  BY <1>5, DrainAlone DEF vars
<1>6. ASSUME NEW c \in Clients, NEW t \in Tasks,
             SubmitBatchRefused(c, t) \/ SubmitBatchChecked(c, t)
      PROVE  NoneRuns'
  <2>1. UNCHANGED <<running, spc, state, generation, mutex>>
    BY <1>6 DEF SubmitBatchRefused, SubmitBatchChecked, vars, flags, shutdown
  <2> QED
    BY <2>1
<1>7. ASSUME NEW c \in Clients, SubmitBatchSubmit(c) \/ SubmitBatchDangling(c)
      PROVE  NoneRuns'
  <2>1. UNCHANGED <<runtime, drain>>
    BY <1>7 DEF SubmitBatchSubmit, SubmitBatchDangling
  <2>2. CASE SubmitBatchSubmit(c)
    <3>1. SubmitRefused(batch[c]) \/ SubmitAccepted(batch[c])
      BY <2>2 DEF SubmitBatchSubmit, Submit
    <3>2. UNCHANGED <<running, spc>>
      BY <3>1 DEF SubmitRefused, SubmitAccepted, flags, shutdown
    <3> QED
      BY <2>1, <3>2
  <2>3. CASE SubmitBatchDangling(c)
    <3>1. UNCHANGED <<running, spc>>
      BY <2>3 DEF SubmitBatchDangling, flags, shutdown
    <3> QED
      BY <2>1, <3>1
  <2> QED
    BY <1>7, <2>2, <2>3
<1>8. CASE PoolStep \/ \E w \in Workers : PipelineWorker(w)
  BY <1>8, PoolAlone
<1> QED
  BY <1>1, <1>2, <1>3, <1>4, <1>5, <1>6, <1>7, <1>8 DEF PipelineNext

\* Every variable of the runtime keeps its type.
LEMMA PipelineTypeStep ==
    ASSUME PipelineInv, [PipelineNext]_allVars
    PROVE  PipelineTypeOK'
<1>0. PipelineTypeOK /\ PoolCore /\ TypeOK'
  BY PipelineKeepsPool DEF PipelineInv, PendingBounded, PoolCore
<1>1. generation \in 0..MaxGenerations /\ MaxGenerations \in Nat
  BY <1>0, PipelineAssumption DEF PipelineTypeOK
<1>2. Pool \in 1..MaxGenerations \cup {NoPool}
  BY <1>1 DEF Pool
<1>3. Len(queue) \in Nat /\ active \in Nat
  BY <1>0 DEF PipelineTypeOK, TypeOK
<1>4. CASE RestartBegin \/ StopBegin \/ StopPool \/ StopEnd
  BY <1>0, <1>4 DEF RestartBegin, StopBegin, StopPool, StopEnd, PipelineTypeOK, runtime, client,
                    drain
<1>5. CASE RuntimeStart
  <2>1. generation' \in 0..MaxGenerations
    BY <1>1, <1>5 DEF RuntimeStart
  <2> QED
    BY <1>0, <1>5, <2>1 DEF RuntimeStart, PipelineTypeOK, client
<1>6. ASSUME NEW c \in Clients, NEW t \in Tasks,
             SubmitBatchRefused(c, t) \/ SubmitBatchChecked(c, t)
      PROVE  PipelineTypeOK'
  BY <1>0, <1>2, <1>6
  DEF SubmitBatchRefused, SubmitBatchChecked, PipelineTypeOK, runtime, client, drain
<1>7. ASSUME NEW c \in Clients, SubmitBatchSubmit(c) \/ SubmitBatchDangling(c)
      PROVE  PipelineTypeOK'
  BY <1>0, <1>7 DEF SubmitBatchSubmit, SubmitBatchDangling, PipelineTypeOK, runtime, drain
<1>8. CASE DrainLock \/ DrainStep \/ UNCHANGED allVars
  <2>1. UNCHANGED <<vars, runtime, client>> /\ mutex' \in {"free", "drain", "start"}
    BY <1>0, <1>8, DrainAlone DEF PipelineTypeOK
  <2>2. /\ dpc' \in {"idle", "locked", "first", "returned"} \cup Orders
        /\ dpointer' \in 1..MaxGenerations \cup {NoPool}
        /\ first' \in Nat /\ before' \subseteq Tasks
    <3>1. CASE DrainLock \/ UNCHANGED allVars
      BY <1>0, <3>1 DEF DrainLock, allVars, drain, PipelineTypeOK
    <3>2. CASE DrainUnlock \/ DrainDangling
      <4>1. /\ dpc' \in {"first", "returned"} /\ dpointer' \in {dpointer, Pool}
            /\ first' \in {first, 0} /\ before' = before
        BY <3>2 DEF DrainUnlock, DrainDangling
      <4> QED
        BY <1>0, <1>2, <4>1 DEF PipelineTypeOK
    <3>3. ASSUME NEW order \in Orders, DrainFirst(order)
          PROVE  first' \in Nat /\ dpc' \in Orders /\ UNCHANGED <<dpointer, before>>
      BY <1>3, <3>3 DEF DrainFirst
    <3>4. CASE DrainSecond
      <4>1. dpc' \in {"first", "returned"} /\ first' = 0 /\ UNCHANGED <<dpointer, before>>
        BY <3>4 DEF DrainSecond
      <4> QED
        BY <1>0, <4>1 DEF PipelineTypeOK
    <3> QED
      BY <1>0, <1>8, <3>1, <3>2, <3>3, <3>4 DEF DrainStep, PipelineTypeOK
  <2> QED
    BY <1>0, <2>1, <2>2 DEF PipelineTypeOK, runtime, client
<1>9. CASE PoolStep \/ \E w \in Workers : PipelineWorker(w)
  <2>1. UNCHANGED <<runtime, client, drain>>
    BY <1>0, <1>9, PoolAlone
  <2> QED
    BY <1>0, <2>1 DEF PipelineTypeOK, runtime, client, drain
<1> QED
  BY <1>4, <1>5, <1>6, <1>7, <1>8, <1>9 DEF PipelineNext

\* Room in the queue when it gets no longer, when a client is let through and
\* when a client appends.
LEMMA RoomFacts ==
    ASSUME NEW m \in Nat, NEW n \in Nat, NEW l \in Nat, NEW p \in Nat,
           NEW k \in Nat, NEW q \in Nat
    PROVE  /\ l + p < m + n /\ k <= l /\ q = p => k + q < m + n
           /\ k = l /\ l < m /\ q <= n => k + q < m + n
           /\ l + p < m + n /\ k <= l + 1 /\ q = p - 1 => k + q < m + n
  OBVIOUS

\* What submit_batch() checks, and what it is about to append, bound the queue.
LEMMA BoundStep ==
    ASSUME PipelineInv, [PipelineNext]_allVars
    PROVE  (Len(queue) + Cardinality(Pending) < MaxPending + Cardinality(Clients))'
<1> DEFINE l == Len(queue)
           p == Cardinality(Pending)
           n == Cardinality(Clients)
<1>0. /\ PipelineTypeOK /\ PoolCore /\ TypeOK /\ TypeOK'
      /\ batch \in [Clients -> Tasks \cup {NoTask}] /\ queue \in Seq(Tasks)
  BY PipelineKeepsPool DEF PipelineInv, PendingBounded, PoolCore, PipelineTypeOK, TypeOK
<1>1. IsFiniteSet(Clients) /\ n \in Nat /\ MaxPending \in Nat
  BY PipelineAssumption, FS_CardinalityType
<1>2. IsFiniteSet(Pending) /\ p \in Nat /\ p <= n
  BY <1>1, FS_Subset, FS_CardinalityType DEF Pending
<1>3. IsFiniteSet(Pending') /\ p' \in Nat /\ p' <= n
  BY <1>1, FS_Subset, FS_CardinalityType DEF Pending
<1>4. l \in Nat /\ l' \in Nat
  BY <1>0 DEF TypeOK
<1>5. l + p < MaxPending + n
  BY DEF PipelineInv, PendingBounded, Pending
<1>6. ASSUME UNCHANGED batch PROVE p' = p
  BY <1>6 DEF Pending, Idle
<1> SUFFICES l' + p' < MaxPending + n
  OBVIOUS
<1>7. ASSUME l' <= l, UNCHANGED batch PROVE l' + p' < MaxPending + n
  <2>1. p' = p
    BY <1>6, <1>7
  <2> QED
    BY <1>1, <1>2, <1>3, <1>4, <1>5, <1>7, <2>1, RoomFacts, Zenon
<1>8. CASE RestartBegin \/ RuntimeStart \/ StopBegin \/ StopPool \/ StopEnd
  <2>1. UNCHANGED <<queue, batch>>
    BY <1>8 DEF RestartBegin, RuntimeStart, StopBegin, StopPool, StopEnd, ShutdownBegin, Start,
                client, vars, work
  <2> QED
    BY <1>4, <1>7, <2>1
<1>9. CASE DrainLock \/ DrainStep \/ UNCHANGED allVars
  <2>1. UNCHANGED <<queue, batch>>
    BY <1>9, DrainAlone DEF vars, client
  <2> QED
    BY <1>4, <1>7, <2>1
<1>10. CASE PoolStep \/ \E w \in Workers : PipelineWorker(w)
  <2>1. l' <= l /\ UNCHANGED batch
    BY <1>0, <1>10, PoolAlone DEF client
  <2> QED
    BY <1>7, <2>1
<1>11. ASSUME NEW c \in Clients, NEW t \in Tasks, SubmitBatchRefused(c, t)
       PROVE  l' + p' < MaxPending + n
  <2>1. UNCHANGED <<queue, batch>>
    BY <1>11 DEF SubmitBatchRefused, work, client
  <2> QED
    BY <1>4, <1>7, <2>1
<1>12. ASSUME NEW c \in Clients, NEW t \in Tasks, SubmitBatchChecked(c, t)
       PROVE  l' + p' < MaxPending + n
  <2>1. l' = l /\ l < MaxPending
    BY <1>12 DEF SubmitBatchChecked, vars
  <2> QED
    BY <1>1, <1>2, <1>3, <1>4, <2>1, RoomFacts, Zenon
<1>13. ASSUME NEW c \in Clients, SubmitBatchSubmit(c) \/ SubmitBatchDangling(c)
       PROVE  l' + p' < MaxPending + n
  <2>1. c \in Pending /\ Pending' = Pending \ {c}
    BY <1>0, <1>13 DEF SubmitBatchSubmit, SubmitBatchDangling, Pending, Idle
  <2>2. p' = p - 1
    BY <1>2, <2>1, FS_RemoveElement
  <2>3. queue' = queue \/ queue' = Append(queue, batch[c])
    BY <1>13 DEF SubmitBatchSubmit, SubmitBatchDangling, Submit, SubmitRefused, SubmitAccepted,
                 work
  <2>4. batch[c] \in Tasks
    BY <1>0, <2>1 DEF Pending, Idle
  <2>5. l' <= l + 1
    BY <1>0, <1>4, <2>3, <2>4, AppendFacts
  <2> QED
    BY <1>1, <1>2, <1>3, <1>4, <1>5, <2>2, <2>5, RoomFacts, Zenon
<1> QED
  BY <1>8, <1>9, <1>10, <1>11, <1>12, <1>13 DEF PipelineNext

\* PipelineInv is inductive.
LEMMA PipelineStep == PipelineInv /\ [PipelineNext]_allVars => PipelineInv'
<1> SUFFICES ASSUME PipelineInv, [PipelineNext]_allVars PROVE PipelineInv'
  OBVIOUS
<1>1. PendingBounded'
  BY PipelineTypeStep, BoundStep DEF PendingBounded, Pending
<1> QED
  BY <1>1, PipelineKeepsPool, BatchesStep, NoneRunsStep DEF PipelineInv

\* It holds in every state.
LEMMA PipelineSafety == PipelineSpec => []PipelineInv
  BY PipelineStarts, PipelineStep, PTL DEF PipelineSpec

\* The queue outgrows kMaxPendingBatches by less than a batch for each client,
\* although submit_batch() checks the limit and appends in different critical
\* sections.
THEOREM PipelineIsBounded == PipelineSpec => []PendingBounded
<1>1. PipelineInv => PendingBounded
  BY DEF PipelineInv
<1> QED
  BY <1>1, PipelineSafety, PTL

\* When stop() has returned every accepted batch has been executed and no
\* thread of the pool holds one.
THEOREM StopIsQuiet == PipelineSpec => []StoppedIsQuiet
<1>1. PipelineInv => StoppedIsQuiet
  BY IdlePoolIsQuiet DEF PipelineInv, NoneRuns, StoppedIsQuiet
<1> QED
  BY <1>1, PipelineSafety, PTL

-----------------------------------------------------------------------------
\* drain(), when pending() is the operand that is evaluated first.  A batch
\* leaves the queue and enters active() in one critical section, so a batch that
\* was not queued at the first read is running or finished at the second.  A
\* pool that start() has replaced had finished every batch.
DrainInv ==
    /\ \A t \in before : status[t] # "new"
    /\ dpc = "pending first" /\ first = 0 => \A t \in before : status[t] # "queued"
    /\ dpc \in {"first", "pending first"} /\ dpointer # Pool =>
          \A t \in before : status[t] \notin Unfinished
    /\ DrainComplete

\* Two counts that add up to nothing.
LEMMA NothingCounted ==
    ASSUME NEW a \in Nat, NEW b \in Nat, a + b = 0
    PROVE  a = 0 /\ b = 0
  OBVIOUS

\* A null pool pointer means that start() has made no pool.
LEMMA NoPoolYet ==
    ASSUME PipelineTypeOK, Pool = NoPool
    PROVE  generation = 0
<1>1. generation \in 0..MaxGenerations /\ MaxGenerations \in Nat
  BY PipelineAssumption DEF PipelineTypeOK
<1>2. generation # 0 => generation \in 1..MaxGenerations
  BY <1>1
<1> QED
  BY <1>2, PipelineAssumption, Zenon DEF Pool

\* An empty queue means that no task is queued.
LEMMA NoneQueued ==
    ASSUME PoolCore
    PROVE  Len(queue) = 0 => \A t \in Tasks : status[t] # "queued"
<1>1. queue \in Seq(Tasks)
  BY DEF PoolCore, TypeOK
<1>2. Len(queue) = 0 => Queued = {}
  BY <1>1 DEF Queued
<1> QED
  BY <1>2 DEF PoolCore, TaskHasOneOwner

\* An idle counter means that no thread holds a task.
LEMMA NoneActive ==
    ASSUME PoolCore, active = 0
    PROVE  \A t \in Tasks : status[t] \notin {"held", "body"}
<1>1. BusyWorkers = {}
  BY BusyFinite, FS_EmptySet DEF PoolCore, ActiveCountsHolders
<1> QED
  BY <1>1 DEF PoolCore, TaskHasOneOwner, BusyWorkers, Busy

\* A step that is not drain()'s: batches only move forward.
LEMMA DrainQuiet ==
    ASSUME PipelineInv, DrainInv, Moves, UNCHANGED <<dpc, dpointer, first, before>>,
           \/ UNCHANGED generation
           \/ \A t \in Tasks : status'[t] \notin Unfinished
    PROVE  DrainInv'
<1>1. before \subseteq Tasks
  BY DEF PipelineInv, PendingBounded, PipelineTypeOK
<1>2. \A t \in before : /\ status'[t] # "new"
                        /\ status[t] # "queued" => status'[t] # "queued"
                        /\ status[t] \notin Unfinished => status'[t] \notin Unfinished
  BY <1>1 DEF Moves, DrainInv, Unfinished
<1>3. UNCHANGED generation => UNCHANGED Pool
  BY DEF Pool
<1> QED
  BY <1>1, <1>2, <1>3 DEF DrainInv, DrainComplete

\* Every step keeps DrainInv.
LEMMA DrainKeeps ==
    ASSUME Orders = {"pending first"}, PipelineInv, DrainInv, [PipelineNext]_allVars
    PROVE  DrainInv'
<1>0. /\ PipelineTypeOK /\ PoolCore /\ NoneRuns /\ Moves /\ before \subseteq Tasks
      /\ first \in Nat /\ active \in Nat
  BY PipelineMoves DEF PipelineInv, PendingBounded, PipelineTypeOK, TypeOK
<1>1. CASE RestartBegin \/ StopBegin \/ StopPool \/ StopEnd \/ UNCHANGED allVars
  BY <1>0, <1>1, DrainQuiet DEF RestartBegin, StopBegin, StopPool, StopEnd, allVars, runtime,
                                drain
<1>2. CASE RuntimeStart
  <2>1. \A t \in Tasks : status[t] \notin Unfinished
    BY <1>0, <1>2, IdlePoolIsQuiet DEF RuntimeStart, Start
  <2>2. UNCHANGED <<status, dpc, dpointer, first, before>>
    BY <1>2 DEF RuntimeStart, Start
  <2> QED
    BY <1>0, <2>1, <2>2, DrainQuiet
<1>3. ASSUME NEW c \in Clients, NEW t \in Tasks,
             SubmitBatchRefused(c, t) \/ SubmitBatchChecked(c, t)
      PROVE  DrainInv'
  BY <1>0, <1>3, DrainQuiet DEF SubmitBatchRefused, SubmitBatchChecked, runtime, drain
<1>4. ASSUME NEW c \in Clients, SubmitBatchSubmit(c) \/ SubmitBatchDangling(c)
      PROVE  DrainInv'
  BY <1>0, <1>4, DrainQuiet DEF SubmitBatchSubmit, SubmitBatchDangling, runtime, drain
<1>5. CASE PoolStep \/ \E w \in Workers : PipelineWorker(w)
  BY <1>0, <1>5, PoolAlone, DrainQuiet DEF runtime, drain
<1>6. CASE DrainLock
  BY <1>0, <1>6 DEF DrainLock, DrainInv, DrainComplete, Unfinished, vars
<1>7. CASE DrainUnlock
  <2>1. Pool' = Pool /\ UNCHANGED <<status, before>> /\ dpointer' = Pool
    BY <1>7 DEF DrainUnlock, Pool, vars, runtime
  <2>2. dpc' = "first" \/ (dpc' = "returned" /\ Pool = NoPool)
    BY <1>7 DEF DrainUnlock
  <2>3. CASE dpc' = "first"
    BY <2>1, <2>3 DEF DrainInv, DrainComplete
  <2>4. CASE dpc' = "returned" /\ Pool = NoPool
    <3>1. generation = 0
      BY <1>0, <2>4, NoPoolYet
    <3>2. \A t \in Tasks : status[t] \notin Unfinished
      BY <1>0, <3>1, IdlePoolIsQuiet DEF NoneRuns
    <3> QED
      BY <1>0, <2>1, <2>4, <3>2 DEF DrainInv, DrainComplete
  <2> QED
    BY <2>2, <2>3, <2>4
<1>8. CASE DrainFirst("pending first")
  <2>1. /\ dpc' = "pending first" /\ first' = Len(queue) /\ dpointer' = dpointer
        /\ dpointer = Pool /\ Pool' = Pool /\ UNCHANGED <<status, before>>
    BY <1>8 DEF DrainFirst, Pool, vars, runtime
  <2>2. Len(queue) = 0 => \A t \in Tasks : status[t] # "queued"
    BY <1>0, NoneQueued
  <2> QED
    BY <1>0, <2>1, <2>2 DEF DrainInv, DrainComplete
<1>9. CASE DrainSecond
  <2>1. dpc = "pending first" /\ dpointer = Pool
    BY <1>0, <1>9 DEF DrainSecond, PipelineTypeOK
  <2>2. /\ dpc' = IF first + active = 0 THEN "returned" ELSE "first"
        /\ dpointer' = dpointer /\ Pool' = Pool /\ UNCHANGED <<status, before>>
    BY <1>9, <2>1 DEF DrainSecond, Pool, vars, runtime
  <2>3. CASE first + active = 0
    <3>1. first = 0 /\ active = 0
      BY <1>0, <2>3, NothingCounted
    <3>2. \A t \in before : status[t] \notin Unfinished
      BY <1>0, <2>1, <3>1, NoneActive DEF DrainInv, Unfinished
    <3> QED
      BY <2>2, <2>3, <3>2 DEF DrainInv, DrainComplete
  <2>4. CASE first + active # 0
    BY <2>1, <2>2, <2>4 DEF DrainInv, DrainComplete
  <2> QED
    BY <2>3, <2>4
<1>10. CASE DrainDangling
  <2>1. dpc \in {"first", "pending first"}
    BY <1>0, <1>10 DEF DrainDangling, PipelineTypeOK
  <2>2. /\ dpc' \in {"first", "returned"} /\ dpointer # Pool
        /\ UNCHANGED <<status, dpointer, before>>
    BY <1>10 DEF DrainDangling, vars
  <2> QED
    BY <2>1, <2>2 DEF DrainInv, DrainComplete
<1> QED
  BY <1>1, <1>2, <1>3, <1>4, <1>5, <1>6, <1>7, <1>8, <1>9, <1>10 DEF PipelineNext, DrainStep

\* When drain() returns, every batch that was queued or running when it was
\* called is finished, provided that the compiler evaluates pending() before
\* active() in its condition.
THEOREM DrainIsComplete ==
    ASSUME Orders = {"pending first"}
    PROVE  PipelineSpec => []DrainComplete
<1>1. PipelineInit => PipelineInv /\ DrainInv
  BY PipelineStarts DEF PipelineInit, DrainInv, DrainComplete
<1>2. PipelineInv /\ DrainInv /\ [PipelineNext]_allVars => PipelineInv' /\ DrainInv'
  BY PipelineStep, DrainKeeps
<1>3. DrainInv => DrainComplete
  BY DEF DrainInv
<1> QED
  BY <1>1, <1>2, <1>3, PTL DEF PipelineSpec
=============================================================================
