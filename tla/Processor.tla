----------------------------- MODULE Processor -----------------------------
(***************************************************************************)
(* The thread pool and the scheduler                                       *)
(* (src/src/libstrongswan/processing/processor.c, scheduler.c).  Jobs are  *)
(* queued by priority and executed by worker threads, some of which may be *)
(* reserved for a priority.  A job that was executed is destroyed, queued  *)
(* again or handed to the scheduler, which keeps events in a heap and      *)
(* queues their jobs when they are due.  The scheduler is itself a job of  *)
(* critical priority that takes a worker for good, until cancel() cancels  *)
(* its thread.                                                             *)
(*                                                                         *)
(* A step is what happens between two points where the processor's mutex   *)
(* is released; a worker that queued its job again or rescheduled it keeps *)
(* the mutex until it looked for the next one (lock).  The mutex of the    *)
(* scheduler is never held while another one is acquired.  Jobs are opaque *)
(* and return; what they submit while they are executed is submitted here  *)
(* by whoever calls QueueJob, ExecuteJob and ScheduleJob.                  *)
(***************************************************************************)
EXTENDS Integers, Sequences, FiniteSets, EventHeap

CONSTANTS NumThreads,   \* worker threads to be created
          Jobs,         \* jobs that may be submitted
          Scheduler,    \* the job of the scheduler
          None,         \* no job, no thread
          Prio,         \* of a job: its priority
          Reserved,     \* of a priority: prio_threads
          Cancelable,   \* jobs with a cancel() that makes them return
          Delays,       \* delays of scheduled jobs
          MaxRequeues,  \* bound on how often jobs ask to be executed again
          MaxTime       \* bound on the time

Threads == 1..NumThreads
Prios == 0..3           \* JOB_PRIO_CRITICAL, HIGH, MEDIUM, LOW

ASSUME ConstantsAssumption ==
    /\ NumThreads \in Nat
    /\ Scheduler \notin Jobs /\ None \notin Jobs \cup {Scheduler} \cup Threads
    /\ Prio \in [Jobs \cup {Scheduler} -> Prios] /\ Prio[Scheduler] = 0
    /\ Reserved \in [Prios -> Nat]
    /\ Cancelable \subseteq Jobs
    /\ Delays \subseteq Nat /\ MaxRequeues \in Nat /\ MaxTime \in Nat

VARIABLES desired, total, working, queue,       \* private_processor_t
          at, worker,   \* of a thread: where it is, its job and priority
          lock,         \* the thread that keeps the processor's mutex
          status,       \* of a job: its status; "new" before it is submitted, "done"
                        \* once it is to be destroyed
          requeues,     \* how often jobs asked to be executed again
          heap, now,    \* the scheduler's events, the time
          deadline,     \* until when the scheduler sleeps, Forever if it does not
          fired,        \* the job of an event that is due, out of the heap
          stage         \* how far start and shutdown got

poolVars == <<desired, total, working, queue>>
threadVars == <<at, worker, lock>>
jobVars == <<status, requeues>>
eventVars == <<heap, now, deadline, fired>>
vars == <<poolVars, threadVars, jobVars, eventVars, stage>>

\* worker_thread_t between two jobs; the priority is not read then
NoWork == [job |-> None, priority |-> 0]

\* A sleep without an end: no event is in the heap
Forever == MaxTime + 1

Sum(f) == f[0] + f[1] + f[2] + f[3]

\* The sum of f over the priorities above p (whose numbers are lower)
Above(f, p) == (IF p > 0 THEN f[0] ELSE 0) + (IF p > 1 THEN f[1] ELSE 0)
                 + (IF p > 2 THEN f[2] ELSE 0) + (IF p > 3 THEN f[3] ELSE 0)

GetIdleThreads == total - Sum(working)

\* Where threads are that execute a job and count as working, and where those
\* are that count as idle
WorkingPlaces == {"executing", "scheduling", "handover", "timed"}
IdlePlaces == {"loop", "waiting", "destroying", "restarting"}

-----------------------------------------------------------------------------
(* Condvars.  signal() ends the sleep of one thread, if one sleeps.        *)

\* The threads after job_added is signalled, from the places a
Signal(a) ==
    IF \E t \in Threads : a[t] = "waiting"
      THEN {[a EXCEPT ![t] = "loop"] : t \in {u \in Threads : a[u] = "waiting"}}
      ELSE {a}

Broadcast(a) == [t \in Threads |-> IF a[t] = "waiting" THEN "loop" ELSE a[t]]

\* The scheduler's thread after its condvar is signalled
WakeScheduler(a) ==
    [t \in Threads |-> IF a[t] = "timed" THEN "scheduling" ELSE a[t]]

MutSignalTerminated == UNCHANGED stage

\* thread_terminated is signalled
SignalTerminated ==
    stage' = IF stage = "canceling" THEN "terminated" ELSE stage

Push(job, p) == queue' = [queue EXCEPT ![p] = Append(@, job)]

-----------------------------------------------------------------------------
(* Worker threads.                                                         *)

MutDelayed(p) ==
    LET reserved == Above([k \in Prios |-> IF working[k] < Reserved[k]
                                             THEN Reserved[k] - working[k] ELSE 0], p)
    IN  reserved > 0 /\ reserved > GetIdleThreads

\* Jobs of priority p are delayed if all idle threads are reserved for higher
\* priorities
Delayed(p) ==
    LET reserved == Above([k \in Prios |-> IF working[k] < Reserved[k]
                                             THEN Reserved[k] - working[k] ELSE 0], p)
    IN  reserved > 0 /\ reserved >= GetIdleThreads

\* get_job() gives a job of priority p: the first one of the highest priority
\* that has any, unless it is delayed
Available(p) ==
    /\ queue[p] # <<>>
    /\ \A k \in Prios : k < p => queue[k] = <<>>
    /\ ~Delayed(p)

MayLock(t) == lock \in {None, t}

\* t is one thread too many and ends
EndThread(t) ==
    /\ at[t] = "loop" /\ MayLock(t)
    /\ desired < total
    /\ total' = total - 1
    /\ SignalTerminated
    /\ at' = [at EXCEPT ![t] = "ended"]
    /\ lock' = None
    /\ UNCHANGED <<desired, working, queue, worker, jobVars, eventVars>>

\* t takes a job of priority p and starts to execute it
GetJob(t) ==
    /\ at[t] = "loop" /\ MayLock(t)
    /\ desired >= total
    /\ \E p \in Prios :
         /\ Available(p)
         /\ LET job == Head(queue[p]) IN
              /\ worker' = [worker EXCEPT ![t] = [job |-> job, priority |-> p]]
              /\ at' = [at EXCEPT ![t] = IF job = Scheduler THEN "scheduling"
                                                            ELSE "executing"]
              /\ status' = [status EXCEPT ![job] = "executing"]
         /\ queue' = [queue EXCEPT ![p] = Tail(@)]
         /\ working' = [working EXCEPT ![p] = @ + 1]
    /\ lock' = None
    /\ UNCHANGED <<desired, total, requeues, eventVars, stage>>

\* t finds no job for it and waits
WaitForJob(t) ==
    /\ at[t] = "loop" /\ MayLock(t)
    /\ desired >= total
    /\ ~\E p \in Prios : Available(p)
    /\ at' = [at EXCEPT ![t] = "waiting"]
    /\ lock' = None
    /\ UNCHANGED <<poolVars, worker, jobVars, eventVars, stage>>

\* The job of t returned; its thread does not count as working anymore
Executed(t) ==
    /\ at[t] = "executing" /\ lock = None
    /\ working' = [working EXCEPT ![worker[t].priority] = @ - 1]
    /\ worker' = [worker EXCEPT ![t] = NoWork]

\* The job was not canceled and asks to be executed again
AsksAgain(job) ==
    /\ status[job] # "canceled"
    /\ requeues < MaxRequeues
    /\ requeues' = requeues + 1

\* JOB_REQUEUE_NONE, or the job was canceled and what it asks for is ignored: t
\* releases the mutex and destroys the job
FinishJob(t) ==
    /\ Executed(t)
    /\ status' = [status EXCEPT ![worker[t].job] = "done"]
    /\ at' = [at EXCEPT ![t] = "destroying"]
    /\ UNCHANGED <<desired, total, queue, lock, requeues, eventVars, stage>>

DestroyJob(t) ==
    /\ at[t] = "destroying" /\ lock = None
    /\ at' = [at EXCEPT ![t] = "loop"]
    /\ UNCHANGED <<poolVars, worker, lock, jobVars, eventVars, stage>>

\* JOB_REQUEUE_FAIR, or JOB_REQUEUE_DIRECT of a job that is not cancelable
RequeueJob(t) ==
    /\ Executed(t)
    /\ AsksAgain(worker[t].job)
    /\ status' = [status EXCEPT ![worker[t].job] = "queued"]
    /\ Push(worker[t].job, worker[t].priority)
    /\ at' \in Signal([at EXCEPT ![t] = "loop"])
    /\ lock' = t
    /\ UNCHANGED <<desired, total, eventVars, stage>>

\* schedule_job_tv(): the job becomes an event and the scheduler is signalled
ScheduleAt(job, time, a) ==
    /\ status' = [status EXCEPT ![job] = "queued"]
    /\ heap' = Insert(heap, [time |-> time, job |-> job])
    /\ at' = WakeScheduler(a)
    /\ deadline' = Forever
    /\ UNCHANGED <<now, fired>>

\* JOB_RESCHEDULE, with the processor's mutex held
RescheduleJob(t) ==
    /\ Executed(t)
    /\ AsksAgain(worker[t].job)
    /\ \E d \in Delays : /\ now + d <= MaxTime
                         /\ ScheduleAt(worker[t].job, now + d, [at EXCEPT ![t] = "loop"])
    /\ lock' = t
    /\ UNCHANGED <<desired, total, queue, stage>>

-----------------------------------------------------------------------------
(* The scheduler's job.  It returns JOB_REQUEUE_DIRECT and has a cancel(), *)
(* so that it is executed again at once.                                   *)

Due == heap # <<>> /\ heap[1].time <= now

\* schedule() removes the event and releases its mutex
Fire(t) ==
    /\ at[t] = "scheduling" /\ Due
    /\ fired' = heap[1].job
    /\ heap' = RemoveFirst(heap)
    /\ at' = [at EXCEPT ![t] = "handover"]
    /\ UNCHANGED <<poolVars, worker, lock, jobVars, now, deadline, stage>>

\* and queues the job
HandOver(t) ==
    /\ at[t] = "handover" /\ lock = None
    /\ status' = [status EXCEPT ![fired] = "queued"]
    /\ Push(fired, Prio[fired])
    /\ fired' = None
    /\ at' \in Signal([at EXCEPT ![t] = "scheduling"])
    /\ UNCHANGED <<desired, total, working, worker, lock, requeues, heap, now,
                   deadline, stage>>

\* schedule() waits for the next event, or for any
WaitForEvent(t) ==
    /\ at[t] = "scheduling" /\ ~Due
    /\ deadline' = IF heap = <<>> THEN Forever ELSE heap[1].time
    /\ at' = [at EXCEPT ![t] = "timed"]
    /\ UNCHANGED <<poolVars, worker, lock, jobVars, heap, now, fired, stage>>

TimedOut(t) ==
    /\ at[t] = "timed" /\ deadline <= now
    /\ at' = [at EXCEPT ![t] = "scheduling"]
    /\ deadline' = Forever
    /\ UNCHANGED <<poolVars, worker, lock, jobVars, heap, now, fired, stage>>

MutRestart(t) ==
    /\ at[t] = "timed" /\ status[worker[t].job] = "canceled" /\ lock = None
    /\ status' = [status EXCEPT ![worker[t].job] = "done"]
    /\ worker' = [worker EXCEPT ![t] = NoWork]
    /\ at' = [at EXCEPT ![t] = "restarting"]
    /\ deadline' = Forever
    /\ UNCHANGED <<poolVars, lock, requeues, heap, now, fired, stage>>

\* The wait is the only point where the thread can be canceled; restart() then
\* takes over, releases the mutex and destroys the job
Restart(t) ==
    /\ at[t] = "timed" /\ status[worker[t].job] = "canceled" /\ lock = None
    /\ working' = [working EXCEPT ![worker[t].priority] = @ - 1]
    /\ status' = [status EXCEPT ![worker[t].job] = "done"]
    /\ worker' = [worker EXCEPT ![t] = NoWork]
    /\ at' = [at EXCEPT ![t] = "restarting"]
    /\ deadline' = Forever
    /\ UNCHANGED <<desired, total, queue, lock, requeues, heap, now, fired, stage>>

\* The end of restart().  No new thread is started: only cancel() cancels
\* threads, and it set desired to 0 before.
EndRestart(t) ==
    /\ at[t] = "restarting" /\ lock = None
    /\ desired < total
    /\ total' = total - 1
    /\ SignalTerminated
    /\ at' = [at EXCEPT ![t] = "ended"]
    /\ UNCHANGED <<desired, working, queue, worker, lock, jobVars, eventVars>>

-----------------------------------------------------------------------------
(* Submitting jobs, in any thread.                                         *)

\* Nobody submits jobs once cancel() returned
Open == stage \notin {"canceled", "flushed"}

MutQueueJob(job) ==
    /\ Open /\ status[job] = "new" /\ lock = None
    /\ status' = [status EXCEPT ![job] = "queued"]
    /\ Push(job, Prio[job])
    /\ IF \A p \in Prios : queue[p] = <<>> THEN at' \in Signal(at) ELSE at' = at
    /\ UNCHANGED <<desired, total, working, worker, lock, requeues, eventVars, stage>>

QueueJob(job) ==
    /\ Open /\ status[job] = "new" /\ lock = None
    /\ status' = [status EXCEPT ![job] = "queued"]
    /\ Push(job, Prio[job])
    /\ at' \in Signal(at)
    /\ UNCHANGED <<desired, total, working, worker, lock, requeues, eventVars, stage>>

MutExecuteJob(job) ==
    /\ Open /\ status[job] = "new" /\ lock = None
    /\ status' = [status EXCEPT ![job] = "done"]
    /\ queue' = IF desired > 0 /\ GetIdleThreads # 0
                  THEN [queue EXCEPT ![Prio[job]] = <<job>> \o @] ELSE queue
    /\ at' \in Signal(at)
    /\ UNCHANGED <<desired, total, working, worker, lock, requeues, eventVars, stage>>

\* execute_job() puts the job in front of the queue if a thread is idle.
\* Otherwise the caller executes and destroys it, whatever it asks for.
ExecuteJob(job) ==
    /\ Open /\ status[job] = "new" /\ lock = None
    /\ IF desired > 0 /\ GetIdleThreads # 0
         THEN /\ status' = [status EXCEPT ![job] = "queued"]
              /\ queue' = [queue EXCEPT ![Prio[job]] = <<job>> \o @]
         ELSE /\ status' = [status EXCEPT ![job] = "done"]
              /\ UNCHANGED queue
    /\ at' \in Signal(at)
    /\ UNCHANGED <<desired, total, working, worker, lock, requeues, eventVars, stage>>

ScheduleJob(job) ==
    /\ Open /\ status[job] = "new"
    /\ \E d \in Delays : now + d <= MaxTime /\ ScheduleAt(job, now + d, at)
    /\ UNCHANGED <<poolVars, worker, lock, requeues, stage>>

-----------------------------------------------------------------------------
(* Start and shutdown, in the daemon's main thread.                        *)

\* set_threads(); only the first n of the threads could be created
Start ==
    /\ stage = "init" /\ lock = None
    /\ desired' = NumThreads
    /\ \E n \in 0..NumThreads :
         /\ total' = n
         /\ at' = [t \in Threads |-> IF t <= n THEN "loop" ELSE "none"]
    /\ stage' = "started"
    /\ UNCHANGED <<working, queue, worker, lock, jobVars, eventVars>>

\* set_threads(0)
Stop ==
    /\ stage = "started" /\ lock = None
    /\ desired' = IF total > 0 THEN 0 ELSE desired
    /\ at' = Broadcast(at)
    /\ stage' = "stopping"
    /\ UNCHANGED <<total, working, queue, worker, lock, jobVars, eventVars>>

\* What cancel() does as long as there are threads, and in the end: the jobs
\* that are still queued are destroyed
WaitOrEnd ==
    IF total > 0
      THEN /\ at' = Broadcast(at)
           /\ stage' = "canceling"
           /\ UNCHANGED <<queue>>
      ELSE /\ queue' = [p \in Prios |-> <<>>]
           /\ stage' = "canceled"
           /\ UNCHANGED <<at>>

InQueue(job) == \E i \in 1..Len(queue[Prio[job]]) : queue[Prio[job]][i] = job

\* cancel() marks the running jobs that can be canceled and waits for all
\* threads to end
Cancel ==
    /\ stage = "stopping" /\ lock = None
    /\ desired' = 0
    /\ WaitOrEnd
    /\ status' = [j \in DOMAIN status |->
                    IF j \in Cancelable \cup {Scheduler} /\ (\E t \in Threads : worker[t].job = j)
                      THEN "canceled"
                      ELSE IF total = 0 /\ InQueue(j) THEN "done" ELSE status[j]]
    /\ UNCHANGED <<total, working, worker, lock, requeues, eventVars>>

\* cancel() is woken by a thread that ended
Terminated ==
    /\ stage = "terminated" /\ lock = None
    /\ WaitOrEnd
    /\ status' = [j \in DOMAIN status |->
                    IF total = 0 /\ InQueue(j) THEN "done" ELSE status[j]]
    /\ UNCHANGED <<desired, total, working, worker, lock, requeues, eventVars>>

\* The scheduler's flush()
Flush ==
    /\ stage = "canceled"
    /\ heap' = <<>>
    /\ status' = [j \in DOMAIN status |->
                    IF \E i \in 1..Len(heap) : heap[i].job = j THEN "done" ELSE status[j]]
    /\ stage' = "flushed"
    /\ UNCHANGED <<poolVars, threadVars, requeues, now, deadline, fired>>

\* The clock of the system goes on
Tick ==
    /\ now < MaxTime
    /\ now' = now + 1
    /\ UNCHANGED <<poolVars, threadVars, jobVars, heap, deadline, fired, stage>>

-----------------------------------------------------------------------------
\* processor_create(): no threads yet
ProcessorCreate ==
    /\ desired = 0 /\ total = 0
    /\ working = [p \in Prios |-> 0]
    /\ at = [t \in Threads |-> "none"]
    /\ worker = [t \in Threads |-> NoWork]
    /\ lock = None
    /\ requeues = 0

\* scheduler_create(): no events yet, and the job of the scheduler is the only
\* one in the queues of the processor
SchedulerCreate ==
    /\ queue = [p \in Prios |-> IF p = Prio[Scheduler] THEN <<Scheduler>> ELSE <<>>]
    /\ status = [j \in Jobs \cup {Scheduler} |-> IF j = Scheduler THEN "queued" ELSE "new"]
    /\ heap = <<>> /\ now = 0 /\ deadline = Forever /\ fired = None

Init == ProcessorCreate /\ SchedulerCreate /\ stage = "init"

Work(t) ==
    \/ EndThread(t) \/ GetJob(t) \/ WaitForJob(t)
    \/ FinishJob(t) \/ DestroyJob(t) \/ RequeueJob(t) \/ RescheduleJob(t)
    \/ Fire(t) \/ HandOver(t) \/ WaitForEvent(t) \/ TimedOut(t)
    \/ Restart(t) \/ EndRestart(t)

Submit(job) == QueueJob(job) \/ ExecuteJob(job) \/ ScheduleJob(job)

Next ==
    \/ \E t \in Threads : Work(t)
    \/ \E job \in Jobs : Submit(job)
    \/ Start \/ Stop \/ Cancel \/ Terminated \/ Flush \/ Tick

Spec == Init /\ [][Next]_vars

\* Threads run, jobs return and time passes; the daemon is started, and once
\* it stops it goes through its shutdown.  Nothing has to be submitted, and
\* the daemon need not stop.
Fairness ==
    /\ \A t \in Threads : WF_vars(Work(t))
    /\ WF_vars(Start) /\ WF_vars(Cancel \/ Terminated \/ Flush) /\ WF_vars(Tick)

FairSpec == Spec /\ Fairness

-----------------------------------------------------------------------------
(* Properties.                                                             *)

IdleThreads == {t \in Threads : at[t] \in IdlePlaces}
WorkingThreads(p) == {t \in Threads : at[t] \in WorkingPlaces /\ worker[t].priority = p}

\* The counters agree with what the threads do, at every point where another
\* thread may look at them: the number of idle threads, computed without a
\* sign, cannot underflow (processor.c:123-133, :176-194, :201-242, :250-329).
CountersAgree ==
    /\ GetIdleThreads = Cardinality(IdleThreads)
    /\ \A p \in Prios : working[p] = Cardinality(WorkingThreads(p))

\* Threads that are reserved stay available: jobs of the priorities from p on
\* never use the threads that are reserved for the priorities above it, in
\* whatever order jobs come, end and are queued again (processor.c:140-168).
ReservedThreads ==
    desired > 0 =>
      \A p \in Prios : LET others == Sum(working) - Above(working, p)
                       IN  others = 0 \/ others + Above(Reserved, p) <= total

Occurrences(seq, P(_)) == Cardinality({i \in 1..Len(seq) : P(seq[i])})

\* A job that was submitted and is not yet destroyed is in exactly one place:
\* the queue of its priority, the heap, or the hands of one thread.  Requeueing,
\* rescheduling, firing, cancel() and flush() neither lose nor double it
\* (processor.c:277-326, :471-516, scheduler.c:165-179, :283-295).
JobInOnePlace ==
    \A j \in Jobs \cup {Scheduler} :
      LET Is(x) == x = j
          IsEvent(e) == e.job = j
          hands == Cardinality({t \in Threads : worker[t].job = j})
          places == Occurrences(queue[Prio[j]], Is) + Occurrences(heap, IsEvent)
                      + hands + (IF fired = j THEN 1 ELSE 0)
      IN  /\ places = IF status[j] \in {"new", "done"} THEN 0 ELSE 1
          /\ hands = 1 <=> status[j] \in {"executing", "canceled"}

\* The scheduler never oversleeps: while it waits without having been
\* signalled, no event is due before its wait ends (scheduler.c:165-206,
\* :236-254).
OnTime ==
    \A t \in Threads : at[t] = "timed" =>
      \A i \in 1..Len(heap) : deadline <= heap[i].time

\* No signal of the condvars is lost.  While a thread sleeps and there is a job
\* that it could get, another thread is awake that is going to look for one, so
\* one signal per job is enough; no thread sleeps through the shutdown, and
\* cancel() waits only as long as there is a thread that will signal it
\* (processor.c:140-168, :184-194, :293, :398, :467, :496-500).
NoLostWakeup ==
    /\ (\E t \in Threads : at[t] = "waiting") =>
         /\ desired >= total
         /\ (\E p \in Prios : Available(p)) =>
              \E t \in Threads : at[t] \in {"loop", "destroying"}
    /\ stage = "canceling" => total > 0

\* Enough threads exist for jobs of every priority to be executed: one for the
\* scheduler, those that are reserved and one more
EnoughThreads ==
    LET needed == [Reserved EXCEPT ![0] = IF @ = 0 THEN 1 ELSE @]
    IN  Cardinality({t \in Threads : at[t] # "none"}) > Sum(needed)

\* Every job that was submitted is destroyed in the end, after its execution or
\* by the shutdown, and cancel() returns: no signal of the shared condvars is
\* lost (processor.c:184-194, :397, :498-502, scheduler.c:254).
WorkEnds ==
    /\ EnoughThreads ~> \A j \in Jobs : status[j] \in {"new", "done"}
    /\ stage = "stopping" ~> stage = "flushed"
=============================================================================
