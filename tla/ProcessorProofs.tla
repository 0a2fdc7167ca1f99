-------------------------- MODULE ProcessorProofs --------------------------
(***************************************************************************)
(* Proofs about Processor, for any number of threads, jobs and reserved    *)
(* threads and any heap.  For the counters, the actions are sorted by what *)
(* they do to them and to the sets of threads they count: nothing, or one  *)
(* thread leaves, takes a job or gives one up.  For the jobs, they are     *)
(* followed from place to place: the heap keeps its order and its events,  *)
(* no job is lost or doubled, the scheduler does not oversleep, and no     *)
(* thread sleeps through the signal of a job.                              *)
(***************************************************************************)
EXTENDS Processor, FiniteSetTheorems, WellFoundedInduction, TLAPS

Places == WorkingPlaces \cup IdlePlaces \cup {"none", "ended"}

\* What types the proofs need.  Jobs are left out: the counters go by the
\* priority of the worker, as in the code.
PoolTypes ==
    /\ desired \in Nat /\ total \in Int
    /\ working \in [Prios -> Int]
    /\ at \in [Threads -> Places]
    /\ DOMAIN worker = Threads /\ \A t \in Threads : worker[t].priority \in Prios

\* Threads are only in excess once the pool is being shut down
NoExcess == desired > 0 => desired >= total

\* Before the start there are no threads
NotStarted ==
    stage = "init" => /\ total = 0 /\ working = [p \in Prios |-> 0]
                      /\ \A t \in Threads : at[t] = "none"

\* The inductive invariant
PoolInv == PoolTypes /\ NoExcess /\ NotStarted /\ CountersAgree /\ ReservedThreads

-----------------------------------------------------------------------------
(* What steps do to the counters.                                          *)

\* The threads stay where they are, as far as they are counted
Stay == \A p \in Prios : WorkingThreads(p)' = WorkingThreads(p)

Quiet ==
    /\ Stay /\ IdleThreads' = IdleThreads
    /\ UNCHANGED <<total, working>>

Leave(t) ==
    /\ Stay
    /\ t \in IdleThreads /\ IdleThreads' = IdleThreads \ {t}
    /\ total' = total - 1 /\ UNCHANGED working

Take(t, p) ==
    /\ t \in IdleThreads /\ IdleThreads' = IdleThreads \ {t}
    /\ t \notin WorkingThreads(p) /\ WorkingThreads(p)' = WorkingThreads(p) \cup {t}
    /\ \A q \in Prios \ {p} : WorkingThreads(q)' = WorkingThreads(q)
    /\ working' = [working EXCEPT ![p] = @ + 1] /\ UNCHANGED total

GiveUp(t, p) ==
    /\ t \notin IdleThreads /\ IdleThreads' = IdleThreads \cup {t}
    /\ t \in WorkingThreads(p) /\ WorkingThreads(p)' = WorkingThreads(p) \ {t}
    /\ \A q \in Prios \ {p} : WorkingThreads(q)' = WorkingThreads(q)
    /\ working' = [working EXCEPT ![p] = @ - 1] /\ UNCHANGED total

\* The sets of threads are finite, and so are their cardinalities numbers
LEMMA ThreadsFinite ==
    /\ IsFiniteSet(IdleThreads) /\ Cardinality(IdleThreads) \in Nat
    /\ \A p \in Prios : /\ IsFiniteSet(WorkingThreads(p))
                        /\ Cardinality(WorkingThreads(p)) \in Nat
<1>1. IsFiniteSet(Threads)
  BY FS_Interval, ConstantsAssumption DEF Threads
<1>2. IdleThreads \subseteq Threads /\ \A p \in Prios : WorkingThreads(p) \subseteq Threads
  BY DEF IdleThreads, WorkingThreads
<1> QED
  BY <1>1, <1>2, FS_Subset, FS_CardinalityType

\* The counter of one priority changes by one, and so does the sum
LEMMA SumChanges ==
    ASSUME NEW f \in [Prios -> Int], NEW p \in Prios, NEW d \in Int
    PROVE  /\ [f EXCEPT ![p] = @ + d] \in [Prios -> Int]
           /\ Sum([f EXCEPT ![p] = @ + d]) = Sum(f) + d
           /\ \A q \in Prios : Above([f EXCEPT ![p] = @ + d], q)
                                 = Above(f, q) + (IF p < q THEN d ELSE 0)
  BY DEF Prios, Sum, Above

\* A step that changes nothing that is counted
LEMMA QuietCounters ==
    ASSUME CountersAgree, Quiet
    PROVE  CountersAgree'
  BY DEF CountersAgree, Quiet, Stay, GetIdleThreads

\* A thread that ends is no longer counted
LEMMA LeaveCounters ==
    ASSUME PoolTypes, CountersAgree, NEW t \in Threads, Leave(t)
    PROVE  CountersAgree'
<1>1. Cardinality(IdleThreads') = Cardinality(IdleThreads) - 1
  BY ThreadsFinite, FS_RemoveElement DEF Leave
<1>2. Sum(working) \in Int
  BY DEF PoolTypes, Sum, Prios
<1> QED
  BY <1>1, <1>2 DEF CountersAgree, Leave, Stay, GetIdleThreads, PoolTypes

\* A thread that takes a job of priority p moves from the idle threads to
\* those that work at p
LEMMA TakeCounters ==
    ASSUME PoolTypes, CountersAgree, NEW t \in Threads, NEW p \in Prios, Take(t, p)
    PROVE  CountersAgree'
<1>1. Cardinality(IdleThreads') = Cardinality(IdleThreads) - 1
  BY ThreadsFinite, FS_RemoveElement DEF Take
<1>2. Cardinality(WorkingThreads(p)') = Cardinality(WorkingThreads(p)) + 1
  BY ThreadsFinite, FS_AddElement DEF Take
<1>3. Sum(working') = Sum(working) + 1 /\ Sum(working) \in Int
  BY SumChanges DEF PoolTypes, Take, Sum, Prios
<1>4. GetIdleThreads' = Cardinality(IdleThreads')
  BY <1>1, <1>3 DEF CountersAgree, GetIdleThreads, PoolTypes, Take
<1>5. \A q \in Prios : working'[q] = Cardinality(WorkingThreads(q)')
  BY <1>2 DEF CountersAgree, PoolTypes, Take
<1> QED
  BY <1>4, <1>5 DEF CountersAgree

\* and back when the job returned
LEMMA GiveUpCounters ==
    ASSUME PoolTypes, CountersAgree, NEW t \in Threads, NEW p \in Prios, GiveUp(t, p)
    PROVE  CountersAgree'
<1>1. Cardinality(IdleThreads') = Cardinality(IdleThreads) + 1
  BY ThreadsFinite, FS_AddElement DEF GiveUp
<1>2. Cardinality(WorkingThreads(p)') = Cardinality(WorkingThreads(p)) - 1
  BY ThreadsFinite, FS_RemoveElement DEF GiveUp
<1>3. Sum(working') = Sum(working) - 1 /\ Sum(working) \in Int
  BY DEF PoolTypes, GiveUp, Sum, Prios
<1>4. GetIdleThreads' = Cardinality(IdleThreads')
  BY <1>1, <1>3 DEF CountersAgree, GetIdleThreads, PoolTypes, GiveUp
<1>5. \A q \in Prios : working'[q] = Cardinality(WorkingThreads(q)')
  BY <1>2, ThreadsFinite DEF CountersAgree, PoolTypes, GiveUp
<1> QED
  BY <1>4, <1>5 DEF CountersAgree

\* get_job() leaves enough threads for the higher priorities: t itself is idle,
\* and if threads are reserved there are more idle ones than that
LEMMA TakeReserved ==
    ASSUME PoolTypes, CountersAgree, ReservedThreads, NEW t \in Threads, NEW p \in Prios,
           Take(t, p), ~Delayed(p), UNCHANGED desired
    PROVE  ReservedThreads'
<1>1. GetIdleThreads >= 1
  <2>1. Cardinality(IdleThreads) # 0
    BY ThreadsFinite, FS_EmptySet DEF Take
  <2> QED
    BY <2>1, ThreadsFinite DEF CountersAgree
<1>2. \A k \in Prios : working[k] \in Nat
  BY ThreadsFinite DEF CountersAgree
<1> DEFINE missing == [k \in Prios |-> IF working[k] < Reserved[k]
                                          THEN Reserved[k] - working[k] ELSE 0]
           others(f, q) == Sum(f) - Above(f, q)
<1>3. /\ missing \in [Prios -> Nat]
      /\ \A k \in Prios : missing[k] >= Reserved[k] - working[k]
  BY <1>2, ConstantsAssumption
<1>4. GetIdleThreads - 1 >= Above(missing, p)
  <2>1. Above(missing, p) \in Nat
    BY <1>3 DEF Above, Prios
  <2>2. ~(Above(missing, p) > 0 /\ Above(missing, p) >= GetIdleThreads)
    BY DEF Delayed
  <2>3. GetIdleThreads \in Int
    BY DEF PoolTypes, GetIdleThreads, Sum, Prios
  <2> QED
    BY <1>1, <2>1, <2>2, <2>3
<1>5. /\ Sum(working') = Sum(working) + 1
      /\ \A q \in Prios : Above(working', q) = Above(working, q) + (IF p < q THEN 1 ELSE 0)
  BY DEF PoolTypes, Take, Sum, Above, Prios
<1>6. /\ Sum(working) \in Int
      /\ \A q \in Prios : /\ Above(working, q) \in Int /\ Above(Reserved, q) \in Int
                          /\ Above(missing, q) \in Int
  BY <1>3, ConstantsAssumption DEF PoolTypes, Sum, Above, Prios
<1> HIDE DEF missing
<1>7. \A q \in Prios : q <= p =>
         Above(missing, p) >= Above(Reserved, q) - Above(working, q)
  <2> SUFFICES ASSUME NEW q \in Prios, q <= p
               PROVE  Above(missing, p) >= Above(Reserved, q) - Above(working, q)
    OBVIOUS
  <2>1. Above(missing, p) >= Above(missing, q)
    BY <1>3 DEF Above, Prios
  <2>2. Above(missing, q) >= Above(Reserved, q) - Above(working, q)
    BY <1>3, <1>2, ConstantsAssumption DEF Above, Prios
  <2> QED
    BY <2>1, <2>2, <1>6
<1>8. SUFFICES ASSUME desired > 0, NEW q \in Prios
               PROVE  others(working', q) = 0 \/ others(working', q) + Above(Reserved, q) <= total
  BY DEF ReservedThreads, Take
<1>9. CASE p < q
  <2>1. others(working', q) = others(working, q)
    <3>1. Above(working', q) = Above(working, q) + 1
      BY <1>5, <1>9
    <3>2. Sum(working') = Sum(working) + 1
      BY <1>5
    <3>3. Sum(working) \in Int /\ Above(working, q) \in Int
      BY <1>6
    <3> QED
      BY <3>1, <3>2, <3>3
  <2> QED
    BY <2>1, <1>8 DEF ReservedThreads
<1>10. CASE q <= p
  <2>1. Above(working', q) = Above(working, q)
    <3>1. ~(p < q)
      BY <1>10 DEF Prios
    <3>2. Above(working', q) = Above(working, q) + 0
      BY <1>5, <3>1
    <3>3. Above(working, q) \in Int
      BY <1>6
    <3> QED
      BY <3>2, <3>3
  <2>2. Sum(working') = Sum(working) + 1
    BY <1>5
  <2>3. Above(missing, p) >= Above(Reserved, q) - Above(working, q)
    BY <1>7, <1>10
  <2>4. (total - Sum(working)) - 1 >= Above(missing, p)
    BY <1>4 DEF GetIdleThreads
  <2>5. /\ Sum(working) \in Int /\ Above(working, q) \in Int /\ Above(Reserved, q) \in Int
        /\ Above(missing, p) \in Int /\ total \in Int
    BY <1>6 DEF PoolTypes
  <2> QED
    BY <2>1, <2>2, <2>3, <2>4, <2>5
<1> QED
  BY <1>9, <1>10 DEF Prios

\* A thread that gives up its job frees a thread of that priority
LEMMA GiveUpReserved ==
    ASSUME PoolTypes, CountersAgree, ReservedThreads, NEW t \in Threads, NEW p \in Prios,
           GiveUp(t, p), UNCHANGED desired
    PROVE  ReservedThreads'
<1> DEFINE others(f, q) == Sum(f) - Above(f, q)
<1>1. \A k \in Prios : working[k] \in Nat
  BY ThreadsFinite DEF CountersAgree
<1>2. working[p] >= 1
  <2>1. Cardinality(WorkingThreads(p)) # 0
    BY ThreadsFinite, FS_EmptySet DEF GiveUp
  <2> QED
    BY <2>1, ThreadsFinite DEF CountersAgree
<1>3. \A q \in Prios : /\ others(working', q) \in Int /\ others(working, q) \in Int
                       /\ p < q => others(working', q) = others(working, q)
                       /\ q <= p => others(working', q) = others(working, q) - 1
                       /\ q <= p => others(working, q) > 0
  <2> SUFFICES ASSUME NEW q \in Prios
               PROVE  /\ others(working', q) \in Int /\ others(working, q) \in Int
                      /\ p < q => others(working', q) = others(working, q)
                      /\ q <= p => others(working', q) = others(working, q) - 1
                      /\ q <= p => others(working, q) > 0
    OBVIOUS
  <2>1. Sum(working') = Sum(working) - 1
    BY DEF PoolTypes, GiveUp, Sum, Prios
  <2>2. Above(working', q) = Above(working, q) - (IF p < q THEN 1 ELSE 0)
    BY DEF PoolTypes, GiveUp, Above, Prios
  <2>3. Sum(working) \in Int /\ Above(working, q) \in Int
    BY DEF PoolTypes, Sum, Above, Prios
  <2>4. q <= p => Sum(working) - Above(working, q) >= working[p]
    BY <1>1 DEF Sum, Above, Prios
  <2>5. p \in Int /\ q \in Int /\ working[p] \in Int
    BY <1>1 DEF Prios
  <2> QED
    BY <1>2, <2>1, <2>2, <2>3, <2>4, <2>5
<1>4. \A q \in Prios : Above(Reserved, q) \in Int
  BY ConstantsAssumption DEF Above, Prios
<1>5. SUFFICES ASSUME desired > 0, NEW q \in Prios
               PROVE  others(working', q) = 0 \/ others(working', q) + Above(Reserved, q) <= total
  BY DEF ReservedThreads, GiveUp
<1>6. others(working, q) = 0 \/ others(working, q) + Above(Reserved, q) <= total
  BY <1>5 DEF ReservedThreads
<1> HIDE DEF others
<1> QED
  BY <1>3, <1>4, <1>6 DEF Prios, PoolTypes

-----------------------------------------------------------------------------
(* Where the actions leave the threads.                                    *)

\* The threads of a are counted like those of b
Alike(a, b) ==
    \A t \in Threads : /\ a[t] \in IdlePlaces <=> b[t] \in IdlePlaces
                       /\ a[t] \in WorkingPlaces <=> b[t] \in WorkingPlaces

\* Signals do not change what a thread counts as
LEMMA SignalsAlike ==
    ASSUME NEW a \in [Threads -> Places]
    PROVE  /\ \A b \in Signal(a) : b \in [Threads -> Places] /\ Alike(a, b)
           /\ Broadcast(a) \in [Threads -> Places] /\ Alike(a, Broadcast(a))
           /\ WakeScheduler(a) \in [Threads -> Places] /\ Alike(a, WakeScheduler(a))
<1>1. ASSUME NEW b \in Signal(a)
      PROVE  b \in [Threads -> Places] /\ Alike(a, b)
  BY <1>1 DEF Signal, Alike, Places, IdlePlaces, WorkingPlaces
<1>2. Broadcast(a) \in [Threads -> Places] /\ Alike(a, Broadcast(a))
  BY DEF Broadcast, Alike, Places, IdlePlaces, WorkingPlaces
<1>3. WakeScheduler(a) \in [Threads -> Places] /\ Alike(a, WakeScheduler(a))
  BY DEF WakeScheduler, Alike, Places, IdlePlaces, WorkingPlaces
<1> QED
  BY <1>1, <1>2, <1>3

\* Threads that are alike and keep their jobs are counted the same
LEMMA AlikeIsQuiet ==
    ASSUME Alike(at, at'), UNCHANGED <<worker, total, working>>
    PROVE  Quiet
  BY DEF Alike, Quiet, Stay, IdleThreads, WorkingThreads

\* Steps that leave the counters alone
QuietStep ==
    \/ \E t \in Threads : \/ WaitForJob(t) \/ DestroyJob(t) \/ Fire(t) \/ HandOver(t)
                          \/ WaitForEvent(t) \/ TimedOut(t)
    \/ \E job \in Jobs : Submit(job)
    \/ Stop \/ Cancel \/ Terminated \/ Flush \/ Tick

\* They are indeed quiet, and if they change the number of desired threads
\* they shut the pool down
LEMMA QuietSteps ==
    ASSUME PoolTypes, QuietStep
    PROVE  /\ Quiet /\ UNCHANGED worker /\ at' \in [Threads -> Places]
           /\ desired' \in {0, desired}
           /\ Alike(at, at')
<1> USE DEF PoolTypes, poolVars, threadVars, jobVars, eventVars
<1> SUFFICES /\ Alike(at, at') /\ at' \in [Threads -> Places] /\ desired' \in {0, desired}
             /\ UNCHANGED <<worker, total, working>>
  BY AlikeIsQuiet
<1>1. ASSUME NEW t \in Threads, NEW x \in Places, at' = [at EXCEPT ![t] = x],
             (at[t] \in IdlePlaces) <=> (x \in IdlePlaces),
             (at[t] \in WorkingPlaces) <=> (x \in WorkingPlaces)
      PROVE  Alike(at, at') /\ at' \in [Threads -> Places]
  BY <1>1 DEF Alike
<1>2. CASE \E t \in Threads : WaitForJob(t) \/ DestroyJob(t) \/ Fire(t)
                                \/ WaitForEvent(t) \/ TimedOut(t)
  BY <1>1, <1>2 DEF WaitForJob, DestroyJob, Fire, WaitForEvent, TimedOut, Places,
                    IdlePlaces, WorkingPlaces
<1>3. CASE \E t \in Threads : HandOver(t)
  <2> PICK t \in Threads : HandOver(t)
    BY <1>3
  <2> DEFINE a == [at EXCEPT ![t] = "scheduling"]
  <2>1. a \in [Threads -> Places] /\ Alike(at, a)
    BY DEF HandOver, Alike, Places, IdlePlaces, WorkingPlaces
  <2>2. at' \in [Threads -> Places] /\ Alike(a, at')
    BY <2>1, SignalsAlike DEF HandOver
  <2>3. Alike(at, at')
    BY <2>1, <2>2 DEF Alike
  <2> QED
    BY <2>2, <2>3 DEF HandOver
<1>4. CASE \E job \in Jobs : Submit(job)
  <2> PICK job \in Jobs : Submit(job)
    BY <1>4
  <2>1. at' \in [Threads -> Places] /\ Alike(at, at')
    BY SignalsAlike DEF Submit, QueueJob, ExecuteJob, ScheduleJob, ScheduleAt
  <2> QED
    BY <2>1 DEF Submit, QueueJob, ExecuteJob, ScheduleJob, ScheduleAt
<1>5. CASE Stop \/ Cancel \/ Terminated
  <2>1. at' \in [Threads -> Places] /\ Alike(at, at')
    BY <1>5, SignalsAlike DEF Stop, Cancel, Terminated, WaitOrEnd, Alike
  <2> QED
    BY <1>5, <2>1 DEF Stop, Cancel, Terminated
<1>6. CASE Flush \/ Tick
  BY <1>6 DEF Flush, Tick, Alike
<1> QED
  BY <1>2, <1>3, <1>4, <1>5, <1>6 DEF QuietStep

-----------------------------------------------------------------------------
(* The other actions.                                                      *)

\* A thread that is one too many leaves
LEMMA LeaveSteps ==
    ASSUME PoolTypes, NEW t \in Threads, EndThread(t) \/ EndRestart(t)
    PROVE  /\ Leave(t) /\ at' \in [Threads -> Places] /\ UNCHANGED <<worker, desired>>
           /\ desired < total
<1>1. /\ at[t] \in IdlePlaces /\ at[t] \notin WorkingPlaces
      /\ at' = [at EXCEPT ![t] = "ended"]
      /\ total' = total - 1 /\ desired < total /\ UNCHANGED <<worker, working, desired>>
  BY DEF EndThread, EndRestart, IdlePlaces, WorkingPlaces
<1>2. "ended" \in Places /\ "ended" \notin IdlePlaces /\ "ended" \notin WorkingPlaces
  BY DEF Places, IdlePlaces, WorkingPlaces
<1>3. IdleThreads' = IdleThreads \ {t} /\ t \in IdleThreads
  BY <1>1, <1>2 DEF IdleThreads, PoolTypes
<1>4. Stay
  BY <1>1, <1>2 DEF Stay, WorkingThreads, PoolTypes
<1> QED
  BY <1>1, <1>2, <1>3, <1>4 DEF Leave, PoolTypes

\* A thread that gets a job of priority p takes it
LEMMA TakeSteps ==
    ASSUME PoolTypes, NEW t \in Threads, GetJob(t)
    PROVE  \E p \in Prios : /\ Take(t, p) /\ ~Delayed(p)
                            /\ at' \in [Threads -> Places] /\ UNCHANGED <<desired, stage>>
                            /\ DOMAIN worker' = Threads
                            /\ \A u \in Threads : worker'[u].priority \in Prios
<1>1. PICK p \in Prios :
         /\ ~Delayed(p)
         /\ worker' = [worker EXCEPT ![t] = [job |-> Head(queue[p]), priority |-> p]]
         /\ at' = [at EXCEPT ![t] = IF Head(queue[p]) = Scheduler THEN "scheduling"
                                                                  ELSE "executing"]
         /\ working' = [working EXCEPT ![p] = @ + 1]
  BY DEF GetJob, Available
<1>2. PICK x \in {"scheduling", "executing"} : at' = [at EXCEPT ![t] = x]
  BY <1>1
<1>3. /\ x \in Places /\ x \notin IdlePlaces /\ x \in WorkingPlaces
      /\ at[t] \in IdlePlaces /\ at[t] \notin WorkingPlaces
      /\ UNCHANGED <<desired, total, stage>>
  BY DEF GetJob, Places, IdlePlaces, WorkingPlaces
<1>4. IdleThreads' = IdleThreads \ {t} /\ t \in IdleThreads
  BY <1>2, <1>3 DEF IdleThreads, PoolTypes
<1>5. /\ DOMAIN worker' = Threads /\ worker'[t].priority = p
      /\ \A u \in Threads \ {t} : worker'[u] = worker[u]
  BY <1>1 DEF PoolTypes
<1>6. /\ t \notin WorkingThreads(p) /\ WorkingThreads(p)' = WorkingThreads(p) \cup {t}
      /\ \A q \in Prios \ {p} : WorkingThreads(q)' = WorkingThreads(q)
  BY <1>2, <1>3, <1>5 DEF WorkingThreads, PoolTypes
<1>7. Take(t, p)
  BY <1>1, <1>3, <1>4, <1>6 DEF Take
<1>8. \A u \in Threads : worker'[u].priority \in Prios
  BY <1>5 DEF PoolTypes
<1> QED
  BY <1>1, <1>2, <1>3, <1>5, <1>7, <1>8 DEF PoolTypes

\* A thread whose job returned, or that is canceled, gives up its job
LEMMA GiveUpSteps ==
    ASSUME PoolTypes, NEW t \in Threads,
           FinishJob(t) \/ RequeueJob(t) \/ RescheduleJob(t) \/ Restart(t)
    PROVE  \E p \in Prios : /\ GiveUp(t, p)
                            /\ at' \in [Threads -> Places] /\ UNCHANGED <<desired, stage>>
                            /\ DOMAIN worker' = Threads
                            /\ \A u \in Threads : worker'[u].priority \in Prios
<1>0. PICK p \in Prios : p = worker[t].priority
  BY DEF PoolTypes
<1>1. /\ p \in Prios /\ at[t] \in WorkingPlaces /\ at[t] \notin IdlePlaces
      /\ worker' = [worker EXCEPT ![t] = NoWork]
      /\ working' = [working EXCEPT ![p] = @ - 1]
      /\ UNCHANGED <<desired, total, stage>>
  BY <1>0 DEF PoolTypes, FinishJob, RequeueJob, RescheduleJob, Restart, Executed, WorkingPlaces, IdlePlaces
<1>2. \E x \in {"loop", "destroying", "restarting"} :
         at' \in [Threads -> Places] /\ Alike([at EXCEPT ![t] = x], at')
  <2>1. \A x \in {"loop", "destroying", "restarting"} :
           /\ [at EXCEPT ![t] = x] \in [Threads -> Places]
           /\ Alike([at EXCEPT ![t] = x], [at EXCEPT ![t] = x])
    BY DEF PoolTypes, Places, IdlePlaces, Alike
  <2>2. CASE FinishJob(t) \/ Restart(t)
    BY <2>1, <2>2 DEF FinishJob, Restart
  <2>3. CASE RequeueJob(t)
    BY <2>1, <2>3, SignalsAlike DEF RequeueJob
  <2>4. CASE RescheduleJob(t)
    BY <2>1, <2>4, SignalsAlike DEF RescheduleJob, ScheduleAt
  <2> QED
    BY <2>2, <2>3, <2>4
<1>3. PICK x \in {"loop", "destroying", "restarting"} :
         at' \in [Threads -> Places] /\ Alike([at EXCEPT ![t] = x], at')
  BY <1>2
<1>4. x \in IdlePlaces /\ x \notin WorkingPlaces
  BY DEF IdlePlaces, WorkingPlaces
<1>5. /\ at'[t] \in IdlePlaces /\ at'[t] \notin WorkingPlaces
      /\ \A u \in Threads \ {t} : /\ at'[u] \in IdlePlaces <=> at[u] \in IdlePlaces
                                  /\ at'[u] \in WorkingPlaces <=> at[u] \in WorkingPlaces
  BY <1>3, <1>4 DEF Alike, PoolTypes
<1>6. IdleThreads' = IdleThreads \cup {t} /\ t \notin IdleThreads
  BY <1>1, <1>5 DEF IdleThreads
<1>7. /\ DOMAIN worker' = Threads /\ \A u \in Threads \ {t} : worker'[u] = worker[u]
      /\ worker'[t].priority \in Prios
  BY <1>1 DEF PoolTypes, NoWork, Prios
<1>8. /\ t \in WorkingThreads(p) /\ WorkingThreads(p)' = WorkingThreads(p) \ {t}
      /\ \A q \in Prios \ {p} : WorkingThreads(q)' = WorkingThreads(q)
  BY <1>0, <1>1, <1>5, <1>7 DEF WorkingThreads
<1>9. GiveUp(t, p)
  BY <1>1, <1>6, <1>8 DEF GiveUp
<1>10. \A u \in Threads : worker'[u].priority \in Prios
  BY <1>7 DEF PoolTypes
<1> QED
  BY <1>1, <1>3, <1>7, <1>9, <1>10

-----------------------------------------------------------------------------
(* The invariant.                                                          *)

\* It holds before the start
LEMMA PoolInit == Init => PoolInv
<1> SUFFICES ASSUME Init PROVE PoolInv
  OBVIOUS
<1>1. PoolTypes /\ NoExcess /\ NotStarted
  BY DEF Init, ProcessorCreate, SchedulerCreate, PoolTypes, NoExcess, NotStarted, NoWork, Prios, Places
<1>2. IdleThreads = {} /\ \A p \in Prios : WorkingThreads(p) = {}
  BY DEF Init, ProcessorCreate, SchedulerCreate, IdleThreads, WorkingThreads, IdlePlaces, WorkingPlaces
<1>3. CountersAgree
  <2>1. Cardinality({}) = 0
    BY FS_EmptySet
  <2>2. GetIdleThreads = 0 /\ \A p \in Prios : working[p] = 0
    BY DEF Init, ProcessorCreate, SchedulerCreate, GetIdleThreads, Sum, Prios
  <2> QED
    BY <1>2, <2>1, <2>2 DEF CountersAgree
<1>4. ReservedThreads
  BY DEF Init, ProcessorCreate, SchedulerCreate, ReservedThreads
<1> QED
  BY <1>1, <1>3, <1>4 DEF PoolInv

\* The start creates idle threads
LEMMA StartStep == PoolInv /\ Start => PoolInv'
<1> SUFFICES ASSUME PoolInv, Start PROVE PoolInv'
  OBVIOUS
<1> USE ConstantsAssumption
<1>1. PICK n \in 0..NumThreads :
         /\ total' = n /\ desired' = NumThreads /\ stage' = "started"
         /\ at' = [t \in Threads |-> IF t <= n THEN "loop" ELSE "none"]
         /\ UNCHANGED <<working, worker>>
  BY DEF Start
<1>2. /\ working = [p \in Prios |-> 0]
  BY DEF Start, PoolInv, NotStarted
<1>3. PoolTypes' /\ NoExcess' /\ NotStarted'
  BY <1>1 DEF PoolInv, PoolTypes, NoExcess, NotStarted, Places, IdlePlaces
<1>4. IdleThreads' = 1..n
  BY <1>1 DEF IdleThreads, Threads, IdlePlaces
<1>5. \A p \in Prios : WorkingThreads(p)' = {}
  BY <1>1 DEF WorkingThreads, WorkingPlaces
<1>6. Cardinality(1..n) = n
  BY FS_Interval, <1>1
<1>7. CountersAgree'
  <2>1. Cardinality({}) = 0
    BY FS_EmptySet
  <2>2. GetIdleThreads' = n /\ \A p \in Prios : working'[p] = 0
    BY <1>1, <1>2 DEF GetIdleThreads, Sum, Prios
  <2> QED
    BY <1>4, <1>5, <1>6, <2>1, <2>2 DEF CountersAgree
<1>8. ReservedThreads'
  BY <1>1, <1>2 DEF ReservedThreads, Sum, Above, Prios
<1> QED
  BY <1>3, <1>7, <1>8 DEF PoolInv

\* Every step keeps it
LEMMA PoolNext == PoolInv /\ [Next]_vars => PoolInv'
<1> SUFFICES ASSUME PoolInv, [Next]_vars PROVE PoolInv'
  OBVIOUS
<1> USE DEF PoolInv
<1>1. CASE QuietStep
  <2>1. /\ Quiet /\ UNCHANGED worker /\ at' \in [Threads -> Places]
        /\ desired' \in {0, desired} /\ Alike(at, at')
    BY <1>1, QuietSteps
  <2>2. PoolTypes' /\ NoExcess'
    BY <2>1 DEF PoolTypes, NoExcess, Quiet
  <2>3. NotStarted'
    <3> SUFFICES ASSUME stage' = "init"
                 PROVE  stage = "init" /\ \A t \in Threads : at'[t] = "none"
      BY <2>1 DEF NotStarted, Quiet
    <3> USE DEF poolVars, threadVars
    <3>1. CASE \E t \in Threads : \/ WaitForJob(t) \/ DestroyJob(t) \/ Fire(t) \/ HandOver(t)
                                  \/ WaitForEvent(t) \/ TimedOut(t)
      BY <3>1 DEF NotStarted, WaitForJob, DestroyJob, Fire, HandOver, WaitForEvent, TimedOut
    <3>2. CASE \E job \in Jobs : Submit(job)
      BY <3>2 DEF NotStarted, Submit, QueueJob, ExecuteJob, ScheduleJob, ScheduleAt, Signal,
                  WakeScheduler
    <3>3. CASE Stop \/ Cancel \/ Terminated \/ Flush \/ Tick
      BY <3>3 DEF NotStarted, Stop, Cancel, Terminated, WaitOrEnd, Flush, Tick
    <3> QED
      BY <1>1, <3>1, <3>2, <3>3 DEF QuietStep
  <2>4. CountersAgree'
    BY <2>1, QuietCounters
  <2>5. ReservedThreads'
    BY <2>1 DEF ReservedThreads, Quiet, PoolTypes
  <2> QED
    BY <2>2, <2>3, <2>4, <2>5
<1>2. ASSUME NEW t \in Threads, EndThread(t) \/ EndRestart(t) PROVE PoolInv'
  <2>1. /\ Leave(t) /\ at' \in [Threads -> Places] /\ UNCHANGED <<worker, desired>>
        /\ desired < total
    BY <1>2, LeaveSteps
  <2>2. desired = 0
    BY <2>1 DEF NoExcess, PoolTypes
  <2>3. PoolTypes' /\ NoExcess' /\ ReservedThreads'
    BY <2>1, <2>2 DEF PoolTypes, NoExcess, Leave, ReservedThreads
  <2>4. NotStarted'
    BY <1>2 DEF NotStarted, EndThread, EndRestart, SignalTerminated
  <2>5. CountersAgree'
    BY <2>1, LeaveCounters
  <2> QED
    BY <2>3, <2>4, <2>5
<1>3. ASSUME NEW t \in Threads, GetJob(t) PROVE PoolInv'
  <2>1. PICK p \in Prios :
          /\ Take(t, p) /\ ~Delayed(p)
          /\ at' \in [Threads -> Places] /\ UNCHANGED <<desired, stage>>
          /\ DOMAIN worker' = Threads
          /\ \A u \in Threads : worker'[u].priority \in Prios
    BY <1>3, TakeSteps
  <2>2. PoolTypes' /\ NoExcess'
    BY <2>1 DEF PoolTypes, NoExcess, Take
  <2>3. NotStarted'
    BY <1>3, <2>1 DEF NotStarted, GetJob
  <2> QED
    BY <2>1, <2>2, <2>3, TakeCounters, TakeReserved
<1>4. ASSUME NEW t \in Threads, FinishJob(t) \/ RequeueJob(t) \/ RescheduleJob(t) \/ Restart(t)
      PROVE  PoolInv'
  <2>1. PICK p \in Prios :
          /\ GiveUp(t, p)
          /\ at' \in [Threads -> Places] /\ UNCHANGED <<desired, stage>>
          /\ DOMAIN worker' = Threads
          /\ \A u \in Threads : worker'[u].priority \in Prios
    BY <1>4, GiveUpSteps
  <2>2. PoolTypes' /\ NoExcess'
    BY <2>1 DEF PoolTypes, NoExcess, GiveUp
  <2>3. NotStarted'
    BY <1>4, <2>1 DEF NotStarted, FinishJob, RequeueJob, RescheduleJob, Restart, Executed
  <2> QED
    BY <2>1, <2>2, <2>3, GiveUpCounters, GiveUpReserved
<1>5. CASE Start
  BY <1>5, StartStep
<1>6. CASE UNCHANGED vars
  BY <1>6 DEF vars, poolVars, threadVars, jobVars, eventVars, PoolTypes, NoExcess, NotStarted,
              CountersAgree, ReservedThreads, GetIdleThreads, IdleThreads, WorkingThreads
<1> QED
  BY <1>1, <1>2, <1>3, <1>4, <1>5, <1>6 DEF Next, Work, QuietStep

\* The counters of the processor agree with what its threads do
\* (processor.c:123-133, :176-194, :201-242, :250-329).
THEOREM CountersCorrect == Spec => []CountersAgree
<1>1. PoolInv => CountersAgree
  BY DEF PoolInv
<1> QED
  BY <1>1, PoolInit, PoolNext, PTL DEF Spec

\* No job of a lower priority uses a thread that is reserved for a higher one
\* (processor.c:140-168).
THEOREM ReservationsKept == Spec => []ReservedThreads
<1>1. PoolInv => ReservedThreads
  BY DEF PoolInv
<1> QED
  BY <1>1, PoolInit, PoolNext, PTL DEF Spec

-----------------------------------------------------------------------------
(* A set of natural numbers has a least element, and a bounded one has a   *)
(* greatest: this takes the place of induction below.                      *)

\* The initial segments 0..k for k in S are ordered by inclusion.
LEMMA HasLeast ==
    ASSUME NEW S \in SUBSET Nat, S # {}
    PROVE  \E m \in S : \A k \in S : m <= k
<1> DEFINE Segments == {0..k : k \in S}
           R == StrictSubsetOrdering(Nat)
<1>1. Segments \subseteq FiniteSubsetsOf(Nat)
  <2>1. \A k \in S : IsFiniteSet(0..k) /\ 0..k \subseteq Nat BY FS_Interval
  <2> QED BY <2>1 DEF FiniteSubsetsOf
<1>2. Segments # {} OBVIOUS
<1> HIDE DEF Segments, R
<1>3. PICK x \in Segments : \A y \in Segments : ~(<<y, x>> \in R)
  BY <1>1, <1>2, WFMin, FS_StrictSubsetOrderingWellFounded DEF R
<1> USE DEF Segments
<1>4. PICK m \in S : x = 0..m BY <1>3
<1>5. ASSUME NEW k \in S, k < m PROVE FALSE
  <2>1. 0..k \in Segments /\ 0..k \subseteq x /\ 0..k # x BY <1>4, <1>5
  <2>2. <<0..k, x>> \in R BY <1>1, <1>3, <2>1 DEF R, StrictSubsetOrdering
  <2> QED BY <1>3, <2>1, <2>2
<1> QED BY <1>5

LEMMA HasGreatest ==
    ASSUME NEW n \in Nat, NEW S \in SUBSET (0..n), S # {}
    PROVE  \E m \in S : \A k \in S : k <= m
<1> DEFINE D == {n - k : k \in S}
<1>0. S \subseteq Nat /\ \A k \in S : k <= n OBVIOUS
<1>1. D \in SUBSET Nat /\ D # {}
  <2>1. \A k \in S : n - k \in Nat BY <1>0
  <2> QED BY <2>1
<1>2. PICK d \in D : \A k \in D : d <= k BY <1>1, HasLeast
<1>3. PICK m \in S : d = n - m BY <1>2
<1>4. ASSUME NEW k \in S PROVE k <= m
  <2>1. n - k \in D OBVIOUS
  <2>2. n - m <= n - k BY <1>2, <1>3, <2>1
  <2>3. k \in Int /\ m \in Int OBVIOUS
  <2> HIDE DEF D
  <2> QED BY <2>2, <2>3
<1> QED BY <1>4

-----------------------------------------------------------------------------
(* The trail of a loop that always advances.                               *)

\* Every position has a rank, and the loop goes to higher ranks only
Advances(n, next, rank) ==
    /\ next \in [1..n -> 1..n]
    /\ rank \in [1..n -> 0..n]
    /\ \A p, q \in 1..n : rank[p] = rank[q] => p = q
    /\ \A p \in 1..n : next[p] # p => rank[p] < rank[next[p]]

\* The loop is at its start and at the next of each position it is at.
LEMMA TrailClosed ==
    ASSUME NEW n \in Nat, NEW start \in 1..n, NEW next \in [1..n -> 1..n],
           NEW X, X = Trail(n, start, next)
    PROVE  /\ X \subseteq 1..n /\ start \in X
           /\ \A p \in X : next[p] \in X
BY DEF Trail

\* Positions with these two properties are the whole trail.
Closed(S, next) == \A q \in S : next[q] \in S

LEMMA TrailLeast ==
    ASSUME NEW n \in Nat, NEW start \in 1..n, NEW next \in [1..n -> 1..n],
           NEW X, X = Trail(n, start, next),
           NEW S \in SUBSET X, start \in S, Closed(S, next)
    PROVE  S = X
<1>1. S \in SUBSET (1..n) BY DEF Trail
<1>2. \A p \in X : p \in S BY <1>1 DEF Trail, Closed
<1> QED BY <1>2

\* The trail is a chain: from each position below p it goes on, to p at most.
LEMMA TrailChain ==
    ASSUME NEW n \in Nat, NEW start \in 1..n, NEW next, NEW rank, Advances(n, next, rank),
           NEW X, X = Trail(n, start, next)
    PROVE  \A p, q \in X : rank[q] < rank[p] => next[q] # q /\ rank[next[q]] <= rank[p]
<1> DEFINE Below(p) == {q \in X : rank[q] < rank[p]}
           T == {p \in X : \A q \in Below(p) : next[q] # q /\ rank[next[q]] <= rank[p]}
<1>0. next \in [1..n -> 1..n] BY DEF Advances
<1>1. X \subseteq 1..n /\ start \in X /\ \A p \in X : next[p] \in X
  BY <1>0, TrailClosed
<1>2. \A p \in 1..n : rank[p] \in Int BY DEF Advances
<1>a. \A p \in X : rank[p] <= rank[next[p]] /\ rank[p] \in Int /\ rank[next[p]] \in Int
  <2>1. \A p \in X : p \in 1..n /\ next[p] \in 1..n BY <1>1
  <2>2. \A p \in 1..n : next[p] = p \/ rank[p] < rank[next[p]] BY DEF Advances
  <2> QED BY <1>2, <2>1, <2>2
<1>3. start \in T
  <2> DEFINE S == {q \in X : rank[start] <= rank[q]}
  <2>1. ASSUME NEW q \in S PROVE next[q] \in S
    <3>1. q \in X /\ next[q] \in X /\ rank[start] <= rank[q] BY <1>1, <2>1
    <3>2. rank[start] \in Int BY <1>2
    <3> QED BY <1>a, <3>1, <3>2
  <2>2. start \in S BY <1>1, <1>2
  <2>3. S = X
    <3>1. S \in SUBSET X /\ Closed(S, next) BY <2>1 DEF Closed
    <3> HIDE DEF S, T, Below
    <3> QED BY <1>0, <2>2, <3>1, TrailLeast
  <2>4. Below(start) = {} BY <1>1, <1>2, <2>3
  <2> QED BY <1>1, <2>4
<1>4. ASSUME NEW p \in T PROVE next[p] \in T
  <2>1. CASE next[p] = p BY <2>1, <1>4
  <2>2. CASE next[p] # p
    <3> DEFINE S == {q \in X : rank[q] <= rank[p] \/ rank[next[p]] <= rank[q]}
    <3>1. p \in X /\ next[p] \in X /\ rank[p] < rank[next[p]] BY <1>1, <2>2 DEF Advances
    <3>2. \A q \in Below(p) : next[q] # q /\ rank[next[q]] <= rank[p] BY <1>4
    <3>3. ASSUME NEW q \in S PROVE next[q] \in S
      <4>1. q \in X /\ next[q] \in X /\ rank[q] <= rank[next[q]]
        BY <1>1, <1>a, <3>3
      <4>2. q = p \/ rank[q] < rank[p] \/ rank[next[p]] <= rank[q]
        BY <1>1, <1>2, <3>1, <3>3 DEF Advances
      <4> QED BY <1>1, <1>2, <3>1, <3>2, <4>1, <4>2
    <3>4. start \in S
      <4>1. ~(rank[p] < rank[start]) \/ rank[next[p]] <= rank[start]
        <5>1. \A q \in Below(start) : next[q] # q /\ rank[next[q]] <= rank[start] BY <1>3
        <5> QED BY <3>1, <5>1
      <4> QED BY <1>1, <1>2, <3>1, <4>1
    <3>5. S = X
      <4>1. S \in SUBSET X /\ Closed(S, next) BY <3>3 DEF Closed
      <4> HIDE DEF S, T, Below
      <4> QED BY <1>0, <3>4, <4>1, TrailLeast
    <3>6. ASSUME NEW q \in Below(next[p])
          PROVE  next[q] # q /\ rank[next[q]] <= rank[next[p]]
      <4>1. q \in X /\ rank[q] < rank[next[p]] OBVIOUS
      <4>2. rank[q] <= rank[p] BY <1>1, <1>2, <3>1, <3>5, <4>1
      <4>3. q = p \/ q \in Below(p) BY <1>1, <1>2, <3>1, <4>1, <4>2 DEF Advances
      <4> QED BY <1>1, <1>2, <2>2, <3>1, <3>2, <4>1, <4>3
    <3> QED BY <3>1, <3>6
  <2> QED BY <2>1, <2>2
<1>5. T = X
  <2>1. T \in SUBSET X /\ Closed(T, next) BY <1>4 DEF Closed
  <2> HIDE DEF T, Below
  <2> QED BY <1>0, <1>3, <2>1, TrailLeast
<1> QED BY <1>5

\* The loop ends at one position, gets to every position from one other only
\* and never comes back to its start.
LEMMA TrailShape ==
    ASSUME NEW n \in Nat, NEW start \in 1..n, NEW next, NEW rank, Advances(n, next, rank),
           NEW X, X = Trail(n, start, next)
    PROVE  /\ \E e \in X : next[e] = e /\ \A p \in X : next[p] = p => p = e
           /\ \A p \in X : p # start => \E q \in X : next[q] # q /\ next[q] = p
           /\ \A p, q \in X : next[p] # p /\ next[q] # q /\ next[p] = next[q] => p = q
           /\ \A p \in X : next[p] # p => next[p] # start
<1>0. next \in [1..n -> 1..n] BY DEF Advances
<1>1. X \subseteq 1..n /\ start \in X /\ \A p \in X : next[p] \in X
  BY <1>0, TrailClosed
<1>2. /\ \A p \in X : rank[p] \in 0..n /\ rank[p] \in Int
      /\ \A p, q \in X : rank[p] = rank[q] => p = q
      /\ \A p \in X : next[p] # p => rank[p] < rank[next[p]]
  <2>1. \A p \in X : p \in 1..n BY <1>1
  <2>2. \A p \in 1..n : rank[p] \in 0..n BY DEF Advances
  <2>3. 0..n \subseteq Int OBVIOUS
  <2>4. \A p \in X : rank[p] \in 0..n /\ rank[p] \in Int BY <2>1, <2>2, <2>3
  <2>5. \A p, q \in X : rank[p] = rank[q] => p = q BY <2>1 DEF Advances
  <2>6. \A p \in X : next[p] # p => rank[p] < rank[next[p]] BY <2>1 DEF Advances
  <2> QED BY <2>4, <2>5, <2>6
<1>3. \A p, q \in X : rank[q] < rank[p] => next[q] # q /\ rank[next[q]] <= rank[p]
  BY TrailChain
<1>4. \E e \in X : next[e] = e /\ \A p \in X : next[p] = p => p = e
  <2> DEFINE Ranks == {rank[p] : p \in X}
  <2>1. Ranks \in SUBSET (0..n) /\ Ranks # {} BY <1>1, <1>2
  <2>2. PICK m \in Ranks : \A k \in Ranks : k <= m
    <3> HIDE DEF Ranks
    <3> QED BY <2>1, HasGreatest
  <2>3. PICK e \in X : m = rank[e] BY <2>2
  <2>4. next[e] = e
    <3>1. rank[next[e]] <= rank[e] BY <1>1, <2>2, <2>3
    <3> QED BY <1>1, <1>2, <3>1
  <2>5. ASSUME NEW p \in X, next[p] = p PROVE p = e
    <3>1. rank[p] <= rank[e] BY <2>2, <2>3
    <3> QED BY <1>2, <1>3, <2>5, <3>1
  <2> QED BY <2>4, <2>5
<1>5. ASSUME NEW p \in X, p # start PROVE \E q \in X : next[q] # q /\ next[q] = p
  <2> DEFINE S == {q \in X : q = start \/ \E r \in X : next[r] # r /\ next[r] = q}
  <2>1. ASSUME NEW q \in S PROVE next[q] \in S
    <3>1. q \in X /\ next[q] \in X BY <1>1
    <3> QED BY <3>1
  <2>2. S \in SUBSET X /\ start \in S /\ Closed(S, next) BY <1>1, <2>1 DEF Closed
  <2>3. S = X
    <3> HIDE DEF S
    <3> QED BY <1>0, <2>2, TrailLeast
  <2> QED BY <1>5, <2>3
<1>6. ASSUME NEW p \in X, NEW q \in X, next[p] # p, next[q] # q, next[p] = next[q]
      PROVE  p = q
  <2>1. ~(rank[p] < rank[q]) /\ ~(rank[q] < rank[p])
    BY <1>1, <1>2, <1>3, <1>6
  <2> QED BY <1>2, <2>1
<1>7. ASSUME NEW p \in X, next[p] # p PROVE next[p] # start
  <2>1. SUFFICES ASSUME next[p] = start PROVE FALSE OBVIOUS
  <2>2. rank[p] < rank[start] BY <1>2, <1>7, <2>1
  <2>3. p # start BY <1>7, <2>1
  <2> DEFINE S == {q \in X : rank[start] <= rank[q]}
  <2>4. S \in SUBSET X /\ start \in S /\ Closed(S, next)
    <3>1. ASSUME NEW q \in S PROVE next[q] \in S
      <4>1. q \in X /\ next[q] \in X /\ rank[start] <= rank[q] BY <1>1, <3>1
      <4>2. next[q] = q \/ rank[q] < rank[next[q]] BY <1>2, <4>1
      <4>3. rank[start] \in Int /\ rank[q] \in Int /\ rank[next[q]] \in Int
        BY <1>1, <1>2, <4>1
      <4> QED BY <4>1, <4>2, <4>3
    <3>2. rank[start] \in Int BY <1>1, <1>2
    <3> QED BY <1>1, <3>1, <3>2 DEF Closed
  <2>5. S = X
    <3> HIDE DEF S
    <3> QED BY <1>0, <2>4, TrailLeast
  <2>6. rank[start] <= rank[p] BY <2>5
  <2> QED BY <1>1, <1>2, <2>2, <2>6
<1> QED BY <1>4, <1>5, <1>6, <1>7

\* F has the elements of G, in another order
Permuted(F, G, n) ==
    \E f \in [1..n -> 1..n] :
       /\ \A p, q \in 1..n : f[p] = f[q] => p = q
       /\ \A q \in 1..n : \E p \in 1..n : f[p] = q
       /\ \A p \in 1..n : F[p] = G[f[p]]

\* A loop moves the events around: none is lost or doubled.
LEMMA SettlePermutes ==
    ASSUME NEW n \in Nat, NEW start \in 1..n, NEW next, NEW rank, Advances(n, next, rank),
           NEW heap0, NEW event, NEW G, \A p \in 1..n : p # start => G[p] = heap0[p],
           G[start] = event
    PROVE  Permuted(Settle(heap0, n, start, event, next), G, n)
<1> PICK X : X = Trail(n, start, next) OBVIOUS
<1>0. next \in [1..n -> 1..n] BY DEF Advances
<1>1. X \subseteq 1..n /\ start \in X /\ \A p \in X : next[p] \in X
  BY <1>0, TrailClosed
<1>2. /\ \E e \in X : next[e] = e /\ \A p \in X : next[p] = p => p = e
      /\ \A p \in X : p # start => \E q \in X : next[q] # q /\ next[q] = p
      /\ \A p, q \in X : next[p] # p /\ next[q] # q /\ next[p] = next[q] => p = q
      /\ \A p \in X : next[p] # p => next[p] # start
  BY TrailShape
<1>3. PICK e \in X : next[e] = e /\ \A p \in X : next[p] = p => p = e BY <1>2
<1>a. \A p, q \in X : next[p] # p /\ next[q] # q /\ next[p] = next[q] => p = q BY <1>2
<1>b. \A p \in X : next[p] # p => next[p] # start BY <1>2
<1> DEFINE F == Settle(heap0, n, start, event, next)
           f == [p \in 1..n |-> IF p \notin X THEN p ELSE IF next[p] = p THEN start ELSE next[p]]
<1>4. /\ f \in [1..n -> 1..n]
      /\ \A p \in 1..n : p \notin X => f[p] = p
      /\ \A p \in X : next[p] # p => f[p] = next[p]
      /\ f[e] = start
  BY <1>0, <1>1, <1>3
<1>5. \A p \in 1..n : F[p] = IF p \notin X THEN heap0[p]
                               ELSE IF next[p] = p THEN event ELSE heap0[next[p]]
  BY DEF Settle
<1> HIDE DEF f, F
<1>6. \A p \in X : p = e \/ next[p] # p BY <1>3
<1>7. ASSUME NEW p \in 1..n, NEW q \in 1..n, f[p] = f[q] PROVE p = q
  <2>1. CASE p \notin X /\ q \notin X BY <1>4, <1>7, <2>1
  <2>2. CASE p \in X /\ q \notin X
    <3>1. f[p] \in X BY <1>1, <1>4, <1>6, <2>2
    <3> QED BY <1>4, <1>7, <2>2, <3>1
  <2>3. CASE p \notin X /\ q \in X
    <3>1. f[q] \in X BY <1>1, <1>4, <1>6, <2>3
    <3> QED BY <1>4, <1>7, <2>3, <3>1
  <2>4. CASE p \in X /\ q \in X
    <3>1. CASE p = e \/ q = e BY <1>4, <1>6, <1>7, <1>b, <2>4, <3>1
    <3>2. CASE p # e /\ q # e BY <1>4, <1>6, <1>7, <1>a, <2>4, <3>2
    <3> QED BY <3>1, <3>2
  <2> QED BY <2>1, <2>2, <2>3, <2>4
<1>8. ASSUME NEW q \in 1..n PROVE \E p \in 1..n : f[p] = q
  <2>1. CASE q \notin X BY <1>4, <2>1
  <2>2. CASE q = start BY <1>1, <1>4, <2>2
  <2>3. CASE q \in X /\ q # start
    <3>1. PICK p \in X : next[p] # p /\ next[p] = q BY <1>2, <2>3
    <3>2. p \in 1..n /\ f[p] = q BY <1>1, <1>4, <3>1
    <3> QED BY <3>2
  <2> QED BY <2>1, <2>2, <2>3
<1>9. ASSUME NEW p \in 1..n PROVE F[p] = G[f[p]]
  <2>1. CASE p \notin X BY <1>1, <1>4, <1>5, <2>1
  <2>2. CASE p = e BY <1>1, <1>3, <1>4, <1>5, <2>2
  <2>3. CASE p \in X /\ next[p] # p
    <3>1. next[p] \in 1..n /\ next[p] # start BY <1>1, <1>b, <2>3
    <3>2. f[p] = next[p] BY <1>4, <2>3
    <3>3. F[p] = heap0[next[p]] BY <1>5, <2>3
    <3> QED BY <3>1, <3>2, <3>3
  <2> QED BY <1>6, <2>1, <2>2, <2>3
<1>10. Permuted(F, G, n) BY <1>4, <1>7, <1>8, <1>9 DEF Permuted
<1> QED BY <1>10 DEF F

-----------------------------------------------------------------------------
(* The heap.                                                               *)

AllJobs == Jobs \cup {Scheduler}
EventType == [time : Nat, job : AllJobs]

\* No event fires before the one above it
Ordered(h) == \A p \in 2..Len(h) : h[p \div 2].time <= h[p].time

LEMMA Halves ==
    ASSUME NEW p \in Nat
    PROVE  /\ p >= 2 => p \div 2 \in 1..(p - 1) /\ (p = 2 * (p \div 2) \/ p = 2 * (p \div 2) + 1)
           /\ (2 * p) \div 2 = p /\ (2 * p + 1) \div 2 = p
OBVIOUS

LEMMA EventFields ==
    ASSUME NEW h \in Seq(EventType)
    PROVE  \A i \in 1..Len(h) : h[i] \in EventType /\ h[i].time \in Nat /\ h[i].job \in AllJobs
<1>1. \A i \in 1..Len(h) : h[i] \in EventType OBVIOUS
<1>2. \A e \in EventType : e.time \in Nat /\ e.job \in AllJobs BY DEF EventType
<1> QED BY <1>1, <1>2

\* In a heap the first event is the next one that fires.
LEMMA TopFiresFirst ==
    ASSUME NEW h \in Seq(EventType), Ordered(h)
    PROVE  \A i \in 1..Len(h) : h[1].time <= h[i].time
<1> DEFINE Early == {i \in 1..Len(h) : h[i].time < h[1].time}
<1>1. \A i \in 1..Len(h) : h[i].time \in Nat BY EventFields
<1>2. SUFFICES ASSUME Early # {} PROVE FALSE BY <1>1
<1>3. Early \in SUBSET Nat OBVIOUS
<1>4. PICK m \in Early : \A k \in Early : m <= k
  <2> HIDE DEF Early
  <2> QED BY <1>2, <1>3, HasLeast
<1>5. m \in 1..Len(h) /\ h[m].time < h[1].time /\ Len(h) \in Nat OBVIOUS
<1>6. m >= 2 BY <1>1, <1>5
<1>7. m \div 2 \in 1..(m - 1) BY <1>5, <1>6, Halves
<1>8. m \div 2 \in 1..Len(h) BY <1>5, <1>7
<1>9. h[m \div 2].time <= h[m].time BY <1>5, <1>6 DEF Ordered
<1>10. h[m \div 2].time < h[1].time BY <1>1, <1>5, <1>8, <1>9
<1>11. m \div 2 \in Early BY <1>8, <1>10
<1> HIDE DEF Early
<1> QED BY <1>4, <1>5, <1>7, <1>11

\* Bubbling up: the loop of schedule_job_tv() goes to lower positions.
LEMMA InsertKeeps ==
    ASSUME NEW h \in Seq(EventType), NEW event \in EventType
    PROVE  /\ Insert(h, event) \in Seq(EventType)
           /\ Len(Insert(h, event)) = Len(h) + 1
           /\ Permuted(Insert(h, event), Append(h, event), Len(h) + 1)
           /\ Ordered(h) => Ordered(Insert(h, event))
<1>n. PICK n \in Nat : n = Len(h) + 1 OBVIOUS
<1>1. n \in 1..n /\ Len(h) = n - 1 BY <1>n
<1>2. PICK next : next = [p \in 1..n |-> IF p > 1 /\ h[p \div 2].time > event.time
                                           THEN p \div 2 ELSE p]
  OBVIOUS
<1>3. PICK F : F = Settle(h, n, n, event, next) OBVIOUS
<1>4. Insert(h, event) = F BY <1>n, <1>2, <1>3 DEF Insert
<1>5. \A p \in 2..n : p \div 2 \in 1..(p - 1) /\ (p = 2 * (p \div 2) \/ p = 2 * (p \div 2) + 1)
  BY Halves
<1>6. \A p \in 1..n : \/ next[p] = p /\ (p = 1 \/ h[p \div 2].time <= event.time)
                      \/ next[p] = p \div 2 /\ p \in 2..n /\ h[p \div 2].time > event.time
  <2>1. \A p \in 2..n : h[p \div 2].time \in Nat /\ event.time \in Nat
    <3>1. event.time \in Nat BY DEF EventType
    <3>2. \A p \in 2..n : p \div 2 \in 1..Len(h) BY <1>1, <1>5
    <3> QED BY <3>1, <3>2, EventFields
  <2> QED BY <1>2, <2>1
<1>7. next \in [1..n -> 1..n]
  <2>1. \A p \in 1..n : next[p] \in 1..n BY <1>5, <1>6
  <2> QED BY <1>2, <2>1
<1>8. PICK rank : rank = [p \in 1..n |-> n - p] OBVIOUS
<1>9. Advances(n, next, rank)
  <2>1. rank \in [1..n -> 0..n] /\ \A p, q \in 1..n : rank[p] = rank[q] => p = q
    BY <1>8
  <2>2. ASSUME NEW p \in 1..n, next[p] # p PROVE rank[p] < rank[next[p]]
    <3>1. next[p] = p \div 2 /\ p \in 2..n BY <1>6, <2>2
    <3>2. next[p] \in 1..(p - 1) /\ next[p] \in 1..n BY <1>5, <1>7, <3>1
    <3>3. rank[p] = n - p /\ rank[next[p]] = n - next[p] BY <1>8, <3>2
    <3> QED BY <3>2, <3>3
  <2> QED BY <1>7, <2>1, <2>2 DEF Advances
<1>10. PICK G : G = Append(h, event) OBVIOUS
<1>11. G[n] = event /\ \A p \in 1..n : p # n => G[p] = h[p] BY <1>1, <1>10
<1>12. Permuted(F, G, n) BY <1>1, <1>3, <1>9, <1>11, SettlePermutes
<1>13. \A p \in 1..n : G[p] \in EventType BY <1>1, <1>11
<1>14. F \in Seq(EventType) /\ Len(F) = n
  <2>1. F = [p \in 1..n |-> F[p]] BY <1>3 DEF Settle
  <2>2. \A p \in 1..n : F[p] \in EventType BY <1>12, <1>13 DEF Permuted
  <2> QED BY <2>1, <2>2
<1>15. ASSUME Ordered(h) PROVE Ordered(F)
  <2> PICK X : X = Trail(n, n, next) OBVIOUS
  <2>1. X \subseteq 1..n /\ n \in X /\ \A p \in X : next[p] \in X
    BY <1>1, <1>7, TrailClosed
  <2>2. \A p \in X : p # n => \E q \in X : next[q] # q /\ next[q] = p
    BY <1>1, <1>9, TrailShape
  <2>3. \A p, q \in X : rank[q] < rank[p] => next[q] # q /\ rank[next[q]] <= rank[p]
    BY <1>1, <1>9, TrailChain
  <2>4. \A p \in 1..n : F[p] = IF p \notin X THEN h[p]
                                 ELSE IF next[p] = p THEN event ELSE h[next[p]]
    BY <1>3 DEF Settle
  <2>5. \A p \in 1..(n - 1) : h[p].time \in Nat BY <1>1, EventFields
  <2>6. \A p \in 2..(n - 1) : h[p \div 2].time <= h[p].time BY <1>1, <1>15 DEF Ordered
  <2>7. event.time \in Nat BY DEF EventType
  <2>8. SUFFICES ASSUME NEW p \in 2..n PROVE F[p \div 2].time <= F[p].time
    BY <1>14 DEF Ordered
  <2>9. PICK d \in 1..(n - 1) : d = p \div 2 /\ d < p /\ (p = 2 * d \/ p = 2 * d + 1)
    BY <1>5, <2>8
  <2>a. p \in 1..n /\ d \in 1..n /\ h[d].time \in Nat BY <2>5, <2>8, <2>9
  \* The event above d, should the loop have moved it to d
  <2>b. d \in X /\ next[d] # d => F[d].time <= h[d].time
    <3>1. SUFFICES ASSUME d \in X, next[d] # d PROVE F[d].time <= h[d].time OBVIOUS
    <3>2. next[d] = d \div 2 /\ d \in 2..(n - 1) BY <1>6, <2>9, <2>a, <3>1
    <3> QED BY <2>4, <2>6, <2>a, <3>1, <3>2
  \* Where the loop ends the event fires before the one that was there
  <2>c. d \in X /\ next[d] = d => F[d] = event /\ event.time < h[d].time
    <3>1. SUFFICES ASSUME d \in X, next[d] = d PROVE F[d] = event /\ event.time < h[d].time
      OBVIOUS
    <3>2. PICK q \in X : next[q] # q /\ next[q] = d BY <2>2, <2>9, <3>1
    <3>3. h[d].time > event.time BY <1>6, <2>1, <3>2
    <3> QED BY <2>4, <2>7, <2>a, <3>1, <3>3
  <2>d. d \notin X => F[d] = h[d] BY <2>4, <2>a
  <2>10. CASE p \in X /\ next[p] # p
    <3>1. next[p] = d BY <1>6, <2>9, <2>a, <2>10
    <3>2. F[p] = h[d] /\ d \in X BY <2>1, <2>4, <2>a, <2>10, <3>1
    <3> QED BY <2>7, <2>9, <2>a, <2>b, <2>c, <3>2
  <2>11. CASE p \in X /\ next[p] = p
    <3>1. F[p] = event BY <2>4, <2>a, <2>11
    <3>2. h[d].time <= event.time BY <1>6, <2>8, <2>9, <2>a, <2>11
    <3>3. ASSUME d \in X PROVE FALSE
      <4>1. PICK q \in X : next[q] # q /\ next[q] = d BY <2>2, <2>9, <3>3
      <4>2. q \in 2..n /\ q # p /\ q > d
        <5>1. q \in 2..n /\ d = q \div 2 BY <1>6, <2>1, <4>1
        <5> QED BY <1>5, <2>9, <2>11, <4>1, <5>1
      <4>3. rank[q] = n - q /\ rank[p] = n - p /\ rank[d] = n - d
        BY <1>8, <2>1, <2>a
      <4>4. ~(rank[p] < rank[q]) BY <2>3, <2>11
      <4>5. rank[q] < rank[p] => rank[d] <= rank[p] BY <2>3, <2>11, <4>1
      <4> QED BY <2>9, <2>a, <4>2, <4>3, <4>4, <4>5
    <3> QED BY <2>9, <2>d, <3>1, <3>2, <3>3
  <2>12. CASE p \notin X
    <3>1. p \in 2..(n - 1) BY <2>1, <2>8, <2>12
    <3>2. F[p] = h[p] /\ h[d].time <= h[p].time /\ h[p].time \in Nat
      BY <2>4, <2>5, <2>6, <2>9, <2>a, <2>12, <3>1
    <3>3. CASE d \in X /\ next[d] # d
      <4>1. next[d] = d \div 2 /\ d \in 2..(n - 1) BY <1>6, <2>9, <2>a, <3>3
      <4>2. d \div 2 \in 1..(n - 1) BY <1>5, <4>1
      <4>3. F[d].time \in Nat BY <2>4, <2>5, <2>a, <3>3, <4>1, <4>2
      <4> QED BY <2>9, <2>a, <2>b, <3>2, <3>3, <4>3
    <3>4. CASE d \in X /\ next[d] = d BY <2>7, <2>9, <2>a, <2>c, <3>2, <3>4
    <3>5. CASE d \notin X BY <2>9, <2>d, <3>2, <3>5
    <3> QED BY <3>3, <3>4, <3>5
  <2> QED BY <2>10, <2>11, <2>12
<1> QED BY <1>n, <1>4, <1>10, <1>12, <1>14, <1>15

\* The child that fires first
LEMMA ChildFiresFirst ==
    ASSUME NEW h \in Seq(EventType), NEW n \in Nat, n <= Len(h), NEW p \in 1..n, 2 * p <= n,
           NEW c, c = Child(h, n, p)
    PROVE  /\ c \in (p + 1)..n /\ c \div 2 = p /\ h[c].time \in Nat
           /\ \A q \in 1..n : q = 2 * p \/ q = 2 * p + 1 => h[c].time <= h[q].time
<1>1. 2 * p \in 1..Len(h) /\ (2 * p + 1 <= n => 2 * p + 1 \in 1..Len(h)) OBVIOUS
<1>2. h[2 * p].time \in Nat /\ (2 * p + 1 <= n => h[2 * p + 1].time \in Nat)
  BY <1>1, EventFields
<1>3. (2 * p) \div 2 = p /\ (2 * p + 1) \div 2 = p BY Halves
<1>4. CASE 2 * p + 1 <= n /\ h[2 * p + 1].time < h[2 * p].time
  <2>1. c = 2 * p + 1 BY <1>4 DEF Child
  <2>2. c \in (p + 1)..n /\ c \div 2 = p BY <1>3, <1>4, <2>1
  <2>3. h[c].time \in Nat /\ h[c].time < h[2 * p].time BY <1>2, <1>4, <2>1
  <2>4. h[c].time <= h[2 * p].time /\ h[c].time <= h[2 * p + 1].time
    BY <1>2, <2>1, <2>3
  <2> QED BY <2>2, <2>3, <2>4
<1>5. CASE ~(2 * p + 1 <= n /\ h[2 * p + 1].time < h[2 * p].time)
  <2>1. c = 2 * p BY <1>5 DEF Child
  <2>2. c \in (p + 1)..n /\ c \div 2 = p BY <1>3, <2>1
  <2>3. h[c].time \in Nat /\ h[c].time <= h[2 * p].time BY <1>2, <2>1
  <2>4. 2 * p + 1 <= n => h[c].time <= h[2 * p + 1].time BY <1>2, <1>5, <2>1
  <2> QED BY <2>2, <2>3, <2>4
<1> QED BY <1>4, <1>5

\* The events that are left when the first one is gone, the last one in its place
Left(h) == [p \in 1..(Len(h) - 1) |-> IF p = 1 THEN h[Len(h)] ELSE h[p]]

\* Seeping down: the loop of remove_event() goes to higher positions.
LEMMA RemoveKeeps ==
    ASSUME NEW h \in Seq(EventType), h # << >>
    PROVE  /\ RemoveFirst(h) \in Seq(EventType)
           /\ Len(RemoveFirst(h)) = Len(h) - 1
           /\ Permuted(RemoveFirst(h), Left(h), Len(h) - 1)
           /\ Ordered(h) => Ordered(RemoveFirst(h))
<1>n. PICK n \in Nat : n = Len(h) - 1 OBVIOUS
<1>1. Len(h) = n + 1 BY <1>n
<1>2. PICK top \in EventType : top = h[n + 1] BY <1>1
<1>3. PICK next : next = [p \in 1..n |-> IF 2 * p <= n /\ top.time > h[Child(h, n, p)].time
                                           THEN Child(h, n, p) ELSE p]
  OBVIOUS
<1>4. PICK F : F = Settle(h, n, 1, top, next) OBVIOUS
<1>5. RemoveFirst(h) = F BY <1>n, <1>2, <1>3, <1>4 DEF RemoveFirst
<1>6. PICK G : G = Left(h) OBVIOUS
<1>c. ASSUME NEW p \in 1..n, 2 * p <= n
      PROVE  /\ Child(h, n, p) \in (p + 1)..n /\ Child(h, n, p) \div 2 = p
             /\ h[Child(h, n, p)].time \in Nat
             /\ \A q \in 1..n : q = 2 * p \/ q = 2 * p + 1 =>
                   h[Child(h, n, p)].time <= h[q].time
  <2>1. PICK c : c = Child(h, n, p) OBVIOUS
  <2>2. n <= Len(h) BY <1>1
  <2>3. /\ c \in (p + 1)..n /\ c \div 2 = p /\ h[c].time \in Nat
        /\ \A q \in 1..n : q = 2 * p \/ q = 2 * p + 1 => h[c].time <= h[q].time
    BY <1>c, <2>1, <2>2, ChildFiresFirst
  <2> QED BY <2>1, <2>3
<1>7. CASE n = 0
  <2>1. F = << >> /\ 1..n = {} BY <1>4, <1>7 DEF Settle
  <2>2. F \in Seq(EventType) /\ Len(F) = n BY <1>7, <2>1
  <2>3. Permuted(F, G, n)
    <3>1. [p \in 1..n |-> p] \in [1..n -> 1..n] OBVIOUS
    <3> QED BY <2>1, <3>1 DEF Permuted
  <2>4. Ordered(F) BY <1>7, <2>2 DEF Ordered
  <2> QED BY <1>1, <1>5, <1>6, <2>2, <2>3, <2>4
<1>8. CASE n > 0
  <2>1. 1 \in 1..n BY <1>8
  <2>2. \A p \in 1..n :
           \/ next[p] = p /\ (2 * p > n \/ top.time <= h[Child(h, n, p)].time)
           \/ next[p] = Child(h, n, p) /\ 2 * p <= n /\ top.time > h[Child(h, n, p)].time
    <3>1. \A p \in 1..n : 2 * p <= n => h[Child(h, n, p)].time \in Nat
      BY <1>c
    <3>2. top.time \in Nat BY DEF EventType
    <3> QED BY <1>3, <3>1, <3>2
  <2>3. \A p \in 1..n : next[p] # p =>
           next[p] \in (p + 1)..n /\ next[p] \div 2 = p
    BY <1>c, <2>2
  <2>4. next \in [1..n -> 1..n]
    <3>1. \A p \in 1..n : next[p] \in 1..n BY <2>3
    <3> QED BY <1>3, <3>1
  <2>5. PICK rank : rank = [p \in 1..n |-> p] OBVIOUS
  <2>6. Advances(n, next, rank)
    <3>1. rank \in [1..n -> 0..n] /\ \A p, q \in 1..n : rank[p] = rank[q] => p = q
      BY <2>5
    <3>2. ASSUME NEW p \in 1..n, next[p] # p PROVE rank[p] < rank[next[p]]
      BY <2>3, <2>4, <2>5, <3>2
    <3> QED BY <2>4, <3>1, <3>2 DEF Advances
  <2>7. G[1] = top /\ \A p \in 1..n : p # 1 => G[p] = h[p]
    BY <1>1, <1>2, <1>6, <2>1 DEF Left
  <2>8. Permuted(F, G, n) BY <1>4, <2>1, <2>6, <2>7, SettlePermutes
  <2>9. F \in Seq(EventType) /\ Len(F) = n
    <3>1. F = [p \in 1..n |-> F[p]] BY <1>4 DEF Settle
    <3>2. \A p \in 1..n : G[p] \in EventType BY <1>1, <2>7
    <3>3. \A p \in 1..n : F[p] \in EventType BY <2>8, <3>2 DEF Permuted
    <3> QED BY <3>1, <3>3
  <2>10. ASSUME Ordered(h) PROVE Ordered(F)
    <3> PICK X : X = Trail(n, 1, next) OBVIOUS
    <3>0. PICK start \in 1..n : start = 1 BY <2>1
    <3>1. X \subseteq 1..n /\ 1 \in X /\ \A p \in X : next[p] \in X
      <4>1. X = Trail(n, start, next) BY <3>0
      <4>2. X \subseteq 1..n /\ start \in X /\ \A p \in X : next[p] \in X
        BY <2>4, <4>1, TrailClosed
      <4> QED BY <3>0, <4>2
    <3>2. \A p \in X : p # 1 => \E q \in X : next[q] # q /\ next[q] = p
      BY <2>1, <2>6, TrailShape
    <3>4. \A p \in 1..n : F[p] = IF p \notin X THEN h[p]
                                   ELSE IF next[p] = p THEN top ELSE h[next[p]]
      BY <1>4 DEF Settle
    <3>5. \A p \in 1..n : h[p].time \in Nat BY <1>1, EventFields
    <3>6. \A p \in 2..n : h[p \div 2].time <= h[p].time BY <1>1, <2>10 DEF Ordered
    <3>7. top.time \in Nat BY DEF EventType
    <3>8. SUFFICES ASSUME NEW p \in 2..n PROVE F[p \div 2].time <= F[p].time
      BY <2>9 DEF Ordered
    <3>9. PICK d \in 1..n : d = p \div 2 /\ d < p /\ (p = 2 * d \/ p = 2 * d + 1)
      BY <3>8, Halves
    <3>a. p \in 1..n /\ 2 * d <= n /\ h[p].time \in Nat BY <3>5, <3>8, <3>9
    <3>b. PICK c \in 1..n : c = Child(h, n, d)
      BY <1>c, <3>a
    <3>c. h[c].time <= h[p].time
      BY <1>c, <3>9, <3>a, <3>b
    \* The loop gets to p from d only
    <3>d. p \in X => d \in X /\ next[d] = p
      BY <2>3, <3>1, <3>2, <3>9, <3>8
    <3>10. CASE d \in X /\ next[d] # d
      <4>1. next[d] = c /\ top.time > h[c].time BY <2>2, <3>b, <3>10
      <4>2. F[d] = h[c] BY <3>4, <3>10, <4>1
      <4>3. CASE p \in X /\ next[p] = p BY <3>4, <3>5, <3>7, <3>9, <3>a, <4>1, <4>2, <4>3
      <4>4. CASE p \in X /\ next[p] # p
        <5>1. p = c BY <3>d, <4>1, <4>4
        <5>2. next[p] \in 2..n /\ next[p] \div 2 = p BY <2>3, <3>a, <3>8, <4>4
        <5>3. F[p] = h[next[p]] BY <3>4, <3>a, <4>4
        <5> QED BY <3>6, <3>9, <4>2, <5>1, <5>2, <5>3
      <4>5. CASE p \notin X BY <3>4, <3>9, <3>a, <3>c, <4>2, <4>5
      <4> QED BY <4>3, <4>4, <4>5
    <3>11. CASE d \in X /\ next[d] = d
      <4>0. Child(h, n, d) # d /\ ~(2 * d > n) BY <1>c, <3>a
      <4>1. F[d] = top /\ top.time <= h[c].time BY <2>2, <3>4, <3>b, <3>11, <4>0
      <4>2. p \notin X BY <3>9, <3>d, <3>11
      <4>3. F[p] = h[p] BY <3>4, <3>a, <4>2
      <4> QED BY <3>5, <3>7, <3>9, <3>a, <3>c, <4>1, <4>3
    <3>12. CASE d \notin X
      <4>1. F[d] = h[d] /\ F[p] = h[p] BY <3>4, <3>a, <3>d, <3>12
      <4> QED BY <3>6, <3>8, <3>9, <4>1
    <3> QED BY <3>10, <3>11, <3>12
  <2> QED BY <1>1, <1>5, <1>6, <2>8, <2>9, <2>10
<1> QED BY <1>7, <1>8

-----------------------------------------------------------------------------
(* The inductive invariant.                                                *)

InHeap(j) == \E i \in 1..Len(heap) : heap[i].job = j
InHands(j) == \E t \in Threads : worker[t].job = j

\* A job is once in the queue of its priority at most
QueueSound ==
    /\ queue \in [Prios -> Seq(AllJobs)]
    /\ \A p \in Prios : \A i, k \in 1..Len(queue[p]) : queue[p][i] = queue[p][k] => i = k
    /\ \A p \in Prios : \A i \in 1..Len(queue[p]) : Prio[queue[p][i]] = p

\* A job has one event at most, and the heap is a heap
HeapSound ==
    /\ heap \in Seq(EventType)
    /\ \A i, k \in 1..Len(heap) : heap[i].job = heap[k].job => i = k
    /\ Ordered(heap)

\* The scheduler's thread is at one of these
Scheduling == {"scheduling", "handover", "timed"}

\* Threads have a job of their own while they execute it, and none otherwise;
\* the scheduler has an event in hand between Fire and HandOver only
ThreadsSound ==
    /\ at \in [Threads -> Places]
    /\ worker \in [Threads -> [job : AllJobs \cup {None}, priority : Prios]]
    /\ \A t, u \in Threads : worker[t].job = worker[u].job /\ worker[t].job # None => t = u
    /\ \A t \in Threads :
         /\ worker[t].job # None => worker[t].priority = Prio[worker[t].job]
         /\ worker[t].job = None <=> at[t] \notin WorkingPlaces
         /\ worker[t].job = Scheduler <=> at[t] \in Scheduling
    /\ fired \in AllJobs \cup {None}
    /\ fired # None <=> \E t \in Threads : at[t] = "handover"

\* The status of a job says where it is
PlaceSound(j) ==
    /\ status[j] \in {"executing", "canceled"} <=> InHands(j)
    /\ status[j] = "queued" <=> InQueue(j) \/ InHeap(j) \/ fired = j
    /\ InQueue(j) => ~InHeap(j) /\ fired # j
    /\ InHeap(j) => fired # j

StatusSound ==
    /\ status \in [AllJobs -> {"new", "queued", "executing", "canceled", "done"}]
    /\ now \in Nat
    /\ \A j \in AllJobs : PlaceSound(j)

JobsInv == QueueSound /\ HeapSound /\ ThreadsSound /\ StatusSound /\ OnTime

-----------------------------------------------------------------------------
(* What steps do to the queues, the heap and the threads.                  *)

\* A sequence with every element once, and the elements it has
Distinct(s) == \A i, k \in 1..Len(s) : s[i] = s[k] => i = k
Has(s, x) == \E i \in 1..Len(s) : s[i] = x

LEMMA SequenceSteps ==
    ASSUME NEW s \in Seq(AllJobs), Distinct(s)
    PROVE  /\ \A x \in AllJobs : ~Has(s, x) =>
                /\ Append(s, x) \in Seq(AllJobs) /\ Distinct(Append(s, x))
                /\ \A y : Has(Append(s, x), y) <=> Has(s, y) \/ y = x
                /\ <<x>> \o s \in Seq(AllJobs) /\ Distinct(<<x>> \o s)
                /\ \A y : Has(<<x>> \o s, y) <=> Has(s, y) \/ y = x
           /\ s # << >> =>
                /\ Head(s) \in AllJobs /\ Has(s, Head(s))
                /\ Tail(s) \in Seq(AllJobs) /\ Distinct(Tail(s))
                /\ \A y : Has(Tail(s), y) <=> Has(s, y) /\ y # Head(s)
<1>1. ASSUME NEW x \in AllJobs, ~Has(s, x)
      PROVE  /\ Append(s, x) \in Seq(AllJobs) /\ Distinct(Append(s, x))
             /\ \A y : Has(Append(s, x), y) <=> Has(s, y) \/ y = x
  <2>1. PICK a : a = Append(s, x) OBVIOUS
  <2>2. /\ a \in Seq(AllJobs) /\ Len(a) = Len(s) + 1 /\ a[Len(s) + 1] = x
        /\ \A i \in 1..Len(s) : a[i] = s[i]
    BY <2>1
  <2>3. \A i \in 1..Len(a) : i \in 1..Len(s) \/ i = Len(s) + 1 BY <2>2
  <2>4. Distinct(a) BY <1>1, <2>2, <2>3 DEF Distinct, Has
  <2>5. Len(s) + 1 \in 1..Len(a) /\ \A i \in 1..Len(s) : i \in 1..Len(a) BY <2>2
  <2>6. \A y : Has(a, y) <=> Has(s, y) \/ y = x BY <2>2, <2>3, <2>5 DEF Has
  <2> QED BY <2>1, <2>2, <2>4, <2>6
<1>2. ASSUME NEW x \in AllJobs, ~Has(s, x)
      PROVE  /\ <<x>> \o s \in Seq(AllJobs) /\ Distinct(<<x>> \o s)
             /\ \A y : Has(<<x>> \o s, y) <=> Has(s, y) \/ y = x
  <2>1. PICK a : a = <<x>> \o s OBVIOUS
  <2>2. /\ a \in Seq(AllJobs) /\ Len(a) = Len(s) + 1 /\ a[1] = x
        /\ \A i \in 1..Len(s) : a[i + 1] = s[i]
    BY <2>1
  <2>3. \A i \in 1..Len(a) : i = 1 \/ \E k \in 1..Len(s) : i = k + 1
    <3>1. ASSUME NEW i \in 1..Len(a), i # 1 PROVE i - 1 \in 1..Len(s) /\ i = (i - 1) + 1
      BY <2>2, <3>1
    <3> QED BY <3>1
  <2>4. Distinct(a)
    <3>1. ASSUME NEW i \in 1..Len(a), NEW k \in 1..Len(a), a[i] = a[k] PROVE i = k
      <4>1. CASE i = 1 /\ k = 1 BY <4>1
      <4>2. CASE i # 1 /\ k # 1 BY <2>2, <2>3, <3>1, <4>2 DEF Distinct
      <4>3. CASE i = 1 <=> k # 1 BY <1>2, <2>2, <2>3, <3>1, <4>3 DEF Has
      <4> QED BY <4>1, <4>2, <4>3
    <3> QED BY <3>1 DEF Distinct
  <2>5. 1 \in 1..Len(a) /\ \A i \in 1..Len(s) : i + 1 \in 1..Len(a) BY <2>2
  <2>6. \A y : Has(a, y) <=> Has(s, y) \/ y = x BY <2>2, <2>3, <2>5 DEF Has
  <2> QED BY <2>1, <2>2, <2>4, <2>6
<1>3. ASSUME s # << >>
      PROVE  /\ Head(s) \in AllJobs /\ Has(s, Head(s))
             /\ Tail(s) \in Seq(AllJobs) /\ Distinct(Tail(s))
             /\ \A y : Has(Tail(s), y) <=> Has(s, y) /\ y # Head(s)
  <2>1. PICK a : a = Tail(s) OBVIOUS
  <2>2. /\ a \in Seq(AllJobs) /\ Len(a) = Len(s) - 1 /\ Len(s) \in Nat /\ Len(s) > 0
        /\ \A i \in 1..Len(a) : a[i] = s[i + 1]
        /\ Head(s) = s[1]
    BY <1>3, <2>1
  <2>3. 1 \in 1..Len(s) /\ \A i \in 1..Len(a) : i + 1 \in 1..Len(s) /\ i + 1 # 1
    BY <2>2
  <2>4. \A i \in 1..Len(s) : i = 1 \/ \E k \in 1..Len(a) : i = k + 1
    <3>1. ASSUME NEW i \in 1..Len(s), i # 1 PROVE i - 1 \in 1..Len(a) /\ i = (i - 1) + 1
      BY <2>2, <3>1
    <3> QED BY <3>1
  <2>5. Distinct(a)
    <3>1. ASSUME NEW i \in 1..Len(a), NEW k \in 1..Len(a), a[i] = a[k] PROVE i = k
      <4>1. i + 1 = k + 1 BY <2>2, <2>3, <3>1 DEF Distinct
      <4> QED BY <4>1
    <3> QED BY <3>1 DEF Distinct
  <2>6. ASSUME NEW y PROVE Has(a, y) <=> Has(s, y) /\ y # Head(s)
    <3>1. ASSUME NEW i \in 1..Len(a), a[i] = y PROVE Has(s, y) /\ y # Head(s)
      <4>1. s[i + 1] = y /\ i + 1 \in 1..Len(s) BY <2>2, <2>3, <3>1
      <4>2. y # s[1] BY <2>3, <4>1 DEF Distinct
      <4> QED BY <2>2, <4>1, <4>2 DEF Has
    <3>2. ASSUME NEW i \in 1..Len(s), s[i] = y, y # Head(s) PROVE Has(a, y)
      <4>1. PICK k \in 1..Len(a) : i = k + 1 BY <2>2, <2>4, <3>2
      <4> QED BY <2>2, <3>2, <4>1 DEF Has
    <3> QED BY <3>1, <3>2 DEF Has
  <2>7. Head(s) \in AllJobs /\ Has(s, Head(s)) BY <2>2, <2>3 DEF Has
  <2> QED BY <2>1, <2>2, <2>5, <2>6, <2>7
<1> QED BY <1>1, <1>2, <1>3

LEMMA QueueForms ==
    /\ QueueSound <=> /\ queue \in [Prios -> Seq(AllJobs)]
                      /\ \A p \in Prios : Distinct(queue[p])
                      /\ \A p \in Prios : \A j : Has(queue[p], j) => Prio[j] = p
    /\ \A j : InQueue(j) <=> Has(queue[Prio[j]], j)
    /\ QueueSound' <=> /\ queue' \in [Prios -> Seq(AllJobs)]
                       /\ \A p \in Prios : Distinct(queue'[p])
                       /\ \A p \in Prios : \A j : Has(queue'[p], j) => Prio[j] = p
    /\ \A j : InQueue(j)' <=> Has(queue'[Prio[j]], j)
BY DEF QueueSound, Distinct, Has, InQueue

LEMMA Priorities == \A j \in AllJobs : Prio[j] \in Prios
BY ConstantsAssumption DEF AllJobs

\* queue_job() and execute_job() put a job to the end or to the front.
LEMMA QueueGrows ==
    ASSUME QueueSound, NEW job \in AllJobs, ~InQueue(job),
           \/ queue' = [queue EXCEPT ![Prio[job]] = Append(@, job)]
           \/ queue' = [queue EXCEPT ![Prio[job]] = <<job>> \o @]
    PROVE  QueueSound' /\ \A j \in AllJobs : InQueue(j)' <=> InQueue(j) \/ j = job
<1>1. PICK p \in Prios : p = Prio[job] BY Priorities
<1>2. queue \in [Prios -> Seq(AllJobs)] /\ Distinct(queue[p]) /\ ~Has(queue[p], job)
  BY <1>1, QueueForms
<1>3. PICK s \in Seq(AllJobs) : /\ queue' = [queue EXCEPT ![p] = s] /\ Distinct(s)
                                /\ \A y : Has(s, y) <=> Has(queue[p], y) \/ y = job
  <2>1. PICK s \in Seq(AllJobs) : s = queue[p] BY <1>2
  <2>2. /\ Append(s, job) \in Seq(AllJobs) /\ Distinct(Append(s, job))
        /\ \A y : Has(Append(s, job), y) <=> Has(s, y) \/ y = job
        /\ <<job>> \o s \in Seq(AllJobs) /\ Distinct(<<job>> \o s)
        /\ \A y : Has(<<job>> \o s, y) <=> Has(s, y) \/ y = job
    BY <1>2, <2>1, SequenceSteps
  <2>3. CASE queue' = [queue EXCEPT ![p] = Append(s, job)] BY <2>1, <2>2, <2>3
  <2>4. CASE queue' = [queue EXCEPT ![p] = <<job>> \o s] BY <2>1, <2>2, <2>4
  <2> QED BY <1>1, <2>1, <2>3, <2>4
<1>4. queue' \in [Prios -> Seq(AllJobs)] /\ queue'[p] = s
      /\ \A q \in Prios : q # p => queue'[q] = queue[q]
  BY <1>2, <1>3
<1>5. QueueSound' BY <1>1, <1>3, <1>4, QueueForms
<1>6. ASSUME NEW j \in AllJobs PROVE InQueue(j)' <=> InQueue(j) \/ j = job
  <2>1. Prio[j] \in Prios BY Priorities
  <2>2. CASE Prio[j] = p BY <1>1, <1>3, <1>4, <2>2, QueueForms
  <2>3. CASE Prio[j] # p BY <1>1, <1>4, <2>1, <2>3, QueueForms
  <2> QED BY <2>2, <2>3
<1> QED BY <1>5, <1>6

\* get_job() takes the first job of a queue.
LEMMA QueueShrinks ==
    ASSUME QueueSound, NEW p \in Prios, queue[p] # << >>,
           queue' = [queue EXCEPT ![p] = Tail(@)]
    PROVE  /\ QueueSound'
           /\ Head(queue[p]) \in AllJobs /\ InQueue(Head(queue[p])) /\ Prio[Head(queue[p])] = p
           /\ \A j \in AllJobs : InQueue(j)' <=> InQueue(j) /\ j # Head(queue[p])
<1>1. queue \in [Prios -> Seq(AllJobs)] /\ Distinct(queue[p]) BY QueueForms
<1>2. PICK job : job = Head(queue[p]) OBVIOUS
<1>3. PICK s \in Seq(AllJobs) : /\ queue' = [queue EXCEPT ![p] = s] /\ Distinct(s)
                                /\ \A y : Has(s, y) <=> Has(queue[p], y) /\ y # job
  <2>1. queue[p] \in Seq(AllJobs) BY <1>1
  <2> QED BY <1>1, <1>2, <2>1, SequenceSteps
<1>4. queue' \in [Prios -> Seq(AllJobs)] /\ queue'[p] = s
      /\ \A q \in Prios : q # p => queue'[q] = queue[q]
  BY <1>1, <1>3
<1>5. job \in AllJobs /\ Has(queue[p], job) BY <1>1, <1>2, SequenceSteps
<1>6. Prio[job] = p /\ InQueue(job) BY <1>5, QueueForms
<1>7. QueueSound' BY <1>3, <1>4, QueueForms
<1>8. ASSUME NEW j \in AllJobs PROVE InQueue(j)' <=> InQueue(j) /\ j # job
  <2>1. Prio[j] \in Prios BY Priorities
  <2>2. CASE Prio[j] = p BY <1>3, <1>4, <2>2, QueueForms
  <2>3. CASE Prio[j] # p BY <1>4, <1>6, <2>1, <2>3, QueueForms
  <2> QED BY <2>2, <2>3
<1> QED BY <1>2, <1>5, <1>6, <1>7, <1>8

\* No two of the n events are of the same job; one of them is of job j
JobsOnce(F, n) == \A i, k \in 1..n : F[i].job = F[k].job => i = k
JobIn(F, n, j) == \E i \in 1..n : F[i].job = j

\* Events in another order are events of the same jobs.
LEMMA PermutedJobs ==
    ASSUME NEW n \in Nat, NEW F, NEW G, Permuted(F, G, n), JobsOnce(G, n)
    PROVE  JobsOnce(F, n) /\ \A j : JobIn(F, n, j) <=> JobIn(G, n, j)
<1>1. PICK f \in [1..n -> 1..n] :
         /\ \A p, q \in 1..n : f[p] = f[q] => p = q
         /\ \A q \in 1..n : \E p \in 1..n : f[p] = q
         /\ \A p \in 1..n : F[p] = G[f[p]]
  BY DEF Permuted
<1>2. ASSUME NEW i \in 1..n, NEW k \in 1..n, F[i].job = F[k].job PROVE i = k
  <2>1. f[i] \in 1..n /\ f[k] \in 1..n /\ G[f[i]].job = G[f[k]].job BY <1>1, <1>2
  <2>2. f[i] = f[k] BY <2>1 DEF JobsOnce
  <2> QED BY <1>1, <2>2
<1>3. ASSUME NEW j, NEW i \in 1..n, F[i].job = j PROVE \E k \in 1..n : G[k].job = j
  BY <1>1, <1>3
<1>4. ASSUME NEW j, NEW k \in 1..n, G[k].job = j PROVE \E i \in 1..n : F[i].job = j
  <2>1. PICK i \in 1..n : f[i] = k BY <1>1
  <2> QED BY <1>1, <1>4, <2>1
<1> QED BY <1>2, <1>3, <1>4 DEF JobsOnce, JobIn

\* schedule_job_tv() adds an event.
LEMMA HeapGrows ==
    ASSUME HeapSound, NEW job \in AllJobs, ~InHeap(job), NEW time \in Nat,
           heap' = Insert(heap, [time |-> time, job |-> job])
    PROVE  HeapSound' /\ \A j \in AllJobs : InHeap(j)' <=> InHeap(j) \/ j = job
<1>1. heap \in Seq(EventType) /\ Len(heap) \in Nat BY DEF HeapSound
<1>2. PICK e \in EventType : e = [time |-> time, job |-> job] BY DEF EventType
<1>3. e.job = job BY <1>2
<1>4. PICK n \in Nat : n = Len(heap) + 1 BY <1>1
<1>5. PICK G : G = Append(heap, e) OBVIOUS
<1>6. /\ heap' \in Seq(EventType) /\ Len(heap') = n /\ Permuted(heap', G, n) /\ Ordered(heap')
  BY <1>1, <1>2, <1>4, <1>5, InsertKeeps DEF HeapSound
<1>7. G[n] = e /\ \A i \in 1..Len(heap) : G[i] = heap[i] BY <1>1, <1>4, <1>5
<1>8. \A i \in 1..n : i \in 1..Len(heap) \/ i = n BY <1>4
<1>9. JobsOnce(G, n)
  BY <1>3, <1>7, <1>8 DEF HeapSound, InHeap, JobsOnce
<1>10. JobsOnce(heap', n) /\ \A j : JobIn(heap', n, j) <=> JobIn(G, n, j)
  BY <1>6, <1>9, PermutedJobs
<1>11. n \in 1..n /\ \A i \in 1..Len(heap) : i \in 1..n BY <1>1, <1>4
<1>12. \A j : JobIn(G, n, j) <=> InHeap(j) \/ j = job
  BY <1>3, <1>7, <1>8, <1>11 DEF InHeap, JobIn
<1>13. HeapSound' BY <1>6, <1>10 DEF HeapSound, JobsOnce
<1>14. \A j \in AllJobs : InHeap(j)' <=> JobIn(heap', n, j) BY <1>6 DEF InHeap, JobIn
<1>15. \A j \in AllJobs : InHeap(j)' <=> InHeap(j) \/ j = job BY <1>10, <1>12, <1>14
<1> QED BY <1>13, <1>15

\* schedule() takes the first event out.
LEMMA HeapShrinks ==
    ASSUME HeapSound, heap # << >>, heap' = RemoveFirst(heap)
    PROVE  /\ HeapSound'
           /\ heap[1].job \in AllJobs /\ InHeap(heap[1].job)
           /\ \A j \in AllJobs : InHeap(j)' <=> InHeap(j) /\ j # heap[1].job
<1>1. heap \in Seq(EventType) /\ Len(heap) \in Nat /\ Len(heap) > 0 BY DEF HeapSound
<1>2. PICK n \in Nat : n = Len(heap) - 1 BY <1>1
<1>3. PICK G : G = Left(heap) OBVIOUS
<1>4. /\ heap' \in Seq(EventType) /\ Len(heap') = n /\ Permuted(heap', G, n) /\ Ordered(heap')
  BY <1>1, <1>2, <1>3, RemoveKeeps DEF HeapSound
<1>5. 1 \in 1..Len(heap) /\ Len(heap) \in 1..Len(heap) BY <1>1
<1>6. heap[1].job \in AllJobs /\ InHeap(heap[1].job) BY <1>1, <1>5, EventFields DEF InHeap
<1>7. \A i \in 1..n : G[i] = IF i = 1 THEN heap[Len(heap)] ELSE heap[i] BY <1>2, <1>3 DEF Left
<1>8. \A i, k \in 1..Len(heap) : heap[i].job = heap[k].job => i = k BY DEF HeapSound
<1>9. \A i \in 1..n : i \in 1..Len(heap) /\ i # Len(heap) BY <1>2
<1>10. JobsOnce(G, n) BY <1>5, <1>7, <1>8, <1>9 DEF JobsOnce
<1>11. JobsOnce(heap', n) /\ \A j : JobIn(heap', n, j) <=> JobIn(G, n, j)
  BY <1>4, <1>10, PermutedJobs
<1>12. ASSUME NEW j
       PROVE  JobIn(G, n, j) <=> InHeap(j) /\ j # heap[1].job
  <2>1. ASSUME NEW i \in 1..n, G[i].job = j PROVE InHeap(j) /\ j # heap[1].job
    <3>1. CASE i = 1
      <4>1. Len(heap) # 1 BY <1>9, <3>1
      <4> QED BY <1>5, <1>7, <1>8, <2>1, <3>1, <4>1 DEF InHeap
    <3>2. CASE i # 1 BY <1>5, <1>7, <1>8, <1>9, <2>1, <3>2 DEF InHeap
    <3> QED BY <3>1, <3>2
  <2>2. ASSUME NEW i \in 1..Len(heap), heap[i].job = j, j # heap[1].job
        PROVE  \E k \in 1..n : G[k].job = j
    <3>1. i # 1 BY <2>2
    <3>2. CASE i = Len(heap)
      <4>1. 1 \in 1..n BY <1>1, <1>2, <3>1, <3>2
      <4>2. G[1].job = j BY <1>7, <2>2, <3>2, <4>1
      <4> QED BY <4>1, <4>2
    <3>3. CASE i # Len(heap)
      <4>1. i \in 1..n BY <1>1, <1>2, <3>3
      <4> QED BY <1>7, <2>2, <3>1, <4>1
    <3> QED BY <3>2, <3>3
  <2> QED BY <2>1, <2>2 DEF InHeap, JobIn
<1>13. HeapSound' BY <1>4, <1>11 DEF HeapSound, JobsOnce
<1>14. \A j \in AllJobs : InHeap(j)' <=> JobIn(heap', n, j) BY <1>4 DEF InHeap, JobIn
<1> QED BY <1>6, <1>11, <1>12, <1>13, <1>14

\* A thread goes on with the job it has, or stays without one
KeepsPlace(u) ==
    /\ at'[u] \in Places
    /\ \/ at'[u] = at[u]
       \/ at[u] \notin WorkingPlaces /\ at'[u] \notin WorkingPlaces
       \/ at[u] \in {"scheduling", "timed"} /\ at'[u] \in {"scheduling", "timed"}

\* Signals and broadcasts only let threads without a job go on.
LEMMA Wakeups ==
    ASSUME NEW a \in [Threads -> Places]
    PROVE  /\ \A b \in Signal(a) :
                /\ b \in [Threads -> Places]
                /\ \A u \in Threads : b[u] = a[u] \/ (a[u] = "waiting" /\ b[u] = "loop")
           /\ Broadcast(a) \in [Threads -> Places]
           /\ \A u \in Threads : \/ Broadcast(a)[u] = a[u]
                                 \/ a[u] = "waiting" /\ Broadcast(a)[u] = "loop"
<1>1. "loop" \in Places BY DEF Places, WorkingPlaces, IdlePlaces
<1>2. ASSUME NEW b \in Signal(a)
      PROVE  /\ b \in [Threads -> Places]
             /\ \A u \in Threads : b[u] = a[u] \/ (a[u] = "waiting" /\ b[u] = "loop")
  <2>1. b = a \/ \E t \in Threads : a[t] = "waiting" /\ b = [a EXCEPT ![t] = "loop"]
    BY DEF Signal
  <2> QED BY <1>1, <2>1
<1>3. /\ Broadcast(a) \in [Threads -> Places]
      /\ \A u \in Threads : \/ Broadcast(a)[u] = a[u]
                            \/ a[u] = "waiting" /\ Broadcast(a)[u] = "loop"
  BY <1>1 DEF Broadcast
<1> QED BY <1>2, <1>3

\* There is one thread at most at the scheduler's job.
LEMMA OneScheduler ==
    ASSUME ThreadsSound, NEW t \in Threads, NEW u \in Threads,
           at[t] \in Scheduling, at[u] \in Scheduling
    PROVE  t = u
<1>1. worker[t].job = Scheduler /\ worker[u].job = Scheduler BY DEF ThreadsSound
<1>2. Scheduler # None BY ConstantsAssumption
<1> QED BY <1>1, <1>2 DEF ThreadsSound

\* Nobody takes a job or gives one up.
LEMMA ThreadsStay ==
    ASSUME ThreadsSound, UNCHANGED <<worker, fired>>, at' \in [Threads -> Places],
           \A u \in Threads : KeepsPlace(u)
    PROVE  ThreadsSound' /\ \A j \in AllJobs : InHands(j)' <=> InHands(j)
<1>1. \A u \in Threads : /\ at'[u] \in WorkingPlaces <=> at[u] \in WorkingPlaces
                         /\ at'[u] \in Scheduling <=> at[u] \in Scheduling
                         /\ at'[u] = "handover" <=> at[u] = "handover"
  BY DEF KeepsPlace, WorkingPlaces, Scheduling, Places
<1>2. ThreadsSound' BY <1>1 DEF ThreadsSound
<1> QED BY <1>2 DEF InHands

\* A thread that executed a job gives it up.
LEMMA ThreadsDrop ==
    ASSUME ThreadsSound, NEW t \in Threads, at[t] \in {"executing", "timed"},
           worker' = [worker EXCEPT ![t] = NoWork], UNCHANGED fired,
           at' \in [Threads -> Places], at'[t] \notin WorkingPlaces,
           \A u \in Threads \ {t} : KeepsPlace(u)
    PROVE  /\ ThreadsSound'
           /\ worker[t].job \in AllJobs /\ InHands(worker[t].job)
           /\ \A j \in AllJobs : InHands(j)' <=> InHands(j) /\ j # worker[t].job
<1>1. \A u \in Threads \ {t} : /\ at'[u] \in WorkingPlaces <=> at[u] \in WorkingPlaces
                               /\ at'[u] \in Scheduling <=> at[u] \in Scheduling
                               /\ at'[u] = "handover" <=> at[u] = "handover"
  BY DEF KeepsPlace, WorkingPlaces, Scheduling, Places
<1>2. /\ at'[t] \notin Scheduling /\ at[t] # "handover" /\ at'[t] # "handover"
      /\ at[t] \in WorkingPlaces
  BY DEF WorkingPlaces, Scheduling
<1>3. NoWork \in [job : AllJobs \cup {None}, priority : Prios] /\ NoWork.job = None
  BY DEF NoWork, Prios
<1>4. /\ worker' \in [Threads -> [job : AllJobs \cup {None}, priority : Prios]]
      /\ worker'[t] = NoWork /\ \A u \in Threads \ {t} : worker'[u] = worker[u]
  BY <1>3 DEF ThreadsSound
<1>5. worker[t].job # None /\ worker[t].job \in AllJobs BY <1>2 DEF ThreadsSound
<1>6. None \notin AllJobs /\ Scheduler # None BY ConstantsAssumption DEF AllJobs
<1>7. ThreadsSound'
  <2>1. \A u \in Threads :
          /\ worker'[u].job # None => worker'[u].priority = Prio[worker'[u].job]
          /\ worker'[u].job = None <=> at'[u] \notin WorkingPlaces
          /\ worker'[u].job = Scheduler <=> at'[u] \in Scheduling
    BY <1>1, <1>2, <1>3, <1>4, <1>6 DEF ThreadsSound
  <2>2. \A u, v \in Threads : worker'[u].job = worker'[v].job /\ worker'[u].job # None => u = v
    BY <1>3, <1>4 DEF ThreadsSound
  <2>3. fired' # None <=> \E u \in Threads : at'[u] = "handover"
    BY <1>1, <1>2 DEF ThreadsSound
  <2> QED BY <1>4, <2>1, <2>2, <2>3 DEF ThreadsSound
<1>8. ASSUME NEW j \in AllJobs PROVE InHands(j)' <=> InHands(j) /\ j # worker[t].job
  <2>1. ASSUME NEW u \in Threads, worker'[u].job = j PROVE InHands(j) /\ j # worker[t].job
    <3>1. u # t BY <1>3, <1>4, <1>6, <2>1
    <3> QED BY <1>4, <1>6, <2>1, <3>1 DEF ThreadsSound, InHands
  <2>2. ASSUME NEW u \in Threads, worker[u].job = j, j # worker[t].job PROVE InHands(j)'
    BY <1>4, <2>2 DEF InHands
  <2> QED BY <2>1, <2>2 DEF InHands
<1> QED BY <1>5, <1>7, <1>8 DEF InHands

\* Places that a step leaves alone
LEMMA QueueStays ==
    ASSUME QueueSound, UNCHANGED queue
    PROVE  QueueSound' /\ \A j : InQueue(j)' <=> InQueue(j)
BY DEF QueueSound, InQueue

LEMMA HeapStays ==
    ASSUME HeapSound, UNCHANGED heap
    PROVE  HeapSound' /\ \A j : InHeap(j)' <=> InHeap(j)
BY DEF HeapSound, InHeap, Ordered

\* No event is due earlier, and no thread has started to wait.
LEMMA OnTimeStays ==
    ASSUME OnTime, UNCHANGED <<heap, deadline>>,
           \A u \in Threads : at'[u] = "timed" => at[u] = "timed"
    PROVE  OnTime'
BY DEF OnTime

-----------------------------------------------------------------------------
(* Every action keeps the invariant.                                       *)

\* Threads move without touching any job.
LEMMA QuietMove ==
    ASSUME JobsInv, UNCHANGED <<queue, heap, worker, fired, status, deadline>>, now' \in Nat,
           at' \in [Threads -> Places], \A u \in Threads : KeepsPlace(u),
           \A u \in Threads : at'[u] = "timed" => at[u] = "timed"
    PROVE  JobsInv'
<1> USE DEF JobsInv
<1>1. QueueSound' /\ \A j : InQueue(j)' <=> InQueue(j) BY QueueStays
<1>2. HeapSound' /\ \A j : InHeap(j)' <=> InHeap(j) BY HeapStays
<1>3. ThreadsSound' /\ \A j \in AllJobs : InHands(j)' <=> InHands(j) BY ThreadsStay
<1>4. \A j \in AllJobs : PlaceSound(j)'
  BY <1>1, <1>2, <1>3 DEF StatusSound, PlaceSound
<1>5. OnTime' BY OnTimeStays
<1> QED BY <1>1, <1>2, <1>3, <1>4, <1>5 DEF StatusSound

\* One thread goes from one place without a job to another.
LEMMA IdleMove ==
    ASSUME ThreadsSound, NEW t \in Threads, NEW a \in Places, at[t] \notin WorkingPlaces,
           a \notin WorkingPlaces, at' = [at EXCEPT ![t] = a]
    PROVE  /\ at' \in [Threads -> Places] /\ \A u \in Threads : KeepsPlace(u)
           /\ \A u \in Threads : at'[u] = "timed" => at[u] = "timed"
<1>1. at \in [Threads -> Places] BY DEF ThreadsSound
<1>2. at'[t] = a /\ \A u \in Threads \ {t} : at'[u] = at[u] BY <1>1
<1> QED BY <1>1, <1>2 DEF KeepsPlace, WorkingPlaces

LEMMA IdleSteps ==
    ASSUME JobsInv, NEW t \in Threads,
           EndThread(t) \/ WaitForJob(t) \/ DestroyJob(t) \/ EndRestart(t)
    PROVE  JobsInv'
<1>1. PICK a \in {"ended", "waiting", "loop"} :
         /\ at[t] \in {"loop", "destroying", "restarting"} /\ at' = [at EXCEPT ![t] = a]
         /\ UNCHANGED <<queue, heap, worker, fired, status, deadline, now>>
  BY DEF EndThread, WaitForJob, DestroyJob, EndRestart, eventVars, jobVars, poolVars
<1>2. a \in Places /\ a \notin WorkingPlaces /\ at[t] \notin WorkingPlaces
  BY <1>1 DEF Places, WorkingPlaces, IdlePlaces
<1>3. now' \in Nat BY <1>1 DEF JobsInv, StatusSound
<1>4. /\ at' \in [Threads -> Places] /\ \A u \in Threads : KeepsPlace(u)
      /\ \A u \in Threads : at'[u] = "timed" => at[u] = "timed"
  BY <1>1, <1>2, IdleMove DEF JobsInv
<1> QED BY <1>1, <1>3, <1>4, QuietMove

LEMMA TickStep ==
    ASSUME JobsInv, Tick \/ UNCHANGED vars
    PROVE  JobsInv'
<1>1. UNCHANGED <<queue, heap, worker, fired, status, deadline, at>>
  BY DEF Tick, vars, poolVars, threadVars, jobVars, eventVars
<1>2. now' \in Nat
  BY DEF Tick, vars, eventVars, JobsInv, StatusSound
<1>3. at' \in [Threads -> Places] /\ \A u \in Threads : KeepsPlace(u)
  BY <1>1 DEF KeepsPlace, JobsInv, ThreadsSound
<1> QED BY <1>1, <1>2, <1>3, QuietMove

\* Before the start no thread has been created
NotYetStarted == stage = "init" => \A t \in Threads : at[t] = "none"

LEMMA StartMove ==
    ASSUME JobsInv, NotYetStarted, Start
    PROVE  JobsInv'
<1>1. /\ UNCHANGED <<queue, heap, worker, fired, status, deadline, now>>
      /\ \E n \in 0..NumThreads : at' = [t \in Threads |-> IF t <= n THEN "loop" ELSE "none"]
      /\ \A t \in Threads : at[t] = "none"
  BY DEF Start, eventVars, jobVars, NotYetStarted
<1>2. {"loop", "none"} \subseteq Places /\ {"loop", "none"} \cap WorkingPlaces = {}
  BY DEF Places, WorkingPlaces, IdlePlaces
<1>3. at' \in [Threads -> Places] /\ \A t \in Threads : at'[t] \in {"loop", "none"}
  BY <1>1, <1>2
<1>4. \A u \in Threads : KeepsPlace(u) /\ at'[u] # "timed"
  BY <1>1, <1>2, <1>3 DEF KeepsPlace
<1>5. now' \in Nat BY <1>1 DEF JobsInv, StatusSound
<1> QED BY <1>1, <1>3, <1>4, <1>5, QuietMove

\* Threads that a broadcast wakes
LEMMA BroadcastAlike ==
    ASSUME ThreadsSound, at' = Broadcast(at)
    PROVE  /\ at' \in [Threads -> Places] /\ \A u \in Threads : KeepsPlace(u)
           /\ \A u \in Threads : at'[u] = "timed" => at[u] = "timed"
<1>1. at \in [Threads -> Places] BY DEF ThreadsSound
<1>2. /\ at' \in [Threads -> Places]
      /\ \A u \in Threads : at'[u] = at[u] \/ (at[u] = "waiting" /\ at'[u] = "loop")
  BY <1>1, Wakeups
<1> QED BY <1>2 DEF KeepsPlace, WorkingPlaces

LEMMA StopStep ==
    ASSUME JobsInv, Stop
    PROVE  JobsInv'
<1>1. UNCHANGED <<queue, heap, worker, fired, status, deadline, now>> /\ at' = Broadcast(at)
  BY DEF Stop, eventVars, jobVars
<1>2. /\ at' \in [Threads -> Places] /\ \A u \in Threads : KeepsPlace(u)
      /\ \A u \in Threads : at'[u] = "timed" => at[u] = "timed"
  BY <1>1, BroadcastAlike DEF JobsInv
<1>3. now' \in Nat BY <1>1 DEF JobsInv, StatusSound
<1> QED BY <1>1, <1>2, <1>3, QuietMove

\* The scheduler starts to wait for the first event of the heap, or stops.
LEMMA WaitSteps ==
    ASSUME JobsInv, NEW t \in Threads, WaitForEvent(t) \/ TimedOut(t)
    PROVE  JobsInv'
<1> USE DEF JobsInv
<1>1. PICK a \in {"timed", "scheduling"} :
         /\ at[t] \in {"scheduling", "timed"} /\ at' = [at EXCEPT ![t] = a]
         /\ UNCHANGED <<queue, heap, worker, fired, status, now>>
         /\ a = "timed" => deadline' = IF heap = << >> THEN Forever ELSE heap[1].time
  BY DEF WaitForEvent, TimedOut, jobVars, poolVars
<1>2. at \in [Threads -> Places] /\ a \in Places /\ at[t] \in Scheduling
  BY <1>1 DEF ThreadsSound, Places, WorkingPlaces, Scheduling
<1>3. at' \in [Threads -> Places] /\ at'[t] = a /\ \A u \in Threads \ {t} : at'[u] = at[u]
  BY <1>1, <1>2
<1>4. \A u \in Threads : KeepsPlace(u) BY <1>1, <1>3 DEF KeepsPlace
<1>5. QueueSound' /\ \A j : InQueue(j)' <=> InQueue(j) BY <1>1, QueueStays
<1>6. HeapSound' /\ \A j : InHeap(j)' <=> InHeap(j) BY <1>1, HeapStays
<1>7. ThreadsSound' /\ \A j \in AllJobs : InHands(j)' <=> InHands(j)
  BY <1>1, <1>3, <1>4, ThreadsStay
<1>8. StatusSound' BY <1>1, <1>5, <1>6, <1>7 DEF StatusSound, PlaceSound
<1>9. OnTime'
  <2>1. SUFFICES ASSUME NEW u \in Threads, at'[u] = "timed", NEW i \in 1..Len(heap)
                 PROVE  deadline' <= heap[i].time
    BY <1>1 DEF OnTime
  <2>2. u = t
    <3>1. u # t => at[u] \in Scheduling BY <1>3, <2>1 DEF Scheduling
    <3> QED BY <1>2, <3>1, OneScheduler
  <2>3. heap # << >> /\ a = "timed" BY <1>3, <2>1, <2>2 DEF HeapSound
  <2>4. deadline' = heap[1].time BY <1>1, <2>3
  <2> QED BY <2>1, <2>4, TopFiresFirst DEF HeapSound
<1> QED BY <1>5, <1>6, <1>7, <1>8, <1>9

\* The status of one job changes, and where it is.
LEMMA StatusChange ==
    ASSUME StatusSound, NEW job \in AllJobs,
           NEW x \in {"new", "queued", "executing", "canceled", "done"},
           status' = [status EXCEPT ![job] = x], now' \in Nat
    PROVE  /\ status' \in [AllJobs -> {"new", "queued", "executing", "canceled", "done"}]
           /\ status'[job] = x /\ \A j \in AllJobs \ {job} : status'[j] = status[j]
           /\ (\A j \in AllJobs : PlaceSound(j)') => StatusSound'
BY DEF StatusSound

\* A thread takes a job out of a queue.
LEMMA GetJobStep ==
    ASSUME JobsInv, NEW t \in Threads, GetJob(t)
    PROVE  JobsInv'
<1> USE DEF JobsInv
<1>1. PICK p \in Prios :
         /\ at[t] = "loop" /\ queue[p] # << >>
         /\ queue' = [queue EXCEPT ![p] = Tail(@)]
         /\ worker' = [worker EXCEPT ![t] = [job |-> Head(queue[p]), priority |-> p]]
         /\ at' = [at EXCEPT ![t] = IF Head(queue[p]) = Scheduler THEN "scheduling"
                                                                  ELSE "executing"]
         /\ status' = [status EXCEPT ![Head(queue[p])] = "executing"]
         /\ UNCHANGED <<heap, now, deadline, fired>>
  BY DEF GetJob, Available, eventVars
<1>2. PICK job : job = Head(queue[p]) OBVIOUS
<1>3. /\ QueueSound' /\ job \in AllJobs /\ InQueue(job) /\ Prio[job] = p
      /\ \A j \in AllJobs : InQueue(j)' <=> InQueue(j) /\ j # job
  BY <1>1, <1>2, QueueShrinks
<1>4. HeapSound' /\ \A j : InHeap(j)' <=> InHeap(j) BY <1>1, HeapStays
<1>5. ~InHands(job) /\ ~InHeap(job) /\ fired # job
  BY <1>3 DEF StatusSound, PlaceSound
<1>6. None \notin AllJobs /\ Scheduler # None BY ConstantsAssumption DEF AllJobs
<1>7. PICK w : w = [job |-> job, priority |-> p] OBVIOUS
<1>8. /\ w \in [job : AllJobs \cup {None}, priority : Prios] /\ w.job = job /\ w.priority = p
      /\ w.job # None
  BY <1>3, <1>6, <1>7
<1>9. /\ worker' \in [Threads -> [job : AllJobs \cup {None}, priority : Prios]]
      /\ worker'[t] = w /\ \A u \in Threads \ {t} : worker'[u] = worker[u]
  BY <1>1, <1>2, <1>7, <1>8 DEF ThreadsSound
<1>10. /\ at' \in [Threads -> Places] /\ \A u \in Threads \ {t} : at'[u] = at[u]
       /\ at'[t] \in {"scheduling", "executing"} /\ (at'[t] = "scheduling" <=> job = Scheduler)
  <2>1. at \in [Threads -> Places] /\ {"scheduling", "executing"} \subseteq Places
    BY DEF ThreadsSound, Places, WorkingPlaces, Scheduling
  <2> QED BY <1>1, <1>2, <2>1
<1>11. worker[t].job = None BY <1>1 DEF ThreadsSound, WorkingPlaces
<1>12. ThreadsSound'
  <2>1. \A u \in Threads :
          /\ worker'[u].job # None => worker'[u].priority = Prio[worker'[u].job]
          /\ worker'[u].job = None <=> at'[u] \notin WorkingPlaces
          /\ worker'[u].job = Scheduler <=> at'[u] \in Scheduling
    <3>1. /\ worker'[t].job # None => worker'[t].priority = Prio[worker'[t].job]
          /\ worker'[t].job = None <=> at'[t] \notin WorkingPlaces
          /\ worker'[t].job = Scheduler <=> at'[t] \in Scheduling
      BY <1>3, <1>8, <1>9, <1>10 DEF WorkingPlaces, Scheduling
    <3> QED BY <1>9, <1>10, <3>1 DEF ThreadsSound
  <2>2. \A u, v \in Threads : worker'[u].job = worker'[v].job /\ worker'[u].job # None => u = v
    BY <1>5, <1>8, <1>9 DEF ThreadsSound, InHands
  <2>3. fired' # None <=> \E u \in Threads : at'[u] = "handover"
    BY <1>1, <1>10 DEF ThreadsSound
  <2>4. fired' \in AllJobs \cup {None} BY <1>1 DEF ThreadsSound
  <2> QED BY <1>9, <1>10, <2>1, <2>2, <2>3, <2>4 DEF ThreadsSound
<1>13. ASSUME NEW j \in AllJobs PROVE InHands(j)' <=> InHands(j) \/ j = job
  <2>1. InHands(j)' => InHands(j) \/ j = job BY <1>8, <1>9 DEF InHands
  <2>2. ASSUME NEW u \in Threads, worker[u].job = j PROVE InHands(j)'
    <3>1. u # t BY <1>6, <1>11, <2>2
    <3> QED BY <1>9, <2>2, <3>1 DEF InHands
  <2>3. InHands(job)' BY <1>8, <1>9 DEF InHands
  <2> QED BY <2>1, <2>2, <2>3 DEF InHands
<1>14. StatusSound'
  <2>1. now' \in Nat /\ fired' = fired BY <1>1 DEF StatusSound
  <2>2. /\ status'[job] = "executing" /\ \A j \in AllJobs \ {job} : status'[j] = status[j]
        /\ (\A j \in AllJobs : PlaceSound(j)') => StatusSound'
    BY <1>1, <1>2, <1>3, <2>1, StatusChange
  <2>3. PlaceSound(job)' BY <1>3, <1>4, <1>5, <1>13, <2>1, <2>2 DEF PlaceSound
  <2>4. ASSUME NEW j \in AllJobs, j # job PROVE PlaceSound(j)'
    <3>1. PlaceSound(j) BY DEF StatusSound
    <3> QED BY <1>3, <1>4, <1>13, <2>1, <2>2, <2>4, <3>1 DEF PlaceSound
  <2> QED BY <2>2, <2>3, <2>4
<1>15. OnTime'
  <2>1. \A u \in Threads : at'[u] = "timed" => at[u] = "timed" BY <1>10
  <2> QED BY <1>1, <2>1, OnTimeStays
<1> QED BY <1>3, <1>4, <1>12, <1>14, <1>15

\* A thread is done with a job, which is destroyed or put to another place: the
\* queue or the heap.
LEMMA DropStep ==
    ASSUME JobsInv, NEW t \in Threads, at[t] \in {"executing", "timed"},
           NEW job, job = worker[t].job,
           worker' = [worker EXCEPT ![t] = NoWork], UNCHANGED fired, now' \in Nat,
           at' \in [Threads -> Places], at'[t] \notin WorkingPlaces,
           \A u \in Threads \ {t} : KeepsPlace(u), OnTime',
           \/ /\ UNCHANGED <<queue, heap>>
              /\ status' = [status EXCEPT ![job] = "done"]
           \/ /\ queue' = [queue EXCEPT ![Prio[job]] = Append(@, job)] /\ UNCHANGED heap
              /\ status' = [status EXCEPT ![job] = "queued"]
           \/ /\ \E time \in Nat : heap' = Insert(heap, [time |-> time, job |-> job])
              /\ UNCHANGED queue
              /\ status' = [status EXCEPT ![job] = "queued"]
    PROVE  JobsInv'
<1> USE DEF JobsInv
<1>1. /\ ThreadsSound' /\ job \in AllJobs /\ InHands(job)
      /\ \A j \in AllJobs : InHands(j)' <=> InHands(j) /\ j # job
  BY ThreadsDrop
<1>2. ~InQueue(job) /\ ~InHeap(job) /\ fired # job
  BY <1>1 DEF StatusSound, PlaceSound
<1>3. CASE UNCHANGED <<queue, heap>> /\ status' = [status EXCEPT ![job] = "done"]
  <2>1. QueueSound' /\ \A j : InQueue(j)' <=> InQueue(j) BY <1>3, QueueStays
  <2>2. HeapSound' /\ \A j : InHeap(j)' <=> InHeap(j) BY <1>3, HeapStays
  <2>3. /\ status'[job] = "done" /\ \A j \in AllJobs \ {job} : status'[j] = status[j]
        /\ (\A j \in AllJobs : PlaceSound(j)') => StatusSound'
    BY <1>1, <1>3, StatusChange
  <2>4. PlaceSound(job)' BY <1>1, <1>2, <2>1, <2>2, <2>3 DEF PlaceSound
  <2>5. ASSUME NEW j \in AllJobs, j # job PROVE PlaceSound(j)'
    <3>1. PlaceSound(j) BY DEF StatusSound
    <3> QED BY <1>1, <2>1, <2>2, <2>3, <2>5, <3>1 DEF PlaceSound
  <2> QED BY <1>1, <2>1, <2>2, <2>3, <2>4, <2>5
<1>4. CASE /\ queue' = [queue EXCEPT ![Prio[job]] = Append(@, job)] /\ UNCHANGED heap
           /\ status' = [status EXCEPT ![job] = "queued"]
  <2>1. QueueSound' /\ \A j \in AllJobs : InQueue(j)' <=> InQueue(j) \/ j = job
    BY <1>1, <1>2, <1>4, QueueGrows
  <2>2. HeapSound' /\ \A j : InHeap(j)' <=> InHeap(j) BY <1>4, HeapStays
  <2>3. /\ status'[job] = "queued" /\ \A j \in AllJobs \ {job} : status'[j] = status[j]
        /\ (\A j \in AllJobs : PlaceSound(j)') => StatusSound'
    BY <1>1, <1>4, StatusChange
  <2>4. PlaceSound(job)' BY <1>1, <1>2, <2>1, <2>2, <2>3 DEF PlaceSound
  <2>5. ASSUME NEW j \in AllJobs, j # job PROVE PlaceSound(j)'
    <3>1. PlaceSound(j) BY DEF StatusSound
    <3> QED BY <1>1, <2>1, <2>2, <2>3, <2>5, <3>1 DEF PlaceSound
  <2> QED BY <1>1, <2>1, <2>2, <2>3, <2>4, <2>5
<1>5. CASE /\ \E time \in Nat : heap' = Insert(heap, [time |-> time, job |-> job])
           /\ UNCHANGED queue
           /\ status' = [status EXCEPT ![job] = "queued"]
  <2>1. QueueSound' /\ \A j : InQueue(j)' <=> InQueue(j) BY <1>5, QueueStays
  <2>2. HeapSound' /\ \A j \in AllJobs : InHeap(j)' <=> InHeap(j) \/ j = job
    BY <1>1, <1>2, <1>5, HeapGrows
  <2>3. /\ status'[job] = "queued" /\ \A j \in AllJobs \ {job} : status'[j] = status[j]
        /\ (\A j \in AllJobs : PlaceSound(j)') => StatusSound'
    BY <1>1, <1>5, StatusChange
  <2>4. PlaceSound(job)' BY <1>1, <1>2, <2>1, <2>2, <2>3 DEF PlaceSound
  <2>5. ASSUME NEW j \in AllJobs, j # job PROVE PlaceSound(j)'
    <3>1. PlaceSound(j) BY DEF StatusSound
    <3> QED BY <1>1, <2>1, <2>2, <2>3, <2>5, <3>1 DEF PlaceSound
  <2> QED BY <1>1, <2>1, <2>2, <2>3, <2>4, <2>5
<1> QED BY <1>3, <1>4, <1>5

LEMMA FinishSteps ==
    ASSUME JobsInv, NEW t \in Threads, FinishJob(t) \/ RequeueJob(t)
    PROVE  JobsInv'
<1>1. PICK job : job = worker[t].job OBVIOUS
<1>2. PICK a \in {"destroying", "loop"} : \/ at' \in Signal([at EXCEPT ![t] = a])
                                          \/ at' = [at EXCEPT ![t] = a]
  BY DEF FinishJob, RequeueJob
<1>3. /\ at[t] = "executing" /\ worker' = [worker EXCEPT ![t] = NoWork]
      /\ UNCHANGED <<heap, now, deadline, fired>>
  BY DEF FinishJob, RequeueJob, Executed, eventVars
<1>4. PICK b : b = [at EXCEPT ![t] = a] OBVIOUS
<1>5. at \in [Threads -> Places] /\ a \in Places /\ a \notin WorkingPlaces
  BY <1>2 DEF JobsInv, ThreadsSound, Places, IdlePlaces, WorkingPlaces
<1>6. b \in [Threads -> Places] /\ b[t] = a /\ \A u \in Threads \ {t} : b[u] = at[u]
  BY <1>4, <1>5
<1>7. /\ at' \in [Threads -> Places]
      /\ \A u \in Threads : at'[u] = b[u] \/ (b[u] = "waiting" /\ at'[u] = "loop")
  <2>1. at' \in Signal(b) \/ at' = b BY <1>2, <1>4
  <2>2. at' = b => /\ at' \in [Threads -> Places]
                   /\ \A u \in Threads : at'[u] = b[u] \/ (b[u] = "waiting" /\ at'[u] = "loop")
    BY <1>6
  <2>3. at' \in Signal(b) =>
           /\ at' \in [Threads -> Places]
           /\ \A u \in Threads : at'[u] = b[u] \/ (b[u] = "waiting" /\ at'[u] = "loop")
    BY <1>6, Wakeups
  <2> QED BY <2>1, <2>2, <2>3
<1>8. at'[t] \notin WorkingPlaces BY <1>2, <1>5, <1>6, <1>7 DEF WorkingPlaces
<1>9. \A u \in Threads \ {t} : KeepsPlace(u)
  BY <1>6, <1>7 DEF KeepsPlace, WorkingPlaces
<1>10. \A u \in Threads : at'[u] = "timed" => at[u] = "timed"
  BY <1>5, <1>6, <1>7 DEF WorkingPlaces
<1>11. OnTime' BY <1>3, <1>10, OnTimeStays DEF JobsInv
<1>12. now' \in Nat BY <1>3 DEF JobsInv, StatusSound
<1>13. worker[t].priority = Prio[job]
  BY <1>1, <1>3 DEF JobsInv, ThreadsSound, WorkingPlaces
<1>14. \/ UNCHANGED <<queue, heap>> /\ status' = [status EXCEPT ![job] = "done"]
       \/ /\ queue' = [queue EXCEPT ![Prio[job]] = Append(@, job)] /\ UNCHANGED heap
          /\ status' = [status EXCEPT ![job] = "queued"]
  BY <1>1, <1>3, <1>13 DEF FinishJob, RequeueJob, Push
<1> QED BY <1>1, <1>3, <1>7, <1>8, <1>9, <1>11, <1>12, <1>14, DropStep

\* The scheduler is woken by an event: its thread does not wait anymore.
LEMMA Woken ==
    ASSUME NEW a \in [Threads -> Places], at' = WakeScheduler(a)
    PROVE  /\ at' \in [Threads -> Places]
           /\ \A u \in Threads : at'[u] = a[u] \/ (a[u] = "timed" /\ at'[u] = "scheduling")
           /\ \A u \in Threads : at'[u] # "timed"
           /\ OnTime'
<1>1. "scheduling" \in Places BY DEF Places, WorkingPlaces, Scheduling
<1> QED BY <1>1 DEF WakeScheduler, OnTime

LEMMA RescheduleStep ==
    ASSUME JobsInv, NEW t \in Threads, RescheduleJob(t)
    PROVE  JobsInv'
<1>1. PICK job : job = worker[t].job OBVIOUS
<1>2. PICK d \in Delays : ScheduleAt(job, now + d, [at EXCEPT ![t] = "loop"])
  BY <1>1 DEF RescheduleJob
<1>3. /\ at[t] = "executing" /\ worker' = [worker EXCEPT ![t] = NoWork]
      /\ UNCHANGED <<queue, now, fired>>
  BY <1>2 DEF RescheduleJob, Executed, ScheduleAt
<1>4. PICK b : b = [at EXCEPT ![t] = "loop"] OBVIOUS
<1>5. at \in [Threads -> Places] /\ "loop" \in Places /\ "loop" \notin WorkingPlaces
  BY DEF JobsInv, ThreadsSound, Places, IdlePlaces, WorkingPlaces
<1>6. b \in [Threads -> Places] /\ b[t] = "loop" /\ \A u \in Threads \ {t} : b[u] = at[u]
  BY <1>4, <1>5
<1>7. at' = WakeScheduler(b) BY <1>2, <1>4 DEF ScheduleAt
<1>8. /\ at' \in [Threads -> Places]
      /\ \A u \in Threads : at'[u] = b[u] \/ (b[u] = "timed" /\ at'[u] = "scheduling")
      /\ OnTime'
  BY <1>6, <1>7, Woken
<1>9. at'[t] \notin WorkingPlaces BY <1>5, <1>6, <1>8
<1>10. \A u \in Threads \ {t} : KeepsPlace(u) BY <1>6, <1>8 DEF KeepsPlace
<1>11. now \in Nat /\ now' \in Nat /\ now + d \in Nat
  BY <1>3, ConstantsAssumption DEF JobsInv, StatusSound
<1>12. /\ heap' = Insert(heap, [time |-> now + d, job |-> job])
       /\ status' = [status EXCEPT ![job] = "queued"]
  BY <1>2 DEF ScheduleAt
<1> QED BY <1>1, <1>3, <1>8, <1>9, <1>10, <1>11, <1>12, DropStep

LEMMA RestartStep ==
    ASSUME JobsInv, NEW t \in Threads, Restart(t)
    PROVE  JobsInv'
<1>1. PICK job : job = worker[t].job OBVIOUS
<1>2. /\ at[t] = "timed" /\ worker' = [worker EXCEPT ![t] = NoWork]
      /\ at' = [at EXCEPT ![t] = "restarting"]
      /\ UNCHANGED <<queue, heap, now, fired>> /\ status' = [status EXCEPT ![job] = "done"]
  BY <1>1 DEF Restart
<1>3. at \in [Threads -> Places] /\ "restarting" \in Places /\ "restarting" \notin WorkingPlaces
  BY DEF JobsInv, ThreadsSound, Places, IdlePlaces, WorkingPlaces
<1>4. /\ at' \in [Threads -> Places] /\ at'[t] = "restarting"
      /\ \A u \in Threads \ {t} : at'[u] = at[u]
  BY <1>2, <1>3
<1>5. \A u \in Threads \ {t} : KeepsPlace(u) BY <1>4 DEF KeepsPlace
<1>6. \A u \in Threads : at'[u] # "timed"
  <2>1. \A u \in Threads : at[u] = "timed" => u = t
    BY <1>2, OneScheduler DEF JobsInv, Scheduling
  <2> QED BY <1>4, <2>1
<1>7. OnTime' BY <1>6 DEF OnTime
<1>8. now' \in Nat BY <1>2 DEF JobsInv, StatusSound
<1>9. at'[t] \notin WorkingPlaces BY <1>3, <1>4
<1> QED BY <1>1, <1>2, <1>4, <1>5, <1>7, <1>8, <1>9, DropStep

\* A job that nobody has is put into a queue, or is executed by the caller and
\* destroyed; it is new, or it is the job of the event that fired.
LEMMA QueuedStep ==
    ASSUME JobsInv, NEW job \in AllJobs, status[job] \in {"new", "queued"},
           ~InQueue(job), ~InHeap(job),
           ThreadsSound', \A j \in AllJobs : InHands(j)' <=> InHands(j),
           \A j \in AllJobs \ {job} : fired' = j <=> fired = j, fired' # job,
           UNCHANGED heap, now' \in Nat, OnTime',
           \/ /\ \/ queue' = [queue EXCEPT ![Prio[job]] = Append(@, job)]
                 \/ queue' = [queue EXCEPT ![Prio[job]] = <<job>> \o @]
              /\ status' = [status EXCEPT ![job] = "queued"]
           \/ UNCHANGED queue /\ status' = [status EXCEPT ![job] = "done"]
    PROVE  JobsInv'
<1> USE DEF JobsInv
<1>1. HeapSound' /\ \A j : InHeap(j)' <=> InHeap(j) BY HeapStays
<1>2. ~InHands(job) BY DEF StatusSound, PlaceSound
<1>3. PICK x \in {"queued", "done"} :
         /\ QueueSound'
         /\ \A j \in AllJobs : InQueue(j)' <=> InQueue(j) \/ (j = job /\ x = "queued")
         /\ status' = [status EXCEPT ![job] = x]
  <2>1. CASE UNCHANGED queue /\ status' = [status EXCEPT ![job] = "done"]
    BY <2>1, QueueStays
  <2>2. CASE /\ \/ queue' = [queue EXCEPT ![Prio[job]] = Append(@, job)]
                \/ queue' = [queue EXCEPT ![Prio[job]] = <<job>> \o @]
             /\ status' = [status EXCEPT ![job] = "queued"]
    <3>1. QueueSound' /\ \A j \in AllJobs : InQueue(j)' <=> InQueue(j) \/ j = job
      BY <2>2, QueueGrows
    <3> QED BY <2>2, <3>1
  <2> QED BY <2>1, <2>2
<1>4. /\ status'[job] = x /\ \A j \in AllJobs \ {job} : status'[j] = status[j]
      /\ (\A j \in AllJobs : PlaceSound(j)') => StatusSound'
  BY <1>3, StatusChange
<1>5. PlaceSound(job)' BY <1>1, <1>2, <1>3, <1>4 DEF PlaceSound
<1>6. ASSUME NEW j \in AllJobs, j # job PROVE PlaceSound(j)'
  <2>1. PlaceSound(j) BY DEF StatusSound
  <2> QED BY <1>1, <1>3, <1>4, <1>6, <2>1 DEF PlaceSound
<1> QED BY <1>1, <1>3, <1>4, <1>5, <1>6

\* Between Fire and HandOver only the scheduler has an event in hand.
LEMMA FireStep ==
    ASSUME JobsInv, NEW t \in Threads, Fire(t)
    PROVE  JobsInv'
<1> USE DEF JobsInv
<1>1. /\ at[t] = "scheduling" /\ heap # << >> /\ fired' = heap[1].job
      /\ heap' = RemoveFirst(heap) /\ at' = [at EXCEPT ![t] = "handover"]
      /\ UNCHANGED <<queue, worker, status, now>>
  BY DEF Fire, Due, poolVars, jobVars
<1>2. PICK job : job = heap[1].job OBVIOUS
<1>3. /\ HeapSound' /\ job \in AllJobs /\ InHeap(job)
      /\ \A j \in AllJobs : InHeap(j)' <=> InHeap(j) /\ j # job
  BY <1>1, <1>2, HeapShrinks
<1>4. QueueSound' /\ \A j : InQueue(j)' <=> InQueue(j) BY <1>1, QueueStays
<1>5. \A u \in Threads : at[u] \in Scheduling => u = t
  BY <1>1, OneScheduler DEF Scheduling
<1>6. fired = None
  <2>1. \A u \in Threads : at[u] # "handover" BY <1>1, <1>5 DEF Scheduling
  <2> QED BY <2>1 DEF ThreadsSound
<1>7. /\ at' \in [Threads -> Places] /\ at'[t] = "handover"
      /\ \A u \in Threads \ {t} : at'[u] = at[u]
  BY <1>1 DEF ThreadsSound, Places, WorkingPlaces, Scheduling
<1>8. None \notin AllJobs BY ConstantsAssumption DEF AllJobs
<1>9. ThreadsSound'
  <2>1. \A u \in Threads :
          /\ worker'[u].job # None => worker'[u].priority = Prio[worker'[u].job]
          /\ worker'[u].job = None <=> at'[u] \notin WorkingPlaces
          /\ worker'[u].job = Scheduler <=> at'[u] \in Scheduling
    BY <1>1, <1>7 DEF ThreadsSound, WorkingPlaces, Scheduling
  <2>2. fired' \in AllJobs /\ fired' # None BY <1>1, <1>2, <1>3, <1>8
  <2> QED BY <1>1, <1>7, <2>1, <2>2 DEF ThreadsSound
<1>10. \A j \in AllJobs : InHands(j)' <=> InHands(j) BY <1>1 DEF InHands
<1>11. StatusSound'
  <2>1. fired' = job BY <1>1, <1>2
  <2>2. \A j \in AllJobs : fired # j BY <1>6, <1>8
  <2>3. ASSUME NEW j \in AllJobs PROVE PlaceSound(j)'
    <3>1. PlaceSound(j) BY DEF StatusSound
    <3>2. status'[j] = status[j] BY <1>1
    <3> QED BY <1>3, <1>4, <1>10, <2>1, <2>2, <3>1, <3>2 DEF PlaceSound
  <2> QED BY <1>1, <2>3 DEF StatusSound
<1>12. OnTime' BY <1>5, <1>7 DEF OnTime, Scheduling
<1> QED BY <1>3, <1>4, <1>9, <1>11, <1>12

\* The job of the event is queued.
LEMMA HandOverStep ==
    ASSUME JobsInv, NEW t \in Threads, HandOver(t)
    PROVE  JobsInv'
<1> USE DEF JobsInv
<1>1. /\ at[t] = "handover" /\ status' = [status EXCEPT ![fired] = "queued"]
      /\ queue' = [queue EXCEPT ![Prio[fired]] = Append(@, fired)] /\ fired' = None
      /\ at' \in Signal([at EXCEPT ![t] = "scheduling"])
      /\ UNCHANGED <<worker, heap, now, deadline>>
  BY DEF HandOver, Push
<1>2. None \notin AllJobs BY ConstantsAssumption DEF AllJobs
<1>3. PICK job \in AllJobs : job = fired BY <1>1 DEF ThreadsSound
<1>4. status[job] = "queued" /\ ~InQueue(job) /\ ~InHeap(job)
  BY <1>3 DEF StatusSound, PlaceSound
<1>5. PICK b : b = [at EXCEPT ![t] = "scheduling"] OBVIOUS
<1>6. /\ b \in [Threads -> Places] /\ b[t] = "scheduling"
      /\ \A u \in Threads \ {t} : b[u] = at[u]
  BY <1>5 DEF ThreadsSound, Places, WorkingPlaces, Scheduling
<1>7. /\ at' \in [Threads -> Places]
      /\ \A u \in Threads : at'[u] = b[u] \/ (b[u] = "waiting" /\ at'[u] = "loop")
  <2>1. at' \in Signal(b) BY <1>1, <1>5
  <2> QED BY <1>6, <2>1, Wakeups
<1>8. \A u \in Threads : at[u] \in Scheduling => u = t
  BY <1>1, OneScheduler DEF Scheduling
<1>9. ThreadsSound'
  <2>1. ASSUME NEW u \in Threads
        PROVE  /\ at'[u] \in WorkingPlaces <=> at[u] \in WorkingPlaces
               /\ at'[u] \in Scheduling <=> at[u] \in Scheduling
               /\ at'[u] # "handover"
    <3>1. CASE u = t BY <1>1, <1>6, <1>7, <3>1 DEF WorkingPlaces, Scheduling
    <3>2. CASE u # t
      <4>1. at[u] \notin Scheduling BY <1>8, <3>2
      <4>2. at'[u] = at[u] \/ (at[u] = "waiting" /\ at'[u] = "loop") BY <1>6, <1>7, <3>2
      <4> QED BY <4>1, <4>2 DEF WorkingPlaces, Scheduling
    <3> QED BY <3>1, <3>2
  <2> QED BY <1>1, <1>7, <2>1 DEF ThreadsSound
<1>10. \A j \in AllJobs : InHands(j)' <=> InHands(j) BY <1>1 DEF InHands
<1>11. fired' # job /\ \A j \in AllJobs \ {job} : fired' = j <=> fired = j
  BY <1>1, <1>2, <1>3
<1>12. OnTime'
  <2>1. \A u \in Threads : at'[u] = "timed" => at[u] = "timed" BY <1>6, <1>7
  <2> QED BY <1>1, <2>1, OnTimeStays
<1>13. now' \in Nat BY <1>1 DEF StatusSound
<1>14. /\ queue' = [queue EXCEPT ![Prio[job]] = Append(@, job)]
       /\ status' = [status EXCEPT ![job] = "queued"]
  BY <1>1, <1>3
<1> QED BY <1>1, <1>4, <1>9, <1>10, <1>11, <1>12, <1>13, <1>14, QueuedStep

\* What is known of a job that was not submitted yet
LEMMA NewJob ==
    ASSUME JobsInv, NEW job \in AllJobs, status[job] = "new"
    PROVE  ~InQueue(job) /\ ~InHeap(job) /\ fired # job /\ ~InHands(job)
BY DEF JobsInv, StatusSound, PlaceSound

LEMMA SubmitSteps ==
    ASSUME JobsInv, NEW job \in AllJobs, QueueJob(job) \/ ExecuteJob(job)
    PROVE  JobsInv'
<1>1. /\ status[job] = "new" /\ at' \in Signal(at)
      /\ UNCHANGED <<worker, heap, now, deadline, fired>>
  BY DEF QueueJob, ExecuteJob, eventVars
<1>2. ~InQueue(job) /\ ~InHeap(job) /\ fired # job BY <1>1, NewJob
<1>3. /\ at' \in [Threads -> Places]
      /\ \A u \in Threads : at'[u] = at[u] \/ (at[u] = "waiting" /\ at'[u] = "loop")
  BY <1>1, Wakeups DEF JobsInv, ThreadsSound
<1>4. \A u \in Threads : KeepsPlace(u) BY <1>3 DEF KeepsPlace, WorkingPlaces
<1>5. ThreadsSound' /\ \A j \in AllJobs : InHands(j)' <=> InHands(j)
  BY <1>1, <1>3, <1>4, ThreadsStay DEF JobsInv
<1>6. OnTime'
  <2>1. \A u \in Threads : at'[u] = "timed" => at[u] = "timed" BY <1>3
  <2> QED BY <1>1, <2>1, OnTimeStays DEF JobsInv
<1>7. now' \in Nat BY <1>1 DEF JobsInv, StatusSound
<1>8. \/ /\ \/ queue' = [queue EXCEPT ![Prio[job]] = Append(@, job)]
            \/ queue' = [queue EXCEPT ![Prio[job]] = <<job>> \o @]
         /\ status' = [status EXCEPT ![job] = "queued"]
      \/ UNCHANGED queue /\ status' = [status EXCEPT ![job] = "done"]
  BY DEF QueueJob, ExecuteJob, Push
<1>9. fired' # job /\ \A j \in AllJobs \ {job} : fired' = j <=> fired = j BY <1>1, <1>2
<1> QED BY <1>1, <1>2, <1>5, <1>6, <1>7, <1>8, <1>9, QueuedStep

LEMMA ScheduleStep ==
    ASSUME JobsInv, NEW job \in AllJobs, ScheduleJob(job)
    PROVE  JobsInv'
<1> USE DEF JobsInv
<1>1. PICK d \in Delays : ScheduleAt(job, now + d, at) BY DEF ScheduleJob
<1>2. /\ status[job] = "new" /\ UNCHANGED <<queue, worker, now, fired>>
      /\ heap' = Insert(heap, [time |-> now + d, job |-> job])
      /\ status' = [status EXCEPT ![job] = "queued"]
      /\ at' = WakeScheduler(at)
  BY <1>1 DEF ScheduleJob, ScheduleAt, poolVars
<1>3. ~InQueue(job) /\ ~InHeap(job) /\ fired # job /\ ~InHands(job) BY <1>2, NewJob
<1>4. now' \in Nat /\ now + d \in Nat BY <1>2, ConstantsAssumption DEF StatusSound
<1>5. /\ at' \in [Threads -> Places] /\ OnTime'
      /\ \A u \in Threads : at'[u] = at[u] \/ (at[u] = "timed" /\ at'[u] = "scheduling")
  BY <1>2, Woken DEF ThreadsSound
<1>6. \A u \in Threads : KeepsPlace(u) BY <1>5 DEF KeepsPlace
<1>7. ThreadsSound' /\ \A j \in AllJobs : InHands(j)' <=> InHands(j)
  BY <1>2, <1>5, <1>6, ThreadsStay
<1>8. QueueSound' /\ \A j : InQueue(j)' <=> InQueue(j) BY <1>2, QueueStays
<1>9. HeapSound' /\ \A j \in AllJobs : InHeap(j)' <=> InHeap(j) \/ j = job
  BY <1>2, <1>3, <1>4, HeapGrows
<1>10. /\ status'[job] = "queued" /\ \A j \in AllJobs \ {job} : status'[j] = status[j]
       /\ (\A j \in AllJobs : PlaceSound(j)') => StatusSound'
  BY <1>2, <1>4, StatusChange
<1>11. PlaceSound(job)' BY <1>2, <1>3, <1>7, <1>8, <1>9, <1>10 DEF PlaceSound
<1>12. ASSUME NEW j \in AllJobs, j # job PROVE PlaceSound(j)'
  <2>1. PlaceSound(j) BY DEF StatusSound
  <2> QED BY <1>2, <1>7, <1>8, <1>9, <1>10, <1>12, <2>1 DEF PlaceSound
<1> QED BY <1>5, <1>7, <1>8, <1>9, <1>10, <1>11, <1>12

\* cancel() marks jobs that are executed; once no thread is left, what is still
\* queued is destroyed.
LEMMA EndStep ==
    ASSUME JobsInv, UNCHANGED <<heap, worker, fired, now, deadline>>,
           at' \in [Threads -> Places], \A u \in Threads : KeepsPlace(u),
           \A u \in Threads : at'[u] = "timed" => at[u] = "timed",
           NEW empties \in BOOLEAN,
           queue' = IF empties THEN [p \in Prios |-> << >>] ELSE queue,
           status' = [j \in AllJobs |-> status'[j]],
           \A j \in AllJobs : \/ status'[j] = "canceled" /\ InHands(j)
                              \/ status'[j] = "done" /\ InQueue(j) /\ empties
                              \/ status'[j] = status[j] /\ ~(InQueue(j) /\ empties)
    PROVE  JobsInv'
<1> USE DEF JobsInv
<1>1. HeapSound' /\ \A j : InHeap(j)' <=> InHeap(j) BY HeapStays
<1>2. ThreadsSound' /\ \A j \in AllJobs : InHands(j)' <=> InHands(j) BY ThreadsStay
<1>3. OnTime' BY OnTimeStays
<1>4. QueueSound' /\ \A j \in AllJobs : InQueue(j)' <=> InQueue(j) /\ ~empties
  <2>1. ~empties => QueueSound' /\ \A j \in AllJobs : InQueue(j)' <=> InQueue(j)
    BY QueueStays
  <2>2. ASSUME empties PROVE QueueSound' /\ \A j \in AllJobs : ~InQueue(j)'
    <3>1. /\ queue' \in [Prios -> Seq(AllJobs)]
          /\ \A p \in Prios : queue'[p] = << >> /\ Len(queue'[p]) = 0
      BY <2>2
    <3>2. QueueSound' BY <3>1 DEF QueueSound
    <3>3. \A j \in AllJobs : ~InQueue(j)' BY <3>1, Priorities DEF InQueue
    <3> QED BY <3>2, <3>3
  <2> QED BY <2>1, <2>2
<1>5. StatusSound'
  <2>1. \A j \in AllJobs : status'[j] \in {"new", "queued", "executing", "canceled", "done"}
    BY DEF StatusSound
  <2>2. status' \in [AllJobs -> {"new", "queued", "executing", "canceled", "done"}] BY <2>1
  <2>3. ASSUME NEW j \in AllJobs PROVE PlaceSound(j)'
    <3>1. PlaceSound(j) BY DEF StatusSound
    <3> QED BY <1>1, <1>2, <1>4, <3>1 DEF PlaceSound
  <2> QED BY <2>2, <2>3 DEF StatusSound
<1> QED BY <1>1, <1>2, <1>3, <1>4, <1>5

\* Counters are not negative, and before the start there are no threads
StartSound == desired \in Nat /\ total \in Nat /\ NotYetStarted

LEMMA CancelSteps ==
    ASSUME JobsInv, StartSound, Cancel \/ Terminated
    PROVE  JobsInv'
<1>1. /\ WaitOrEnd /\ UNCHANGED <<heap, worker, fired, now, deadline>>
      /\ DOMAIN status = AllJobs
  BY DEF Cancel, Terminated, eventVars, JobsInv, StatusSound
<1>2. PICK empties \in BOOLEAN : empties <=> total = 0 OBVIOUS
<1>3. queue' = IF empties THEN [p \in Prios |-> << >>] ELSE queue
  BY <1>1, <1>2 DEF WaitOrEnd, StartSound
<1>4. at' = at \/ at' = Broadcast(at) BY <1>1 DEF WaitOrEnd
<1>5. /\ at' \in [Threads -> Places] /\ \A u \in Threads : KeepsPlace(u)
      /\ \A u \in Threads : at'[u] = "timed" => at[u] = "timed"
  <2>1. at' = at => /\ at' \in [Threads -> Places] /\ \A u \in Threads : KeepsPlace(u)
                    /\ \A u \in Threads : at'[u] = "timed" => at[u] = "timed"
    BY DEF JobsInv, ThreadsSound, KeepsPlace
  <2>2. at' = Broadcast(at) =>
           /\ at' \in [Threads -> Places] /\ \A u \in Threads : KeepsPlace(u)
           /\ \A u \in Threads : at'[u] = "timed" => at[u] = "timed"
    BY BroadcastAlike DEF JobsInv
  <2> QED BY <1>4, <2>1, <2>2
<1>6. status' = [j \in AllJobs |-> status'[j]]
  BY <1>1 DEF Cancel, Terminated
<1>7. ASSUME NEW j \in AllJobs
      PROVE  \/ status'[j] = "canceled" /\ InHands(j)
             \/ status'[j] = "done" /\ InQueue(j) /\ empties
             \/ status'[j] = status[j] /\ ~(InQueue(j) /\ empties)
  BY <1>1, <1>2 DEF Cancel, Terminated, InHands
<1> QED BY <1>1, <1>3, <1>5, <1>6, <1>7, EndStep

LEMMA FlushStep ==
    ASSUME JobsInv, Flush
    PROVE  JobsInv'
<1> USE DEF JobsInv
<1>1. /\ heap' = << >> /\ UNCHANGED <<queue, at, worker, fired, now>>
      /\ status' = [j \in AllJobs |-> IF InHeap(j) THEN "done" ELSE status[j]]
  <2>1. DOMAIN status = AllJobs BY DEF StatusSound
  <2> QED BY <2>1 DEF Flush, InHeap, poolVars, threadVars
<1>2. HeapSound' /\ \A j \in AllJobs : ~InHeap(j)'
  BY <1>1 DEF HeapSound, InHeap, Ordered
<1>3. QueueSound' /\ \A j : InQueue(j)' <=> InQueue(j) BY <1>1, QueueStays
<1>4. ThreadsSound' /\ \A j \in AllJobs : InHands(j)' <=> InHands(j)
  <2>1. at' \in [Threads -> Places] /\ \A u \in Threads : KeepsPlace(u)
    BY <1>1 DEF KeepsPlace, ThreadsSound
  <2> QED BY <1>1, <2>1, ThreadsStay
<1>5. StatusSound'
  <2>1. status' \in [AllJobs -> {"new", "queued", "executing", "canceled", "done"}]
    BY <1>1 DEF StatusSound
  <2>2. ASSUME NEW j \in AllJobs PROVE PlaceSound(j)'
    <3>1. PlaceSound(j) BY DEF StatusSound
    <3>2. status'[j] = IF InHeap(j) THEN "done" ELSE status[j] BY <1>1
    <3>3. fired' = fired BY <1>1
    <3> QED BY <1>2, <1>3, <1>4, <3>1, <3>2, <3>3 DEF PlaceSound
  <2> QED BY <1>1, <2>1, <2>2 DEF StatusSound
<1>6. OnTime' BY <1>1 DEF OnTime
<1> QED BY <1>2, <1>3, <1>4, <1>5, <1>6

-----------------------------------------------------------------------------
(* The invariant holds in every state.                                     *)

LEMMA WorkStarted ==
    ASSUME StartSound, NEW t \in Threads, Work(t)
    PROVE  StartSound'
<1>1. at[t] # "none" /\ (stage' = stage \/ stage' = "terminated")
  BY DEF Work, EndThread, GetJob, WaitForJob, FinishJob, DestroyJob, RequeueJob, RescheduleJob,
         Executed, Fire, HandOver, WaitForEvent, TimedOut, Restart, EndRestart, SignalTerminated
<1>2. stage' # "init" BY <1>1 DEF StartSound, NotYetStarted
<1>3. \/ UNCHANGED <<desired, total>>
      \/ desired < total /\ total' = total - 1 /\ UNCHANGED desired
  BY DEF Work, EndThread, GetJob, WaitForJob, FinishJob, DestroyJob, RequeueJob, RescheduleJob,
         Fire, HandOver, WaitForEvent, TimedOut, Restart, EndRestart, poolVars
<1>4. desired' \in Nat /\ total' \in Nat BY <1>3 DEF StartSound
<1> QED BY <1>2, <1>4 DEF StartSound, NotYetStarted

LEMMA OthersStarted ==
    ASSUME StartSound, at \in [Threads -> Places],
           \/ \E job \in Jobs : Submit(job)
           \/ Start \/ Stop \/ Cancel \/ Terminated \/ Flush \/ Tick \/ UNCHANGED vars
    PROVE  StartSound'
<1>1. ASSUME NEW job \in Jobs, Submit(job) PROVE StartSound'
  <2>1. UNCHANGED <<desired, total, stage>>
    BY <1>1 DEF Submit, QueueJob, ExecuteJob, ScheduleJob, poolVars
  <2>2. at' \in Signal(at) \/ at' = WakeScheduler(at)
    BY <1>1 DEF Submit, QueueJob, ExecuteJob, ScheduleJob, ScheduleAt
  <2>3. at' \in Signal(at) =>
           \A u \in Threads : at'[u] = at[u] \/ (at[u] = "waiting" /\ at'[u] = "loop")
    BY Wakeups
  <2>4. at' = WakeScheduler(at) => \A u \in Threads : at[u] = "none" => at'[u] = "none"
    BY DEF WakeScheduler
  <2>5. \A u \in Threads : at[u] = "none" => at'[u] = "none" BY <2>2, <2>3, <2>4
  <2> QED BY <2>1, <2>5 DEF StartSound, NotYetStarted
<1>2. ASSUME Start \/ Stop \/ Cancel \/ Terminated PROVE StartSound'
  <2>1. stage' # "init" BY <1>2 DEF Start, Stop, Cancel, Terminated, WaitOrEnd
  <2>2. desired' \in Nat /\ total' \in Nat
    <3>1. NumThreads \in Nat BY ConstantsAssumption
    <3> QED BY <1>2, <3>1 DEF Start, Stop, Cancel, Terminated, StartSound
  <2> QED BY <2>1, <2>2 DEF StartSound, NotYetStarted
<1>3. ASSUME Flush \/ Tick \/ UNCHANGED vars PROVE StartSound'
  <2>1. UNCHANGED <<desired, total, at>> /\ (stage' = stage \/ stage' = "flushed")
    BY <1>3 DEF Flush, Tick, vars, poolVars, threadVars
  <2> QED BY <2>1 DEF StartSound, NotYetStarted
<1> QED BY <1>1, <1>2, <1>3

LEMMA JobsInit ==
    ASSUME Init
    PROVE  JobsInv /\ StartSound
<1>1. /\ None \notin AllJobs /\ Scheduler \in AllJobs /\ Prio[Scheduler] = 0
      /\ 0 \in Prios /\ "none" \in Places /\ "none" \notin WorkingPlaces
      /\ "none" \notin Scheduling /\ Scheduler # None
  BY ConstantsAssumption DEF AllJobs, Prios, Places, WorkingPlaces, Scheduling
<1>2. QueueSound /\ \A j \in AllJobs : InQueue(j) <=> j = Scheduler
  <2>1. /\ queue \in [Prios -> Seq(AllJobs)]
        /\ \A p \in Prios : queue[p] = IF p = 0 THEN <<Scheduler>> ELSE << >>
    <3>1. <<Scheduler>> \in Seq(AllJobs) /\ << >> \in Seq(AllJobs) BY <1>1
    <3> QED BY <1>1, <3>1 DEF Init, ProcessorCreate, SchedulerCreate
  <2>2. \A p \in Prios : \A i \in 1..Len(queue[p]) : i = 1 /\ p = 0 /\ queue[p][i] = Scheduler
    BY <2>1
  <2>3. QueueSound BY <1>1, <2>1, <2>2 DEF QueueSound
  <2>4. 1 \in 1..Len(queue[0]) /\ queue[0][1] = Scheduler BY <1>1, <2>1
  <2>5. \A j \in AllJobs : InQueue(j) <=> j = Scheduler
    BY <1>1, <2>2, <2>4, Priorities DEF InQueue
  <2> QED BY <2>3, <2>5
<1>3. HeapSound /\ \A j \in AllJobs : ~InHeap(j)
  BY DEF Init, ProcessorCreate, SchedulerCreate, HeapSound, InHeap, Ordered
<1>4. NoWork \in [job : AllJobs \cup {None}, priority : Prios] /\ NoWork.job = None
  BY <1>1 DEF NoWork
<1>5. /\ at \in [Threads -> Places]
      /\ worker \in [Threads -> [job : AllJobs \cup {None}, priority : Prios]]
      /\ \A t \in Threads : at[t] = "none" /\ worker[t].job = None
  BY <1>1, <1>4 DEF Init, ProcessorCreate, SchedulerCreate
<1>6. ThreadsSound
  BY <1>1, <1>5 DEF Init, ProcessorCreate, SchedulerCreate, ThreadsSound
<1>7. \A j \in AllJobs : ~InHands(j) BY <1>1, <1>5 DEF InHands
<1>8. StatusSound
  <2>1. /\ status \in [AllJobs -> {"new", "queued", "executing", "canceled", "done"}]
        /\ \A j \in AllJobs : status[j] = IF j = Scheduler THEN "queued" ELSE "new"
    BY DEF Init, ProcessorCreate, SchedulerCreate, AllJobs
  <2>2. now \in Nat /\ fired = None BY DEF Init, ProcessorCreate, SchedulerCreate
  <2>3. \A j \in AllJobs : PlaceSound(j)
    BY <1>1, <1>2, <1>3, <1>7, <2>1, <2>2 DEF PlaceSound
  <2> QED BY <2>1, <2>2, <2>3 DEF StatusSound
<1>9. OnTime BY <1>5 DEF OnTime
<1>10. StartSound BY <1>5 DEF Init, ProcessorCreate, SchedulerCreate, StartSound, NotYetStarted
<1> QED BY <1>2, <1>3, <1>6, <1>8, <1>9, <1>10 DEF JobsInv

LEMMA JobsNext ==
    ASSUME JobsInv, StartSound, [Next]_vars
    PROVE  JobsInv' /\ StartSound'
<1>1. ASSUME NEW t \in Threads, Work(t) PROVE JobsInv' /\ StartSound'
  <2>1. JobsInv'
    BY <1>1, IdleSteps, GetJobStep, FinishSteps, RescheduleStep, FireStep, HandOverStep,
       WaitSteps, RestartStep DEF Work
  <2> QED BY <1>1, <2>1, WorkStarted
<1>2. at \in [Threads -> Places] BY DEF JobsInv, ThreadsSound
<1>3. ASSUME NEW job \in Jobs, Submit(job) PROVE JobsInv' /\ StartSound'
  <2>1. job \in AllJobs BY DEF AllJobs
  <2>2. JobsInv' BY <1>3, <2>1, SubmitSteps, ScheduleStep DEF Submit
  <2> QED BY <1>2, <1>3, <2>2, OthersStarted
<1>4. ASSUME Start \/ Stop \/ Cancel \/ Terminated \/ Flush \/ Tick \/ UNCHANGED vars
      PROVE  JobsInv' /\ StartSound'
  <2>1. NotYetStarted BY DEF StartSound
  <2>2. JobsInv' BY <1>4, <2>1, StartMove, StopStep, CancelSteps, FlushStep, TickStep
  <2> QED BY <1>2, <1>4, <2>2, OthersStarted
<1> QED BY <1>1, <1>3, <1>4 DEF Next

\* A set with one element at most, counted
LEMMA CountOne ==
    ASSUME NEW S, \A x, y \in S : x = y
    PROVE  Cardinality(S) = IF S = {} THEN 0 ELSE 1
<1>1. CASE S = {} BY <1>1, FS_EmptySet
<1>2. CASE S # {}
  <2>1. PICK x \in S : TRUE BY <1>2
  <2>2. S = {x} BY <2>1
  <2>3. Cardinality({x}) = 1 BY FS_Singleton
  <2> QED BY <1>2, <2>2, <2>3
<1> QED BY <1>1, <1>2

LEMMA OnePlace ==
    ASSUME JobsInv
    PROVE  JobInOnePlace
<1> USE DEF JobsInv
<1>1. SUFFICES ASSUME NEW j \in AllJobs
      PROVE LET Is(x) == x = j
                IsEvent(e) == e.job = j
                hands == Cardinality({t \in Threads : worker[t].job = j})
                places == Occurrences(queue[Prio[j]], Is) + Occurrences(heap, IsEvent)
                            + hands + (IF fired = j THEN 1 ELSE 0)
            IN  /\ places = IF status[j] \in {"new", "done"} THEN 0 ELSE 1
                /\ hands = 1 <=> status[j] \in {"executing", "canceled"}
  BY DEF JobInOnePlace, AllJobs
<1>2. PICK Q : Q = {i \in 1..Len(queue[Prio[j]]) : queue[Prio[j]][i] = j} OBVIOUS
<1>3. PICK H : H = {i \in 1..Len(heap) : heap[i].job = j} OBVIOUS
<1>4. PICK T : T = {t \in Threads : worker[t].job = j} OBVIOUS
<1>5. Prio[j] \in Prios /\ j # None BY Priorities, ConstantsAssumption DEF AllJobs
<1>6. Cardinality(Q) = IF InQueue(j) THEN 1 ELSE 0
  <2>1. \A x, y \in Q : x = y BY <1>2, <1>5 DEF QueueSound
  <2>2. InQueue(j) <=> Q # {} BY <1>2 DEF InQueue
  <2> QED BY <2>1, <2>2, CountOne
<1>7. Cardinality(H) = IF InHeap(j) THEN 1 ELSE 0
  <2>1. \A x, y \in H : x = y BY <1>3 DEF HeapSound
  <2>2. InHeap(j) <=> H # {} BY <1>3 DEF InHeap
  <2> QED BY <2>1, <2>2, CountOne
<1>8. Cardinality(T) = IF InHands(j) THEN 1 ELSE 0
  <2>1. \A x, y \in T : x = y BY <1>4, <1>5 DEF ThreadsSound
  <2>2. InHands(j) <=> T # {} BY <1>4 DEF InHands
  <2> QED BY <2>1, <2>2, CountOne
<1>9. /\ PlaceSound(j)
      /\ status[j] \in {"new", "queued", "executing", "canceled", "done"}
  BY DEF StatusSound
<1>10. /\ Cardinality(Q) + Cardinality(H) + Cardinality(T) + (IF fired = j THEN 1 ELSE 0)
             = IF status[j] \in {"new", "done"} THEN 0 ELSE 1
       /\ Cardinality(T) = 1 <=> status[j] \in {"executing", "canceled"}
  BY <1>6, <1>7, <1>8, <1>9 DEF PlaceSound
<1> QED BY <1>2, <1>3, <1>4, <1>10 DEF Occurrences

LEMMA JobsAlways == Spec => [](JobsInv /\ StartSound)
<1>1. Init => JobsInv /\ StartSound BY JobsInit
<1>2. JobsInv /\ StartSound /\ [Next]_vars => (JobsInv /\ StartSound)' BY JobsNext
<1> QED BY <1>1, <1>2, PTL DEF Spec

\* No job is lost or doubled: however threads, submitters, the scheduler and the
\* shutdown take their turns, a job that was submitted is in one queue, in the
\* heap or in the hands of one thread until it is destroyed, and nowhere after
\* (processor.c:277-326, :471-516, scheduler.c:165-179, :283-295).
THEOREM JobsKept == Spec => []JobInOnePlace
<1>1. JobsInv => JobInOnePlace BY OnePlace
<1> QED BY <1>1, JobsAlways, PTL

\* The scheduler does not oversleep: the wait of its thread ends before any event
\* of the heap is due, as the first event of the heap fires first and whoever adds
\* an event ends the wait (scheduler.c:165-206, :236-254).
THEOREM SchedulerOnTime == Spec => []OnTime
<1>1. JobsInv => OnTime BY DEF JobsInv
<1> QED BY <1>1, JobsAlways, PTL

-----------------------------------------------------------------------------
(* Signals of job_added.  A thread that sleeps is not needed as long as    *)
(* the threads that are awake and will look for a job are at least as many *)
(* as there are jobs that get_job() would give away, one after the other.  *)

Least(a, b) == IF a < b THEN a ELSE b

\* What is left of y threads for the lower priorities: those that jobs of this
\* priority take, or those reserved for it if they are more, are not
Beyond(y, q, r) == IF q >= y \/ r >= y THEN 0 ELSE IF q < r THEN y - r ELSE y - q

Served(q0, q1, q2, q3, r0, r1, r2, idle) ==
    LET y1 == Beyond(idle, q0, r0)
        y2 == Beyond(y1, q1, r1)
        y3 == Beyond(y2, q2, r2)
    IN  Least(q0, idle) + Least(q1, y1) + Least(q2, y2) + Least(q3, y3)

\* The number of jobs that idle threads can get, with q[p] jobs queued and r[p]
\* threads still reserved per priority
Takable(q, r, idle) == Served(q[0], q[1], q[2], q[3], r[0], r[1], r[2], idle)

Lengths == [p \in Prios |-> Len(queue[p])]
Missing == [k \in Prios |-> IF working[k] < Reserved[k] THEN Reserved[k] - working[k] ELSE 0]
Lookers == {t \in Threads : at[t] \in {"loop", "destroying"}}
Asleep == \E t \in Threads : at[t] = "waiting"

EnoughAwake == Asleep => Cardinality(Lookers) >= Takable(Lengths, Missing, GetIdleThreads)

\* Jobs are canceled by cancel() only
CanceledLate ==
    \A j \in AllJobs : status[j] = "canceled" => desired = 0 /\ stage # "init"

WakeInv ==
    /\ EnoughAwake
    /\ Asleep => desired >= total
    /\ stage = "canceling" => total > 0
    /\ CanceledLate

Fewer(r) == IF r > 0 THEN r - 1 ELSE 0

\* What get_job() goes by, of any queues, reservations and idle threads
Held(q, r, idle, p) == Above(r, p) > 0 /\ Above(r, p) >= idle
First(q, p) == q[p] > 0 /\ \A k \in Prios : k < p => q[k] = 0

\* One more job is one more to get, at most
LEMMA ServedPush ==
    ASSUME NEW q0 \in Nat, NEW q1 \in Nat, NEW q2 \in Nat, NEW q3 \in Nat,
           NEW r0 \in Nat, NEW r1 \in Nat, NEW r2 \in Nat, NEW i \in Nat
    PROVE  /\ Served(q0 + 1, q1, q2, q3, r0, r1, r2, i) <= Served(q0, q1, q2, q3, r0, r1, r2, i) + 1
           /\ Served(q0, q1 + 1, q2, q3, r0, r1, r2, i) <= Served(q0, q1, q2, q3, r0, r1, r2, i) + 1
           /\ Served(q0, q1, q2 + 1, q3, r0, r1, r2, i) <= Served(q0, q1, q2, q3, r0, r1, r2, i) + 1
           /\ Served(q0, q1, q2, q3 + 1, r0, r1, r2, i) <= Served(q0, q1, q2, q3, r0, r1, r2, i) + 1
<1>1. Served(q0 + 1, q1, q2, q3, r0, r1, r2, i) <= Served(q0, q1, q2, q3, r0, r1, r2, i) + 1
  BY DEF Served, Beyond, Least
<1>2. Served(q0, q1 + 1, q2, q3, r0, r1, r2, i) <= Served(q0, q1, q2, q3, r0, r1, r2, i) + 1
  BY DEF Served, Beyond, Least
<1>3. Served(q0, q1, q2 + 1, q3, r0, r1, r2, i) <= Served(q0, q1, q2, q3, r0, r1, r2, i) + 1
  BY DEF Served, Beyond, Least
<1>4. Served(q0, q1, q2, q3 + 1, r0, r1, r2, i) <= Served(q0, q1, q2, q3, r0, r1, r2, i) + 1
  BY DEF Served, Beyond, Least
<1> QED BY <1>1, <1>2, <1>3, <1>4

\* One more idle thread gets one more job, at most, whether or not it is
\* reserved again
LEMMA ServedGiveUp ==
    ASSUME NEW q0 \in Nat, NEW q1 \in Nat, NEW q2 \in Nat, NEW q3 \in Nat,
           NEW r0 \in Nat, NEW r1 \in Nat, NEW r2 \in Nat, NEW i \in Nat
    PROVE  /\ Served(q0, q1, q2, q3, r0 + 1, r1, r2, i + 1) <= Served(q0, q1, q2, q3, r0, r1, r2, i) + 1
           /\ Served(q0, q1, q2, q3, r0, r1 + 1, r2, i + 1) <= Served(q0, q1, q2, q3, r0, r1, r2, i) + 1
           /\ Served(q0, q1, q2, q3, r0, r1, r2 + 1, i + 1) <= Served(q0, q1, q2, q3, r0, r1, r2, i) + 1
           /\ Served(q0, q1, q2, q3, r0, r1, r2, i + 1) <= Served(q0, q1, q2, q3, r0, r1, r2, i) + 1
<1>1. Served(q0, q1, q2, q3, r0 + 1, r1, r2, i + 1) <= Served(q0, q1, q2, q3, r0, r1, r2, i) + 1
  BY DEF Served, Beyond, Least
<1>2. Served(q0, q1, q2, q3, r0, r1 + 1, r2, i + 1) <= Served(q0, q1, q2, q3, r0, r1, r2, i) + 1
  BY DEF Served, Beyond, Least
<1>3. Served(q0, q1, q2, q3, r0, r1, r2 + 1, i + 1) <= Served(q0, q1, q2, q3, r0, r1, r2, i) + 1
  BY DEF Served, Beyond, Least
<1>4. Served(q0, q1, q2, q3, r0, r1, r2, i + 1) <= Served(q0, q1, q2, q3, r0, r1, r2, i) + 1
  BY DEF Served, Beyond, Least
<1> QED BY <1>1, <1>2, <1>3, <1>4

\* A thread that gets a job leaves one less to get
LEMMA ServedTake ==
    ASSUME NEW q0 \in Nat, NEW q1 \in Nat, NEW q2 \in Nat, NEW q3 \in Nat,
           NEW r0 \in Nat, NEW r1 \in Nat, NEW r2 \in Nat, NEW i \in Nat, i > 0
    PROVE  /\ (q0 > 0) =>
                Served(q0 - 1, q1, q2, q3, Fewer(r0), r1, r2, i - 1) + 1 <= Served(q0, q1, q2, q3, r0, r1, r2, i)
           /\ (q0 = 0 /\ q1 > 0 /\ ~(r0 > 0 /\ r0 >= i)) =>
                Served(q0, q1 - 1, q2, q3, r0, Fewer(r1), r2, i - 1) + 1 <= Served(q0, q1, q2, q3, r0, r1, r2, i)
           /\ (q0 = 0 /\ q1 = 0 /\ q2 > 0 /\ ~(r0 + r1 > 0 /\ r0 + r1 >= i)) =>
                Served(q0, q1, q2 - 1, q3, r0, r1, Fewer(r2), i - 1) + 1 <= Served(q0, q1, q2, q3, r0, r1, r2, i)
           /\ (q0 = 0 /\ q1 = 0 /\ q2 = 0 /\ q3 > 0 /\ ~(r0 + r1 + r2 > 0 /\ r0 + r1 + r2 >= i)) =>
                Served(q0, q1, q2, q3 - 1, r0, r1, r2, i - 1) + 1 <= Served(q0, q1, q2, q3, r0, r1, r2, i)
<1>1. (q0 > 0) =>
                Served(q0 - 1, q1, q2, q3, Fewer(r0), r1, r2, i - 1) + 1 <= Served(q0, q1, q2, q3, r0, r1, r2, i)
  BY DEF Served, Beyond, Least, Fewer
<1>2. (q0 = 0 /\ q1 > 0 /\ ~(r0 > 0 /\ r0 >= i)) =>
                Served(q0, q1 - 1, q2, q3, r0, Fewer(r1), r2, i - 1) + 1 <= Served(q0, q1, q2, q3, r0, r1, r2, i)
  BY DEF Served, Beyond, Least, Fewer
<1>3. (q0 = 0 /\ q1 = 0 /\ q2 > 0 /\ ~(r0 + r1 > 0 /\ r0 + r1 >= i)) =>
                Served(q0, q1, q2 - 1, q3, r0, r1, Fewer(r2), i - 1) + 1 <= Served(q0, q1, q2, q3, r0, r1, r2, i)
  BY DEF Served, Beyond, Least, Fewer
<1>4. (q0 = 0 /\ q1 = 0 /\ q2 = 0 /\ q3 > 0 /\ ~(r0 + r1 + r2 > 0 /\ r0 + r1 + r2 >= i)) =>
                Served(q0, q1, q2, q3 - 1, r0, r1, r2, i - 1) + 1 <= Served(q0, q1, q2, q3, r0, r1, r2, i)
  BY DEF Served, Beyond, Least, Fewer
<1> QED BY <1>1, <1>2, <1>3, <1>4

\* Jobs can be got if and only if get_job() gives one to a thread that is idle
LEMMA ServedExact ==
    ASSUME NEW q0 \in Nat, NEW q1 \in Nat, NEW q2 \in Nat, NEW q3 \in Nat,
           NEW r0 \in Nat, NEW r1 \in Nat, NEW r2 \in Nat, NEW i \in Nat, i > 0
    PROVE  Served(q0, q1, q2, q3, r0, r1, r2, i) > 0 <=>
             \/ q0 > 0
             \/ q0 = 0 /\ q1 > 0 /\ ~(r0 > 0 /\ r0 >= i)
             \/ q0 = 0 /\ q1 = 0 /\ q2 > 0 /\ ~(r0 + r1 > 0 /\ r0 + r1 >= i)
             \/ q0 = 0 /\ q1 = 0 /\ q2 = 0 /\ q3 > 0 /\ ~(r0 + r1 + r2 > 0 /\ r0 + r1 + r2 >= i)
  BY DEF Served, Beyond, Least

LEMMA TakableNat ==
    ASSUME NEW q \in [Prios -> Nat], NEW r \in [Prios -> Nat], NEW i \in Nat
    PROVE  Takable(q, r, i) \in Nat
<1>1. /\ q[0] \in Nat /\ q[1] \in Nat /\ q[2] \in Nat /\ q[3] \in Nat
      /\ r[0] \in Nat /\ r[1] \in Nat /\ r[2] \in Nat
  BY DEF Prios
<1> QED BY <1>1 DEF Takable, Served, Beyond, Least

LEMMA TakablePush ==
    ASSUME NEW q \in [Prios -> Nat], NEW r \in [Prios -> Nat], NEW i \in Nat, NEW p \in Prios,
           NEW n \in [Prios -> Nat], n[p] = q[p] + 1, \A k \in Prios \ {p} : n[k] = q[k]
    PROVE  Takable(n, r, i) <= Takable(q, r, i) + 1
<1>1. /\ q[0] \in Nat /\ q[1] \in Nat /\ q[2] \in Nat /\ q[3] \in Nat
      /\ r[0] \in Nat /\ r[1] \in Nat /\ r[2] \in Nat
  BY DEF Prios
<1>2. \/ n[0] = q[0] + 1 /\ n[1] = q[1] /\ n[2] = q[2] /\ n[3] = q[3]
      \/ n[0] = q[0] /\ n[1] = q[1] + 1 /\ n[2] = q[2] /\ n[3] = q[3]
      \/ n[0] = q[0] /\ n[1] = q[1] /\ n[2] = q[2] + 1 /\ n[3] = q[3]
      \/ n[0] = q[0] /\ n[1] = q[1] /\ n[2] = q[2] /\ n[3] = q[3] + 1
  BY DEF Prios
<1> QED BY <1>1, <1>2, ServedPush DEF Takable

LEMMA TakableGiveUp ==
    ASSUME NEW q \in [Prios -> Nat], NEW r \in [Prios -> Nat], NEW i \in Nat, NEW p \in Prios,
           NEW s \in [Prios -> Nat], s[p] \in {r[p], r[p] + 1}, \A k \in Prios \ {p} : s[k] = r[k]
    PROVE  Takable(q, s, i + 1) <= Takable(q, r, i) + 1
<1>1. /\ q[0] \in Nat /\ q[1] \in Nat /\ q[2] \in Nat /\ q[3] \in Nat
      /\ r[0] \in Nat /\ r[1] \in Nat /\ r[2] \in Nat
  BY DEF Prios
<1>2. \/ s[0] = r[0] /\ s[1] = r[1] /\ s[2] = r[2]
      \/ s[0] = r[0] + 1 /\ s[1] = r[1] /\ s[2] = r[2]
      \/ s[0] = r[0] /\ s[1] = r[1] + 1 /\ s[2] = r[2]
      \/ s[0] = r[0] /\ s[1] = r[1] /\ s[2] = r[2] + 1
  BY DEF Prios
<1> QED BY <1>1, <1>2, ServedGiveUp DEF Takable

LEMMA TakableTake ==
    ASSUME NEW q \in [Prios -> Nat], NEW r \in [Prios -> Nat], NEW i \in Nat, NEW p \in Prios,
           NEW n \in [Prios -> Nat], NEW s \in [Prios -> Nat],
           First(q, p), ~Held(q, r, i, p), i > 0,
           n[p] = q[p] - 1, \A k \in Prios \ {p} : n[k] = q[k],
           s[p] = Fewer(r[p]), \A k \in Prios \ {p} : s[k] = r[k]
    PROVE  Takable(n, s, i - 1) + 1 <= Takable(q, r, i)
<1>1. /\ q[0] \in Nat /\ q[1] \in Nat /\ q[2] \in Nat /\ q[3] \in Nat
      /\ r[0] \in Nat /\ r[1] \in Nat /\ r[2] \in Nat
  BY DEF Prios
<1>2. CASE p = 0
  <2>1. /\ q[0] > 0 /\ n[0] = q[0] - 1 /\ n[1] = q[1] /\ n[2] = q[2] /\ n[3] = q[3]
        /\ s[0] = Fewer(r[0]) /\ s[1] = r[1] /\ s[2] = r[2]
    BY <1>2 DEF Prios, First
  <2> QED BY <1>1, <2>1, ServedTake DEF Takable
<1>3. CASE p = 1
  <2>1. /\ q[0] = 0 /\ q[1] > 0 /\ n[1] = q[1] - 1 /\ n[0] = q[0] /\ n[2] = q[2] /\ n[3] = q[3]
        /\ s[1] = Fewer(r[1]) /\ s[0] = r[0] /\ s[2] = r[2]
        /\ ~(r[0] > 0 /\ r[0] >= i)
    BY <1>1, <1>3 DEF Prios, First, Held, Above
  <2> QED BY <1>1, <2>1, ServedTake DEF Takable
<1>4. CASE p = 2
  <2>1. /\ q[0] = 0 /\ q[1] = 0 /\ q[2] > 0
        /\ n[2] = q[2] - 1 /\ n[0] = q[0] /\ n[1] = q[1] /\ n[3] = q[3]
        /\ s[2] = Fewer(r[2]) /\ s[0] = r[0] /\ s[1] = r[1]
        /\ ~(r[0] + r[1] > 0 /\ r[0] + r[1] >= i)
    BY <1>1, <1>4 DEF Prios, First, Held, Above
  <2> QED BY <1>1, <2>1, ServedTake DEF Takable
<1>5. CASE p = 3
  <2>1. /\ q[0] = 0 /\ q[1] = 0 /\ q[2] = 0 /\ q[3] > 0
        /\ n[3] = q[3] - 1 /\ n[0] = q[0] /\ n[1] = q[1] /\ n[2] = q[2]
        /\ s[2] = r[2] /\ s[0] = r[0] /\ s[1] = r[1]
        /\ ~(r[0] + r[1] + r[2] > 0 /\ r[0] + r[1] + r[2] >= i)
    BY <1>1, <1>5 DEF Prios, First, Held, Above
  <2> QED BY <1>1, <2>1, ServedTake DEF Takable
<1> QED BY <1>2, <1>3, <1>4, <1>5 DEF Prios

LEMMA TakableExact ==
    ASSUME NEW q \in [Prios -> Nat], NEW r \in [Prios -> Nat], NEW i \in Nat, i > 0
    PROVE  Takable(q, r, i) > 0 <=> \E p \in Prios : First(q, p) /\ ~Held(q, r, i, p)
<1>1. /\ q[0] \in Nat /\ q[1] \in Nat /\ q[2] \in Nat /\ q[3] \in Nat
      /\ r[0] \in Nat /\ r[1] \in Nat /\ r[2] \in Nat
  BY DEF Prios
<1>2. (\E p \in Prios : First(q, p) /\ ~Held(q, r, i, p)) <=>
        \/ q[0] > 0
        \/ q[0] = 0 /\ q[1] > 0 /\ ~(r[0] > 0 /\ r[0] >= i)
        \/ q[0] = 0 /\ q[1] = 0 /\ q[2] > 0 /\ ~(r[0] + r[1] > 0 /\ r[0] + r[1] >= i)
        \/ /\ q[0] = 0 /\ q[1] = 0 /\ q[2] = 0 /\ q[3] > 0
           /\ ~(r[0] + r[1] + r[2] > 0 /\ r[0] + r[1] + r[2] >= i)
  <2>1. First(q, 0) /\ ~Held(q, r, i, 0) <=> q[0] > 0
    BY <1>1 DEF First, Held, Above, Prios
  <2>2. First(q, 1) /\ ~Held(q, r, i, 1) <=> q[0] = 0 /\ q[1] > 0 /\ ~(r[0] > 0 /\ r[0] >= i)
    BY <1>1 DEF First, Held, Above, Prios
  <2>3. First(q, 2) /\ ~Held(q, r, i, 2) <=>
          q[0] = 0 /\ q[1] = 0 /\ q[2] > 0 /\ ~(r[0] + r[1] > 0 /\ r[0] + r[1] >= i)
    BY <1>1 DEF First, Held, Above, Prios
  <2>4. First(q, 3) /\ ~Held(q, r, i, 3) <=>
          /\ q[0] = 0 /\ q[1] = 0 /\ q[2] = 0 /\ q[3] > 0
          /\ ~(r[0] + r[1] + r[2] > 0 /\ r[0] + r[1] + r[2] >= i)
    BY <1>1 DEF First, Held, Above, Prios
  <2>5. \A p : p \in Prios <=> p = 0 \/ p = 1 \/ p = 2 \/ p = 3 BY DEF Prios
  <2> QED BY <2>1, <2>2, <2>3, <2>4, <2>5
<1>3. Takable(q, r, i) > 0 <=>
        \/ q[0] > 0
        \/ q[0] = 0 /\ q[1] > 0 /\ ~(r[0] > 0 /\ r[0] >= i)
        \/ q[0] = 0 /\ q[1] = 0 /\ q[2] > 0 /\ ~(r[0] + r[1] > 0 /\ r[0] + r[1] >= i)
        \/ /\ q[0] = 0 /\ q[1] = 0 /\ q[2] = 0 /\ q[3] > 0
           /\ ~(r[0] + r[1] + r[2] > 0 /\ r[0] + r[1] + r[2] >= i)
  BY <1>1, ServedExact DEF Takable
<1> QED BY <1>2, <1>3

\* The part of WakeInv that is about the workers
Awake == EnoughAwake /\ (Asleep => desired >= total)

\* What the numbers are, and that they describe get_job()
LEMMA WakeNumbers ==
    ASSUME PoolInv, JobsInv
    PROVE  /\ Lengths \in [Prios -> Nat] /\ Missing \in [Prios -> Nat] /\ GetIdleThreads \in Nat
           /\ \A p \in Prios : working[p] \in Nat
           /\ Asleep => GetIdleThreads > 0 /\ total > 0
           /\ \A p \in Prios : Available(p) <=>
                First(Lengths, p) /\ ~Held(Lengths, Missing, GetIdleThreads, p)
<1>1. queue \in [Prios -> Seq(AllJobs)] BY DEF JobsInv, QueueSound
<1>2. Lengths \in [Prios -> Nat] BY <1>1 DEF Lengths
<1>3. \A p \in Prios : working[p] \in Nat
  BY ThreadsFinite DEF PoolInv, CountersAgree
<1>4. Missing \in [Prios -> Nat]
  BY <1>3, ConstantsAssumption DEF Missing
<1>5. GetIdleThreads \in Nat /\ GetIdleThreads = Cardinality(IdleThreads)
  BY ThreadsFinite DEF PoolInv, CountersAgree
<1>6. Asleep => GetIdleThreads > 0
  <2> SUFFICES ASSUME Asleep PROVE GetIdleThreads > 0 OBVIOUS
  <2>1. IdleThreads # {} BY DEF Asleep, IdleThreads, IdlePlaces
  <2>2. Cardinality(IdleThreads) # 0 BY <2>1, ThreadsFinite, FS_EmptySet
  <2> QED BY <1>5, <2>2
<1>7. GetIdleThreads <= total
  <2>1. Sum(working) \in Nat
    <3>1. working[0] \in Nat /\ working[1] \in Nat /\ working[2] \in Nat /\ working[3] \in Nat
      BY <1>3 DEF Prios
    <3> QED BY <3>1 DEF Sum
  <2>2. total \in Int BY DEF PoolInv, PoolTypes
  <2> QED BY <2>1, <2>2 DEF GetIdleThreads
<1>8. ASSUME NEW p \in Prios
      PROVE  Available(p) <=> First(Lengths, p) /\ ~Held(Lengths, Missing, GetIdleThreads, p)
  <2>1. Delayed(p) <=> Held(Lengths, Missing, GetIdleThreads, p)
    BY DEF Delayed, Held, Missing
  <2>2. \A k \in Prios : /\ Lengths[k] = Len(queue[k])
                         /\ queue[k] = <<>> <=> Len(queue[k]) = 0
                         /\ Len(queue[k]) \in Nat
    BY <1>1 DEF Lengths
  <2>3. (queue[p] # <<>> /\ \A k \in Prios : k < p => queue[k] = <<>>) <=> First(Lengths, p)
    BY <2>2 DEF First
  <2> QED BY <2>1, <2>3 DEF Available
<1>9. total \in Int BY DEF PoolInv, PoolTypes
<1> QED BY <1>2, <1>3, <1>4, <1>5, <1>6, <1>7, <1>8, <1>9

LEMMA LookersFinite == IsFiniteSet(Lookers) /\ Cardinality(Lookers) \in Nat
<1>1. IsFiniteSet(Threads) BY FS_Interval, ConstantsAssumption DEF Threads
<1>2. Lookers \subseteq Threads BY DEF Lookers
<1> QED BY <1>1, <1>2, FS_Subset, FS_CardinalityType

\* Nothing that get_job() goes by changes, and who was awake stays awake
LEMMA AwakeSame ==
    ASSUME PoolInv, JobsInv, Awake, UNCHANGED <<queue, working, total, desired>>,
           Lookers' \in SUBSET Threads, Lookers \subseteq Lookers', Asleep' => Asleep
    PROVE  Awake'
<1>1. IsFiniteSet(Threads) BY FS_Interval, ConstantsAssumption DEF Threads
<1>2. IsFiniteSet(Lookers') BY <1>1, FS_Subset
<1>3. Cardinality(Lookers') >= Cardinality(Lookers) /\ Cardinality(Lookers') \in Nat
  BY <1>2, LookersFinite, FS_Subset, FS_CardinalityType
<1>4. Takable(Lengths, Missing, GetIdleThreads)' = Takable(Lengths, Missing, GetIdleThreads)
  BY DEF Takable, Lengths, Missing, GetIdleThreads
<1>5. Takable(Lengths, Missing, GetIdleThreads) \in Nat BY WakeNumbers, TakableNat
<1>6. Asleep' => Cardinality(Lookers) >= Takable(Lengths, Missing, GetIdleThreads)
                 /\ desired >= total
  BY DEF Awake, EnoughAwake
<1>7. Asleep' => Cardinality(Lookers') >= Takable(Lengths, Missing, GetIdleThreads)
  BY <1>3, <1>5, <1>6, LookersFinite
<1> QED BY <1>4, <1>6, <1>7 DEF Awake, EnoughAwake

\* Nobody sleeps
LEMMA AwakeAll == ASSUME ~Asleep' PROVE Awake'
  BY DEF Awake, EnoughAwake

\* signal() makes one sleeping thread look for a job, if there is one
LEMMA SignalWakes ==
    ASSUME NEW a \in [Threads -> Places], at' \in Signal(a),
           NEW L, L = {u \in Threads : a[u] \in {"loop", "destroying"}}
    PROVE  \/ ~Asleep'
           \/ \E u \in Threads : a[u] = "waiting" /\ u \notin L /\ Lookers' = L \cup {u}
<1>1. CASE ~\E u \in Threads : a[u] = "waiting"
  <2>1. at' = a BY <1>1 DEF Signal
  <2> QED BY <1>1, <2>1 DEF Asleep
<1>2. CASE \E u \in Threads : a[u] = "waiting"
  <2>1. PICK u \in Threads : a[u] = "waiting" /\ at' = [a EXCEPT ![u] = "loop"]
    BY <1>2 DEF Signal
  <2>2. at'[u] = "loop" /\ \A v \in Threads \ {u} : at'[v] = a[v] BY <2>1
  <2>3. u \notin L BY <2>1
  <2>4. Lookers' = L \cup {u} BY <2>1, <2>2 DEF Lookers
  <2> QED BY <2>1, <2>3, <2>4
<1> QED BY <1>1, <1>2

\* A job is added and one thread is signalled
LEMMA AwakePush ==
    ASSUME PoolInv, JobsInv, Awake, UNCHANGED <<working, total, desired>>,
           NEW p \in Prios, Lengths' \in [Prios -> Nat],
           Lengths'[p] = Lengths[p] + 1, \A k \in Prios \ {p} : Lengths'[k] = Lengths[k],
           \/ ~Asleep'
           \/ Asleep /\ \E u \in Threads : u \notin Lookers /\ Lookers' = Lookers \cup {u}
    PROVE  Awake'
<1>1. CASE ~Asleep' BY <1>1, AwakeAll
<1>2. CASE Asleep /\ \E u \in Threads : u \notin Lookers /\ Lookers' = Lookers \cup {u}
  <2>1. Cardinality(Lookers') = Cardinality(Lookers) + 1
    BY <1>2, LookersFinite, FS_AddElement
  <2>2. PICK q \in [Prios -> Nat], r \in [Prios -> Nat], i \in Nat, n \in [Prios -> Nat] :
          q = Lengths /\ r = Missing /\ i = GetIdleThreads /\ n = Lengths'
    BY WakeNumbers
  <2>3. Takable(n, r, i) <= Takable(q, r, i) + 1 BY <2>2, TakablePush
  <2>4. Takable(n, r, i) \in Nat /\ Takable(q, r, i) \in Nat BY TakableNat
  <2>5. Cardinality(Lookers) >= Takable(q, r, i) /\ desired >= total
    BY <1>2, <2>2 DEF Awake, EnoughAwake
  <2>6. Cardinality(Lookers') >= Takable(n, r, i) BY <2>1, <2>3, <2>4, <2>5, LookersFinite
  <2>7. Missing' = r /\ GetIdleThreads' = i BY <2>2 DEF Missing, GetIdleThreads
  <2> QED BY <2>2, <2>5, <2>6, <2>7 DEF Awake, EnoughAwake
<1> QED BY <1>1, <1>2

\* The counters of one priority and the threads reserved for it
LEMMA MissingChanges ==
    ASSUME PoolInv, JobsInv, NEW p \in Prios
    PROVE  /\ working' = [working EXCEPT ![p] = @ + 1] =>
                /\ Missing' \in [Prios -> Nat]
                /\ Missing'[p] = Fewer(Missing[p])
                /\ \A k \in Prios \ {p} : Missing'[k] = Missing[k]
                /\ Sum(working') = Sum(working) + 1
           /\ working' = [working EXCEPT ![p] = @ - 1] /\ working[p] > 0 =>
                /\ Missing' \in [Prios -> Nat]
                /\ Missing'[p] \in {Missing[p], Missing[p] + 1}
                /\ \A k \in Prios \ {p} : Missing'[k] = Missing[k]
                /\ Sum(working') = Sum(working) - 1
<1>1. /\ working \in [Prios -> Int] /\ \A k \in Prios : working[k] \in Nat
      /\ \A k \in Prios : Reserved[k] \in Nat
  BY WakeNumbers, ConstantsAssumption DEF PoolInv, PoolTypes
<1>2. ASSUME working' = [working EXCEPT ![p] = @ + 1]
      PROVE  /\ Missing' \in [Prios -> Nat]
             /\ Missing'[p] = Fewer(Missing[p])
             /\ \A k \in Prios \ {p} : Missing'[k] = Missing[k]
             /\ Sum(working') = Sum(working) + 1
  <2>1. working'[p] = working[p] + 1 /\ \A k \in Prios \ {p} : working'[k] = working[k]
    BY <1>1, <1>2
  <2>2. \A k \in Prios : working'[k] \in Nat BY <1>1, <2>1
  <2>3. Missing' \in [Prios -> Nat] BY <1>1, <2>2 DEF Missing
  <2>4. \A k \in Prios \ {p} : Missing'[k] = Missing[k] BY <2>1 DEF Missing
  <2>5. Missing'[p] = Fewer(Missing[p]) BY <1>1, <2>1 DEF Missing, Fewer
  <2>6. Sum(working') = Sum(working) + 1 BY <1>1, <1>2 DEF Sum, Prios
  <2> QED BY <2>3, <2>4, <2>5, <2>6
<1>3. ASSUME working' = [working EXCEPT ![p] = @ - 1], working[p] > 0
      PROVE  /\ Missing' \in [Prios -> Nat]
             /\ Missing'[p] \in {Missing[p], Missing[p] + 1}
             /\ \A k \in Prios \ {p} : Missing'[k] = Missing[k]
             /\ Sum(working') = Sum(working) - 1
  <2>1. working'[p] = working[p] - 1 /\ \A k \in Prios \ {p} : working'[k] = working[k]
    BY <1>1, <1>3
  <2>2. \A k \in Prios : working'[k] \in Nat BY <1>1, <1>3, <2>1
  <2>3. Missing' \in [Prios -> Nat] BY <1>1, <2>2 DEF Missing
  <2>4. \A k \in Prios \ {p} : Missing'[k] = Missing[k] BY <2>1 DEF Missing
  <2>5. Missing'[p] \in {Missing[p], Missing[p] + 1} BY <1>1, <2>1 DEF Missing
  <2>6. Sum(working') = Sum(working) - 1 BY <1>1, <1>3 DEF Sum, Prios
  <2> QED BY <2>3, <2>4, <2>5, <2>6
<1> QED BY <1>2, <1>3

\* One queue changes
LEMMA LengthsStep ==
    ASSUME JobsInv, NEW p \in Prios, NEW s \in Seq(AllJobs), queue' = [queue EXCEPT ![p] = s]
    PROVE  /\ Lengths' \in [Prios -> Nat] /\ Lengths'[p] = Len(s)
           /\ \A k \in Prios \ {p} : Lengths'[k] = Lengths[k]
<1>1. queue \in [Prios -> Seq(AllJobs)] BY DEF JobsInv, QueueSound
<1>2. queue'[p] = s /\ \A k \in Prios \ {p} : queue'[k] = queue[k] BY <1>1
<1>3. \A k \in Prios : Len(queue'[k]) \in Nat BY <1>1, <1>2
<1>4. Lengths' = [k \in Prios |-> Len(queue'[k])] BY DEF Lengths
<1> QED BY <1>2, <1>3, <1>4 DEF Lengths

\* A thread gets a job and does not look for another one
LEMMA AwakeGetJob ==
    ASSUME PoolInv, JobsInv, Awake, NEW t \in Threads, GetJob(t)
    PROVE  Awake'
<1>1. PICK p \in Prios : /\ Available(p)
                         /\ queue' = [queue EXCEPT ![p] = Tail(@)]
                         /\ working' = [working EXCEPT ![p] = @ + 1]
  BY DEF GetJob
<1>2. PICK x \in {"scheduling", "executing"} : at' = [at EXCEPT ![t] = x]
  BY DEF GetJob
<1>3. at \in [Threads -> Places] /\ at[t] = "loop" /\ UNCHANGED <<desired, total>>
  BY DEF PoolInv, PoolTypes, GetJob
<1>4. at'[t] = x /\ \A u \in Threads \ {t} : at'[u] = at[u] BY <1>2, <1>3
<1>5. /\ t \in Lookers /\ Lookers' = Lookers \ {t} /\ (Asleep' => Asleep)
  BY <1>3, <1>4 DEF Lookers, Asleep
<1>6. Cardinality(Lookers') = Cardinality(Lookers) - 1
  BY <1>5, LookersFinite, FS_RemoveElement
<1> SUFFICES ASSUME Asleep PROVE Awake'
  BY <1>5, AwakeAll
<1>7. queue \in [Prios -> Seq(AllJobs)] /\ queue[p] # <<>>
  BY <1>1 DEF JobsInv, QueueSound, Available
<1>8. PICK s : s = queue[p] OBVIOUS
<1>9. s \in Seq(AllJobs) /\ s # <<>> BY <1>7, <1>8
<1>10. Tail(s) \in Seq(AllJobs) /\ Len(Tail(s)) = Len(s) - 1 /\ Len(Tail(s)) \in Nat
  BY <1>9
<1>11. queue' = [queue EXCEPT ![p] = Tail(s)] /\ Lengths[p] = Len(s)
  BY <1>1, <1>7, <1>8 DEF Lengths
<1>12. /\ Lengths' \in [Prios -> Nat] /\ Lengths'[p] = Lengths[p] - 1
       /\ \A k \in Prios \ {p} : Lengths'[k] = Lengths[k]
  BY <1>10, <1>11, LengthsStep
<1>13. PICK q \in [Prios -> Nat], r \in [Prios -> Nat], i \in Nat :
         q = Lengths /\ r = Missing /\ i = GetIdleThreads
  BY WakeNumbers
<1>14. PICK n \in [Prios -> Nat], m \in [Prios -> Nat] : n = Lengths' /\ m = Missing'
  BY <1>1, <1>12, MissingChanges
<1>15. m[p] = Fewer(r[p]) /\ \A k \in Prios \ {p} : m[k] = r[k]
  BY <1>1, <1>13, <1>14, MissingChanges
<1>16. First(q, p) /\ ~Held(q, r, i, p) /\ i > 0
  BY <1>1, <1>13, WakeNumbers
<1>a. PICK j \in Nat : j = i - 1 BY <1>16
<1>17. Takable(n, m, j) + 1 <= Takable(q, r, i)
  BY <1>a, <1>12, <1>13, <1>14, <1>15, <1>16, TakableTake
<1>18. GetIdleThreads' = j
  <2>1. Sum(working') = Sum(working) + 1 BY <1>1, MissingChanges
  <2>2. Sum(working) \in Int /\ total \in Int
    BY DEF PoolInv, PoolTypes, Sum, Prios
  <2> QED BY <1>3, <1>13, <1>a, <2>1, <2>2 DEF GetIdleThreads
<1>19. Takable(n, m, j) \in Nat /\ Takable(q, r, i) \in Nat
  BY TakableNat
<1>20. Cardinality(Lookers) >= Takable(q, r, i) /\ desired >= total
  BY <1>13 DEF Awake, EnoughAwake
<1>21. Cardinality(Lookers') >= Takable(n, m, j)
  BY <1>6, <1>17, <1>19, <1>20, LookersFinite
<1> QED BY <1>3, <1>14, <1>18, <1>20, <1>21 DEF Awake, EnoughAwake

\* A thread goes to sleep when there is no job it could get
LEMMA AwakeWait ==
    ASSUME PoolInv, JobsInv, NEW t \in Threads, WaitForJob(t)
    PROVE  Awake'
<1>1. /\ UNCHANGED <<queue, working, total, desired>> /\ desired >= total
      /\ ~\E p \in Prios : Available(p)
      /\ at[t] = "loop" /\ at' = [at EXCEPT ![t] = "waiting"] /\ at \in [Threads -> Places]
  BY DEF WaitForJob, poolVars, PoolInv, PoolTypes
<1>2. GetIdleThreads > 0
  <2>1. IdleThreads # {} BY <1>1 DEF IdleThreads, IdlePlaces
  <2>2. Cardinality(IdleThreads) # 0 BY <2>1, ThreadsFinite, FS_EmptySet
  <2> QED BY <2>2, ThreadsFinite DEF PoolInv, CountersAgree
<1>3. PICK q \in [Prios -> Nat], r \in [Prios -> Nat], i \in Nat :
        q = Lengths /\ r = Missing /\ i = GetIdleThreads
  BY WakeNumbers
<1>4. ~\E p \in Prios : First(q, p) /\ ~Held(q, r, i, p)
  BY <1>1, <1>3, WakeNumbers
<1>5. Takable(q, r, i) = 0
  <2>1. ~(Takable(q, r, i) > 0) BY <1>2, <1>3, <1>4, TakableExact
  <2>2. Takable(q, r, i) \in Nat BY TakableNat
  <2> QED BY <2>1, <2>2
<1>6. Takable(Lengths, Missing, GetIdleThreads)' = 0
  BY <1>1, <1>3, <1>5 DEF Lengths, Missing, GetIdleThreads, Takable
<1>7. Lookers' = Lookers \ {t}
  BY <1>1 DEF Lookers
<1>8. Cardinality(Lookers') \in Nat
  BY <1>7, LookersFinite, FS_RemoveElement, FS_CardinalityType, FS_Subset
<1> QED BY <1>1, <1>6, <1>8 DEF Awake, EnoughAwake

\* A job returned: its thread looks for another one, and another sleeping one
\* if the job was queued again
LEMMA AwakeReturn ==
    ASSUME PoolInv, JobsInv, Awake, NEW t \in Threads, NEW p \in Prios, NEW d \in {0, 1},
           working' = [working EXCEPT ![p] = @ - 1], working[p] > 0,
           UNCHANGED <<total, desired>>,
           Lengths' \in [Prios -> Nat],
           Lengths'[p] = Lengths[p] + d, \A k \in Prios \ {p} : Lengths'[k] = Lengths[k],
           Asleep' => /\ Asleep
                      /\ IsFiniteSet(Lookers') /\ Cardinality(Lookers') = Cardinality(Lookers) + 1 + d
    PROVE  Awake'
<1> SUFFICES ASSUME Asleep' PROVE Awake'
  BY AwakeAll
<1>1. PICK q \in [Prios -> Nat], r \in [Prios -> Nat], i \in Nat :
        q = Lengths /\ r = Missing /\ i = GetIdleThreads
  BY WakeNumbers
<1>2. PICK n \in [Prios -> Nat], m \in [Prios -> Nat] : n = Lengths' /\ m = Missing'
  BY MissingChanges
<1>3. m[p] \in {r[p], r[p] + 1} /\ \A k \in Prios \ {p} : m[k] = r[k]
  BY <1>1, <1>2, MissingChanges
<1>a. PICK j \in Nat : j = i + 1 OBVIOUS
<1>4. GetIdleThreads' = j
  <2>1. Sum(working') = Sum(working) - 1 BY MissingChanges
  <2>2. Sum(working) \in Int /\ total \in Int
    BY DEF PoolInv, PoolTypes, Sum, Prios
  <2> QED BY <1>1, <1>a, <2>1, <2>2 DEF GetIdleThreads
<1>5. Takable(q, m, j) <= Takable(q, r, i) + 1
  BY <1>3, <1>a, TakableGiveUp
<1>6. Takable(n, m, j) <= Takable(q, m, j) + d
  <2>1. CASE d = 1 BY <1>1, <1>2, <2>1, TakablePush
  <2>2. CASE d = 0
    <3>1. \A k \in Prios : n[k] = q[k] BY <1>1, <1>2, <2>2
    <3>2. n = q BY <3>1
    <3>3. Takable(q, m, j) \in Nat BY TakableNat
    <3> QED BY <2>2, <3>2, <3>3
  <2> QED BY <2>1, <2>2
<1>7. /\ Takable(n, m, j) \in Nat /\ Takable(q, m, j) \in Nat /\ Takable(q, r, i) \in Nat
  BY TakableNat
<1>8. Cardinality(Lookers) >= Takable(q, r, i) /\ desired >= total
  BY <1>1 DEF Awake, EnoughAwake
<1>9. Cardinality(Lookers') >= Takable(n, m, j)
  BY <1>5, <1>6, <1>7, <1>8, LookersFinite
<1> QED BY <1>2, <1>4, <1>8, <1>9 DEF Awake, EnoughAwake

\* A thread with a job of priority p is counted
LEMMA CountedWorker ==
    ASSUME PoolInv, NEW t \in Threads, at[t] \in WorkingPlaces
    PROVE  working[worker[t].priority] > 0 /\ worker[t].priority \in Prios
<1>1. PICK p \in Prios : p = worker[t].priority BY DEF PoolInv, PoolTypes
<1>2. WorkingThreads(p) # {} BY <1>1 DEF WorkingThreads
<1>3. Cardinality(WorkingThreads(p)) # 0 BY <1>2, ThreadsFinite, FS_EmptySet
<1> QED BY <1>1, <1>3, ThreadsFinite DEF PoolInv, CountersAgree

\* FinishJob, RequeueJob and RescheduleJob
LEMMA AwakeExecuted ==
    ASSUME PoolInv, JobsInv, Awake, NEW t \in Threads,
           FinishJob(t) \/ RequeueJob(t) \/ RescheduleJob(t)
    PROVE  Awake'
<1>1. PICK p \in Prios : p = worker[t].priority /\ working[p] > 0
  BY CountedWorker DEF FinishJob, RequeueJob, RescheduleJob, Executed, WorkingPlaces
<1>2. /\ working' = [working EXCEPT ![p] = @ - 1] /\ UNCHANGED <<total, desired>>
      /\ at[t] = "executing" /\ at \in [Threads -> Places]
  BY <1>1 DEF FinishJob, RequeueJob, RescheduleJob, Executed, PoolInv, PoolTypes
<1>3. t \notin Lookers BY <1>2 DEF Lookers
<1>4. PICK L : L = Lookers \cup {t} OBVIOUS
<1>5. IsFiniteSet(L) /\ Cardinality(L) = Cardinality(Lookers) + 1
  BY <1>3, <1>4, LookersFinite, FS_AddElement
<1>6. CASE FinishJob(t) \/ RescheduleJob(t)
  <2>1. UNCHANGED queue BY <1>6 DEF FinishJob, RescheduleJob
  <2>2. /\ at'[t] \in {"loop", "destroying"}
        /\ \A u \in Threads \ {t} : /\ at'[u] \in {"loop", "destroying"}
                                         <=> at[u] \in {"loop", "destroying"}
                                    /\ at'[u] = "waiting" <=> at[u] = "waiting"
    <3>1. PICK x \in {"loop", "destroying"} :
            at' = [at EXCEPT ![t] = x] \/ at' = WakeScheduler([at EXCEPT ![t] = x])
      BY <1>6 DEF FinishJob, RescheduleJob, ScheduleAt
    <3>2. PICK b : b = [at EXCEPT ![t] = x] OBVIOUS
    <3>3. b[t] = x /\ \A u \in Threads \ {t} : b[u] = at[u] BY <1>2, <3>2
    <3>4. at' = b \/ at' = [u \in Threads |-> IF b[u] = "timed" THEN "scheduling" ELSE b[u]]
      BY <3>1, <3>2 DEF WakeScheduler
    <3> QED BY <3>3, <3>4
  <2>3. Lookers' = L /\ (Asleep' => Asleep) BY <1>2, <1>4, <2>2 DEF Lookers, Asleep
  <2>4. Lengths \in [Prios -> Nat] /\ Lengths' = Lengths BY <2>1, WakeNumbers DEF Lengths
  <2>5. Lengths' \in [Prios -> Nat] /\ Lengths'[p] = Lengths[p] + 0 BY <2>4
  <2>6. Asleep' => /\ Asleep /\ IsFiniteSet(Lookers')
                   /\ Cardinality(Lookers') = Cardinality(Lookers) + 1 + 0
    BY <1>5, <2>3, LookersFinite
  <2> QED BY <1>1, <1>2, <2>4, <2>5, <2>6, AwakeReturn
<1>7. CASE RequeueJob(t)
  <2>1. PICK j \in AllJobs : j = worker[t].job
    BY <1>2 DEF JobsInv, ThreadsSound, WorkingPlaces
  <2>2. PICK s \in Seq(AllJobs) : s = queue[p] BY DEF JobsInv, QueueSound
  <2>3. Append(s, j) \in Seq(AllJobs) /\ Len(Append(s, j)) = Len(s) + 1 OBVIOUS
  <2>4. queue' = [queue EXCEPT ![p] = Append(s, j)]
    BY <1>1, <1>7, <2>1, <2>2 DEF RequeueJob, Push
  <2>5. /\ Lengths' \in [Prios -> Nat] /\ Lengths'[p] = Lengths[p] + 1
        /\ \A k \in Prios \ {p} : Lengths'[k] = Lengths[k]
    <3>1. Lengths[p] = Len(s) BY <2>2 DEF Lengths
    <3> QED BY <2>3, <2>4, <3>1, LengthsStep
  <2>6. PICK b : b = [at EXCEPT ![t] = "loop"] OBVIOUS
  <2>7. at' \in Signal(b) BY <1>7, <2>6 DEF RequeueJob
  <2>8. "loop" \in Places BY DEF Places, IdlePlaces
  <2>9. /\ b \in [Threads -> Places] /\ b[t] = "loop"
        /\ \A u \in Threads \ {t} : b[u] = at[u]
    BY <1>2, <2>6, <2>8
  <2>10. L = {u \in Threads : b[u] \in {"loop", "destroying"}}
    BY <1>2, <1>4, <2>9 DEF Lookers
  <2>11. \/ ~Asleep'
         \/ \E u \in Threads : b[u] = "waiting" /\ u \notin L /\ Lookers' = L \cup {u}
    BY <2>7, <2>9, <2>10, SignalWakes
  <2>12. ASSUME Asleep'
         PROVE  /\ Asleep /\ IsFiniteSet(Lookers')
                /\ Cardinality(Lookers') = Cardinality(Lookers) + 1 + 1
    <3>1. PICK u \in Threads : b[u] = "waiting" /\ u \notin L /\ Lookers' = L \cup {u}
      BY <2>11, <2>12
    <3>2. Asleep BY <2>9, <3>1 DEF Asleep
    <3>3. IsFiniteSet(L \cup {u}) /\ Cardinality(L \cup {u}) = Cardinality(L) + 1
      BY <1>5, <3>1, FS_AddElement
    <3> QED BY <1>5, <3>1, <3>2, <3>3
  <2> QED BY <1>1, <1>2, <2>5, <2>12, AwakeReturn
<1> QED BY <1>6, <1>7

\* Places a are those of the threads, as far as looking for jobs goes
LooksLike(a) ==
    \A u \in Threads : /\ a[u] \in {"loop", "destroying"} <=> at[u] \in {"loop", "destroying"}
                       /\ a[u] = "waiting" <=> at[u] = "waiting"

\* HandOver, QueueJob and ExecuteJob
LEMMA AwakeAdd ==
    ASSUME PoolInv, JobsInv, Awake, UNCHANGED <<working, total, desired>>,
           NEW j \in AllJobs, NEW a \in [Threads -> Places], at' \in Signal(a),
           LooksLike(a),
           \/ Push(j, Prio[j])
           \/ queue' = [queue EXCEPT ![Prio[j]] = <<j>> \o @]
           \/ queue' = queue
    PROVE  Awake'
<1>1. PICK p \in Prios : p = Prio[j] BY Priorities
<1>2. PICK s \in Seq(AllJobs) : s = queue[p] BY DEF JobsInv, QueueSound
<1>3. PICK L : L = {u \in Threads : a[u] \in {"loop", "destroying"}} OBVIOUS
<1>4. L = Lookers BY <1>3 DEF Lookers, LooksLike
<1>5. \/ ~Asleep'
      \/ Asleep /\ \E u \in Threads : u \notin Lookers /\ Lookers' = Lookers \cup {u}
  <2>1. \/ ~Asleep'
        \/ \E u \in Threads : a[u] = "waiting" /\ u \notin L /\ Lookers' = L \cup {u}
    BY <1>3, SignalWakes
  <2> QED BY <1>4, <2>1 DEF Asleep, LooksLike
<1>6. CASE queue' = queue
  <2>1. ASSUME Asleep' PROVE Lookers \subseteq Lookers' /\ Asleep BY <1>5, <2>1
  <2>2. Lookers' \in SUBSET Threads BY DEF Lookers
  <2> QED BY <1>6, <2>1, <2>2, AwakeSame, AwakeAll
<1>7. CASE queue' # queue
  <2>1. PICK n \in {Append(s, j), <<j>> \o s} : queue' = [queue EXCEPT ![p] = n]
    BY <1>1, <1>2, <1>7 DEF Push
  <2>2. n \in Seq(AllJobs) /\ Len(n) = Len(s) + 1
    <3>1. /\ Append(s, j) \in Seq(AllJobs) /\ Len(Append(s, j)) = Len(s) + 1
          /\ <<j>> \o s \in Seq(AllJobs) /\ Len(<<j>> \o s) = Len(s) + 1
      OBVIOUS
    <3> QED BY <3>1
  <2>3. /\ Lengths' \in [Prios -> Nat] /\ Lengths'[p] = Lengths[p] + 1
        /\ \A k \in Prios \ {p} : Lengths'[k] = Lengths[k]
    <3>1. Lengths[p] = Len(s) BY <1>2 DEF Lengths
    <3> QED BY <2>1, <2>2, <3>1, LengthsStep
  <2> QED BY <1>5, <2>3, AwakePush
<1> QED BY <1>6, <1>7

LEMMA AwakeAdds ==
    ASSUME PoolInv, JobsInv, Awake,
           \/ \E t \in Threads : HandOver(t)
           \/ \E job \in Jobs : QueueJob(job) \/ ExecuteJob(job)
    PROVE  Awake'
<1>0. at \in [Threads -> Places] BY DEF PoolInv, PoolTypes
<1>1. ASSUME NEW t \in Threads, HandOver(t) PROVE Awake'
  <2>1. PICK b : b = [at EXCEPT ![t] = "scheduling"] OBVIOUS
  <2>2. at[t] = "handover" /\ at' \in Signal(b) /\ Push(fired, Prio[fired])
        /\ UNCHANGED <<working, total, desired>>
    BY <1>1, <2>1 DEF HandOver
  <2>3. "scheduling" \in Places BY DEF Places, WorkingPlaces
  <2>4. /\ b \in [Threads -> Places] /\ b[t] = "scheduling"
        /\ \A u \in Threads \ {t} : b[u] = at[u]
    BY <1>0, <2>1, <2>3
  <2>5. LooksLike(b) BY <2>2, <2>4 DEF LooksLike
  <2>6. fired \in AllJobs BY <2>2 DEF JobsInv, ThreadsSound
  <2> QED BY <2>2, <2>4, <2>5, <2>6, AwakeAdd
<1>2. ASSUME NEW job \in Jobs, QueueJob(job) \/ ExecuteJob(job) PROVE Awake'
  <2>1. /\ at' \in Signal(at) /\ UNCHANGED <<working, total, desired>>
        /\ \/ Push(job, Prio[job])
           \/ queue' = [queue EXCEPT ![Prio[job]] = <<job>> \o @]
           \/ queue' = queue
    BY <1>2 DEF QueueJob, ExecuteJob
  <2>2. job \in AllJobs BY DEF AllJobs
  <2>3. LooksLike(at) BY DEF LooksLike
  <2> QED BY <1>0, <2>1, <2>2, <2>3, AwakeAdd
<1> QED BY <1>1, <1>2

\* Steps that neither change what get_job() goes by nor make a thread sleep
LEMMA AwakeStays ==
    ASSUME PoolInv, JobsInv, Awake,
           \/ \E t \in Threads : DestroyJob(t) \/ Fire(t) \/ WaitForEvent(t) \/ TimedOut(t)
           \/ \E job \in Jobs : ScheduleJob(job)
           \/ Flush \/ Tick \/ UNCHANGED vars
    PROVE  Awake'
<1> USE DEF poolVars, threadVars, vars
<1>0. at \in [Threads -> Places] BY DEF PoolInv, PoolTypes
<1>1. UNCHANGED <<queue, working, total, desired>>
  BY DEF DestroyJob, Fire, WaitForEvent, TimedOut, ScheduleJob, Flush, Tick
<1>2. \A u \in Threads : /\ at[u] \in {"loop", "destroying"} => at'[u] \in {"loop", "destroying"}
                         /\ at'[u] = "waiting" => at[u] = "waiting"
  <2>1. ASSUME NEW t \in Threads, DestroyJob(t) \/ Fire(t) \/ WaitForEvent(t) \/ TimedOut(t)
        PROVE  \A u \in Threads : /\ at[u] \in {"loop", "destroying"} => at'[u] \in {"loop", "destroying"}
                                  /\ at'[u] = "waiting" => at[u] = "waiting"
    BY <1>0, <2>1 DEF DestroyJob, Fire, WaitForEvent, TimedOut
  <2>2. ASSUME NEW job \in Jobs, ScheduleJob(job)
        PROVE  \A u \in Threads : /\ at[u] \in {"loop", "destroying"} => at'[u] \in {"loop", "destroying"}
                                  /\ at'[u] = "waiting" => at[u] = "waiting"
    BY <1>0, <2>2 DEF ScheduleJob, ScheduleAt, WakeScheduler
  <2>3. ASSUME Flush \/ Tick \/ UNCHANGED vars PROVE UNCHANGED at
    BY <2>3 DEF Flush, Tick
  <2> QED BY <2>1, <2>2, <2>3
<1>3. Lookers' \in SUBSET Threads /\ Lookers \subseteq Lookers' /\ (Asleep' => Asleep)
  BY <1>2 DEF Lookers, Asleep
<1> QED BY <1>1, <1>3, AwakeSame

\* Nobody sleeps before the start, nor once threads are to end
LEMMA AwakeEnds ==
    ASSUME PoolInv, JobsInv, WakeInv,
           \/ \E t \in Threads : EndThread(t) \/ Restart(t) \/ EndRestart(t)
           \/ Start \/ Stop \/ Cancel \/ Terminated
    PROVE  ~Asleep'
<1>0. /\ at \in [Threads -> Places] /\ (Asleep => desired >= total)
      /\ desired \in Nat /\ total \in Int
  BY DEF PoolInv, PoolTypes, WakeInv
<1>1. ASSUME NEW t \in Threads, EndThread(t) \/ EndRestart(t) PROVE ~Asleep'
  <2>1. ~Asleep /\ at' = [at EXCEPT ![t] = "ended"] BY <1>0, <1>1 DEF EndThread, EndRestart
  <2> QED BY <1>0, <2>1 DEF Asleep
<1>2. ASSUME NEW t \in Threads, Restart(t) PROVE ~Asleep'
  <2>1. /\ at[t] = "timed" /\ status[worker[t].job] = "canceled"
        /\ at' = [at EXCEPT ![t] = "restarting"]
    BY <1>2 DEF Restart
  <2>2. worker[t].job \in AllJobs BY <2>1 DEF JobsInv, ThreadsSound, WorkingPlaces
  <2>3. desired = 0 BY <2>1, <2>2 DEF WakeInv, CanceledLate
  <2>4. PICK p \in Prios : p = worker[t].priority /\ working[p] > 0
    BY <2>1, CountedWorker DEF WorkingPlaces
  <2>5. Sum(working) > 0 /\ Sum(working) \in Nat
    <3>1. working[0] \in Nat /\ working[1] \in Nat /\ working[2] \in Nat /\ working[3] \in Nat
      BY WakeNumbers DEF Prios
    <3>2. p = 0 \/ p = 1 \/ p = 2 \/ p = 3 BY DEF Prios
    <3> QED BY <2>4, <3>1, <3>2 DEF Sum
  <2>6. GetIdleThreads \in Nat BY WakeNumbers
  <2>7. total > 0 BY <1>0, <2>5, <2>6 DEF GetIdleThreads
  <2>8. ~Asleep BY <1>0, <2>3, <2>7
  <2> QED BY <1>0, <2>1, <2>8 DEF Asleep
<1>3. ASSUME Start \/ Stop PROVE ~Asleep'
  BY <1>3 DEF Start, Stop, Broadcast, Asleep
<1>4. ASSUME Cancel \/ Terminated PROVE ~Asleep'
  <2>1. WaitOrEnd BY <1>4 DEF Cancel, Terminated
  <2>2. CASE total > 0 BY <2>1, <2>2 DEF WaitOrEnd, Broadcast, Asleep
  <2>3. CASE ~(total > 0)
    <3>1. ~Asleep BY <2>3, WakeNumbers
    <3> QED BY <2>1, <2>3, <3>1 DEF WaitOrEnd, Asleep
  <2> QED BY <2>2, <2>3
<1> QED BY <1>1, <1>2, <1>3, <1>4

\* cancel() waits for somebody, and is the only one to cancel jobs
LEMMA EndingNext ==
    ASSUME PoolInv, JobsInv, WakeInv, [Next]_vars
    PROVE  (stage = "canceling" => total > 0)' /\ CanceledLate'
<1> USE DEF poolVars, threadVars, jobVars, eventVars, vars
<1>0. /\ stage = "canceling" => total > 0
      /\ CanceledLate /\ desired \in Nat
      /\ status \in [AllJobs -> {"new", "queued", "executing", "canceled", "done"}]
  BY DEF WakeInv, JobsInv, StatusSound, PoolInv, PoolTypes
<1>1. ASSUME NEW t \in Threads, Work(t)
      PROVE  /\ (stage = "canceling" => total > 0)'
             /\ desired' = desired /\ stage' \in {stage, "terminated"}
             /\ status' = status
                \/ \E j, x : x # "canceled" /\ status' = [status EXCEPT ![j] = x]
  <2>1. CASE EndThread(t) \/ EndRestart(t)
    <3>1. stage' # "canceling" /\ stage' \in {stage, "terminated"}
      BY <2>1 DEF EndThread, EndRestart, SignalTerminated
    <3> QED BY <2>1, <3>1 DEF EndThread, EndRestart
  <2>2. CASE ~(EndThread(t) \/ EndRestart(t))
    <3>1. UNCHANGED <<stage, total, desired>>
      BY <1>1, <2>2 DEF Work, GetJob, WaitForJob, FinishJob, DestroyJob, RequeueJob,
           RescheduleJob, Executed, Fire, HandOver, WaitForEvent, TimedOut, Restart
    <3>2. \/ status' = status
          \/ \E j, x : x # "canceled" /\ status' = [status EXCEPT ![j] = x]
      <4>1. CASE GetJob(t) BY <4>1 DEF GetJob
      <4>2. CASE FinishJob(t) BY <4>2 DEF FinishJob
      <4>3. CASE RequeueJob(t) BY <4>3 DEF RequeueJob
      <4>4. CASE RescheduleJob(t) BY <4>4 DEF RescheduleJob, ScheduleAt
      <4>5. CASE HandOver(t) BY <4>5 DEF HandOver
      <4>6. CASE Restart(t) BY <4>6 DEF Restart
      <4>7. CASE WaitForJob(t) \/ DestroyJob(t) \/ Fire(t) \/ WaitForEvent(t) \/ TimedOut(t)
        BY <4>7 DEF WaitForJob, DestroyJob, Fire, WaitForEvent, TimedOut
      <4> QED BY <1>1, <2>2, <4>1, <4>2, <4>3, <4>4, <4>5, <4>6, <4>7 DEF Work
    <3> QED BY <1>0, <3>1, <3>2
  <2> QED BY <2>1, <2>2
<1>2. ASSUME NEW job \in Jobs, Submit(job)
      PROVE  /\ UNCHANGED <<stage, total, desired>>
             /\ status' = status
                \/ \E j, x : x # "canceled" /\ status' = [status EXCEPT ![j] = x]
  <2>1. CASE QueueJob(job) BY <2>1 DEF QueueJob
  <2>2. CASE ExecuteJob(job) BY <2>2 DEF ExecuteJob
  <2>3. CASE ScheduleJob(job) BY <2>3 DEF ScheduleJob, ScheduleAt
  <2> QED BY <1>2, <2>1, <2>2, <2>3 DEF Submit
<1>3. ASSUME NEW j, NEW x, x # "canceled", status' = [status EXCEPT ![j] = x],
             desired' = desired, stage' \in {stage, "terminated"}
      PROVE  CanceledLate'
  <2>1. \A k \in AllJobs : status'[k] = "canceled" => status[k] = "canceled" BY <1>0, <1>3
  <2> QED BY <1>0, <1>3, <2>1 DEF CanceledLate
<1>4. ASSUME UNCHANGED <<status, desired>>, stage' \in {stage, "terminated"} PROVE CanceledLate'
  BY <1>0, <1>4 DEF CanceledLate
<1>5. ASSUME Start PROVE (stage = "canceling" => total > 0)' /\ CanceledLate'
  <2>1. stage = "init" /\ stage' = "started" /\ UNCHANGED status BY <1>5 DEF Start
  <2> QED BY <1>0, <2>1 DEF CanceledLate
<1>6. ASSUME Stop PROVE (stage = "canceling" => total > 0)' /\ CanceledLate'
  <2>1. stage' = "stopping" /\ desired' \in {0, desired} /\ UNCHANGED status BY <1>6 DEF Stop
  <2> QED BY <1>0, <2>1 DEF CanceledLate
<1>7. ASSUME Cancel PROVE (stage = "canceling" => total > 0)' /\ CanceledLate'
  <2>1. desired' = 0 /\ UNCHANGED total /\ WaitOrEnd BY <1>7 DEF Cancel
  <2>2. stage' # "init" /\ (stage' = "canceling" => total > 0) BY <2>1 DEF WaitOrEnd
  <2> QED BY <2>1, <2>2 DEF CanceledLate
<1>8. ASSUME Terminated PROVE (stage = "canceling" => total > 0)' /\ CanceledLate'
  <2>1. UNCHANGED <<desired, total>> /\ WaitOrEnd BY <1>8 DEF Terminated
  <2>2. stage' # "init" /\ (stage' = "canceling" => total > 0) BY <2>1 DEF WaitOrEnd
  <2>3. \A k \in AllJobs : status'[k] = "canceled" => status[k] = "canceled"
    BY <1>0, <1>8 DEF Terminated
  <2> QED BY <1>0, <2>1, <2>2, <2>3 DEF CanceledLate
<1>9. ASSUME Flush PROVE (stage = "canceling" => total > 0)' /\ CanceledLate'
  <2>1. UNCHANGED <<desired, total>> /\ stage' = "flushed" BY <1>9 DEF Flush
  <2>2. \A k \in AllJobs : status'[k] = "canceled" => status[k] = "canceled"
    BY <1>0, <1>9 DEF Flush
  <2> QED BY <1>0, <2>1, <2>2 DEF CanceledLate
<1>10. ASSUME Tick \/ UNCHANGED vars PROVE (stage = "canceling" => total > 0)' /\ CanceledLate'
  <2>1. UNCHANGED <<desired, total, stage, status>> BY <1>10 DEF Tick
  <2> QED BY <1>0, <2>1 DEF CanceledLate
<1>11. ASSUME NEW t \in Threads, Work(t)
       PROVE  (stage = "canceling" => total > 0)' /\ CanceledLate'
  BY <1>1, <1>3, <1>4, <1>11
<1>12. ASSUME NEW job \in Jobs, Submit(job)
       PROVE  (stage = "canceling" => total > 0)' /\ CanceledLate'
  BY <1>0, <1>2, <1>3, <1>4, <1>12
<1> QED BY <1>5, <1>6, <1>7, <1>8, <1>9, <1>10, <1>11, <1>12 DEF Next

LEMMA WakeNext == PoolInv /\ JobsInv /\ WakeInv /\ [Next]_vars => WakeInv'
<1> SUFFICES ASSUME PoolInv, JobsInv, WakeInv, [Next]_vars PROVE WakeInv'
  OBVIOUS
<1>1. Awake BY DEF Awake, WakeInv
<1>2. Awake'
  <2>1. ASSUME NEW t \in Threads, Work(t) PROVE Awake'
    BY <1>1, <2>1, AwakeGetJob, AwakeWait, AwakeExecuted, AwakeAdds, AwakeStays, AwakeEnds,
       AwakeAll DEF Work
  <2>2. ASSUME NEW job \in Jobs, Submit(job) PROVE Awake'
    BY <1>1, <2>2, AwakeAdds, AwakeStays DEF Submit
  <2>3. ASSUME Start \/ Stop \/ Cancel \/ Terminated PROVE Awake'
    BY <2>3, AwakeEnds, AwakeAll
  <2>4. ASSUME Flush \/ Tick \/ UNCHANGED vars PROVE Awake'
    BY <1>1, <2>4, AwakeStays
  <2> QED BY <2>1, <2>2, <2>3, <2>4 DEF Next
<1>3. (stage = "canceling" => total > 0)' /\ CanceledLate' BY EndingNext
<1> QED BY <1>2, <1>3 DEF WakeInv, Awake

LEMMA WakeInit == Init => WakeInv
<1> SUFFICES ASSUME Init PROVE WakeInv
  OBVIOUS
<1>1. ~Asleep /\ stage = "init" BY DEF Init, ProcessorCreate, SchedulerCreate, Asleep
<1>2. \A j \in AllJobs : status[j] # "canceled" BY DEF Init, ProcessorCreate, SchedulerCreate, AllJobs
<1> QED BY <1>1, <1>2 DEF WakeInv, EnoughAwake, CanceledLate

LEMMA WakeSafe == PoolInv /\ JobsInv /\ WakeInv => NoLostWakeup
<1> SUFFICES ASSUME PoolInv, JobsInv, WakeInv PROVE NoLostWakeup
  OBVIOUS
<1>1. ASSUME Asleep, NEW p \in Prios, Available(p)
      PROVE  \E t \in Threads : at[t] \in {"loop", "destroying"}
  <2>1. PICK q \in [Prios -> Nat], r \in [Prios -> Nat], i \in Nat :
          q = Lengths /\ r = Missing /\ i = GetIdleThreads
    BY WakeNumbers
  <2>2. First(q, p) /\ ~Held(q, r, i, p) /\ i > 0 BY <1>1, <2>1, WakeNumbers
  <2>3. Takable(q, r, i) > 0 BY <2>2, TakableExact
  <2>4. Takable(q, r, i) \in Nat BY TakableNat
  <2>5. Cardinality(Lookers) >= Takable(q, r, i) BY <1>1, <2>1 DEF WakeInv, EnoughAwake
  <2>6. Cardinality(Lookers) > 0 BY <2>3, <2>4, <2>5, LookersFinite
  <2>7. Lookers # {} BY <2>6, FS_EmptySet
  <2> QED BY <2>7 DEF Lookers
<1> QED BY <1>1 DEF NoLostWakeup, Asleep, WakeInv

\* One signal per job is enough, whatever threads are reserved: no thread sleeps
\* while there is a job for it that nobody else is going to look for, none sleeps
\* through the shutdown, and cancel() is woken as long as it waits
\* (processor.c:140-168, :184-194, :293, :398, :467, :496-500).
THEOREM JobSignalsSuffice == Spec => []NoLostWakeup
<1>1. Spec => []PoolInv BY PoolInit, PoolNext, PTL DEF Spec
<1>2. Spec => []JobsInv BY JobsAlways, PTL
<1>3. Spec => []WakeInv BY <1>1, <1>2, WakeInit, WakeNext, PTL DEF Spec
<1> QED BY <1>1, <1>2, <1>3, WakeSafe, PTL
=============================================================================
