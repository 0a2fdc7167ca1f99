-------------------------- MODULE IpsecSaMgrProofs --------------------------
(***************************************************************************)
(* Proofs about IpsecSaMgr, for any number of threads, entries and SAs.    *)
(***************************************************************************)
EXTENDS IpsecSaMgr, FiniteSetTheorems, WellFoundedInduction, TLAPS

-----------------------------------------------------------------------------
(* Every set of natural numbers that is not empty has a least element: this *)
(* takes the place of induction below.                                      *)

\* The intervals 0..n of the numbers n of a set are finite sets, for which
\* inclusion is well-founded: the least one belongs to the least number.
LEMMA LeastNat ==
    ASSUME NEW S \in SUBSET Nat, S # {}
    PROVE  \E m \in S : \A n \in S : m <= n
<1> DEFINE T == {0..n : n \in S}
           R == StrictSubsetOrdering(Nat)
<1>1. T \subseteq FiniteSubsetsOf(Nat)
  <2>1. \A n \in S : IsFiniteSet(0..n) /\ 0..n \subseteq Nat
    BY FS_Interval
  <2> QED
    BY <2>1 DEF FiniteSubsetsOf
<1>2. IsWellFoundedOn(R, FiniteSubsetsOf(Nat))
  BY FS_StrictSubsetOrderingWellFounded
<1>3. T # {}
  OBVIOUS
<1> HIDE DEF T, R
<1>4. PICK x \in T : \A y \in T : ~ (<<y, x>> \in R)
  BY <1>1, <1>2, <1>3, WFMin
<1> USE DEF T
<1>5. PICK m \in S : x = 0..m
  BY <1>4
<1>6. ASSUME NEW n \in S, n < m
      PROVE  FALSE
  <2>1. 0..n \in T
    OBVIOUS
  <2>2. 0..n \subseteq 0..m /\ 0..n # 0..m
    BY <1>6
  <2>3. <<0..n, x>> \in R
    BY <2>2, <1>5, <2>1, <1>4, <1>1 DEF R, StrictSubsetOrdering
  <2> QED
    BY <2>1, <2>3, <1>4
<1> QED
  BY <1>6

\* A bounded set of natural numbers has a greatest element as well.
LEMMA GreatestNat ==
    ASSUME NEW n \in Nat, NEW S \in SUBSET (0..n), S # {}
    PROVE  \E m \in S : \A k \in S : k <= m
<1>1. S \subseteq Nat /\ \A k \in S : k <= n
  OBVIOUS
<1> DEFINE T == {n - k : k \in S}
<1>2. T \in SUBSET Nat
  BY <1>1
<1>3. T # {}
  OBVIOUS
<1>4. PICK d \in T : \A k \in T : d <= k
  BY <1>2, <1>3, LeastNat
<1>5. PICK m \in S : d = n - m
  BY <1>4
<1>6. ASSUME NEW k \in S
      PROVE  k <= m
  <2>1. d <= n - k
    BY <1>4
  <2>2. k \in Nat /\ m \in Nat
    BY <1>1
  <2> QED
    BY <2>1, <2>2, <1>5
<1> QED
  BY <1>6

-----------------------------------------------------------------------------
Removing == {"lockwait", "drain"}

\* What a thread can be doing where it is
Shape ==
    \A t \in Threads :
      /\ thread[t].pc = "idle" => thread[t].op \in {"none", "unset"}
      /\ thread[t].pc = "wait" => thread[t].op \in {"in", "out", "update", "query"}
      /\ thread[t].pc = "using" => thread[t].op \in {"in", "out"}
      /\ thread[t].pc \in Removing => thread[t].op \in {"del", "flush", "expire"}
      /\ thread[t].pc = "destroy" => thread[t].op = "del"
      /\ thread[t].pc = "flush" => thread[t].op = "flush"

\* Only flush_entries() keeps the mutex, between two entries
MutexOwner == \A t \in Threads : thread[t].pc = "flush" <=> owner = t

Awake == \A t \in woken : thread[t].pc \in Waits

\* An entry has one remover, which closed it to other threads; once it passed
\* the first loop nobody uses the SA anymore
OneRemover ==
    /\ \A t \in Threads :
         /\ thread[t].pc \in Removing => awaits_deletion[thread[t].at]
         /\ thread[t].pc = "drain" => ~locked[thread[t].at]
    /\ \A t, u \in Threads :
         /\ \/ thread[t].pc \in Removing /\ thread[u].pc \in Removing
            \/ thread[t].pc = "destroy" /\ thread[u].pc = "destroy"
         /\ thread[t].at = thread[u].at
         => t = u

\* The threads in wait_for_entry() for entry a
Waiters(a) == {t \in Threads : thread[t].pc = "wait" /\ thread[t].at = a}

Counted == \A a \in sas : waiting_threads[a] = Cardinality(Waiters(a))

\* No two entries of the list have the same place in it, and a flush knows no
\* entries of the future
Stamps ==
    /\ \A a \in sas : stamp[a] <= adds
    /\ \A a, b \in sas : stamp[a] = stamp[b] => a = b
    /\ \A t \in Threads : thread[t].id <= adds

\* What a flush has yet to look at is not in front of where it is, although
\* other threads take entries out of the list while it waits
FlushProgress ==
    \A t \in Threads : \A a \in sas :
      /\ thread[t].op = "flush"
      /\ stamp[a] <= thread[t].id
      /\ ~awaits_deletion[a]
      => thread[t].at # None /\ stamp[a] <= stamp[thread[t].at]

\* The inductive invariant
ManagerInv ==
    /\ TypeOK /\ Shape /\ MutexOwner /\ Awake /\ OneRemover /\ Counted /\ Stamps
    /\ FlushProgress /\ Exclusive /\ NoUseAfterFree /\ NoLostWakeup

-----------------------------------------------------------------------------
(* The list.                                                               *)

\* find_first() finds an entry, and none is in front of it
LEMMA FirstIsFirst ==
    ASSUME TypeOK, NEW S \in SUBSET Addrs, S # {}
    PROVE  First(S) \in S /\ \A b \in S : stamp[b] <= stamp[First(S)]
<1> DEFINE D == {stamp[a] : a \in S}
<1>1. D \in SUBSET (0..MaxAdds) /\ MaxAdds \in Nat
  BY ConstantsAssumption DEF TypeOK
<1>2. D # {}
  OBVIOUS
<1>3. PICK m \in D : \A k \in D : k <= m
  BY <1>1, <1>2, GreatestNat
<1>4. PICK a \in S : m = stamp[a]
  BY <1>3
<1>5. \A b \in S : stamp[b] <= stamp[a]
  BY <1>3, <1>4
<1> QED
  BY <1>5 DEF First

\* The entry after a: nothing is between them
LEMMA AfterIsNext ==
    ASSUME TypeOK, NEW a \in sas
    PROVE  /\ After(a) \in (sas \ {a}) \cup {None}
           /\ \A b \in sas : stamp[b] < stamp[a] =>
                After(a) # None /\ stamp[b] <= stamp[After(a)]
<1> DEFINE rest == {b \in sas \ {a} : stamp[b] < stamp[a]}
<1>1. rest \in SUBSET Addrs /\ None \notin Addrs
  BY ConstantsAssumption DEF TypeOK
<1>2. \A b \in sas : stamp[b] < stamp[a] => b \in rest
  BY DEF TypeOK
<1>3. CASE rest = {}
  BY <1>2, <1>3 DEF After
<1>4. CASE rest # {}
  <2>1. After(a) = First(rest)
    BY <1>4 DEF After
  <2>2. First(rest) \in rest /\ \A b \in rest : stamp[b] <= stamp[First(rest)]
    BY <1>1, <1>4, FirstIsFirst
  <2> HIDE DEF rest
  <2>3. First(rest) \in sas \ {a} /\ First(rest) # None
    BY <1>1, <2>2 DEF rest
  <2> QED
    BY <1>2, <2>1, <2>2, <2>3
<1> QED
  BY <1>3, <1>4

-----------------------------------------------------------------------------
(* wait_for_entry().                                                       *)

\* The threads that wait for an entry are counted without t
Entering(t, a, n) ==
    \/ thread[t].pc = "idle" /\ n = waiting_threads[a]
    \/ /\ thread[t].pc = "wait" /\ thread[t].at = a /\ t \in woken
       /\ n = waiting_threads[a] - 1

LEMMA WaitersFinite ==
    ASSUME NEW a
    PROVE  IsFiniteSet(Waiters(a)) /\ Cardinality(Waiters(a)) \in Nat
<1>1. Waiters(a) \in SUBSET Threads
  BY DEF Waiters
<1> QED
  BY <1>1, ConstantsAssumption, FS_Subset, FS_CardinalityType

\* n is the number of the other threads
LEMMA EnteringCount ==
    ASSUME ManagerInv, NEW t \in Threads, NEW a \in sas, NEW n, Entering(t, a, n)
    PROVE  n = Cardinality(Waiters(a) \ {t}) /\ n \in Nat /\ IsFiniteSet(Waiters(a) \ {t})
<1>1. IsFiniteSet(Waiters(a)) /\ Cardinality(Waiters(a)) \in Nat
  BY WaitersFinite
<1>2. waiting_threads[a] = Cardinality(Waiters(a))
  BY DEF ManagerInv, Counted
<1>3. t \in Waiters(a) <=> thread[t].pc = "wait" /\ thread[t].at = a
  BY DEF Waiters
<1>4. Cardinality(Waiters(a) \ {t}) = n /\ IsFiniteSet(Waiters(a) \ {t})
  BY <1>1, <1>2, <1>3, FS_RemoveElement DEF Entering
<1> QED
  BY <1>4, FS_CardinalityType

\* The three ways wait_for_entry() ends keep the count
LEMMA WaitCount ==
    ASSUME ManagerInv, NEW t \in Threads, NEW op, NEW a \in sas, NEW n, Entering(t, a, n),
           WaitForEntry(t, op, a, n), UNCHANGED sas
    PROVE  Counted'
<1>1. n = Cardinality(Waiters(a) \ {t}) /\ n \in Nat /\ IsFiniteSet(Waiters(a) \ {t})
  BY EnteringCount
<1>2. ASSUME NEW b \in sas, b # a
      PROVE  waiting_threads'[b] = Cardinality(Waiters(b)')
  <2>1. Waiters(b)' = Waiters(b)
    BY <1>2 DEF ManagerInv, TypeOK, Waiters, Entering, WaitForEntry, Block, GiveUp, Obtain,
                At, Return, Idle
  <2>2. waiting_threads'[b] = waiting_threads[b]
    BY <1>2 DEF ManagerInv, TypeOK, WaitForEntry, Block, GiveUp, Obtain
  <2> QED
    BY <2>1, <2>2 DEF ManagerInv, Counted
<1>3. CASE Block(t, op, a, n)
  <2>1. Waiters(a)' = (Waiters(a) \ {t}) \cup {t}
    BY <1>3 DEF ManagerInv, TypeOK, Waiters, Block, At
  <2>2. Cardinality(Waiters(a)') = n + 1
    BY <1>1, <2>1, FS_AddElement
  <2>3. waiting_threads'[a] = n + 1
    BY <1>3 DEF ManagerInv, TypeOK, Block
  <2> QED
    BY <1>2, <2>2, <2>3 DEF Counted
<1>4. CASE GiveUp(t, op, a, n) \/ Obtain(t, op, a, n)
  <2>1. Waiters(a)' = Waiters(a) \ {t}
    BY <1>4 DEF ManagerInv, TypeOK, Waiters, GiveUp, Obtain, At, Return, Idle
  <2>2. waiting_threads'[a] = n
    BY <1>4 DEF ManagerInv, TypeOK, GiveUp, Obtain
  <2> QED
    BY <1>1, <1>2, <2>1, <2>2 DEF Counted
<1> QED
  BY <1>3, <1>4 DEF WaitForEntry

\* The wait of t ended, and at most threads that sleep on the condvar of entry a
\* are woken
Wakes(t, a) ==
    /\ woken' \subseteq (woken \ {t}) \cup Sleeping(a)
    /\ woken \ {t} \subseteq woken' /\ (t \notin Sleeping(a) => t \notin woken')

LEMMA SignalWakes ==
    ASSUME NEW t, NEW a, t \in woken \/ t \notin Sleeping(a)
    PROVE  /\ Sleep(t) => Wakes(t, a)
           /\ Signal(t, a) => Wakes(t, a) /\ (Sleeping(a) # {} => \E u \in Sleeping(a) : u \in woken')
           /\ Broadcast(t, a) => Wakes(t, a) /\ Sleeping(a) \subseteq woken'
<1>1. t \notin Sleeping(a)
  BY DEF Sleeping
<1>2. Sleep(t) => Wakes(t, a)
  BY <1>1 DEF Sleep, Wakes
<1>3. Signal(t, a) => Wakes(t, a) /\ (Sleeping(a) # {} => \E u \in Sleeping(a) : u \in woken')
  <2>1. CASE Sleeping(a) = {}
    BY <1>1, <2>1 DEF Signal, Wakes
  <2>2. CASE Sleeping(a) # {}
    BY <1>1, <2>2 DEF Signal, Wakes
  <2> QED
    BY <2>1, <2>2
<1>4. Broadcast(t, a) => Wakes(t, a) /\ Sleeping(a) \subseteq woken'
  BY <1>1 DEF Broadcast, Wakes
<1> QED
  BY <1>2, <1>3, <1>4

\* The records of threads
ThreadType ==
    [pc : Waits \cup {"idle", "using", "flush", "destroy"}, op : Ops \cup {"none", "unset"},
     at : Addrs \cup {None}, id : 0..MaxAdds]

\* Thread t goes on with the record x
Moves(t, x) == x \in ThreadType /\ thread' = [thread EXCEPT ![t] = x]

LEMMA MovesFacts ==
    ASSUME TypeOK, NEW t \in Threads, NEW x, Moves(t, x)
    PROVE  /\ thread' \in [Threads -> ThreadType]
           /\ thread'[t] = x /\ \A u \in Threads \ {t} : thread'[u] = thread[u]
  BY DEF TypeOK, ThreadType, Moves

LEMMA RecordTypes ==
    ASSUME TypeOK
    PROVE  /\ \A r \in {"none", "unset"} : Idle(r) \in ThreadType
           /\ \A c \in Waits \cup {"using", "flush", "destroy"}, o \in Ops, a \in Addrs :
                [pc |-> c, op |-> o, at |-> a, id |-> stamp[a]] \in ThreadType
  BY ConstantsAssumption DEF TypeOK, ThreadType, Idle

\* wait_for_entry() keeps the invariant, in whatever way it ends
LEMMA WaitStep ==
    ASSUME ManagerInv, NEW t \in Threads, NEW op \in {"in", "out", "update", "query"},
           NEW a \in sas, NEW n, Entering(t, a, n), WaitForEntry(t, op, a, n),
           UNCHANGED <<sas, live, entryVars, awaits_deletion, hard_expired, owner, jobs>>
    PROVE  ManagerInv'
<1> USE DEF ManagerInv
<1>1. n \in Nat
  BY EnteringCount
<1>2. a \in Addrs /\ thread[t].pc \in {"idle", "wait"} /\ (t \in woken \/ t \notin Sleeping(a))
  BY DEF TypeOK, Entering, Sleeping, Waits
<1>3. PICK x : /\ Moves(t, x)
               /\ \/ /\ x = [pc |-> "wait", op |-> op, at |-> a, id |-> stamp[a]]
                     /\ locked[a] /\ ~awaits_deletion[a] /\ locked' = locked
                  \/ /\ x = [pc |-> "using", op |-> op, at |-> a, id |-> stamp[a]]
                     /\ op \in {"in", "out"}
                     /\ ~locked[a] /\ locked' = [locked EXCEPT ![a] = TRUE]
                     /\ ~awaits_deletion[a]
                  \/ /\ x.pc = "idle" /\ x.op \in {"none", "unset"} /\ x.id = 0
                     /\ locked' = locked
                     /\ Sleeping(a) # {} => \E u \in Sleeping(a) : u \in woken'
  <2>1. CASE Block(t, op, a, n)
    BY <1>2, <2>1, RecordTypes DEF Block, At, Moves, Waits, Ops
  <2>2. CASE GiveUp(t, op, a, n)
    <3>1. PICK r \in {"none", "unset"} : Return(t, r)
      BY <2>2 DEF GiveUp
    <3>2. Moves(t, Idle(r))
      BY <3>1, RecordTypes DEF Return, Moves
    <3> QED
      BY <1>2, <2>2, <3>2, SignalWakes DEF GiveUp, Idle
  <2>3. CASE Obtain(t, op, a, n) /\ op \in {"in", "out"}
    BY <1>2, <2>3, RecordTypes DEF Obtain, At, Moves, Ops
  <2>4. CASE Obtain(t, op, a, n) /\ op \notin {"in", "out"}
    <3>1. Moves(t, Idle("none"))
      BY <2>4, RecordTypes DEF Obtain, Return, Moves
    <3> QED
      BY <1>2, <2>4, <3>1, SignalWakes DEF Obtain, Idle
  <2> QED
    BY <2>1, <2>2, <2>3, <2>4 DEF WaitForEntry
<1>4. Wakes(t, a)
  BY <1>2, SignalWakes DEF WaitForEntry, Block, GiveUp, Obtain
<1>5. /\ thread' \in [Threads -> ThreadType]
      /\ thread'[t] = x /\ \A u \in Threads \ {t} : thread'[u] = thread[u]
  BY <1>3, MovesFacts
<1>6. waiting_threads' \in [Addrs -> Int] /\ locked' \in [Addrs -> BOOLEAN]
  <2>1. \E w \in Int : waiting_threads' = [waiting_threads EXCEPT ![a] = w]
    BY <1>1 DEF WaitForEntry, Block, GiveUp, Obtain
  <2>2. locked' = locked \/ locked' = [locked EXCEPT ![a] = TRUE]
    BY <1>3
  <2>3. waiting_threads' \in [Addrs -> Int]
    BY <1>2, <2>1 DEF TypeOK
  <2>4. locked' \in [Addrs -> BOOLEAN]
    BY <1>2, <2>2 DEF TypeOK
  <2> QED
    BY <2>3, <2>4
<1>7. TypeOK'
  BY <1>4, <1>5, <1>6 DEF TypeOK, ThreadType, Wakes, Sleeping, entryVars
<1>8. Shape'
  BY <1>3, <1>5 DEF Shape, Removing
<1>9. MutexOwner'
  BY <1>2, <1>3, <1>5 DEF MutexOwner
<1>10. Awake'
  <2> SUFFICES ASSUME NEW u \in woken' PROVE thread'[u].pc \in Waits
    BY DEF Awake
  <2>1. u # t /\ u \in Threads /\ (u \in woken \/ u \in Sleeping(a))
    BY <1>2, <1>4, <1>7 DEF Wakes, TypeOK, Sleeping
  <2>2. thread[u].pc \in Waits
    BY <2>1 DEF Awake, Sleeping
  <2> QED
    BY <1>5, <2>1, <2>2
<1>11. OneRemover'
  <2>1. \A u \in Threads : thread'[u].pc \in Removing \cup {"destroy"} =>
           u # t /\ thread'[u] = thread[u]
    BY <1>3, <1>5 DEF Removing
  <2>2. ASSUME NEW u \in Threads, thread'[u].pc = "drain"
        PROVE  ~locked'[thread'[u].at]
    <3>1. thread'[u] = thread[u]
      BY <2>1, <2>2 DEF Removing
    <3>2. ~locked[thread[u].at] /\ awaits_deletion[thread[u].at] /\ thread[u].at \in Addrs
      BY <2>2, <3>1 DEF OneRemover, Removing, NoUseAfterFree, Waits, TypeOK
    <3>3. thread[u].at # a \/ locked' = locked
      BY <1>3, <3>2
    <3>4. locked'[thread[u].at] = locked[thread[u].at]
      BY <1>3, <3>2, <3>3 DEF TypeOK
    <3> QED
      BY <3>1, <3>2, <3>4
  <2> QED
    BY <2>1, <2>2 DEF OneRemover
<1>12. Counted'
  BY WaitCount
<1>13. Stamps'
  <2>1. UNCHANGED <<adds, stamp, sas>>
    BY DEF entryVars
  <2>2. stamp[a] <= adds /\ 0 <= adds
    BY DEF Stamps, TypeOK
  <2>3. x.id <= adds
    BY <1>3, <2>2
  <2>4. \A u \in Threads : thread'[u].id <= adds
    BY <1>5, <2>3 DEF Stamps
  <2> QED
    BY <2>1, <2>4 DEF Stamps
<1>14. FlushProgress'
  BY <1>3, <1>5 DEF FlushProgress, entryVars
<1>15. Exclusive'
  <2>1. \A b \in sas : locked'[b] <=> \E u \in Threads : thread'[u].pc = "using" /\ thread'[u].at = b
    <3>1. \A b \in sas : locked[b] <=> \E u \in Threads : thread[u].pc = "using" /\ thread[u].at = b
      BY DEF Exclusive, Users
    <3> QED
      BY <1>2, <1>3, <1>5, <3>1 DEF TypeOK
  <2>2. \A u, v \in Threads : /\ thread'[u].pc = "using" /\ thread'[v].pc = "using"
                              /\ thread'[u].at = thread'[v].at
                              => u = v
    BY <1>2, <1>3, <1>5 DEF Exclusive, Users
  <2> QED
    BY <2>1, <2>2 DEF Exclusive, Users
<1>16. NoUseAfterFree'
  BY <1>3, <1>5 DEF NoUseAfterFree, Waits, entryVars
<1>17. NoLostWakeup'
  <2> SUFFICES ASSUME NEW u \in Threads \ woken', thread'[u].pc \in Waits
               PROVE  \/ locked'[thread'[u].at]
                      \/ \E v \in woken' : thread'[v].at = thread'[u].at
    BY DEF NoLostWakeup
  <2>1. CASE u = t
    BY <1>3, <1>5, <2>1 DEF Waits
  <2>2. CASE u # t /\ thread[u].at # a
    <3>1. u \notin woken /\ thread'[u] = thread[u]
      BY <1>4, <1>5, <2>2 DEF Wakes
    <3>2. locked[thread[u].at] => locked'[thread[u].at]
      <4>1. thread[u].at \in Addrs
        BY <1>5, <2>2 DEF NoUseAfterFree, TypeOK
      <4> QED
        BY <1>3, <2>2, <4>1 DEF TypeOK
    <3>3. \A v \in woken : thread[v].at = thread[u].at => v \in woken' /\ thread'[v].at = thread[v].at
      BY <1>2, <1>4, <1>5, <2>2 DEF Wakes, Entering, Awake, TypeOK, Waits
    <3> QED
      BY <3>1, <3>2, <3>3 DEF NoLostWakeup
  <2>3. CASE u # t /\ thread[u].at = a
    <3>1. u \in Sleeping(a) /\ thread'[u] = thread[u]
      BY <1>4, <1>5, <2>3 DEF Wakes, Sleeping
    <3>2. CASE x.pc = "idle"
      BY <1>2, <1>3, <1>5, <2>3, <3>1, <3>2 DEF Sleeping, Waits
    <3>3. CASE x.pc # "idle"
      BY <1>2, <1>3, <2>3, <3>1, <3>3 DEF TypeOK
    <3> QED
      BY <3>2, <3>3
  <2> QED
    BY <2>1, <2>2, <2>3
<1> QED
  BY <1>7, <1>8, <1>9, <1>10, <1>11, <1>12, <1>13, <1>14, <1>15, <1>16, <1>17

-----------------------------------------------------------------------------
(* wait_remove_entry().                                                    *)

\* Thread t starts to remove entry a or was woken while it does
Removes(t, op, a) ==
    /\ Holds(t)
    /\ \/ thread[t].pc = "idle" /\ op \in {"del", "expire"} /\ ~awaits_deletion[a]
       \/ thread[t].pc = "flush" /\ op = "flush" /\ thread[t].at = a /\ ~awaits_deletion[a]
       \/ thread[t].pc \in Removing /\ thread[t].at = a /\ op = thread[t].op /\ t \in woken
    /\ awaits_deletion' = [awaits_deletion EXCEPT ![a] = TRUE]
    /\ hard_expired' \in [Addrs -> BOOLEAN]
    /\ jobs' \subseteq [at : Addrs, spi : Nat, id : 0..MaxAdds, soft : BOOLEAN]
    /\ UNCHANGED <<entryVars, locked, waiting_threads>>

\* It is the only one, and the only one that has the mutex
LEMMA RemovesAlone ==
    ASSUME ManagerInv, NEW t \in Threads, NEW op, NEW a \in sas, Removes(t, op, a)
    PROVE  /\ a \in Addrs /\ op \in {"del", "expire", "flush"}
           /\ thread[t].pc \in {"idle", "flush", "lockwait", "drain"}
           /\ t \in woken \/ t \notin Sleeping(a)
           /\ op = "flush" <=> thread[t].op = "flush"
           /\ op = "flush" => thread[t].at = a
           /\ \A u \in Threads \ {t} :
                /\ thread[u].pc # "flush"
                /\ thread[u].pc \in Removing => thread[u].at # a
<1> USE DEF ManagerInv
<1>1. a \in Addrs /\ thread[t].pc \in {"idle", "flush", "lockwait", "drain"}
  BY DEF TypeOK, Removes, Removing
<1>2. /\ op \in {"del", "expire", "flush"} /\ (op = "flush" <=> thread[t].op = "flush")
      /\ op = "flush" => thread[t].at = a
  BY DEF Removes, Shape
<1>3. t \in woken \/ t \notin Sleeping(a)
  BY DEF Removes, Sleeping, Waits, Removing
<1>4. ASSUME NEW u \in Threads \ {t}
      PROVE  thread[u].pc # "flush" /\ (thread[u].pc \in Removing => thread[u].at # a)
  <2>1. thread[u].pc # "flush"
    BY ConstantsAssumption DEF MutexOwner, Removes, Holds
  <2>2. thread[u].pc \in Removing => thread[u].at # a
    BY DEF OneRemover, Removes
  <2> QED
    BY <2>1, <2>2
<1> QED
  BY <1>1, <1>2, <1>3, <1>4

\* It goes to sleep in one of the two loops
LEMMA LingerStep ==
    ASSUME ManagerInv, NEW t \in Threads, NEW op, NEW a \in sas, Removes(t, op, a),
           NEW pc \in Removing, Linger(t, pc, op, a),
           \/ pc = "lockwait" /\ locked[a] /\ Sleep(t)
           \/ pc = "drain" /\ ~locked[a] /\ waiting_threads[a] > 0 /\ Broadcast(t, a)
    PROVE  ManagerInv'
<1> USE DEF ManagerInv
<1>1. /\ a \in Addrs /\ op \in {"del", "expire", "flush"}
      /\ thread[t].pc \in {"idle", "flush", "lockwait", "drain"}
      /\ t \in woken \/ t \notin Sleeping(a)
      /\ op = "flush" <=> thread[t].op = "flush"
      /\ op = "flush" => thread[t].at = a
      /\ \A u \in Threads \ {t} : /\ thread[u].pc # "flush"
                                  /\ thread[u].pc \in Removing => thread[u].at # a
  BY RemovesAlone
<1>2. /\ awaits_deletion' = [awaits_deletion EXCEPT ![a] = TRUE]
      /\ UNCHANGED <<entryVars, locked, waiting_threads, sas, live>> /\ owner' = None
  BY DEF Removes, Linger
<1> DEFINE x == [pc |-> pc, op |-> op, at |-> a,
                 id |-> IF op = "flush" THEN thread[t].id ELSE stamp[a]]
<1>3. Moves(t, x)
  BY <1>1 DEF Moves, Linger, ThreadType, TypeOK, Waits, Removing, Ops
<1>4. /\ thread' \in [Threads -> ThreadType]
      /\ thread'[t] = x /\ \A u \in Threads \ {t} : thread'[u] = thread[u]
  BY <1>3, MovesFacts
<1>5. Wakes(t, a)
  BY <1>1, SignalWakes
<1>6. awaits_deletion' \in [Addrs -> BOOLEAN] /\ awaits_deletion'[a]
      /\ \A b \in Addrs : awaits_deletion[b] => awaits_deletion'[b]
  BY <1>1, <1>2 DEF TypeOK
<1>7. TypeOK'
  BY <1>2, <1>4, <1>5, <1>6 DEF TypeOK, ThreadType, Wakes, Sleeping, entryVars, Removes
<1>8. Shape'
  BY <1>1, <1>4 DEF Shape, Removing
<1>9. MutexOwner'
  BY <1>1, <1>2, <1>4, ConstantsAssumption DEF MutexOwner, Removing
<1>10. Awake'
  <2> SUFFICES ASSUME NEW u \in woken' PROVE thread'[u].pc \in Waits
    BY DEF Awake
  <2>1. u # t /\ u \in Threads /\ (u \in woken \/ u \in Sleeping(a))
    BY <1>1, <1>5, <1>7 DEF Wakes, TypeOK, Sleeping
  <2>2. thread[u].pc \in Waits
    BY <2>1 DEF Awake, Sleeping
  <2> QED
    BY <1>4, <2>1, <2>2
<1>11. OneRemover'
  <2>1. ASSUME NEW u \in Threads, thread'[u].pc \in Removing
        PROVE  awaits_deletion'[thread'[u].at]
    <3>1. CASE u = t
      BY <1>4, <1>6, <3>1
    <3>2. CASE u # t
      <4>1. thread'[u] = thread[u]
        BY <1>4, <3>2
      <4>2. awaits_deletion[thread[u].at] /\ thread[u].at \in Addrs
        BY <2>1, <4>1 DEF OneRemover, NoUseAfterFree, TypeOK, Waits, Removing
      <4> QED
        BY <1>6, <4>1, <4>2
    <3> QED
      BY <3>1, <3>2
  <2>2. ASSUME NEW u \in Threads, thread'[u].pc = "drain"
        PROVE  ~locked'[thread'[u].at]
    BY <1>2, <1>4, <2>2 DEF OneRemover
  <2>3. ASSUME NEW u \in Threads, NEW v \in Threads,
               \/ thread'[u].pc \in Removing /\ thread'[v].pc \in Removing
               \/ thread'[u].pc = "destroy" /\ thread'[v].pc = "destroy",
               thread'[u].at = thread'[v].at
        PROVE  u = v
    BY <1>1, <1>4, <2>3 DEF OneRemover, Removing
  <2> QED
    BY <2>1, <2>2, <2>3 DEF OneRemover
<1>12. \A b : Waiters(b)' = Waiters(b)
  BY <1>1, <1>4 DEF Waiters, Removing
<1>13. Counted'
  BY <1>2, <1>12 DEF Counted
<1>14. Stamps'
  BY <1>1, <1>2, <1>4 DEF Stamps, entryVars
<1>15. FlushProgress'
  <2> SUFFICES ASSUME NEW u \in Threads, NEW b \in sas, thread'[u].op = "flush",
                      stamp[b] <= thread'[u].id, ~awaits_deletion'[b]
               PROVE  thread'[u].at # None /\ stamp[b] <= stamp[thread'[u].at]
    BY <1>2 DEF FlushProgress, entryVars
  <2>1. ~awaits_deletion[b]
    BY <1>6 DEF TypeOK
  <2> QED
    BY <1>1, <1>4, <2>1 DEF FlushProgress
<1>16. Exclusive'
  <2>1. \A b \in sas : Users(b)' = Users(b)
    BY <1>1, <1>4 DEF Users, Removing
  <2> QED
    BY <1>1, <1>2, <1>4, <2>1 DEF Exclusive, Removing
<1>17. NoUseAfterFree'
  BY <1>1, <1>2, <1>4 DEF NoUseAfterFree, Removing, Waits, entryVars
<1>18. NoLostWakeup'
  <2> SUFFICES ASSUME NEW u \in Threads \ woken', thread'[u].pc \in Waits
               PROVE  \/ locked'[thread'[u].at]
                      \/ \E v \in woken' : thread'[v].at = thread'[u].at
    BY DEF NoLostWakeup
  <2>1. CASE thread'[u].at # a
    <3>1. u # t /\ u \notin woken /\ thread'[u] = thread[u]
      BY <1>4, <1>5, <2>1 DEF Wakes
    <3>2. \A v \in woken : thread[v].at = thread[u].at => v \in woken' /\ thread'[v].at = thread[v].at
      BY <1>1, <1>4, <1>5, <2>1, <3>1 DEF Wakes, Awake, TypeOK, Waits, Removes, Removing
    <3> QED
      BY <1>2, <3>1, <3>2 DEF NoLostWakeup
  <2>2. CASE thread'[u].at = a /\ pc = "lockwait"
    BY <1>2, <2>2
  <2>3. CASE thread'[u].at = a /\ pc = "drain"
    <3>1. PICK v \in Waiters(a) : TRUE
      <4>1. Cardinality(Waiters(a)) # 0
        BY <2>3 DEF Counted, Removing
      <4> QED
        BY <4>1, FS_EmptySet
    <3>2. v \in Threads /\ v # t /\ thread'[v].at = a /\ thread[v].pc = "wait" /\ thread[v].at = a
      BY <1>1, <1>4, <3>1 DEF Waiters
    <3>3. v \in woken'
      BY <1>1, <1>5, <2>3, <3>2, SignalWakes DEF Wakes, Sleeping, Waits
    <3> QED
      BY <2>3, <3>2, <3>3
  <2> QED
    BY <2>1, <2>2, <2>3 DEF Removing
<1> QED
  BY <1>7, <1>8, <1>9, <1>10, <1>11, <1>13, <1>14, <1>15, <1>16, <1>17, <1>18

\* Nobody else is at an entry that is taken out of the list
LEMMA NobodyElse ==
    ASSUME ManagerInv, NEW t \in Threads, NEW op, NEW a \in sas, Removes(t, op, a),
           ~locked[a], waiting_threads[a] = 0,
           NEW u \in Threads \ {t}, thread[u].pc # "idle"
    PROVE  thread[u].at # a
<1> USE DEF ManagerInv
<1>1. CASE thread[u].pc = "wait"
  <2>1. Waiters(a) = {}
    BY WaitersFinite, FS_EmptySet DEF Counted
  <2> QED
    BY <1>1, <2>1 DEF Waiters
<1>2. CASE thread[u].pc = "using"
  BY <1>2 DEF Exclusive, Users
<1>3. CASE thread[u].pc \in Removing \cup {"flush"}
  BY <1>3, RemovesAlone
<1>4. CASE thread[u].pc = "destroy"
  BY <1>4 DEF NoUseAfterFree
<1> QED
  BY <1>1, <1>2, <1>3, <1>4 DEF TypeOK, Waits, Removing

\* The entry is taken out of the list
LEMMA RemoveStep ==
    ASSUME ManagerInv, NEW t \in Threads, NEW op, NEW a \in sas, Removes(t, op, a),
           ~locked[a], waiting_threads[a] = 0, Remove(t, op, a)
    PROVE  ManagerInv'
<1> USE DEF ManagerInv
<1>1. /\ a \in Addrs /\ op \in {"del", "expire", "flush"}
      /\ thread[t].pc \in {"idle", "flush", "lockwait", "drain"}
      /\ t \in woken \/ t \notin Sleeping(a)
      /\ op = "flush" <=> thread[t].op = "flush"
      /\ op = "flush" => thread[t].at = a
      /\ \A u \in Threads \ {t} : /\ thread[u].pc # "flush"
                                  /\ thread[u].pc \in Removing => thread[u].at # a
  BY RemovesAlone
<1>2. \A u \in Threads \ {t} : thread[u].pc # "idle" => thread[u].at # a
  BY NobodyElse
<1>3. /\ awaits_deletion' = [awaits_deletion EXCEPT ![a] = TRUE]
      /\ UNCHANGED <<entryVars, locked, waiting_threads>> /\ sas' = sas \ {a}
      /\ woken' = woken \ {t}
  BY DEF Removes, Remove, Sleep
<1>4. /\ After(a) \in (sas \ {a}) \cup {None}
      /\ \A b \in sas : stamp[b] < stamp[a] => After(a) # None /\ stamp[b] <= stamp[After(a)]
  BY AfterIsNext
<1>5. PICK x : /\ Moves(t, x)
               /\ \/ /\ x = [pc |-> "flush", op |-> op, at |-> After(a), id |-> thread[t].id]
                     /\ op = "flush" /\ owner' = t /\ live' = live \ {a}
                  \/ /\ x = [pc |-> "destroy", op |-> op, at |-> a, id |-> stamp[a]]
                     /\ op = "del" /\ owner' = None /\ live' = live
                  \/ /\ x = Idle("none")
                     /\ op = "expire" /\ owner' = None /\ live' = live \ {a}
  <2>1. CASE op = "flush"
    <3>1. [pc |-> "flush", op |-> op, at |-> After(a), id |-> thread[t].id] \in ThreadType
      BY <1>4, <2>1 DEF ThreadType, TypeOK, Ops
    <3> QED
      BY <2>1, <3>1 DEF Remove, Moves
  <2>2. CASE op = "del"
    BY <1>1, <2>2, RecordTypes DEF Remove, At, Moves, Ops
  <2>3. CASE op = "expire"
    BY <2>3, RecordTypes DEF Remove, Return, Moves
  <2> QED
    BY <1>1, <2>1, <2>2, <2>3
<1>6. /\ thread' \in [Threads -> ThreadType]
      /\ thread'[t] = x /\ \A u \in Threads \ {t} : thread'[u] = thread[u]
  BY <1>5, MovesFacts
<1>7. /\ x.pc \in {"flush", "destroy", "idle"} /\ (x.pc = "flush" <=> op = "flush")
      /\ x.pc = "destroy" => x.at = a /\ x.id = stamp[a] /\ x.op = "del" /\ live' = live
      /\ x.pc = "flush" => x.at = After(a) /\ x.id = thread[t].id /\ x.op = "flush"
      /\ x.pc = "idle" => x.id = 0 /\ x.op = "none"
  BY <1>5 DEF Idle
<1>8. awaits_deletion' \in [Addrs -> BOOLEAN]
      /\ \A b \in Addrs \ {a} : awaits_deletion'[b] = awaits_deletion[b]
  BY <1>1, <1>3 DEF TypeOK
<1>9. live' \in {live, live \ {a}} /\ sas' \subseteq live'
  BY <1>3, <1>5 DEF TypeOK
<1>10. TypeOK'
  BY <1>3, <1>5, <1>6, <1>8, <1>9 DEF TypeOK, ThreadType, entryVars, Removes
<1>11. Shape'
  BY <1>6, <1>7 DEF Shape, Removing
<1>12. MutexOwner'
  BY <1>1, <1>5, <1>6, <1>7, ConstantsAssumption DEF MutexOwner
<1>13. Awake'
  BY <1>3, <1>6 DEF Awake, TypeOK
<1>14. OneRemover'
  <2>1. \A u \in Threads : thread'[u].pc \in Removing =>
           u # t /\ thread'[u] = thread[u] /\ thread[u].at \in Addrs \ {a}
    BY <1>2, <1>6, <1>7 DEF Removing, NoUseAfterFree, TypeOK, Waits
  <2>2. ASSUME NEW u \in Threads, NEW v \in Threads, thread'[u].pc = "destroy",
               thread'[v].pc = "destroy", thread'[u].at = thread'[v].at
        PROVE  u = v
    BY <1>2, <1>6, <1>7, <2>2 DEF OneRemover
  <2>3. \A u \in Threads : /\ thread'[u].pc \in Removing => awaits_deletion'[thread'[u].at]
                           /\ thread'[u].pc = "drain" => ~locked'[thread'[u].at]
    BY <1>3, <1>8, <2>1 DEF OneRemover, Removing
  <2> QED
    BY <2>1, <2>2, <2>3 DEF OneRemover
<1>15. \A b : Waiters(b)' = Waiters(b)
  BY <1>1, <1>6, <1>7 DEF Waiters
<1>16. Counted'
  BY <1>3, <1>15 DEF Counted
<1>17. Stamps'
  BY <1>1, <1>3, <1>6, <1>7 DEF Stamps, TypeOK, entryVars
<1>18. FlushProgress'
  <2> SUFFICES ASSUME NEW u \in Threads, NEW b \in sas, b # a, thread'[u].op = "flush",
                      stamp[b] <= thread'[u].id, ~awaits_deletion'[b]
               PROVE  thread'[u].at # None /\ stamp[b] <= stamp[thread'[u].at]
    BY <1>3 DEF FlushProgress, entryVars
  <2>1. ~awaits_deletion[b]
    BY <1>8 DEF TypeOK
  <2>2. CASE u # t
    BY <1>6, <2>1, <2>2 DEF FlushProgress
  <2>3. CASE u = t
    <3>1. op = "flush" /\ thread'[u].at = After(a) /\ thread'[u].id = thread[t].id
      BY <1>6, <1>7, <2>3
    <3>2. stamp[b] <= stamp[a] /\ stamp[b] # stamp[a]
      BY <1>1, <2>1, <3>1 DEF FlushProgress, Stamps
    <3>3. stamp[b] < stamp[a]
      BY <1>1, <3>2 DEF TypeOK
    <3> QED
      BY <1>4, <3>1, <3>3
  <2> QED
    BY <2>2, <2>3
<1>19. Exclusive'
  <2>1. \A b \in sas : Users(b)' = Users(b)
    BY <1>1, <1>6, <1>7 DEF Users
  <2> QED
    BY <1>1, <1>3, <1>6, <1>7, <2>1 DEF Exclusive
<1>20. NoUseAfterFree'
  <2>1. ASSUME NEW u \in Threads \ {t}
        PROVE  /\ thread[u].pc \in Waits \cup {"using"} => thread[u].at \in sas'
               /\ thread[u].pc = "flush" => thread[u].at \in sas' \cup {None}
               /\ thread[u].pc = "destroy" => thread[u].at \in live' \ sas'
    BY <1>1, <1>2, <1>3, <1>9 DEF NoUseAfterFree, Waits
  <2>2. /\ x.pc = "flush" => x.at \in sas' \cup {None}
        /\ x.pc = "destroy" => x.at \in live' \ sas'
    BY <1>3, <1>4, <1>7 DEF TypeOK
  <2> QED
    BY <1>3, <1>6, <1>7, <2>1, <2>2 DEF NoUseAfterFree, Waits, entryVars
<1>21. NoLostWakeup'
  <2> SUFFICES ASSUME NEW u \in Threads \ woken', thread'[u].pc \in Waits
               PROVE  \/ locked'[thread'[u].at]
                      \/ \E v \in woken' : thread'[v].at = thread'[u].at
    BY DEF NoLostWakeup
  <2>1. u # t /\ u \notin woken /\ thread'[u] = thread[u] /\ thread[u].at # a
    BY <1>2, <1>3, <1>6, <1>7 DEF Waits
  <2>2. \A v \in woken : thread[v].at = thread[u].at => v \in woken' /\ thread'[v].at = thread[v].at
    BY <1>1, <1>3, <1>6, <2>1 DEF Awake, TypeOK, Waits, Removes, Removing
  <2> QED
    BY <1>3, <2>1, <2>2 DEF NoLostWakeup
<1> QED
  BY <1>10, <1>11, <1>12, <1>13, <1>14, <1>16, <1>17, <1>18, <1>19, <1>20, <1>21

\* wait_remove_entry() keeps the invariant, from either of its loops on
LEMMA LoopStep ==
    ASSUME ManagerInv, NEW t \in Threads, NEW op, NEW a \in sas, Removes(t, op, a),
           FirstLoop(t, op, a) \/ (~locked[a] /\ SecondLoop(t, op, a))
    PROVE  ManagerInv'
  BY LingerStep, RemoveStep DEF FirstLoop, SecondLoop, Removing

-----------------------------------------------------------------------------
(* The actions.                                                            *)

\* A thread that is not at an entry, or walks through the list, moves on
LEMMA WalkStep ==
    ASSUME ManagerInv, NEW t \in Threads, Holds(t), thread[t].pc \in {"idle", "flush"},
           NEW x, Moves(t, x), x.id <= adds,
           \/ x.pc = "idle" /\ x.op \in {"none", "unset"} /\ owner' = None
           \/ x.pc = "flush" /\ x.op = "flush" /\ x.at \in sas \cup {None} /\ owner' = t,
           x.op = "flush" => \A a \in sas : stamp[a] <= x.id /\ ~awaits_deletion[a] =>
                               x.at # None /\ stamp[a] <= stamp[x.at],
           UNCHANGED <<sas, live, entryVars, locked, awaits_deletion, waiting_threads,
                       hard_expired, woken, jobs>>
    PROVE  ManagerInv'
<1> USE DEF ManagerInv
<1>1. /\ thread' \in [Threads -> ThreadType]
      /\ thread'[t] = x /\ \A u \in Threads \ {t} : thread'[u] = thread[u]
  BY MovesFacts
<1>2. TypeOK'
  BY <1>1 DEF TypeOK, ThreadType, entryVars
<1>3. Shape' /\ Awake'
  BY <1>1 DEF TypeOK, Shape, Awake, Removing, Waits
<1>4. MutexOwner'
  BY <1>1, ConstantsAssumption DEF MutexOwner, Holds
<1>5. OneRemover' /\ Stamps'
  BY <1>1 DEF OneRemover, Stamps, Removing, entryVars
<1>6. FlushProgress'
  BY <1>1 DEF FlushProgress, entryVars
<1>7. \A b : Waiters(b)' = Waiters(b) /\ Users(b)' = Users(b)
  BY <1>1 DEF Waiters, Users
<1>8. Counted' /\ Exclusive'
  BY <1>1, <1>7 DEF Counted, Exclusive
<1>9. NoUseAfterFree'
  BY <1>1 DEF NoUseAfterFree, Waits, entryVars
<1>10. NoLostWakeup'
  BY <1>1 DEF NoLostWakeup, Awake, TypeOK, Waits
<1> QED
  BY <1>2, <1>3, <1>4, <1>5, <1>6, <1>8, <1>9, <1>10

\* checkout_by_spi(), checkout_by_reqid(), update_sa() and query_sa()
LEMMA LookupStep ==
    ASSUME ManagerInv, NEW t \in Threads, NEW op \in {"in", "out", "update", "query"},
           NEW found \in SUBSET sas, Call(t), Lookup(t, op, found)
    PROVE  ManagerInv'
<1> USE DEF ManagerInv
<1>1. CASE found # {}
  <2>1. found \in SUBSET Addrs
    BY DEF TypeOK
  <2>2. First(found) \in found
    BY <1>1, <2>1, FirstIsFirst
  <2> QED
    BY <1>1, <2>2, WaitStep DEF Lookup, Call, Entering
<1>2. CASE found = {}
  <2>1. Moves(t, Idle("none"))
    BY <1>2, RecordTypes DEF Lookup, Return, Moves
  <2>2. owner' = None
    BY DEF Lookup, Call, Holds, MutexOwner
  <2>3. /\ Idle("none").id <= adds /\ Idle("none").pc = "idle" /\ Idle("none").op = "none"
    BY DEF Idle, TypeOK
  <2> QED
    BY <1>2, <2>1, <2>2, <2>3, WalkStep DEF Lookup, Call
<1> QED
  BY <1>1, <1>2

\* flush_sas() and the entries flush_entries() looks at
LEMMA FlushSteps ==
    ASSUME ManagerInv, NEW t \in Threads, FlushSas(t) \/ FlushEntry(t) \/ FlushEnd(t)
    PROVE  ManagerInv'
<1> USE DEF ManagerInv
<1>1. CASE FlushSas(t)
  <2> DEFINE x == [pc |-> "flush", op |-> "flush", at |-> First(sas), id |-> adds]
  <2>1. First(sas) \in sas /\ \A b \in sas : stamp[b] <= stamp[First(sas)]
    BY <1>1, FirstIsFirst DEF FlushSas, TypeOK
  <2>2. Moves(t, x)
    BY <1>1, <2>1 DEF FlushSas, Moves, ThreadType, TypeOK, Ops
  <2>3. First(sas) # None /\ adds \in Int
    BY <2>1, ConstantsAssumption DEF TypeOK
  <2>4. /\ x.pc = "flush" /\ x.op = "flush" /\ x.at = First(sas) /\ x.id = adds
    OBVIOUS
  <2> HIDE DEF x
  <2> QED
    BY <1>1, <2>1, <2>2, <2>3, <2>4, WalkStep DEF FlushSas, Call
<1>2. CASE FlushEntry(t) /\ WaitRemoveEntry(t, "flush", thread[t].at)
  <2> DEFINE a == thread[t].at
  <2>1. a \in sas /\ owner = t
    BY <1>2 DEF FlushEntry, NoUseAfterFree, MutexOwner
  <2>2. Removes(t, "flush", a)
    BY <1>2, <2>1 DEF Removes, FlushEntry, WaitRemoveEntry, Holds, TypeOK
  <2> HIDE DEF a
  <2>3. WaitRemoveEntry(t, "flush", a)
    BY <1>2 DEF a
  <2> QED
    BY <2>1, <2>2, <2>3, LoopStep DEF WaitRemoveEntry
<1>3. CASE /\ FlushEntry(t) /\ awaits_deletion[thread[t].at]
           /\ thread' = [thread EXCEPT ![t].at = After(@)]
           /\ UNCHANGED <<sas, live, awaits_deletion, woken, owner>>
  <2> DEFINE a == thread[t].at
             x == [pc |-> "flush", op |-> "flush", at |-> After(a), id |-> thread[t].id]
  <2>1. a \in sas /\ owner = t /\ thread[t].pc = "flush" /\ thread[t].op = "flush"
    BY <1>3 DEF FlushEntry, NoUseAfterFree, MutexOwner, Shape
  <2>2. /\ After(a) \in (sas \ {a}) \cup {None}
        /\ \A b \in sas : stamp[b] < stamp[a] => After(a) # None /\ stamp[b] <= stamp[After(a)]
    BY <2>1, AfterIsNext
  <2>3. Moves(t, x)
    <3>1. thread[t] \in ThreadType
      BY DEF TypeOK, ThreadType
    <3>2. [thread[t] EXCEPT !.at = After(a)] = x
      BY <2>1, <3>1 DEF ThreadType
    <3>3. x \in ThreadType
      BY <2>1, <2>2, <3>1 DEF ThreadType, TypeOK
    <3> QED
      BY <1>3, <3>2, <3>3 DEF Moves
  <2>4. \A b \in sas : stamp[b] <= thread[t].id /\ ~awaits_deletion[b] => stamp[b] < stamp[a]
    <3> SUFFICES ASSUME NEW b \in sas, stamp[b] <= thread[t].id, ~awaits_deletion[b]
                 PROVE  stamp[b] < stamp[a]
      OBVIOUS
    <3>1. stamp[b] <= stamp[a] /\ stamp[b] # stamp[a]
      BY <1>3, <2>1 DEF FlushProgress, Stamps
    <3>2. stamp[b] \in Int /\ stamp[a] \in Int
      BY <2>1 DEF TypeOK
    <3> QED
      BY <3>1, <3>2
  <2>5. /\ x.pc = "flush" /\ x.op = "flush" /\ x.at = After(a) /\ x.id = thread[t].id
    OBVIOUS
  <2>6. x.id <= adds /\ Holds(t)
    BY <2>1 DEF Stamps, Holds
  <2>7. UNCHANGED <<sas, live, entryVars, locked, awaits_deletion, waiting_threads,
                    hard_expired, woken, jobs>> /\ owner' = t
    BY <1>3, <2>1 DEF FlushEntry
  <2> HIDE DEF x, a
  <2> QED
    BY <2>1, <2>2, <2>3, <2>4, <2>5, <2>6, <2>7, WalkStep
<1>4. CASE FlushEnd(t)
  <2>1. Moves(t, Idle("none"))
    BY <1>4, RecordTypes DEF FlushEnd, Return, Moves
  <2>2. owner' = None /\ Holds(t)
    BY <1>4 DEF FlushEnd, Holds, MutexOwner
  <2>3. /\ Idle("none").id <= adds /\ Idle("none").pc = "idle" /\ Idle("none").op = "none"
    BY DEF Idle, TypeOK
  <2> QED
    BY <1>4, <2>1, <2>2, <2>3, WalkStep DEF FlushEnd
<1> QED
  BY <1>1, <1>2, <1>3, <1>4 DEF FlushEntry

\* wait_for_entry() after a signal
LEMMA WakeUpStep ==
    ASSUME ManagerInv, NEW t \in Threads, WakeUp(t)
    PROVE  ManagerInv'
<1> USE DEF ManagerInv
<1>1. thread[t].at \in sas /\ thread[t].op \in {"in", "out", "update", "query"}
  BY DEF WakeUp, NoUseAfterFree, Waits, Shape
<1>2. Entering(t, thread[t].at, waiting_threads[thread[t].at] - 1)
  BY DEF WakeUp, Entering
<1> QED
  BY <1>1, <1>2, WaitStep DEF WakeUp

\* del_sa(), the entry flush_entries() looks at, sa_expired() and a remover that
\* was woken: all are steps of wait_remove_entry()
LEMMA RemoveSteps ==
    ASSUME ManagerInv, NEW t \in Threads
    PROVE  /\ \A s \in Spis : DelSa(t, s) => ManagerInv'
           /\ WakeUpRemove(t) => ManagerInv'
<1> USE DEF ManagerInv
<1>1. ASSUME NEW s \in Spis, DelSa(t, s)
      PROVE  ManagerInv'
  <2> DEFINE a == First(BySpi(s))
  <2>1. a \in sas
    <3>1. BySpi(s) \in SUBSET Addrs /\ BySpi(s) # {}
      BY <1>1 DEF BySpi, TypeOK, DelSa
    <3> QED
      BY <3>1, FirstIsFirst DEF BySpi
  <2> HIDE DEF a
  <2>2. WaitRemoveEntry(t, "del", a)
    BY <1>1 DEF DelSa, a
  <2>3. Removes(t, "del", a)
    BY <1>1, <2>1, <2>2 DEF Removes, DelSa, CallFor, Call, WaitRemoveEntry, TypeOK
  <2> QED
    BY <2>1, <2>2, <2>3, LoopStep DEF WaitRemoveEntry
<1>2. ASSUME WakeUpRemove(t)
      PROVE  ManagerInv'
  <2> DEFINE a == thread[t].at
             op == thread[t].op
  <2>1. a \in sas /\ awaits_deletion[a] /\ thread[t].pc \in Removing
        /\ (thread[t].pc = "drain" => ~locked[a])
    BY <1>2 DEF WakeUpRemove, Removing, NoUseAfterFree, Waits, OneRemover
  <2>2. awaits_deletion' = [awaits_deletion EXCEPT ![a] = TRUE]
    BY <1>2, <2>1 DEF WakeUpRemove, TypeOK
  <2>3. Removes(t, op, a)
    BY <1>2, <2>1, <2>2 DEF Removes, WakeUpRemove, TypeOK
  <2>4. FirstLoop(t, op, a) \/ (~locked[a] /\ SecondLoop(t, op, a))
    BY <1>2, <2>1 DEF WakeUpRemove, Removing
  <2> HIDE DEF a, op
  <2> QED
    BY <2>1, <2>3, <2>4, LoopStep
<1> QED
  BY <1>1, <1>2

\* sa_expired()
LEMMA ExpiredStep ==
    ASSUME ManagerInv, NEW t \in Threads, NEW j \in jobs, SaExpired(t, j)
    PROVE  ManagerInv'
<1> USE DEF ManagerInv
<1>1. /\ jobs' \subseteq [at : Addrs, spi : Nat, id : 0..MaxAdds, soft : BOOLEAN]
      /\ j.at \in Addrs
  <2>1. j \in [at : Addrs, spi : Nat, id : 0..MaxAdds, soft : BOOLEAN]
    BY DEF TypeOK
  <2>2. [j EXCEPT !.soft = FALSE] \in [at : Addrs, spi : Nat, id : 0..MaxAdds, soft : BOOLEAN]
    BY <2>1
  <2>3. jobs' \subseteq jobs \cup {[j EXCEPT !.soft = FALSE]}
    BY DEF SaExpired
  <2> QED
    BY <2>1, <2>2, <2>3 DEF TypeOK
<1>2. hard_expired' \in [Addrs -> BOOLEAN]
  BY <1>1 DEF SaExpired, TypeOK
<1>3. CASE Finds(j) /\ WaitRemoveEntry(t, "expire", j.at)
  <2>1. Removes(t, "expire", j.at)
    BY <1>1, <1>2, <1>3 DEF Removes, SaExpired, WaitRemoveEntry
  <2> QED
    BY <1>3, <2>1, LoopStep DEF WaitRemoveEntry, Finds
<1>4. CASE UNCHANGED <<sas, live, awaits_deletion, thread, woken, owner>>
  <2>1. UNCHANGED <<sas, live, awaits_deletion, thread, woken, owner, entryVars, locked,
                    waiting_threads>>
    BY <1>4 DEF SaExpired
  <2>2. TypeOK'
    BY <1>1, <1>2, <2>1 DEF TypeOK, entryVars
  <2> QED
    BY <2>1, <2>2 DEF Shape, MutexOwner, Awake, OneRemover, Counted, Waiters, Stamps,
       FlushProgress, Exclusive, Users, NoUseAfterFree, NoLostWakeup, entryVars
<1> QED
  BY <1>3, <1>4 DEF SaExpired

\* A packet thread uses an SA and checks it in
LEMMA CheckinStep ==
    ASSUME ManagerInv, NEW t \in Threads, Checkin(t)
    PROVE  ManagerInv'
<1> USE DEF ManagerInv
<1>0. PICK a \in sas : a = thread[t].at
  BY DEF Checkin, NoUseAfterFree
<1>1. a \in sas /\ a \in Addrs /\ locked[a] /\ thread[t].pc = "using" /\ t \notin Sleeping(a)
  BY <1>0 DEF Checkin, Exclusive, Users, TypeOK, Sleeping, Waits
<1>2. /\ locked' = [locked EXCEPT ![a] = FALSE] /\ Signal(t, a) /\ Return(t, "none")
      /\ UNCHANGED <<sas, live, entryVars, awaits_deletion, waiting_threads, hard_expired,
                     owner, jobs>>
  BY <1>0, <1>1 DEF Checkin
<1>3. Wakes(t, a) /\ (Sleeping(a) # {} => \E u \in Sleeping(a) : u \in woken')
  BY <1>1, <1>2, SignalWakes
<1>4. Moves(t, Idle("none"))
  BY <1>2, RecordTypes DEF Return, Moves
<1>5. /\ thread' \in [Threads -> ThreadType]
      /\ thread'[t] = Idle("none") /\ \A u \in Threads \ {t} : thread'[u] = thread[u]
  BY <1>4, MovesFacts
<1>6. thread'[t].pc = "idle" /\ thread'[t].op = "none" /\ thread'[t].id = 0
  BY <1>5 DEF Idle
<1>7. /\ locked' \in [Addrs -> BOOLEAN] /\ ~locked'[a]
      /\ \A b \in Addrs \ {a} : locked'[b] = locked[b]
  BY <1>1, <1>2 DEF TypeOK
<1>8. TypeOK'
  BY <1>2, <1>3, <1>5, <1>7 DEF TypeOK, ThreadType, Wakes, Sleeping, entryVars
<1>9. Shape' /\ MutexOwner'
  BY <1>1, <1>2, <1>5, <1>6 DEF Shape, MutexOwner, Removing
<1>10. Awake'
  <2> SUFFICES ASSUME NEW u \in woken' PROVE thread'[u].pc \in Waits
    BY DEF Awake
  <2>1. u # t /\ u \in Threads /\ (u \in woken \/ u \in Sleeping(a))
    BY <1>1, <1>3, <1>8 DEF Wakes, TypeOK, Sleeping
  <2>2. thread[u].pc \in Waits
    BY <2>1 DEF Awake, Sleeping
  <2> QED
    BY <1>5, <2>1, <2>2
<1>11. OneRemover' /\ Stamps'
  <2>1. \A u \in Threads : thread'[u].pc \in Removing \cup {"destroy"} =>
           u # t /\ thread'[u] = thread[u]
    BY <1>5, <1>6 DEF Removing
  <2>2. \A b \in Addrs : ~locked[b] => ~locked'[b]
    BY <1>7
  <2>3. \A u \in Threads : thread[u].pc \in Removing => thread[u].at \in Addrs
    BY DEF NoUseAfterFree, Removing, Waits, TypeOK
  <2>4. OneRemover'
    BY <1>2, <2>1, <2>2, <2>3 DEF OneRemover, Removing
  <2> QED
    BY <1>2, <1>5, <1>6, <1>8, <2>4 DEF Stamps, TypeOK, entryVars
<1>12. \A b : Waiters(b)' = Waiters(b)
  BY <1>1, <1>5, <1>6 DEF Waiters
<1>13. Counted' /\ FlushProgress'
  BY <1>2, <1>5, <1>6, <1>12 DEF Counted, FlushProgress, entryVars
<1>14. Exclusive'
  <2>1. \A b \in sas \ {a} : Users(b)' = Users(b)
    BY <1>0, <1>5, <1>6 DEF Users
  <2>2. Users(a)' = {}
    <3>1. \A u \in Threads \ {t} : ~(thread[u].pc = "using" /\ thread[u].at = a)
      BY <1>0, <1>1 DEF Exclusive
    <3> QED
      BY <1>5, <1>6, <3>1 DEF Users
  <2>3. \A b \in sas \ {a} : locked'[b] = locked[b]
    BY <1>7 DEF TypeOK
  <2>4. \A u, v \in Threads : /\ thread'[u].pc = "using" /\ thread'[v].pc = "using"
                              /\ thread'[u].at = thread'[v].at
                              => u = v
    BY <1>5, <1>6 DEF Exclusive
  <2>5. \A b \in sas : locked'[b] <=> Users(b)' # {}
    BY <1>7, <2>1, <2>2, <2>3 DEF Exclusive
  <2> QED
    BY <1>2, <2>4, <2>5 DEF Exclusive
<1>15. NoUseAfterFree'
  BY <1>2, <1>5, <1>6 DEF NoUseAfterFree, Waits, entryVars
<1>16. NoLostWakeup'
  <2> SUFFICES ASSUME NEW u \in Threads \ woken', thread'[u].pc \in Waits
               PROVE  \/ locked'[thread'[u].at]
                      \/ \E v \in woken' : thread'[v].at = thread'[u].at
    BY DEF NoLostWakeup
  <2>1. u # t /\ u \notin woken /\ thread'[u] = thread[u] /\ thread[u].at \in Addrs
    BY <1>3, <1>5, <1>6 DEF Wakes, Waits, NoUseAfterFree, TypeOK
  <2>2. CASE thread[u].at # a
    <3>1. \A v \in woken : v \in woken' /\ v # t /\ thread'[v] = thread[v]
      BY <1>1, <1>3, <1>5 DEF Wakes, Awake, TypeOK, Waits
    <3> QED
      BY <1>7, <2>1, <2>2, <3>1 DEF NoLostWakeup
  <2>3. CASE thread[u].at = a
    <3>1. u \in Sleeping(a)
      BY <2>1, <2>3 DEF Sleeping
    <3>2. PICK v \in Sleeping(a) : v \in woken'
      BY <1>3, <3>1
    <3>3. thread'[v].at = a
      BY <1>1, <1>5, <3>2 DEF Sleeping
    <3> QED
      BY <2>1, <2>3, <3>2, <3>3
  <2> QED
    BY <2>2, <2>3
<1> QED
  BY <1>8, <1>9, <1>10, <1>11, <1>13, <1>14, <1>15, <1>16

\* The rest of del_sa()
LEMMA DestroyStep ==
    ASSUME ManagerInv, NEW t \in Threads, Destroy(t)
    PROVE  ManagerInv'
<1> USE DEF ManagerInv
<1>1. /\ thread[t].pc = "destroy" /\ live' = live \ {thread[t].at} /\ Return(t, "none")
      /\ UNCHANGED <<sas, entryVars, locked, awaits_deletion, waiting_threads, hard_expired,
                     woken, owner, jobs>>
  BY DEF Destroy
<1>2. Moves(t, Idle("none"))
  BY <1>1, RecordTypes DEF Return, Moves
<1>3. /\ thread' \in [Threads -> ThreadType]
      /\ thread'[t] = Idle("none") /\ \A u \in Threads \ {t} : thread'[u] = thread[u]
  BY <1>2, MovesFacts
<1>4. thread'[t].pc = "idle" /\ thread'[t].op = "none" /\ thread'[t].id = 0
  BY <1>3 DEF Idle
<1>5. thread[t].at \notin sas
  BY <1>1 DEF NoUseAfterFree
<1>6. TypeOK'
  BY <1>1, <1>3, <1>5 DEF TypeOK, ThreadType, entryVars
<1>7. Shape' /\ MutexOwner' /\ Awake'
  BY <1>1, <1>3, <1>4 DEF TypeOK, Shape, MutexOwner, Awake, Removing, Waits
<1>8. OneRemover' /\ Stamps' /\ FlushProgress'
  <2>1. OneRemover'
    BY <1>1, <1>3, <1>4 DEF OneRemover, Removing
  <2>2. Stamps'
    BY <1>1, <1>3, <1>4 DEF Stamps, TypeOK, entryVars
  <2>3. FlushProgress'
    BY <1>1, <1>3, <1>4 DEF FlushProgress, entryVars
  <2> QED
    BY <2>1, <2>2, <2>3
<1>9. \A b : Waiters(b)' = Waiters(b) /\ Users(b)' = Users(b)
  BY <1>1, <1>3, <1>4 DEF Waiters, Users
<1>10. Counted' /\ Exclusive'
  BY <1>1, <1>3, <1>4, <1>9 DEF Counted, Exclusive
<1>11. NoUseAfterFree'
  <2>1. \A u \in Threads : thread'[u].pc = "destroy" => thread[u].at # thread[t].at
    BY <1>1, <1>3, <1>4 DEF OneRemover
  <2> QED
    BY <1>1, <1>3, <1>4, <2>1 DEF NoUseAfterFree, Waits, entryVars
<1>12. NoLostWakeup'
  <2>1. \A u \in Threads : thread'[u].pc \in Waits => thread'[u] = thread[u]
    BY <1>3, <1>4 DEF Waits
  <2>2. \A v \in woken : thread'[v] = thread[v]
    BY <1>1, <1>3 DEF Awake, TypeOK, Waits
  <2> QED
    BY <1>1, <2>1, <2>2 DEF NoLostWakeup
<1> QED
  BY <1>6, <1>7, <1>8, <1>10, <1>11, <1>12

\* A new entry is at an address nobody knows
LEMMA AddStep ==
    ASSUME ManagerInv, NEW s \in Spis, AddSa(s)
    PROVE  ManagerInv'
<1> USE DEF ManagerInv
<1>1. UNCHANGED <<thread, woken, owner>> /\ allocated_spis' \subseteq Inbound
  BY DEF AddSa, TypeOK
<1>2. CASE BySpi(s) # {}
  <2>1. UNCHANGED <<sas, live, spi, stamp, locked, awaits_deletion, adds, waiting_threads,
                    hard_expired, jobs>>
    BY <1>2 DEF AddSa
  <2>2. TypeOK'
    BY <1>1, <2>1 DEF TypeOK
  <2> QED
    BY <1>1, <2>1, <2>2 DEF Shape, MutexOwner, Awake, OneRemover, Counted, Waiters, Stamps,
       FlushProgress, Exclusive, Users, NoUseAfterFree, NoLostWakeup
<1>3. CASE BySpi(s) = {}
  <2>1. PICK a \in Addrs \ live :
          /\ adds' = adds + 1
          /\ spi' = [spi EXCEPT ![a] = s]
          /\ stamp' = [stamp EXCEPT ![a] = adds + 1]
          /\ locked' = [locked EXCEPT ![a] = FALSE]
          /\ awaits_deletion' = [awaits_deletion EXCEPT ![a] = FALSE]
          /\ waiting_threads' = [waiting_threads EXCEPT ![a] = 0]
          /\ hard_expired' = [hard_expired EXCEPT ![a] = FALSE]
          /\ \E new \in NewJobs(a, s) : jobs' = jobs \cup new
          /\ live' = live \cup {a} /\ sas' = sas \cup {a}
    BY <1>3 DEF AddSa
  <2>2. adds \in Nat /\ adds + 1 \in 0..MaxAdds
    BY ConstantsAssumption DEF AddSa, TypeOK
  <2>3. jobs' \subseteq [at : Addrs, spi : Nat, id : 0..MaxAdds, soft : BOOLEAN]
    <3>1. \A new \in NewJobs(a, s) : new \subseteq [at : Addrs, spi : Nat, id : 0..MaxAdds,
                                                    soft : BOOLEAN]
      BY <2>2, ConstantsAssumption DEF NewJobs
    <3> QED
      BY <2>1, <3>1 DEF TypeOK
  <2>4. TypeOK'
    BY <1>1, <2>1, <2>2, <2>3 DEF TypeOK
  <2>5. \A u \in Threads : /\ thread[u].pc \in Waits \cup {"using", "destroy"} => thread[u].at \in Addrs \ {a}
                           /\ thread[u].pc = "flush" => thread[u].at \in (Addrs \ {a}) \cup {None}
    BY <2>1 DEF NoUseAfterFree, TypeOK
  <2>6. /\ locked'[a] = FALSE /\ awaits_deletion'[a] = FALSE /\ waiting_threads'[a] = 0
        /\ stamp'[a] = adds + 1
        /\ \A b \in Addrs \ {a} : /\ locked'[b] = locked[b] /\ stamp'[b] = stamp[b]
                                  /\ awaits_deletion'[b] = awaits_deletion[b]
                                  /\ waiting_threads'[b] = waiting_threads[b]
    BY <2>1 DEF TypeOK
  <2>7. sas \subseteq Addrs \ {a}
    BY <2>1 DEF TypeOK
  <2>8. Shape' /\ MutexOwner' /\ Awake'
    BY <1>1 DEF Shape, MutexOwner, Awake
  <2>9. OneRemover'
    BY <1>1, <2>5, <2>6 DEF OneRemover, Removing, Waits
  <2>10. Counted'
    <3>1. \A b : Waiters(b)' = Waiters(b)
      BY <1>1 DEF Waiters
    <3>2. Waiters(a) = {}
      BY <2>5 DEF Waiters, Waits
    <3> QED
      BY <2>1, <2>6, <2>7, <3>1, <3>2, FS_EmptySet DEF Counted
  <2>11. Stamps'
    <3>1. \A b \in sas : stamp[b] \in Int /\ stamp[b] < adds + 1
      BY <2>2 DEF Stamps, TypeOK
    <3>2. \A u \in Threads : thread[u].id <= adds + 1
      BY <2>2 DEF Stamps, TypeOK
    <3> QED
      BY <1>1, <2>1, <2>2, <2>6, <2>7, <3>1, <3>2 DEF Stamps
  <2>12. FlushProgress'
    <3> SUFFICES ASSUME NEW u \in Threads, NEW b \in sas \cup {a}, thread[u].op = "flush",
                        stamp'[b] <= thread[u].id, ~awaits_deletion'[b]
                 PROVE  thread[u].at # None /\ stamp'[b] <= stamp'[thread[u].at]
      BY <1>1, <2>1 DEF FlushProgress
    <3>1. b # a
      BY <2>2, <2>6 DEF Stamps, TypeOK
    <3>2. thread[u].at # None /\ stamp[b] <= stamp[thread[u].at]
      BY <2>6, <2>7, <3>1 DEF FlushProgress
    <3>3. thread[u].pc \in Waits \cup {"flush"}
      BY DEF Shape, TypeOK, Waits, Removing
    <3>4. thread[u].at \in Addrs \ {a}
      BY <2>5, <3>2, <3>3
    <3> QED
      BY <2>6, <2>7, <3>1, <3>2, <3>4
  <2>13. Exclusive'
    <3>1. \A b : Users(b)' = Users(b)
      BY <1>1 DEF Users
    <3>2. Users(a) = {}
      BY <2>5 DEF Users
    <3> QED
      BY <1>1, <2>1, <2>6, <2>7, <3>1, <3>2 DEF Exclusive
  <2>14. NoUseAfterFree'
    <3>1. \A u \in Threads :
            /\ thread[u].pc \in Waits \cup {"using"} => thread[u].at \in sas'
            /\ thread[u].pc = "flush" => thread[u].at \in sas' \cup {None}
            /\ thread[u].pc = "destroy" => thread[u].at \in live' \ sas'
      BY <2>1, <2>5 DEF NoUseAfterFree
    <3>2. \A u \in Threads :
            thread[u].pc \in Waits \cup {"using", "destroy"} /\ thread[u].op # "flush"
              => stamp'[thread[u].at] = thread[u].id
      BY <2>5, <2>6 DEF NoUseAfterFree
    <3> QED
      BY <1>1, <3>1, <3>2 DEF NoUseAfterFree
  <2>15. NoLostWakeup'
    BY <1>1, <2>5, <2>6 DEF NoLostWakeup
  <2> QED
    BY <2>4, <2>8, <2>9, <2>10, <2>11, <2>12, <2>13, <2>14, <2>15
<1> QED
  BY <1>2, <1>3

\* get_spi() and a limit that is reached change nothing the others depend on
LEMMA OtherSteps ==
    ASSUME ManagerInv,
           (\E s \in Spis : GetSpi(s)) \/ (\E t \in Threads : Use(t)) \/ UNCHANGED vars
    PROVE  ManagerInv'
<1> USE DEF ManagerInv
<1> DEFINE Quiet == /\ UNCHANGED <<sas, live, spi, stamp, adds, locked, awaits_deletion,
                                   waiting_threads, thread, woken, owner, jobs>>
                    /\ hard_expired' \in [Addrs -> BOOLEAN] /\ allocated_spis' \subseteq Inbound
<1>1. Quiet
  <2>1. ASSUME NEW s \in Spis, GetSpi(s)
        PROVE  Quiet
    BY <2>1 DEF GetSpi, TypeOK
  <2>2. ASSUME NEW t \in Threads, Use(t)
        PROVE  Quiet
    BY <2>2 DEF Use, TypeOK, entryVars
  <2>3. CASE UNCHANGED vars
    BY <2>3 DEF vars, TypeOK, entryVars
  <2> QED
    BY <2>1, <2>2, <2>3
<1>2. TypeOK'
  BY <1>1 DEF TypeOK
<1> QED
  BY <1>1, <1>2 DEF Shape, MutexOwner, Awake, OneRemover, Counted, Waiters, Stamps,
     FlushProgress, Exclusive, Users, NoUseAfterFree, NoLostWakeup

-----------------------------------------------------------------------------
(* The theorems.                                                           *)

LEMMA InitInv == Init => ManagerInv
<1> SUFFICES ASSUME Init PROVE ManagerInv
  OBVIOUS
<1>1. \A t \in Threads : thread[t].pc = "idle" /\ thread[t].op = "none" /\ thread[t].id = 0
  BY DEF Init, Idle
<1>2. TypeOK
  <2>1. (CHOOSE s \in Spis : TRUE) \in Spis
    BY ConstantsAssumption
  <2>2. spi \in [Addrs -> Spis]
    BY <2>1 DEF Init
  <2>3. thread \in [Threads -> ThreadType]
    BY ConstantsAssumption DEF Init, Idle, ThreadType
  <2> QED
    BY <2>2, <2>3, ConstantsAssumption DEF Init, TypeOK, ThreadType
<1>3. Shape /\ MutexOwner /\ Awake /\ OneRemover
  BY <1>1, ConstantsAssumption DEF Init, Shape, MutexOwner, Awake, OneRemover, Removing
<1>4. Counted /\ Stamps /\ FlushProgress /\ Exclusive
  BY <1>1 DEF Init, Counted, Stamps, FlushProgress, Exclusive
<1>5. NoUseAfterFree /\ NoLostWakeup
  BY <1>1 DEF NoUseAfterFree, NoLostWakeup, Waits
<1> QED
  BY <1>2, <1>3, <1>4, <1>5 DEF ManagerInv

LEMMA NextInv == ManagerInv /\ [Next]_vars => ManagerInv'
<1> SUFFICES ASSUME ManagerInv, [Next]_vars PROVE ManagerInv'
  OBVIOUS
<1>1. ASSUME NEW s \in Spis, GetSpi(s) \/ AddSa(s)
      PROVE  ManagerInv'
  BY <1>1, AddStep, OtherSteps
<1>2. ASSUME NEW t \in Threads, NEW s \in Spis,
             CheckoutBySpi(t, s) \/ UpdateSa(t, s) \/ QuerySa(t, s) \/ DelSa(t, s)
      PROVE  ManagerInv'
  <2>1. BySpi(s) \in SUBSET sas /\ BySpiDst(s) \in SUBSET sas
    BY DEF BySpi, BySpiDst
  <2> QED
    BY <1>2, <2>1, LookupStep, RemoveSteps DEF CheckoutBySpi, UpdateSa, QuerySa, CallFor
<1>3. ASSUME NEW t \in Threads, CheckoutByReqid(t)
      PROVE  ManagerInv'
  <2>1. ByReqid \in SUBSET sas
    BY DEF ByReqid
  <2> QED
    BY <1>3, <2>1, LookupStep DEF CheckoutByReqid
<1>4. ASSUME NEW t \in Threads, NEW j \in jobs, SaExpired(t, j)
      PROVE  ManagerInv'
  BY <1>4, ExpiredStep
<1>5. ASSUME NEW t \in Threads, FlushSas(t) \/ Use(t) \/ Continue(t)
      PROVE  ManagerInv'
  BY <1>5, FlushSteps, OtherSteps, WakeUpStep, CheckinStep, RemoveSteps, DestroyStep DEF Continue
<1>6. CASE UNCHANGED vars
  BY <1>6, OtherSteps
<1> QED
  BY <1>1, <1>2, <1>3, <1>4, <1>5, <1>6 DEF Next

LEMMA ManagerCorrect == Spec => []ManagerInv
  BY InitInv, NextInv, PTL DEF Spec

\* An SA is never used by two threads at once, and locked just while it is used,
\* for any number of packet threads, checkouts, removals and flushes.
THEOREM SasExclusive == Spec => []Exclusive
<1>1. ManagerInv => Exclusive
  BY DEF ManagerInv
<1> QED
  BY <1>1, ManagerCorrect, PTL

\* No thread uses, waits for or removes an entry that was freed, or that is
\* another one than it was when it came to it: the remover of an entry frees it
\* only once everybody has left.
THEOREM EntriesOutliveUsers == Spec => []NoUseAfterFree
<1>1. ManagerInv => NoUseAfterFree
  BY DEF ManagerInv
<1> QED
  BY <1>1, ManagerCorrect, PTL

\* flush_sas() misses no entry that was there when it was called, although other
\* threads change the list while it waits.
THEOREM FlushCorrect == Spec => []FlushIsComplete
<1>1. ManagerInv => FlushIsComplete
  <2> SUFFICES ASSUME ManagerInv, NEW t \in Threads, NEW a \in sas,
                      thread[t].pc = "flush", thread[t].at = None, stamp[a] <= thread[t].id
               PROVE  awaits_deletion[a]
    BY DEF FlushIsComplete
  <2> QED
    BY DEF ManagerInv, FlushProgress, Shape
<1> QED
  BY <1>1, ManagerCorrect, PTL

\* No signal on the condvar of an entry is lost: as long as a thread sleeps
\* there, the SA is in use or a thread that was woken is on its way.
THEOREM WakeupsKept == Spec => []NoLostWakeup
<1>1. ManagerInv => NoLostWakeup
  BY DEF ManagerInv
<1> QED
  BY <1>1, ManagerCorrect, PTL
=============================================================================
