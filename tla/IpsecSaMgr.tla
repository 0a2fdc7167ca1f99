----------------------------- MODULE IpsecSaMgr -----------------------------
(***************************************************************************)
(* The IPsec SA manager of libipsec (src/src/libipsec/ipsec_sa_mgr.c) with *)
(* its users: the packet threads of ipsec_processor.c, which check SAs out *)
(* and in, the threads of charon, which add, update, query, delete and     *)
(* flush SAs, and the expiry jobs the manager schedules itself.            *)
(*                                                                         *)
(* One mutex protects the manager; it is released only while a thread      *)
(* waits on the condvar of an entry.  An action is what a thread does      *)
(* between two such waits, except that flush_sas() takes one action per    *)
(* entry and keeps the mutex in between (owner).  Entries live at          *)
(* addresses, which malloc() may give out again once an entry is freed.    *)
(* The list of entries has the newest first: it is the set sas ordered by  *)
(* stamp, the number of the add_sa() that made the entry.                  *)
(*                                                                         *)
(* A member of Spis stands for a SPI with the hosts of its SA, which is    *)
(* what most lookups compare; Number gives the 32-bit SPI alone.  All SAs  *)
(* have the same reqid.                                                    *)
(***************************************************************************)
EXTENDS Integers, FiniteSets

CONSTANTS Threads,      \* threads of charon
          Addrs,        \* addresses of entries
          Spis,         \* SPIs with their hosts
          Inbound,      \* those of inbound SAs
          Number,       \* the SPI alone: peers choose theirs freely
          None,         \* no entry, no thread
          MaxAdds       \* bound on the calls of add_sa()

ASSUME ConstantsAssumption ==
    /\ Spis # {} /\ Inbound \subseteq Spis
    /\ None \notin Addrs /\ None \notin Threads
    /\ IsFiniteSet(Threads)
    /\ MaxAdds \in Nat
    /\ Number \in [Spis -> Nat]

VARIABLES sas,          \* the entries in the list
          live,         \* the entries that are not freed
          spi, stamp,   \* of an entry: its SPI, its place in the list
          locked, awaits_deletion, waiting_threads,   \* as in the code
          hard_expired, \* of the SA of an entry
          thread,       \* what each thread is doing, and with which entry
          woken,        \* threads whose wait has been ended by a signal
          owner,        \* the thread that keeps the mutex between actions
          jobs,         \* scheduled expiry jobs
          allocated_spis,
          adds          \* calls of add_sa() so far

entryVars == <<spi, stamp, adds, allocated_spis>>
vars == <<sas, live, entryVars, locked, awaits_deletion, waiting_threads,
          hard_expired, thread, woken, owner, jobs>>

Outbound == Spis \ Inbound

\* Where a thread can wait: in wait_for_entry() and in the two loops of
\* wait_remove_entry().  The other places are: using a checked out SA, in the
\* first or in the second loop of wait_remove_entry(), between two entries in
\* flush_entries(), about to destroy what del_sa() removed
Waits == {"wait", "lockwait", "drain"}
Ops == {"in", "out", "update", "query", "del", "flush", "expire"}

\* A thread that is not in the manager; result says whether its last call was
\* a query_sa() that returned SUCCESS without setting the counters
Idle(result) == [pc |-> "idle", op |-> result, at |-> None, id |-> 0]

\* Thread t is at pc with entry a; id is only there to tell entries apart
\* that had the same address
At(t, pc, op, a) ==
    thread' = [thread EXCEPT ![t] = [pc |-> pc, op |-> op, at |-> a,
                                     id |-> stamp[a]]]
Return(t, result) == thread' = [thread EXCEPT ![t] = Idle(result)]

Holds(t) == owner \in {None, t}

\* A thread of the caller enters the manager
Call(t) ==
    /\ thread[t].pc = "idle"
    /\ Holds(t)

\* charon calls update_sa(), query_sa() and del_sa() for an SA only with the
\* IKE_SA of that SA checked out: one thread at a time
CallFor(t, s) ==
    /\ Call(t)
    /\ \A u \in Threads \ {t} :
         thread[u].pc # "idle" /\ thread[u].op \in {"update", "query", "del"}
         => spi[thread[u].at] # s

-----------------------------------------------------------------------------
(* The list                                                                *)

BySpi(s) == {a \in sas : spi[a] = s}
BySpiDst(s) == {a \in BySpi(s) : ~hard_expired[a]}
ByReqid == {a \in sas : spi[a] \in Outbound /\ ~hard_expired[a]}

\* find_first(): the first in the list
First(S) == CHOOSE a \in S : \A b \in S : stamp[b] <= stamp[a]

\* The entry after a in the list
After(a) ==
    LET rest == {b \in sas \ {a} : stamp[b] < stamp[a]}
    IN  IF rest = {} THEN None ELSE First(rest)

-----------------------------------------------------------------------------
(* Condvars                                                                *)

Sleeping(a) ==
    {u \in Threads : thread[u].pc \in Waits /\ thread[u].at = a /\ u \notin woken}

\* signal(): one thread that sleeps on the condvar, if there is one, wakes up.
\* In these two t is the calling thread, which is awake.
Signal(t, a) ==
    IF Sleeping(a) = {} THEN woken' = woken \ {t}
    ELSE \E u \in Sleeping(a) : woken' = (woken \ {t}) \cup {u}

Broadcast(t, a) == woken' = (woken \ {t}) \cup Sleeping(a)

\* wait(): t goes to sleep
Sleep(t) == woken' = woken \ {t}

-----------------------------------------------------------------------------
(* Checking out                                                            *)

\* wait_for_entry() by operation op of thread t on entry a, and what the
\* operation does with the result.  n threads other than t are waiting.
Block(t, op, a, n) ==
    /\ locked[a]
    /\ ~awaits_deletion[a]
    /\ At(t, "wait", op, a)
    /\ waiting_threads' = [waiting_threads EXCEPT ![a] = n + 1]
    /\ Sleep(t)
    /\ UNCHANGED locked

MutGiveUp(t, op, a, n) ==
    /\ awaits_deletion[a]
    /\ Return(t, IF op = "query" THEN "unset" ELSE "none")
    /\ waiting_threads' = [waiting_threads EXCEPT ![a] = n]
    /\ Sleep(t)
    /\ UNCHANGED locked

\* The entry is being removed; others may still be waiting.  update_sa() and
\* query_sa() return SUCCESS all the same, as they found an entry.
GiveUp(t, op, a, n) ==
    /\ awaits_deletion[a]
    /\ Return(t, IF op = "query" THEN "unset" ELSE "none")
    /\ waiting_threads' = [waiting_threads EXCEPT ![a] = n]
    /\ Signal(t, a)
    /\ UNCHANGED locked

\* The entry is locked, and unlocked again at once by update_sa() and
\* query_sa()
Obtain(t, op, a, n) ==
    /\ ~locked[a]
    /\ ~awaits_deletion[a]
    /\ waiting_threads' = [waiting_threads EXCEPT ![a] = n]
    /\ IF op \in {"in", "out"}
       THEN /\ locked' = [locked EXCEPT ![a] = TRUE]
            /\ At(t, "using", op, a)
            /\ Sleep(t)
       ELSE /\ Return(t, "none")
            /\ Signal(t, a)
            /\ UNCHANGED locked

WaitForEntry(t, op, a, n) ==
    Block(t, op, a, n) \/ GiveUp(t, op, a, n) \/ Obtain(t, op, a, n)

\* checkout_by_spi(), checkout_by_reqid(), update_sa() and query_sa()
Lookup(t, op, found) ==
    /\ IF found = {}
       THEN /\ Return(t, "none")
            /\ UNCHANGED <<locked, waiting_threads, woken>>
       ELSE WaitForEntry(t, op, First(found), waiting_threads[First(found)])
    /\ UNCHANGED <<sas, live, entryVars, awaits_deletion, hard_expired, owner,
                   jobs>>

CheckoutBySpi(t, s) == Call(t) /\ Lookup(t, "in", BySpiDst(s))
CheckoutByReqid(t) == Call(t) /\ Lookup(t, "out", ByReqid)
UpdateSa(t, s) == CallFor(t, s) /\ Lookup(t, "update", BySpi(s))
QuerySa(t, s) == CallFor(t, s) /\ Lookup(t, "query", BySpi(s))

\* A thread waiting in wait_for_entry() was signalled and has the mutex again
WakeUp(t) ==
    /\ thread[t].pc = "wait" /\ t \in woken
    /\ Holds(t)
    /\ WaitForEntry(t, thread[t].op, thread[t].at,
                    waiting_threads[thread[t].at] - 1)
    /\ UNCHANGED <<sas, live, entryVars, awaits_deletion, hard_expired, owner,
                   jobs>>

\* update_usestats() finds a packet or byte limit reached: without the mutex
Use(t) ==
    /\ thread[t].pc = "using"
    /\ ~hard_expired[thread[t].at]
    /\ hard_expired' = [hard_expired EXCEPT ![thread[t].at] = TRUE]
    /\ UNCHANGED <<sas, live, entryVars, locked, awaits_deletion,
                   waiting_threads, thread, woken, owner, jobs>>

MutCheckin(t) ==
    /\ thread[t].pc = "using"
    /\ Holds(t)
    /\ IF thread[t].at \in ByReqid \cup BySpiDst(spi[thread[t].at])
       THEN /\ locked' = [locked EXCEPT ![thread[t].at] = FALSE]
            /\ Signal(t, thread[t].at)
       ELSE UNCHANGED <<locked, woken>>
    /\ Return(t, "none")
    /\ UNCHANGED <<sas, live, entryVars, awaits_deletion, waiting_threads,
                   hard_expired, owner, jobs>>

\* checkin(): the SA is looked up by its address
Checkin(t) ==
    /\ thread[t].pc = "using"
    /\ Holds(t)
    /\ IF thread[t].at \in sas /\ locked[thread[t].at]
       THEN /\ locked' = [locked EXCEPT ![thread[t].at] = FALSE]
            /\ Signal(t, thread[t].at)
       ELSE UNCHANGED <<locked, woken>>
    /\ Return(t, "none")
    /\ UNCHANGED <<sas, live, entryVars, awaits_deletion, waiting_threads,
                   hard_expired, owner, jobs>>

-----------------------------------------------------------------------------
(* Removing                                                                *)

MutRemove(t, op, a) ==
    /\ sas' = sas \ {a}
    /\ Sleep(t)
    /\ IF op = "flush"
       THEN /\ thread' = [thread EXCEPT ![t] = [pc |-> "flush", op |-> op,
                                                at |-> None, id |-> @.id]]
            /\ owner' = t
            /\ live' = live \ {a}
       ELSE /\ owner' = None
            /\ IF op = "del" THEN At(t, "destroy", op, a) /\ UNCHANGED live
               ELSE Return(t, "none") /\ live' = live \ {a}

\* The entry leaves the list.  sa_expired() and flush_entries() destroy it
\* with the mutex, del_sa() without; flush_entries() goes on with the next.
Remove(t, op, a) ==
    /\ sas' = sas \ {a}
    /\ Sleep(t)
    /\ IF op = "flush"
       THEN /\ thread' = [thread EXCEPT ![t] = [pc |-> "flush", op |-> op,
                                                at |-> After(a), id |-> @.id]]
            /\ owner' = t
            /\ live' = live \ {a}
       ELSE /\ owner' = None
            /\ IF op = "del" THEN At(t, "destroy", op, a) /\ UNCHANGED live
               ELSE Return(t, "none") /\ live' = live \ {a}

\* Thread t waits in wait_remove_entry(), and the mutex is free
Linger(t, pc, op, a) ==
    /\ thread' = [thread EXCEPT ![t] = [pc |-> pc, op |-> op, at |-> a,
                                        id |-> IF op = "flush" THEN @.id
                                               ELSE stamp[a]]]
    /\ owner' = None
    /\ UNCHANGED <<sas, live>>

MutSecondLoop(t, op, a) == Remove(t, op, a)

\* The second loop of wait_remove_entry(): until nobody waits for the entry
SecondLoop(t, op, a) ==
    \/ /\ waiting_threads[a] > 0
       /\ Broadcast(t, a)
       /\ Linger(t, "drain", op, a)
    \/ /\ waiting_threads[a] = 0
       /\ Remove(t, op, a)

\* The first loop of wait_remove_entry(): until the entry is not locked
FirstLoop(t, op, a) ==
    \/ /\ locked[a]
       /\ Sleep(t)
       /\ Linger(t, "lockwait", op, a)
    \/ /\ ~locked[a]
       /\ SecondLoop(t, op, a)

\* wait_remove_entry() of an entry that no other thread is removing
WaitRemoveEntry(t, op, a) ==
    /\ ~awaits_deletion[a]
    /\ awaits_deletion' = [awaits_deletion EXCEPT ![a] = TRUE]
    /\ FirstLoop(t, op, a)

\* del_sa()
DelSa(t, s) ==
    /\ CallFor(t, s)
    /\ BySpi(s) # {}
    /\ WaitRemoveEntry(t, "del", First(BySpi(s)))
    /\ UNCHANGED <<entryVars, locked, waiting_threads, hard_expired, jobs>>

\* The rest of del_sa(), without the mutex
Destroy(t) ==
    /\ thread[t].pc = "destroy"
    /\ live' = live \ {thread[t].at}
    /\ Return(t, "none")
    /\ UNCHANGED <<sas, entryVars, locked, awaits_deletion, waiting_threads,
                   hard_expired, woken, owner, jobs>>

\* flush_sas() starts; id is the number of the newest entry it will see
FlushSas(t) ==
    /\ Call(t)
    /\ sas # {}
    /\ thread' = [thread EXCEPT ![t] = [pc |-> "flush", op |-> "flush",
                                        at |-> First(sas), id |-> adds]]
    /\ owner' = t
    /\ UNCHANGED <<sas, live, entryVars, locked, awaits_deletion,
                   waiting_threads, hard_expired, woken, jobs>>

\* flush_entries() looks at one entry
FlushEntry(t) ==
    /\ thread[t].pc = "flush" /\ thread[t].at # None
    /\ \/ WaitRemoveEntry(t, "flush", thread[t].at)
       \/ /\ awaits_deletion[thread[t].at]
          /\ thread' = [thread EXCEPT ![t].at = After(@)]
          /\ UNCHANGED <<sas, live, awaits_deletion, woken, owner>>
    /\ UNCHANGED <<entryVars, locked, waiting_threads, hard_expired, jobs>>

\* flush_sas() ends
FlushEnd(t) ==
    /\ thread[t].pc = "flush" /\ thread[t].at = None
    /\ Return(t, "none")
    /\ owner' = None
    /\ UNCHANGED <<sas, live, entryVars, locked, awaits_deletion,
                   waiting_threads, hard_expired, woken, jobs>>

\* A thread waiting in wait_remove_entry() was signalled and has the mutex
WakeUpRemove(t) ==
    /\ thread[t].pc \in {"lockwait", "drain"} /\ t \in woken
    /\ Holds(t)
    /\ IF thread[t].pc = "lockwait"
       THEN FirstLoop(t, thread[t].op, thread[t].at)
       ELSE SecondLoop(t, thread[t].op, thread[t].at)
    /\ UNCHANGED <<entryVars, locked, awaits_deletion, waiting_threads,
                   hard_expired, jobs>>

-----------------------------------------------------------------------------
(* Expiry jobs                                                             *)

\* sa_expired() finds an entry at the address its job was scheduled for, with
\* the SPI, not necessarily the hosts, that entry had
Finds(j) == j.at \in sas /\ Number[spi[j.at]] = j.spi

\* sa_expired() of a job run by thread t: a soft expiry is followed by a hard
\* one, which blocks the SA and removes the entry unless that is under way
SaExpired(t, j) ==
    /\ thread[t].pc = "idle"
    /\ Holds(t)
    /\ jobs' = (jobs \ {j}) \cup
               (IF Finds(j) /\ j.soft THEN {[j EXCEPT !.soft = FALSE]} ELSE {})
    /\ IF Finds(j) /\ ~j.soft
       THEN /\ hard_expired' = [hard_expired EXCEPT ![j.at] = TRUE]
            /\ \/ WaitRemoveEntry(t, "expire", j.at)
               \/ /\ awaits_deletion[j.at]
                  /\ UNCHANGED <<sas, live, awaits_deletion, thread, woken, owner>>
       ELSE UNCHANGED <<sas, live, awaits_deletion, hard_expired, thread,
                        woken, owner>>
    /\ UNCHANGED <<entryVars, locked, waiting_threads>>

-----------------------------------------------------------------------------
(* Adding                                                                  *)

\* allocate_spi(): neither allocated nor used by an inbound SA, of any hosts
Allocatable(s) ==
    \A o \in allocated_spis \cup ({spi[a] : a \in sas} \cap Inbound) :
      Number[o] # Number[s]

\* get_spi()
GetSpi(s) ==
    /\ owner = None
    /\ s \in Inbound
    /\ Allocatable(s)
    /\ allocated_spis' = allocated_spis \cup {s}
    /\ UNCHANGED <<sas, live, spi, stamp, adds, locked, awaits_deletion,
                   waiting_threads, hard_expired, thread, woken, owner, jobs>>

\* The job schedule_expiration() makes for the new entry, if any
NewJobs(a, s) ==
    {{}} \cup {{[at |-> a, spi |-> Number[s], id |-> adds + 1, soft |-> soft]} :
                 soft \in BOOLEAN}

\* add_sa(), with update for the inbound SA whose SPI was allocated; nothing
\* but the allocation changes if the SPI is in use
AddSa(s) ==
    /\ owner = None
    /\ adds < MaxAdds
    /\ s \in Inbound => s \in allocated_spis
    /\ allocated_spis' = allocated_spis \ (IF s \in Inbound THEN {s} ELSE {})
    /\ IF BySpi(s) # {}
       THEN UNCHANGED <<sas, live, spi, stamp, locked, awaits_deletion, adds,
                        waiting_threads, hard_expired, jobs>>
       ELSE \E a \in Addrs \ live :
              /\ adds' = adds + 1
              /\ spi' = [spi EXCEPT ![a] = s]
              /\ stamp' = [stamp EXCEPT ![a] = adds + 1]
              /\ locked' = [locked EXCEPT ![a] = FALSE]
              /\ awaits_deletion' = [awaits_deletion EXCEPT ![a] = FALSE]
              /\ waiting_threads' = [waiting_threads EXCEPT ![a] = 0]
              /\ hard_expired' = [hard_expired EXCEPT ![a] = FALSE]
              /\ \E new \in NewJobs(a, s) : jobs' = jobs \cup new
              /\ live' = live \cup {a}
              /\ sas' = sas \cup {a}
    /\ UNCHANGED <<thread, woken, owner>>

-----------------------------------------------------------------------------
\* ipsec_sa_mgr_create()
Init ==
    /\ sas = {} /\ live = {}
    /\ spi \in [Addrs -> {CHOOSE s \in Spis : TRUE}]
    /\ stamp = [a \in Addrs |-> 0]
    /\ locked = [a \in Addrs |-> FALSE]
    /\ awaits_deletion = [a \in Addrs |-> FALSE]
    /\ waiting_threads = [a \in Addrs |-> 0]
    /\ hard_expired = [a \in Addrs |-> FALSE]
    /\ thread = [t \in Threads |-> Idle("none")]
    /\ woken = {} /\ owner = None /\ jobs = {} /\ allocated_spis = {}
    /\ adds = 0

\* What a thread inside the manager does next
Continue(t) ==
    \/ WakeUp(t) \/ Checkin(t) \/ WakeUpRemove(t)
    \/ Destroy(t) \/ FlushEntry(t) \/ FlushEnd(t)

Next ==
    \/ \E s \in Spis : GetSpi(s) \/ AddSa(s)
    \/ \E t \in Threads :
         \/ \E s \in Spis : \/ CheckoutBySpi(t, s) \/ UpdateSa(t, s)
                            \/ QuerySa(t, s) \/ DelSa(t, s)
         \/ CheckoutByReqid(t)
         \/ FlushSas(t)
         \/ \E j \in jobs : SaExpired(t, j)
         \/ Use(t)
         \/ Continue(t)

Spec == Init /\ [][Next]_vars

-----------------------------------------------------------------------------
(* Properties                                                              *)

\* Every variable has its type, and only entries that are not freed are listed.
TypeOK ==
    /\ sas \subseteq live /\ live \subseteq Addrs
    /\ spi \in [Addrs -> Spis]
    /\ stamp \in [Addrs -> 0..MaxAdds]
    /\ locked \in [Addrs -> BOOLEAN]
    /\ awaits_deletion \in [Addrs -> BOOLEAN]
    /\ waiting_threads \in [Addrs -> Int]
    /\ hard_expired \in [Addrs -> BOOLEAN]
    /\ thread \in [Threads ->
                     [pc : Waits \cup {"idle", "using", "flush", "destroy"},
                      op : Ops \cup {"none", "unset"},
                      at : Addrs \cup {None}, id : 0..MaxAdds]]
    /\ woken \subseteq Threads
    /\ owner \in Threads \cup {None}
    /\ jobs \subseteq [at : Addrs, spi : Nat, id : 0..MaxAdds, soft : BOOLEAN]
    /\ allocated_spis \subseteq Inbound
    /\ adds \in 0..MaxAdds

\* The threads that use entry a
Users(a) == {t \in Threads : thread[t].pc = "using" /\ thread[t].at = a}

\* An SA is used by at most one thread, and is locked exactly while it is
\* (ipsec_sa_mgr.c:219, :732).
Exclusive ==
    /\ \A t, u \in Threads :
         /\ thread[t].pc = "using" /\ thread[u].pc = "using"
         /\ thread[t].at = thread[u].at
         => t = u
    /\ \A a \in sas : locked[a] <=> Users(a) # {}

\* The entry a thread uses, waits for or removes has not been freed, nor freed
\* and replaced by another one at its address; it is in the list until its one
\* remover takes it out (ipsec_sa_mgr.c:194).
NoUseAfterFree ==
    \A t \in Threads :
      /\ thread[t].pc \in Waits \cup {"using"} => thread[t].at \in sas
      /\ thread[t].pc = "flush" => thread[t].at \in sas \cup {None}
      /\ thread[t].pc = "destroy" => thread[t].at \in live \ sas
      /\ thread[t].pc \in Waits \cup {"using", "destroy"} /\ thread[t].op # "flush"
           => stamp[thread[t].at] = thread[t].id

\* flush_sas() leaves only entries that were added after it started or that
\* another thread is removing, although it lets go of the mutex while it waits
\* (ipsec_sa_mgr.c:242).
FlushIsComplete ==
    \A t \in Threads : \A a \in sas :
      /\ thread[t].pc = "flush" /\ thread[t].at = None
      /\ stamp[a] <= thread[t].id
      => awaits_deletion[a]

\* A query_sa() that returns SUCCESS has set the counters (ipsec_sa_mgr.h:110).
QueryAnswers == \A t \in Threads : thread[t].op # "unset"

\* An expiry job acts only on the SA it was made for, even if the SA is gone
\* and its memory in use again: "only if we find the right SA at this pointer
\* location" (ipsec_sa_mgr.c:353).
JobFindsItsSa == \A j \in jobs : Finds(j) => stamp[j.at] = j.id

\* Nobody sleeps forever: as long as a thread sleeps on the condvar of an
\* entry, the entry is locked by a thread that will signal when it checks the
\* SA in, or a thread that was woken has yet to run and will pass the signal
\* on.  A remover that waits for the others to leave is among them
\* (ipsec_sa_mgr.c:194, :219).
NoLostWakeup ==
    \A t \in Threads \ woken :
      thread[t].pc \in Waits =>
        \/ locked[thread[t].at]
        \/ \E u \in woken : thread[u].at = thread[t].at
=============================================================================
