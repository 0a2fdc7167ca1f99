---------------------- MODULE IkeSaManagerTablesProofs ----------------------
(***************************************************************************)
(* What the IKE_SA manager keeps besides the table itself agrees with it:  *)
(* the condvars of the entries, the init hashes and the counters of        *)
(* half-open IKE_SAs.  All three rest on Ownership.                        *)
(***************************************************************************)
EXTENDS IkeSaManagerProofs

-----------------------------------------------------------------------------
(* The condvars.  NoLostWakeup is not inductive: a thread that was driven   *)
(* out of an entry and still holds the mutex counts there, but it is going  *)
(* to leave without waking anyone, as it did so when it returned from its   *)
(* wait.  Also, an entry that is checked out has to have a thread that      *)
(* works on it.  Both hold until flush() closes the table.                  *)

\* A thread that is awake will take the entry, or wake others on leaving it.
Attended(e) ==
    \E u \in Threads \ blocked :
       /\ thread[u].at = e
       /\ \/ thread[u].pc \in {"wait", "driveout", "driveout_wait"}
          \/ /\ thread[u].pc = "acquire"
             /\ thread[u].mode = "enum" \/ ~entry[e].driveout_threads

\* A thread works on the IKE_SA of the entry, and wakes others when it is done.
Served(e) ==
    /\ ~entry[e].driveout_threads
    /\ \E u \in Threads : thread[u].pc = "working" /\ entry[e].checked_out = u

SleepersAreAttended ==
    \A t \in blocked :
       /\ t \in Threads
       /\ thread[t].pc \in {"wait", "driveout_wait"}
       /\ Attended(thread[t].at) \/ Served(thread[t].at)

\* An IKE_SA has one entry.
OneEntry ==
    \A e, f \in Entries :
       entry[e].alive /\ entry[f].alive /\ entry[e].sa = entry[f].sa => e = f

\* The thread that checked an entry out works on its IKE_SA.
OwnersExist ==
    \A e \in Entries :
       entry[e].alive /\ entry[e].checked_out # None =>
          /\ Owns(entry[e].checked_out)
          /\ thread[entry[e].checked_out].sa = entry[e].sa

Signals == ~draining => SleepersAreAttended /\ OneEntry /\ OwnersExist

\* No field the argument is about changes.
SameTable ==
    \A f \in Entries :
       /\ entry'[f].alive = entry[f].alive /\ entry'[f].sa = entry[f].sa
       /\ entry'[f].checked_out = entry[f].checked_out
       /\ entry'[f].driveout_threads = entry[f].driveout_threads

\* A signal wakes a thread if there is one.
LEMMA SignalWakes ==
    ASSUME SleepersAreAttended, NEW e, NEW n \in Nat, NEW W \in Signal(e, n)
    PROVE  /\ W \subseteq Sleepers(e)
           /\ n > 0 /\ Sleepers(e) # {} => W # {}
<1>1. W \subseteq Sleepers(e) BY DEF Signal
<1>2. Sleepers(e) \in SUBSET Threads BY DEF Sleepers, SleepersAreAttended
<1>3. IsFiniteSet(Sleepers(e)) BY <1>2, FS_Subset, ManagerAssumption
<1>4. ASSUME n > 0, Sleepers(e) # {} PROVE W # {}
  <2>1. Cardinality(Sleepers(e)) \in Nat /\ Cardinality(Sleepers(e)) # 0
    BY <1>3, <1>4, FS_CardinalityType, FS_EmptySet
  <2>2. Cardinality(W) # 0 BY <1>4, <2>1 DEF Signal
  <2> QED BY <2>2, FS_EmptySet
<1> QED BY <1>1, <1>4

\* Where threads that point to an entry point to.
LEMMA SleepersPoint ==
    ASSUME Ownership, SleepersAreAttended, NEW b \in blocked
    PROVE  /\ b \in Threads /\ thread[b].at \in Entries /\ entry[thread[b].at].alive
BY DEF Ownership, PointersAreSound, SleepersAreAttended

\* The owner of the only entry of an IKE_SA keeps it, or there is none.
LEMMA OwnersStep ==
    ASSUME Shape, Ownership, OneEntry, OwnersExist, NEW t \in Threads, NEW x, Moves(t, x),
           SameTable,
           Owns(t) => \/ Owns(t)' /\ x.sa = thread[t].sa
                      \/ \A f \in Entries : entry[f].alive => entry[f].sa # thread[t].sa
    PROVE  OneEntry' /\ OwnersExist'
<1>1. thread'[t] = x /\ \A u \in Threads \ {t} : thread'[u] = thread[u]
  BY DEF Moves, All
<1>2. OneEntry' BY DEF OneEntry, SameTable
<1>3. ASSUME NEW e \in Entries, entry'[e].alive, entry'[e].checked_out # None
      PROVE  /\ Owns(entry[e].checked_out)'
             /\ thread'[entry'[e].checked_out].sa = entry'[e].sa
  <2>1. PICK u \in Threads : u = entry[e].checked_out
    BY <1>3 DEF SameTable, Shape, EntryShape
  <2>2. entry'[e].checked_out = u /\ entry[e].alive /\ entry'[e].sa = entry[e].sa
    BY <1>3, <2>1 DEF SameTable
  <2>3. Owns(u) /\ thread[u].sa = entry[e].sa BY <1>3, <2>1, <2>2 DEF OwnersExist
  <2>4. thread'[u].pc \in {"working", "driveout", "driveout_wait", "destroy"}
        /\ thread'[u].sa = entry[e].sa
    BY <1>1, <2>2, <2>3 DEF Owns
  <2> QED BY <2>2, <2>4 DEF Owns
<1> QED BY <1>2, <1>3 DEF OwnersExist

\* Where the threads are after t moved.
LEMMA Others ==
    ASSUME NEW t \in Threads, NEW x, Moves(t, x)
    PROVE  thread'[t] = x /\ \A u \in Threads \ {t} : thread'[u] = thread[u]
BY DEF Moves, All

\* Entry e is written by nobody, and no thread that would wake others there goes.
LEMMA Kept ==
    ASSUME OwnersExist, NEW t \in Threads, NEW x, Moves(t, x),
           NEW e \in Entries, entry[e].alive,
           entry'[e].driveout_threads = entry[e].driveout_threads,
           entry'[e].checked_out = entry[e].checked_out,
           blocked' \subseteq blocked \cup {t},
           \/ thread[t].at # e
           \/ thread[t].pc \notin {"acquire", "wait", "driveout", "driveout_wait"}
           \/ /\ t \notin blocked' /\ x.at = e
              /\ x.pc \in {"wait", "driveout", "driveout_wait"}
           \/ /\ thread[t].pc = "acquire" /\ thread[t].mode # "enum"
              /\ entry[e].driveout_threads,
           thread[t].pc = "working" => thread[t].sa # entry[e].sa,
           Attended(e) \/ Served(e)
    PROVE  Attended(e)' \/ Served(e)'
<1>1. thread'[t] = x /\ \A u \in Threads \ {t} : thread'[u] = thread[u] BY Others
<1>2. ASSUME Attended(e) PROVE Attended(e)'
  <2>1. PICK u \in Threads \ blocked :
          /\ thread[u].at = e
          /\ \/ thread[u].pc \in {"wait", "driveout", "driveout_wait"}
             \/ /\ thread[u].pc = "acquire"
                /\ thread[u].mode = "enum" \/ ~entry[e].driveout_threads
    BY <1>2 DEF Attended
  <2>2. u \in Threads \ blocked' BY <2>1
  <2>3. /\ thread'[u].at = e
        /\ \/ thread'[u].pc \in {"wait", "driveout", "driveout_wait"}
           \/ /\ thread'[u].pc = "acquire"
              /\ thread'[u].mode = "enum" \/ ~entry'[e].driveout_threads
    BY <1>1, <2>1
  <2> QED BY <2>2, <2>3 DEF Attended
<1>3. ASSUME Served(e) PROVE Served(e)'
  <2>1. PICK u \in Threads : thread[u].pc = "working" /\ entry[e].checked_out = u
    BY <1>3 DEF Served
  <2>2. u # None BY ManagerAssumption
  <2>3. thread[u].sa = entry[e].sa BY <2>1, <2>2 DEF OwnersExist
  <2>4. thread'[u] = thread[u] BY <1>1, <2>1, <2>3
  <2> QED BY <1>3, <2>1, <2>4 DEF Served
<1> QED BY <1>2, <1>3

\* A thread is going to look after entry e.
LEMMA Attends ==
    ASSUME NEW u \in Threads, u \notin blocked', NEW e, thread'[u].at = e,
           thread'[u].pc \in {"wait", "driveout", "driveout_wait"}
    PROVE  Attended(e)'
BY DEF Attended

\* A thread that is neither at an entry nor works on one moves, or one that
\* drives others out gets the mutex back.
LEMMA QuietStep ==
    ASSUME Shape, Ownership, Signals, ~draining,
           NEW t \in Threads, NEW x, Moves(t, x), SameTable, UNCHANGED blocked,
           t \notin blocked, thread[t].pc \notin {"acquire", "wait", "driveout"},
           thread[t].pc = "driveout_wait" => x.pc = "driveout" /\ x.at = thread[t].at,
           thread[t].pc = "working" =>
              \A f \in Entries : entry[f].alive => entry[f].sa # thread[t].sa,
           Owns(t) => \/ Owns(t)' /\ x.sa = thread[t].sa
                      \/ \A f \in Entries : entry[f].alive => entry[f].sa # thread[t].sa
    PROVE  SleepersAreAttended' /\ OneEntry' /\ OwnersExist'
<1>1. SleepersAreAttended /\ OneEntry /\ OwnersExist BY DEF Signals
<1>2. OneEntry' /\ OwnersExist' BY <1>1, OwnersStep
<1>3. thread'[t] = x /\ \A u \in Threads \ {t} : thread'[u] = thread[u] BY Others
<1>4. ASSUME NEW b \in blocked'
      PROVE  /\ b \in Threads /\ thread'[b].pc \in {"wait", "driveout_wait"}
             /\ Attended(thread[b].at)' \/ Served(thread[b].at)'
  <2>1. b \in blocked /\ b # t BY <1>4
  <2>2. thread'[b] = thread[b] /\ b \in Threads /\ thread[b].pc \in {"wait", "driveout_wait"}
    BY <1>1, <1>3, <2>1 DEF SleepersAreAttended
  <2>3. PICK e \in Entries : e = thread[b].at /\ entry[e].alive
    BY <1>1, <2>1, SleepersPoint
  <2>4. /\ entry'[e].driveout_threads = entry[e].driveout_threads
        /\ entry'[e].checked_out = entry[e].checked_out
    BY <2>2, <2>3 DEF SameTable
  <2>5. Attended(e) \/ Served(e) BY <1>1, <2>1, <2>3 DEF SleepersAreAttended
  <2>6. Attended(e)' \/ Served(e)' BY <1>1, <2>3, <2>4, <2>5, Kept
  <2>7. thread'[b].at = e BY <2>2, <2>3
  <2> QED BY <2>2, <2>6, <2>7
<1> QED BY <1>2, <1>4 DEF SleepersAreAttended

\* Jobs that start, check_and_put_init_hash(), the check of the limit, a lookup,
\* and the end of the wait in checkin_and_destroy().
LEMMA QuietActions ==
    ASSUME Shape, Ownership, Signals, ~draining, NEW t \in Threads,
           \/ \E m \in Messages : TrackInit(t, m)
           \/ \E h \in Hosts : CreateNew(t, h)
           \/ \E s \in Sas, how \in {"id", "enum"} : StartCheckout(t, s, how)
           \/ CheckAndPutInitHash(t)
           \/ CheckLimit(t)
           \/ Lookup(t)
           \/ ResumeDriveOut(t)
    PROVE  SleepersAreAttended' /\ OneEntry' /\ OwnersExist'
<1>1. /\ UNCHANGED << entry, blocked >>
      /\ thread[t].pc \in {"idle", "init", "create", "lookup", "driveout_wait"}
      /\ thread[t].pc = "driveout_wait" => t \notin blocked /\ Goto(t, "driveout")
  BY DEF TrackInit, CreateNew, StartCheckout, CheckAndPutInitHash, CheckLimit, Lookup,
         ResumeDriveOut, Starts, table
<1>2. t \notin blocked BY <1>1 DEF Signals, SleepersAreAttended
<1>3. SameTable BY <1>1 DEF SameTable
<1>4. Typed /\ t \in All BY WorkerFacts
<1>5. CASE thread[t].pc = "driveout_wait"
  <2> DEFINE x == Now(t, "driveout", thread[t].at, thread[t].sa)
  <2>1. Moves(t, x) BY <1>1, <1>4, <1>5, MoveForms DEF WorkerPc
  <2>2. x.pc = "driveout" /\ x.at = thread[t].at /\ x.sa = thread[t].sa BY DEF Now
  <2> HIDE DEF x
  <2>3. Owns(t)' BY <2>1, <2>2, Others DEF Owns
  <2> QED BY <1>1, <1>2, <1>3, <1>5, <2>1, <2>2, <2>3, QuietStep
<1>6. CASE thread[t].pc # "driveout_wait"
  <2>1. ~Owns(t) /\ thread[t].pc \in {"idle", "init", "create", "lookup"}
    BY <1>1, <1>6 DEF Owns
  <2>2. \E x : Moves(t, x)
    <3>1. \A u \in All \ {t} : thread'[u] = thread[u]
      BY <1>1, <1>4, <1>6
         DEF TrackInit, CreateNew, StartCheckout, CheckAndPutInitHash, CheckLimit, Lookup,
             ResumeDriveOut, Starts, Goto, Return, Typed
    <3>2. Shape' BY StartsStep, InitStep, LookupStep, ResumeDriveOutStep
    <3> QED BY <3>1, <3>2 DEF Moves, Shape, Typed
  <2> QED BY <1>1, <1>2, <1>3, <2>1, <2>2, QuietStep
<1> QED BY <1>5, <1>6

\* An entry is put into the table.
LEMMA PutSignals ==
    ASSUME Shape, Ownership, Signals, ~draining, NEW t \in Threads, NEW x, Moves(t, x),
           NEW s, s = thread[t].sa, IsFresh(t) \/ thread[t].pc = "working",
           \A f \in Entries : entry[f].alive => entry[f].sa # s, UNCHANGED blocked,
           NEW e \in Entries, ~entry[e].alive, NEW out, Writes(e, TRUE, s, out, 0, draining),
           \/ x.pc = "working" /\ x.sa = s /\ out = t
           \/ x.pc = "idle" /\ out = None
    PROVE  SleepersAreAttended' /\ OneEntry' /\ OwnersExist'
<1>1. SleepersAreAttended /\ OneEntry /\ OwnersExist BY DEF Signals
<1>2. thread'[t] = x /\ \A u \in Threads \ {t} : thread'[u] = thread[u] BY Others
<1>3. /\ entry'[e].alive /\ entry'[e].sa = s /\ entry'[e].checked_out = out
      /\ \A f \in Entries \ {e} : entry'[f] = entry[f]
  BY DEF Writes
<1>4. \A f \in Entries : entry[f].alive => entry[f].sa # s OBVIOUS
<1>5. thread[t].pc \in {"create", "put", "new", "working"} BY DEF IsFresh
<1>6. OneEntry' BY <1>1, <1>3, <1>4 DEF OneEntry
<1>7. OwnersExist'
  <2> SUFFICES ASSUME NEW f \in Entries, entry'[f].alive, entry'[f].checked_out # None
               PROVE  /\ Owns(entry[f].checked_out)'
                      /\ thread'[entry'[f].checked_out].sa = entry'[f].sa
    BY DEF OwnersExist
  <2>1. CASE f = e BY <1>2, <1>3, <2>1 DEF Owns
  <2>2. CASE f # e
    <3>1. PICK u \in Threads : u = entry[f].checked_out
      BY <1>3, <2>2 DEF Shape, EntryShape
    <3>2. Owns(u) /\ thread[u].sa = entry[f].sa /\ entry'[f] = entry[f]
      BY <1>1, <1>3, <2>2, <3>1 DEF OwnersExist
    <3>3. u # t /\ thread'[u] = thread[u] BY <1>2, <1>3, <1>4, <2>2, <3>2
    <3> QED BY <3>1, <3>2, <3>3 DEF Owns
  <2> QED BY <2>1, <2>2
<1>8. ASSUME NEW b \in blocked'
      PROVE  /\ b \in Threads /\ thread'[b].pc \in {"wait", "driveout_wait"}
             /\ Attended(thread[b].at)' \/ Served(thread[b].at)'
  <2>1. b \in blocked /\ b \in Threads /\ thread[b].pc \in {"wait", "driveout_wait"}
    BY <1>1, <1>8 DEF SleepersAreAttended
  <2>2. thread'[b] = thread[b] BY <1>2, <1>5, <2>1
  <2>3. PICK f \in Entries : f = thread[b].at /\ entry[f].alive
    BY <1>1, <2>1, SleepersPoint
  <2>4. f # e /\ entry'[f] = entry[f] BY <1>3, <2>3
  <2>5. Attended(f) \/ Served(f) BY <1>1, <2>1, <2>3 DEF SleepersAreAttended
  <2>6. Attended(f)' \/ Served(f)' BY <1>1, <1>4, <1>5, <2>3, <2>4, <2>5, Kept
  <2>7. thread'[b].at = f BY <2>2, <2>3
  <2> QED BY <2>1, <2>2, <2>6, <2>7
<1> QED BY <1>6, <1>7, <1>8 DEF SleepersAreAttended

\* A new IKE_SA is put into the table.
LEMMA PutNewSignals ==
    ASSUME Shape, Ownership, Signals, ~draining, NEW t \in Threads,
           PutInit(t) \/ CheckoutNew(t)
    PROVE  SleepersAreAttended' /\ OneEntry' /\ OwnersExist'
<1> PICK s : s = thread[t].sa OBVIOUS
<1> DEFINE x == Now(t, "working", thread[t].at, s)
<1>1. /\ Typed /\ EntriesTyped /\ t \in All /\ draining \in BOOLEAN
      /\ IsFresh(t) /\ Goto(t, "working") /\ UNCHANGED blocked
  BY WorkerFacts DEF PutInit, CheckoutNew, IsFresh, Shape
<1>2. s \in 1..(nextSpi - 1) BY <1>1 DEF Ownership, OwnersAreSound
<1>3. \A e \in Entries : ~(entry[e].alive /\ entry[e].sa = s)
  BY <1>1 DEF Ownership, OwnersAreSound
<1>4. s \in Entries /\ s \in 0..MaxSas /\ ~entry[s].alive BY <1>2, <1>3, Slots
<1>5. Moves(t, x) BY <1>1, MoveForms DEF WorkerPc
<1>6. x.pc = "working" /\ x.sa = s BY DEF Now
<1>7. Writes(s, TRUE, s, t, 0, draining)
  <2>1. CASE PutInit(t)
    <3>1. thread[t].msg \in Messages BY <2>1 DEF PutInit, Shape
    <3>2. Source[thread[t].msg] \in Hosts BY <3>1, ManagerAssumption
    <3>3. PutEntry(s, NewEntry(s, t, TRUE, Source[thread[t].msg], thread[t].msg))
      BY <2>1 DEF PutInit
    <3> QED BY <1>1, <1>4, <3>1, <3>2, <3>3, PutWrites
  <2>2. CASE CheckoutNew(t)
    <3>1. PutEntry(s, NewEntry(s, t, FALSE, None, None)) BY <2>2 DEF CheckoutNew
    <3> QED BY <1>1, <1>4, <3>1, PutWrites
  <2> QED BY <2>1, <2>2
<1> HIDE DEF x
<1> QED BY <1>1, <1>3, <1>4, <1>5, <1>6, <1>7, PutSignals

\* A checkout leaves the entry it looked at.
LEMMA PassOverSignals ==
    ASSUME Shape, Ownership, Signals, ~draining,
           NEW t \in Threads, thread[t].pc = "acquire", PassOver(t),
           NEW e \in Entries, e = thread[t].at, UNCHANGED << entry, row >>,
           NEW n \in Nat, NEW W \in Signal(e, n), blocked' = blocked \ W,
           n > 0 \/ (thread[t].mode # "enum" /\ entry[e].driveout_threads)
    PROVE  SleepersAreAttended' /\ OneEntry' /\ OwnersExist'
<1>1. SleepersAreAttended /\ OneEntry /\ OwnersExist BY DEF Signals
<1>2. Typed /\ t \in All BY WorkerFacts
<1>3. \E x : Moves(t, x)
  <2>1. CASE Return(t) BY <1>2, <2>1, MoveForms
  <2>2. ASSUME NEW k \in 2..Len(row), thread' = [thread EXCEPT ![t].at = row[k]]
        PROVE  \E x : Moves(t, x)
    <3>1. row[k] \in Entries BY DEF Shape
    <3> QED BY <1>2, <2>2, <3>1, MoveForms
  <2> QED BY <2>1, <2>2 DEF PassOver
<1> PICK x : Moves(t, x) BY <1>3
<1>4. thread'[t] = x /\ \A u \in Threads \ {t} : thread'[u] = thread[u] BY Others
<1>5. SameTable BY DEF SameTable
<1>6. ~Owns(t) BY DEF Owns
<1>7. OneEntry' /\ OwnersExist' BY <1>1, <1>5, <1>6, OwnersStep
<1>8. /\ W \subseteq Sleepers(e) /\ (n > 0 /\ Sleepers(e) # {} => W # {})
  BY <1>1, SignalWakes
<1>9. ASSUME NEW b \in blocked'
      PROVE  /\ b \in Threads /\ thread'[b].pc \in {"wait", "driveout_wait"}
             /\ Attended(thread[b].at)' \/ Served(thread[b].at)'
  <2>1. b \in blocked /\ b \in Threads /\ thread[b].pc \in {"wait", "driveout_wait"}
    BY <1>1, <1>9 DEF SleepersAreAttended
  <2>2. thread'[b] = thread[b] BY <1>4, <2>1
  <2>3. PICK f \in Entries : f = thread[b].at /\ entry[f].alive
    BY <1>1, <2>1, SleepersPoint
  <2>4. Attended(f) \/ Served(f) BY <1>1, <2>1, <2>3 DEF SleepersAreAttended
  <2>5. ASSUME f # e \/ ~(n > 0) PROVE Attended(f)' \/ Served(f)'
    BY <1>1, <2>3, <2>4, <2>5, Kept
  <2>6. ASSUME f = e, n > 0 PROVE Attended(f)' \/ Served(f)'
    <3>1. b \in Sleepers(e) BY <2>1, <2>3, <2>6 DEF Sleepers
    <3>2. PICK w \in W : TRUE BY <1>8, <2>6, <3>1
    <3>3. w \in blocked /\ thread[w].at = e BY <1>8 DEF Sleepers
    <3>4. w \in Threads /\ thread[w].pc \in {"wait", "driveout_wait"}
      BY <1>1, <3>3 DEF SleepersAreAttended
    <3>5. thread'[w] = thread[w] /\ w \notin blocked' BY <1>4, <3>4
    <3> QED BY <2>6, <3>3, <3>4, <3>5, Attends
  <2>7. thread'[b].at = f BY <2>2, <2>3
  <2>8. Attended(f)' \/ Served(f)' BY <2>5, <2>6
  <2> QED BY <2>1, <2>2, <2>7, <2>8
<1> QED BY <1>7, <1>9 DEF SleepersAreAttended

\* An entry that is open and checked out is being worked on.
LEMMA CheckedOutIsServed ==
    ASSUME Shape, Ownership, OneEntry, OwnersExist, NEW e \in Entries, entry[e].alive,
           ~entry[e].driveout_threads, entry[e].checked_out # None
    PROVE  \E u \in Threads : thread[u].pc = "working" /\ entry[e].checked_out = u
<1> PICK u \in Threads : u = entry[e].checked_out BY DEF Shape, EntryShape
<1>1. Owns(u) /\ thread[u].sa = entry[e].sa BY DEF OwnersExist
<1>2. ASSUME thread[u].pc \in {"driveout", "driveout_wait", "destroy"} PROVE FALSE
  <2> PICK g \in Entries : g = thread[u].at BY <1>2 DEF Ownership, PointersAreSound
  <2>1. entry[g].alive /\ entry[g].sa = thread[u].sa /\ entry[g].driveout_threads
    BY <1>2 DEF Ownership, PointersAreSound
  <2>2. g = e BY <1>1, <2>1 DEF OneEntry
  <2> QED BY <2>1, <2>2
<1> QED BY <1>1, <1>2 DEF Owns

\* wait_for_entry()
LEMMA AcquireSignals ==
    ASSUME Shape, Ownership, Signals, ~draining, NEW t \in Threads, Acquire(t)
    PROVE  SleepersAreAttended' /\ OneEntry' /\ OwnersExist'
<1> DEFINE m == thread[t].msg
<1>1. SleepersAreAttended /\ OneEntry /\ OwnersExist BY DEF Signals
<1>2. /\ Typed /\ EntriesTyped /\ t \in All /\ t # None /\ thread[t] \in ThreadType
  BY WorkerFacts
<1>3. thread[t].pc = "acquire" /\ UNCHANGED row /\ ~Owns(t) BY DEF Acquire, Owns
<1> PICK e \in Entries : e = thread[t].at BY <1>3 DEF Ownership, PointersAreSound
<1>4. entry[e].alive /\ (thread[t].mode # "enum" => entry[e].sa = thread[t].sa)
  BY <1>3 DEF Ownership, PointersAreSound
<1>5. ASSUME PassOver(t), UNCHANGED entry, NEW n \in Nat, NEW W \in Signal(e, n),
             blocked' = blocked \ W,
             n > 0 \/ (thread[t].mode # "enum" /\ entry[e].driveout_threads)
      PROVE  SleepersAreAttended' /\ OneEntry' /\ OwnersExist'
  BY <1>3, <1>5, PassOverSignals
<1>6. CASE /\ entry[e].driveout_threads /\ PassOver(t) /\ UNCHANGED entry
           /\ \E W \in Signal(e, EnumSignals(t, 1)) : blocked' = blocked \ W
  <2>1. EnumSignals(t, 1) \in Nat /\ (EnumSignals(t, 1) > 0 \/ thread[t].mode # "enum")
    BY DEF EnumSignals
  <2> QED BY <1>5, <1>6, <2>1
<1>7. CASE /\ thread[t].mode = "enum" /\ PassOver(t) /\ UNCHANGED entry
           /\ \E W \in Signal(e, EnumSignals(t, 2)) : blocked' = blocked \ W
  <2>1. EnumSignals(t, 2) \in Nat /\ EnumSignals(t, 2) > 0 BY <1>7 DEF EnumSignals
  <2> QED BY <1>5, <1>7, <2>1
<1>8. CASE /\ ~entry[e].driveout_threads /\ entry[e].checked_out # None
           /\ entry' = [entry EXCEPT ![e].waiting_threads = entry[e].waiting_threads + 1]
           /\ blocked' = blocked \cup {t}
           /\ Goto(t, "wait")
  <2> DEFINE x == Now(t, "wait", e, thread[t].sa)
  <2>0. entry[e].waiting_threads + 1 \in Int BY <1>2 DEF EntriesTyped, EntryShape
  <2> PICK n \in Int : n = entry[e].waiting_threads + 1 BY <2>0
  <2>1. Moves(t, x) BY <1>2, <1>8, MoveForms DEF WorkerPc
  <2>2. x.pc = "wait" /\ x.at = e BY DEF Now
  <2> HIDE DEF x
  <2>3. Writes(e, entry[e].alive, entry[e].sa, entry[e].checked_out, n,
               entry[e].driveout_threads)
    BY <1>2, <1>8, FieldWrites
  <2>4. SameTable BY <2>3 DEF Writes, SameTable
  <2>5. OneEntry' /\ OwnersExist' BY <1>1, <1>3, <2>1, <2>4, OwnersStep
  <2>6. thread'[t] = x /\ \A u \in Threads \ {t} : thread'[u] = thread[u] BY <2>1, Others
  <2>7. Served(e)'
    <3>1. PICK u \in Threads : thread[u].pc = "working" /\ entry[e].checked_out = u
      BY <1>1, <1>4, <1>8, CheckedOutIsServed
    <3>2. thread'[u] = thread[u] BY <1>3, <2>6, <3>1
    <3>3. entry'[e].checked_out = u /\ ~entry'[e].driveout_threads
      BY <1>8, <2>4, <3>1 DEF SameTable
    <3> QED BY <3>1, <3>2, <3>3 DEF Served
  <2>8. ASSUME NEW b \in blocked'
        PROVE  /\ b \in Threads /\ thread'[b].pc \in {"wait", "driveout_wait"}
               /\ Attended(thread[b].at)' \/ Served(thread[b].at)'
    <3>1. CASE b = t BY <2>2, <2>6, <2>7, <3>1
    <3>2. CASE b # t
      <4>1. b \in blocked /\ b \in Threads /\ thread[b].pc \in {"wait", "driveout_wait"}
        BY <1>1, <1>8, <2>8, <3>2 DEF SleepersAreAttended
      <4>2. thread'[b] = thread[b] BY <2>6, <3>2, <4>1
      <4>3. PICK f \in Entries : f = thread[b].at /\ entry[f].alive
        BY <1>1, <4>1, SleepersPoint
      <4>4. Attended(f) \/ Served(f) BY <1>1, <4>1, <4>3 DEF SleepersAreAttended
      <4>5. /\ entry'[f].driveout_threads = entry[f].driveout_threads
            /\ entry'[f].checked_out = entry[f].checked_out
        BY <2>4 DEF SameTable
      <4>6. ASSUME f # e PROVE Attended(f)' \/ Served(f)'
        BY <1>1, <1>3, <1>8, <2>1, <4>3, <4>4, <4>5, <4>6, Kept
      <4>7. thread'[b].at = f BY <4>2, <4>3
      <4> QED BY <2>7, <4>1, <4>2, <4>6, <4>7
    <3> QED BY <3>1, <3>2
  <2> QED BY <2>5, <2>8 DEF SleepersAreAttended
<1>9. CASE /\ ~entry[e].driveout_threads /\ entry[e].checked_out = None
           /\ thread[t].mode # "enum" \/ entry[e].sa = thread[t].sa
           /\ entry' = [entry EXCEPT ![e].checked_out = t,
                           ![e].processing = IF thread[t].mode = "message" THEN m ELSE @]
           /\ \E W \in Signal(e, EnumSignals(t, 1)) : blocked' = blocked \ W
           /\ Goto(t, "working")
  <2> DEFINE x == Now(t, "working", e, thread[t].sa)
  <2>1. Moves(t, x) BY <1>2, <1>9, MoveForms DEF WorkerPc
  <2>2. x.pc = "working" /\ x.sa = entry[e].sa BY <1>4, <1>9 DEF Now
  <2> HIDE DEF x
  <2>3. m \in Messages \cup {None} BY <1>2 DEF ThreadType
  <2>4. Writes(e, entry[e].alive, entry[e].sa, t, entry[e].waiting_threads,
               entry[e].driveout_threads)
    <3> DEFINE b == thread[t].mode = "message"
    <3>1. entry' = [entry EXCEPT ![e].checked_out = t,
                                 ![e].processing = IF b THEN m ELSE @]
      BY <1>9
    <3> HIDE DEF b, m
    <3>3. e \in Entries OBVIOUS
    <3> QED BY <1>2, <2>3, <3>1, <3>3, CheckoutWrites
  <2>5. /\ entry'[e].alive /\ entry'[e].sa = entry[e].sa /\ entry'[e].checked_out = t
        /\ ~entry'[e].driveout_threads
        /\ \A f \in Entries \ {e} : entry'[f] = entry[f]
    BY <1>4, <1>9, <2>4 DEF Writes
  <2>6. thread'[t] = x /\ \A u \in Threads \ {t} : thread'[u] = thread[u] BY <2>1, Others
  <2>7. Served(e)' BY <2>2, <2>5, <2>6 DEF Served
  <2>8. OneEntry' BY <1>1, <1>4, <2>5 DEF OneEntry
  <2>9. OwnersExist'
    <3> SUFFICES ASSUME NEW f \in Entries, entry'[f].alive, entry'[f].checked_out # None
                 PROVE  /\ Owns(entry[f].checked_out)'
                        /\ thread'[entry'[f].checked_out].sa = entry'[f].sa
      BY DEF OwnersExist
    <3>1. CASE f = e BY <2>2, <2>5, <2>6, <3>1 DEF Owns
    <3>2. CASE f # e
      <4>1. PICK u \in Threads : u = entry[f].checked_out
        BY <2>5, <3>2 DEF Shape, EntryShape
      <4>2. Owns(u) /\ thread[u].sa = entry[f].sa /\ entry'[f] = entry[f]
        BY <1>1, <2>5, <3>2, <4>1 DEF OwnersExist
      <4>3. u # t /\ thread'[u] = thread[u] BY <1>3, <2>6, <4>2
      <4> QED BY <4>1, <4>2, <4>3 DEF Owns
    <3> QED BY <3>1, <3>2
  <2>10. ASSUME NEW b \in blocked'
        PROVE  /\ b \in Threads /\ thread'[b].pc \in {"wait", "driveout_wait"}
               /\ Attended(thread[b].at)' \/ Served(thread[b].at)'
    <3>1. b \in blocked /\ b \in Threads /\ thread[b].pc \in {"wait", "driveout_wait"}
      BY <1>1, <1>9, <2>10 DEF SleepersAreAttended
    <3>2. thread'[b] = thread[b] BY <1>3, <2>6, <3>1
    <3>3. PICK f \in Entries : f = thread[b].at /\ entry[f].alive
      BY <1>1, <3>1, SleepersPoint
    <3>4. Attended(f) \/ Served(f) BY <1>1, <3>1, <3>3 DEF SleepersAreAttended
    <3>5. ASSUME f # e PROVE Attended(f)' \/ Served(f)'
      <4>1. entry'[f] = entry[f] /\ thread[t].pc # "working" BY <1>3, <2>5, <3>5
      <4>2. blocked' \subseteq blocked \cup {t} BY <1>9
      <4> QED BY <1>1, <2>1, <3>3, <3>4, <3>5, <4>1, <4>2, Kept
    <3>6. thread'[b].at = f BY <3>2, <3>3
    <3> QED BY <2>7, <3>1, <3>2, <3>5, <3>6
  <2> QED BY <2>8, <2>9, <2>10 DEF SleepersAreAttended
<1> QED BY <1>6, <1>7, <1>8, <1>9 DEF Acquire

\* What is to be shown of the threads that still sleep.
LEMMA SleepersStep ==
    ASSUME Ownership, SleepersAreAttended, NEW t \in Threads, NEW x, Moves(t, x),
           blocked' \subseteq blocked \cup {t},
           t \in blocked' => /\ x.pc \in {"wait", "driveout_wait"}
                             /\ Attended(thread[t].at)' \/ Served(thread[t].at)',
           \A f \in Entries, b \in Threads \ {t} :
              /\ b \in blocked /\ b \in blocked' /\ thread[b].at = f /\ entry[f].alive
              /\ Attended(f) \/ Served(f)
              => Attended(f)' \/ Served(f)'
    PROVE  SleepersAreAttended'
<1>1. thread'[t] = x /\ \A u \in Threads \ {t} : thread'[u] = thread[u] BY Others
<1>2. ASSUME NEW b \in blocked'
      PROVE  /\ b \in Threads /\ thread'[b].pc \in {"wait", "driveout_wait"}
             /\ Attended(thread[b].at)' \/ Served(thread[b].at)'
  <2>1. CASE b = t BY <1>1, <1>2, <2>1
  <2>2. CASE b # t
    <3>1. b \in blocked /\ b \in Threads /\ thread[b].pc \in {"wait", "driveout_wait"}
      BY <2>2 DEF SleepersAreAttended
    <3>2. PICK f \in Entries : f = thread[b].at /\ entry[f].alive BY <3>1, SleepersPoint
    <3>3. Attended(f) \/ Served(f) BY <3>1, <3>2 DEF SleepersAreAttended
    <3>4. Attended(f)' \/ Served(f)' BY <2>2, <3>1, <3>2, <3>3
    <3>5. thread'[b] = thread[b] /\ thread'[b].at = f BY <1>1, <2>2, <3>1, <3>2
    <3> QED BY <3>1, <3>4, <3>5
  <2> QED BY <2>1, <2>2
<1> QED BY <1>2 DEF SleepersAreAttended

\* A thread that was woken looks after the entry.
LEMMA Woken ==
    ASSUME SleepersAreAttended, NEW t \in Threads, NEW x, Moves(t, x),
           thread[t].pc \in {"wait", "driveout_wait"} => t \notin blocked,
           NEW e, NEW n \in Nat, n > 0, NEW W \in Signal(e, n), blocked' = blocked \ W,
           NEW b \in blocked, thread[b].at = e
    PROVE  Attended(e)'
<1>1. b \in Sleepers(e) BY DEF Sleepers
<1>2. PICK w \in W : TRUE BY <1>1, SignalWakes
<1>3. w \in blocked /\ thread[w].at = e BY SignalWakes DEF Sleepers
<1>4. w \in Threads /\ thread[w].pc \in {"wait", "driveout_wait"}
  BY <1>3 DEF SleepersAreAttended
<1>5. thread'[w] = thread[w] /\ w \notin blocked' BY <1>3, <1>4, Others
<1> QED BY <1>3, <1>4, <1>5, Attends

\* The end of the wait in wait_for_entry().
LEMMA ResumeSignals ==
    ASSUME Shape, Ownership, Signals, ~draining, NEW t \in Threads, Resume(t)
    PROVE  SleepersAreAttended' /\ OneEntry' /\ OwnersExist'
<1>1. SleepersAreAttended /\ OneEntry /\ OwnersExist BY DEF Signals
<1>2. Typed /\ EntriesTyped /\ t \in All BY WorkerFacts
<1> PICK e \in Entries : e = thread[t].at
  BY DEF Resume, Ownership, PointersAreSound
<1>3. entry[e].waiting_threads - 1 \in Int BY <1>2 DEF EntriesTyped, EntryShape
<1> PICK n \in Int : n = entry[e].waiting_threads - 1 BY <1>3
<1> DEFINE x == Now(t, "acquire", e, thread[t].sa)
<1>4. /\ thread[t].pc = "wait" /\ t \notin blocked /\ Goto(t, "acquire")
      /\ entry' = [entry EXCEPT ![e].waiting_threads = n]
  BY DEF Resume
<1> PICK W \in Signal(e, LeaveSignals(e)) : blocked' = blocked \ W BY DEF Resume
<1>5. Moves(t, x) BY <1>2, <1>4, MoveForms DEF WorkerPc
<1>6. x.pc = "acquire" /\ x.at = e BY DEF Now
<1> HIDE DEF x
<1>7. Writes(e, entry[e].alive, entry[e].sa, entry[e].checked_out, n,
             entry[e].driveout_threads)
  BY <1>2, <1>4, FieldWrites
<1>8. SameTable BY <1>7 DEF Writes, SameTable
<1>9. ~Owns(t) BY <1>4 DEF Owns
<1>10. OneEntry' /\ OwnersExist' BY <1>1, <1>5, <1>8, <1>9, OwnersStep
<1>11. thread'[t] = x BY <1>5, Others
<1>12. ASSUME NEW f \in Entries, NEW b \in Threads \ {t}, b \in blocked, b \in blocked',
              thread[b].at = f, entry[f].alive, Attended(f) \/ Served(f)
       PROVE  Attended(f)' \/ Served(f)'
  <2>1. CASE f # e
    <3>1. /\ entry'[f].driveout_threads = entry[f].driveout_threads
          /\ entry'[f].checked_out = entry[f].checked_out
      BY <1>8 DEF SameTable
    <3>2. blocked' \subseteq blocked \cup {t} OBVIOUS
    <3> QED BY <1>1, <1>4, <1>5, <1>12, <2>1, <3>1, <3>2, Kept
  <2>2. CASE f = e /\ entry[e].driveout_threads
    <3>1. LeaveSignals(e) = 1 BY <2>2 DEF LeaveSignals
    <3> QED BY <1>1, <1>4, <1>5, <1>12, <2>2, <3>1, Woken
  <2>3. CASE f = e /\ ~entry[e].driveout_threads
    <3>1. ~entry'[e].driveout_threads BY <1>8, <2>3 DEF SameTable
    <3>2. t \notin blocked' BY <1>4
    <3> QED BY <1>6, <1>11, <2>3, <3>1, <3>2 DEF Attended
  <2> QED BY <2>1, <2>2, <2>3
<1>13. t \notin blocked' /\ blocked' \subseteq blocked \cup {t} BY <1>4
<1>14. SleepersAreAttended' BY <1>1, <1>5, <1>12, <1>13, SleepersStep
<1> QED BY <1>10, <1>14

\* Until flush() closes the table, an IKE_SA that has no entry in the row has
\* none at all.
LEMMA NoEntryLeft ==
    ASSUME Shape, Ownership, ~draining, NEW t \in Threads, Worked(t),
           EntriesOf(thread[t].sa) = {}
    PROVE  \A f \in Entries : entry[f].alive => entry[f].sa # thread[t].sa
<1> SUFFICES ASSUME NEW f \in Entries, entry[f].alive, entry[f].sa = thread[t].sa
             PROVE  FALSE
  OBVIOUS
<1>1. ~InRow(f) BY DEF EntriesOf
<1>2. PICK u \in Threads : thread[u].pc = "destroy" /\ thread[u].at = f
  BY <1>1 DEF Ownership, RowIsSound
<1>3. u # t /\ Owns(u) /\ (Owns(t) \/ IsFresh(t)) BY <1>2 DEF Worked, Owns, IsFresh
<1>4. thread[u].sa = thread[t].sa BY <1>2 DEF Ownership, PointersAreSound
<1> QED BY <1>3, <1>4 DEF Ownership, OwnersAreSound

\* checkin() and checkin_and_destroy() of an entry in the table.
LEMMA ReleaseSignals ==
    ASSUME Shape, Ownership, Signals, ~draining, NEW t \in Threads, Worked(t), Return(t),
           NEW e \in EntriesOf(thread[t].sa),
           Writes(e, entry[e].alive, entry[e].sa, None,
                  entry[e].waiting_threads, entry[e].driveout_threads),
           blocked' \subseteq blocked,
           \A b \in blocked : b \in blocked' /\ thread[b].at = e => Attended(e)'
    PROVE  SleepersAreAttended' /\ OneEntry' /\ OwnersExist'
<1>1. SleepersAreAttended /\ OneEntry /\ OwnersExist BY DEF Signals
<1>2. e \in Entries /\ InRow(e) /\ entry[e].sa = thread[t].sa BY DEF EntriesOf
<1>3. entry[e].alive BY <1>2 DEF Ownership, RowIsSound
<1>4. Moves(t, Idle) BY WorkerFacts, MoveForms
<1>5. thread'[t] = Idle /\ \A u \in Threads \ {t} : thread'[u] = thread[u]
  BY <1>4, Others
<1>6. /\ entry'[e].alive /\ entry'[e].sa = entry[e].sa /\ entry'[e].checked_out = None
      /\ \A f \in Entries \ {e} : entry'[f] = entry[f]
  BY <1>3 DEF Writes
<1>7. OneEntry' BY <1>1, <1>2, <1>3, <1>6 DEF OneEntry
<1>8. OwnersExist'
  <2> SUFFICES ASSUME NEW f \in Entries, entry'[f].alive, entry'[f].checked_out # None
               PROVE  /\ Owns(entry[f].checked_out)'
                      /\ thread'[entry'[f].checked_out].sa = entry'[f].sa
    BY DEF OwnersExist
  <2>1. f # e /\ entry'[f] = entry[f] BY <1>6
  <2>2. PICK u \in Threads : u = entry[f].checked_out BY <2>1 DEF Shape, EntryShape
  <2>3. Owns(u) /\ thread[u].sa = entry[f].sa BY <1>1, <2>1, <2>2 DEF OwnersExist
  <2>4. u # t BY <1>1, <1>2, <1>3, <2>1, <2>3 DEF OneEntry
  <2> QED BY <1>5, <2>1, <2>2, <2>3, <2>4 DEF Owns
<1>9. ASSUME NEW f \in Entries, NEW b \in Threads \ {t}, b \in blocked, b \in blocked',
             thread[b].at = f, entry[f].alive, Attended(f) \/ Served(f)
      PROVE  Attended(f)' \/ Served(f)'
  <2>1. CASE f = e BY <1>9, <2>1
  <2>2. CASE f # e
    <3>1. entry'[f] = entry[f] BY <1>6, <2>2
    <3>2. thread[t].sa # entry[f].sa BY <1>1, <1>2, <1>3, <1>9, <2>2 DEF OneEntry
    <3>3. thread[t].pc \in {"working", "new"} BY DEF Worked
    <3> QED BY <1>1, <1>4, <1>9, <3>1, <3>2, <3>3, Kept
  <2> QED BY <2>1, <2>2
<1>10. t \notin blocked' BY <1>1 DEF SleepersAreAttended, Worked
<1>11. SleepersAreAttended' BY <1>1, <1>4, <1>9, <1>10, SleepersStep
<1> QED BY <1>7, <1>8, <1>11

\* checkin()
LEMMA CheckinSignals ==
    ASSUME Shape, Ownership, Signals, ~draining, NEW t \in Threads,
           NEW st \in State, NEW h \in Hosts, Checkin(t, st, h)
    PROVE  SleepersAreAttended' /\ OneEntry' /\ OwnersExist'
<1> PICK s : s = thread[t].sa OBVIOUS
<1> DEFINE c == st = "CONNECTING"
<1>1. SleepersAreAttended /\ OneEntry /\ OwnersExist BY DEF Signals
<1>2. /\ Worked(t) /\ Return(t) /\ Moves(t, Idle) /\ EntriesTyped
  BY WorkerFacts, MoveForms DEF Checkin
<1>3. thread[t].pc \in {"new", "working"} BY <1>2 DEF Worked
<1>4. ASSUME NEW e \in EntriesOf(s),
             entry' = [entry EXCEPT ![e].checked_out = None,
                             ![e].processing = None, ![e].half_open = c,
                             ![e].other = IF c THEN h ELSE @],
             NEW W \in Signal(e, 1), blocked' = blocked \ W
      PROVE  SleepersAreAttended' /\ OneEntry' /\ OwnersExist'
  <2>1. e \in Entries /\ c \in BOOLEAN BY DEF EntriesOf
  <2> HIDE DEF c
  <2>2. Writes(e, entry[e].alive, entry[e].sa, None,
               entry[e].waiting_threads, entry[e].driveout_threads)
    BY <1>2, <1>4, <2>1, CheckinWrites
  <2>3. ASSUME NEW b \in blocked, thread[b].at = e PROVE Attended(e)'
    BY <1>1, <1>2, <1>3, <1>4, <2>3, Woken
  <2> QED BY <1>2, <1>4, <2>2, <2>3, ReleaseSignals
<1>5. ASSUME EntriesOf(s) = {}, UNCHANGED blocked,
             PutEntry(Twin(s), NewEntry(s, None, c, IF c THEN h ELSE None, None))
      PROVE  SleepersAreAttended' /\ OneEntry' /\ OwnersExist'
  <2>1. \A f \in Entries : entry[f].alive => entry[f].sa # s BY <1>2, <1>5, NoEntryLeft
  <2>2. Owns(t) \/ IsFresh(t) BY <1>3 DEF Owns, IsFresh
  <2>3. s \in 1..(nextSpi - 1) BY <2>2 DEF Ownership, OwnersAreSound
  <2>4. /\ Twin(s) \in Entries /\ s \in 0..MaxSas
        /\ entry[Twin(s)].alive => entry[Twin(s)].sa = s
    BY <2>3, Slots
  <2>5. c \in BOOLEAN /\ (IF c THEN h ELSE None) \in Hosts \cup {None} OBVIOUS
  <2> HIDE DEF c
  <2>6. draining \in BOOLEAN BY DEF Shape
  <2> PICK e \in Entries : e = Twin(s) BY <2>4
  <2>7. Writes(e, TRUE, s, None, 0, draining) BY <1>2, <1>5, <2>4, <2>5, <2>6, PutWrites
  <2>8. ~entry[e].alive BY <2>1, <2>4
  <2>9. IsFresh(t) \/ thread[t].pc = "working"
    BY <1>3 DEF Idle, Job, IsFresh
  <2>10. Idle.pc = "idle" BY DEF Idle, Job
  <2> QED BY <1>2, <1>5, <2>1, <2>7, <2>8, <2>9, <2>10, PutSignals
<1> QED BY <1>4, <1>5 DEF Checkin

\* checkin_and_destroy()
LEMMA CheckinAndDestroySignals ==
    ASSUME Shape, Ownership, Signals, ~draining, NEW t \in Threads, CheckinAndDestroy(t)
    PROVE  SleepersAreAttended' /\ OneEntry' /\ OwnersExist'
<1> PICK s : s = thread[t].sa OBVIOUS
<1>1. SleepersAreAttended /\ OneEntry /\ OwnersExist BY DEF Signals
<1>2. Worked(t) /\ Typed /\ EntriesTyped /\ t \in All
  BY WorkerFacts DEF CheckinAndDestroy
<1>3. thread[t].pc \in {"new", "working"} BY <1>2 DEF Worked
<1>4. t \notin blocked BY <1>1, <1>3 DEF SleepersAreAttended
<1>5. CASE EntriesOf(s) = {} /\ Return(t) /\ UNCHANGED << entry, blocked >>
  <2>1. \A f \in Entries : entry[f].alive => entry[f].sa # s BY <1>2, <1>5, NoEntryLeft
  <2>2. Moves(t, Idle) BY <1>2, <1>5, MoveForms
  <2>3. SameTable BY <1>5 DEF SameTable
  <2> QED BY <1>3, <1>4, <1>5, <2>1, <2>2, <2>3, QuietStep
<1>6. ASSUME NEW e \in EntriesOf(s), Return(t),
             entry' = [entry EXCEPT ![e].checked_out = None],
             blocked' = blocked \ Sleepers(e)
      PROVE  SleepersAreAttended' /\ OneEntry' /\ OwnersExist'
  <2>1. e \in Entries BY DEF EntriesOf
  <2>2. Writes(e, entry[e].alive, entry[e].sa, None,
               entry[e].waiting_threads, entry[e].driveout_threads)
    BY <1>2, <1>6, <2>1, FieldWrites
  <2>3. \A b \in blocked : thread[b].at = e => b \notin blocked' BY <1>6 DEF Sleepers
  <2> QED BY <1>2, <1>6, <2>2, <2>3, ReleaseSignals
<1>7. ASSUME NEW e \in EntriesOf(s), UNCHANGED blocked,
             entry' = [entry EXCEPT ![e].driveout_threads = TRUE],
             thread' = [thread EXCEPT ![t].pc = "driveout", ![t].at = e]
      PROVE  SleepersAreAttended' /\ OneEntry' /\ OwnersExist'
  <2> DEFINE x == Now(t, "driveout", e, s)
  <2>1. e \in Entries /\ InRow(e) /\ entry[e].sa = s BY DEF EntriesOf
  <2>2. entry[e].alive BY <2>1 DEF Ownership, RowIsSound
  <2>3. Moves(t, x) BY <1>2, <1>7, <2>1, MoveForms DEF WorkerPc
  <2>4. x.pc = "driveout" /\ x.at = e /\ x.sa = s BY DEF Now
  <2> HIDE DEF x
  <2>5. thread'[t] = x /\ \A u \in Threads \ {t} : thread'[u] = thread[u] BY <2>3, Others
  <2>6. Writes(e, entry[e].alive, entry[e].sa, entry[e].checked_out,
               entry[e].waiting_threads, TRUE)
    BY <1>2, <1>7, <2>1, FieldWrites
  <2>7. \A f \in Entries : /\ entry'[f].alive = entry[f].alive
                           /\ entry'[f].sa = entry[f].sa
                           /\ entry'[f].checked_out = entry[f].checked_out
                           /\ f # e => entry'[f] = entry[f]
    BY <2>6 DEF Writes
  <2>8. OneEntry' BY <1>1, <2>7 DEF OneEntry
  <2>9. OwnersExist'
    <3> SUFFICES ASSUME NEW f \in Entries, entry'[f].alive, entry'[f].checked_out # None
                 PROVE  /\ Owns(entry[f].checked_out)'
                        /\ thread'[entry'[f].checked_out].sa = entry'[f].sa
      BY DEF OwnersExist
    <3>1. PICK u \in Threads : u = entry[f].checked_out BY <2>7 DEF Shape, EntryShape
    <3>2. Owns(u) /\ thread[u].sa = entry[f].sa BY <1>1, <2>7, <3>1 DEF OwnersExist
    <3>3. thread'[u].pc \in {"working", "driveout", "driveout_wait", "destroy"}
          /\ thread'[u].sa = entry[f].sa
      BY <2>4, <2>5, <3>2 DEF Owns
    <3>4. entry'[f].checked_out = u /\ entry'[f].sa = entry[f].sa BY <2>7, <3>1
    <3> QED BY <3>3, <3>4 DEF Owns
  <2>10. ASSUME NEW f \in Entries, NEW b \in Threads \ {t}, b \in blocked, b \in blocked',
               thread[b].at = f, entry[f].alive, Attended(f) \/ Served(f)
        PROVE  Attended(f)' \/ Served(f)'
    <3>1. CASE f = e BY <1>4, <1>7, <2>4, <2>5, <3>1, Attends
    <3>2. CASE f # e
      <4>1. entry'[f] = entry[f] BY <2>7, <3>2
      <4>2. thread[t].sa # entry[f].sa BY <1>1, <2>1, <2>2, <2>10, <3>2 DEF OneEntry
      <4>3. blocked' \subseteq blocked \cup {t} BY <1>7
      <4> QED BY <1>1, <1>3, <2>3, <2>10, <4>1, <4>2, <4>3, Kept
    <3> QED BY <3>1, <3>2
  <2>11. t \notin blocked' /\ blocked' \subseteq blocked \cup {t} BY <1>4, <1>7
  <2>12. SleepersAreAttended' BY <1>1, <2>3, <2>10, <2>11, SleepersStep
  <2> QED BY <2>8, <2>9, <2>12
<1> QED BY <1>5, <1>6, <1>7 DEF CheckinAndDestroy

\* checkin_and_destroy() waits until nobody waits for the entry.
LEMMA DriveOutSignals ==
    ASSUME Shape, Ownership, Signals, ~draining, NEW t \in Threads, DriveOut(t)
    PROVE  SleepersAreAttended' /\ OneEntry' /\ OwnersExist'
<1>1. SleepersAreAttended /\ OneEntry /\ OwnersExist BY DEF Signals
<1>2. /\ thread[t].pc = "driveout" /\ UNCHANGED entry /\ Typed /\ t \in All
  BY WorkerFacts DEF DriveOut
<1> PICK e \in Entries : e = thread[t].at BY <1>2 DEF Ownership, PointersAreSound
<1>3. entry[e].alive /\ entry[e].sa = thread[t].sa
  BY <1>2 DEF Ownership, PointersAreSound
<1>4. SameTable BY <1>2 DEF SameTable
<1>5. ASSUME NEW label \in {"driveout_wait", "destroy"}, Goto(t, label),
             blocked' \subseteq blocked \cup {t},
             t \in blocked' => label = "driveout_wait" /\ Attended(e)',
             \A b \in Threads \ {t} : b \in blocked /\ b \in blocked' => thread[b].at # e
      PROVE  SleepersAreAttended' /\ OneEntry' /\ OwnersExist'
  <2> DEFINE x == Now(t, label, e, thread[t].sa)
  <2>1. Moves(t, x) BY <1>2, <1>5, MoveForms DEF WorkerPc
  <2>2. x.pc = label /\ x.at = e /\ x.sa = thread[t].sa BY DEF Now
  <2> HIDE DEF x
  <2>3. thread'[t] = x BY <2>1, Others
  <2>4. Owns(t)' BY <2>2, <2>3 DEF Owns
  <2>5. OneEntry' /\ OwnersExist' BY <1>1, <1>4, <2>1, <2>2, <2>4, OwnersStep
  <2>6. ASSUME NEW f \in Entries, NEW b \in Threads \ {t}, b \in blocked, b \in blocked',
               thread[b].at = f, entry[f].alive, Attended(f) \/ Served(f)
        PROVE  Attended(f)' \/ Served(f)'
    <3>1. f # e BY <1>5, <2>6
    <3>2. thread[t].pc # "working" /\ entry'[f] = entry[f] BY <1>2
    <3> QED BY <1>1, <1>5, <2>1, <2>6, <3>1, <3>2, Kept
  <2>7. Attended(e)' => Attended(thread[t].at)' BY <2>2, <2>3
  <2>8. SleepersAreAttended' BY <1>1, <1>5, <2>1, <2>2, <2>6, <2>7, SleepersStep
  <2> QED BY <2>5, <2>8
<1>6. CASE /\ ~NobodyWaits(e) /\ Goto(t, "driveout_wait")
           /\ blocked' = (blocked \ Sleepers(e)) \cup {t}
  <2>1. Waiters(e) # {}
    BY <1>6, FS_EmptySet DEF NobodyWaits, Ownership, EntriesAreSound
  <2>2. PICK u \in Threads : thread[u].pc = "wait" /\ thread[u].at = e
    BY <2>1 DEF Waiters
  <2>3. u # t /\ u \notin blocked' BY <1>2, <1>6, <2>2 DEF Sleepers
  <2>4. thread'[u] = thread[u] BY <1>2, <1>6, <2>3 DEF Goto, Typed, All
  <2>5. Attended(e)' BY <2>2, <2>3, <2>4, Attends
  <2>6. \A b \in Threads \ {t} : b \in blocked /\ b \in blocked' => thread[b].at # e
    BY <1>6 DEF Sleepers
  <2> QED BY <1>5, <1>6, <2>5, <2>6
<1>7. CASE NobodyWaits(e) /\ Goto(t, "destroy") /\ UNCHANGED blocked
  <2>1. \A u \in Threads : thread[u].pc = "wait" => thread[u].at # e
    BY <1>7, NobodyWaitsMeans DEF NobodyWaits
  <2>2. ASSUME NEW b \in Threads \ {t}, b \in blocked PROVE thread[b].at # e
    <3>1. CASE thread[b].pc = "wait" BY <2>1, <3>1
    <3>2. CASE thread[b].pc = "driveout_wait"
      <4>1. Owns(b) /\ Owns(t) BY <1>2, <3>2 DEF Owns
      <4>2. thread[b].sa # thread[t].sa BY <4>1 DEF Ownership, OwnersAreSound
      <4>3. entry[thread[b].at].sa = thread[b].sa
        BY <3>2 DEF Ownership, PointersAreSound
      <4> QED BY <1>3, <4>2, <4>3
    <3> QED BY <1>1, <2>2, <3>1, <3>2 DEF SleepersAreAttended
  <2>3. t \notin blocked' BY <1>1, <1>2, <1>7 DEF SleepersAreAttended
  <2> QED BY <1>5, <1>7, <2>2, <2>3
<1> QED BY <1>6, <1>7 DEF DriveOut

\* The entry is freed.
LEMMA DestroySignals ==
    ASSUME Shape, Ownership, Signals, ~draining, NEW t \in Threads, DestroyEntry(t)
    PROVE  SleepersAreAttended' /\ OneEntry' /\ OwnersExist'
<1>1. SleepersAreAttended /\ OneEntry /\ OwnersExist BY DEF Signals
<1>2. /\ thread[t].pc = "destroy" /\ UNCHANGED blocked /\ Return(t)
      /\ Typed /\ EntriesTyped /\ t \in All
  BY WorkerFacts DEF DestroyEntry
<1> PICK e \in Entries : e = thread[t].at BY <1>2 DEF Ownership, PointersAreSound
<1>3. entry[e].alive /\ entry[e].sa = thread[t].sa
  BY <1>2 DEF Ownership, PointersAreSound
<1>4. Moves(t, Idle) BY <1>2, MoveForms
<1>5. thread'[t] = Idle /\ \A u \in Threads \ {t} : thread'[u] = thread[u]
  BY <1>4, Others
<1>6. Writes(e, FALSE, 0, None, 0, FALSE) BY <1>2, ForgetWrites DEF DestroyEntry
<1>7. ~entry'[e].alive /\ \A f \in Entries \ {e} : entry'[f] = entry[f]
  BY <1>6 DEF Writes
<1>8. OneEntry' BY <1>1, <1>7 DEF OneEntry
<1>9. OwnersExist'
  <2> SUFFICES ASSUME NEW f \in Entries, entry'[f].alive, entry'[f].checked_out # None
               PROVE  /\ Owns(entry[f].checked_out)'
                      /\ thread'[entry'[f].checked_out].sa = entry'[f].sa
    BY DEF OwnersExist
  <2>1. f # e /\ entry'[f] = entry[f] BY <1>7
  <2>2. PICK u \in Threads : u = entry[f].checked_out BY <2>1 DEF Shape, EntryShape
  <2>3. Owns(u) /\ thread[u].sa = entry[f].sa BY <1>1, <2>1, <2>2 DEF OwnersExist
  <2>4. u # t BY <1>1, <1>3, <2>1, <2>3 DEF OneEntry
  <2> QED BY <1>5, <2>1, <2>2, <2>3, <2>4 DEF Owns
<1>10. ASSUME NEW f \in Entries, NEW b \in Threads \ {t}, b \in blocked, b \in blocked',
              thread[b].at = f, entry[f].alive, Attended(f) \/ Served(f)
       PROVE  Attended(f)' \/ Served(f)'
  <2>1. f # e
    <3>1. CASE thread[b].pc = "wait"
      BY <1>2, <1>10, <3>1 DEF Ownership, PointersAreSound
    <3>2. CASE thread[b].pc = "driveout_wait"
      <4>1. Owns(b) /\ Owns(t) BY <1>2, <3>2 DEF Owns
      <4>2. thread[b].sa # thread[t].sa BY <4>1 DEF Ownership, OwnersAreSound
      <4>3. entry[thread[b].at].sa = thread[b].sa
        BY <3>2 DEF Ownership, PointersAreSound
      <4> QED BY <1>3, <1>10, <4>2, <4>3
    <3> QED BY <1>1, <1>10, <3>1, <3>2 DEF SleepersAreAttended
  <2>2. entry'[f] = entry[f] /\ thread[t].pc # "working" BY <1>2, <1>7, <2>1
  <2>3. blocked' \subseteq blocked \cup {t} BY <1>2
  <2> QED BY <1>1, <1>4, <1>10, <2>1, <2>2, <2>3, Kept
<1>11. t \notin blocked' /\ blocked' \subseteq blocked \cup {t}
  BY <1>1, <1>2 DEF SleepersAreAttended
<1>12. SleepersAreAttended' BY <1>1, <1>4, <1>10, <1>11, SleepersStep
<1> QED BY <1>8, <1>9, <1>12

\* Main does not touch the table before flush() closes it.
LEMMA SignalsAlike ==
    ASSUME Signals, ~draining, UNCHANGED << entry, blocked >>,
           \A u \in Threads : thread'[u] = thread[u], Shape
    PROVE  SleepersAreAttended' /\ OneEntry' /\ OwnersExist'
<1>1. SleepersAreAttended /\ OneEntry /\ OwnersExist BY DEF Signals
<1>2. \A e : (Attended(e)' <=> Attended(e)) /\ (Served(e)' <=> Served(e))
  BY DEF Attended, Served
<1>3. SleepersAreAttended'
  <2>1. \A b \in blocked' : b \in blocked /\ b \in Threads /\ thread'[b] = thread[b]
    BY <1>1 DEF SleepersAreAttended
  <2>2. ASSUME NEW b \in blocked'
        PROVE  /\ b \in Threads /\ thread'[b].pc \in {"wait", "driveout_wait"}
               /\ Attended(thread[b].at)' \/ Served(thread[b].at)'
    <3> PICK e : e = thread[b].at OBVIOUS
    <3>1. Attended(e)' \/ Served(e)' BY <1>1, <1>2, <2>1, <2>2 DEF SleepersAreAttended
    <3>2. thread'[b].at = e BY <2>1, <2>2
    <3> QED BY <1>1, <2>1, <2>2, <3>1, <3>2 DEF SleepersAreAttended
  <2> QED BY <2>2 DEF SleepersAreAttended
<1>4. OneEntry' BY <1>1 DEF OneEntry
<1>5. OwnersExist'
  <2> SUFFICES ASSUME NEW f \in Entries, entry'[f].alive, entry'[f].checked_out # None
               PROVE  /\ Owns(entry[f].checked_out)'
                      /\ thread'[entry'[f].checked_out].sa = entry'[f].sa
    BY DEF OwnersExist
  <2>1. PICK u \in Threads : u = entry[f].checked_out BY DEF Shape, EntryShape
  <2>2. Owns(u) /\ thread[u].sa = entry[f].sa BY <1>1, <2>1 DEF OwnersExist
  <2> QED BY <2>1, <2>2 DEF Owns
<1> QED BY <1>3, <1>4, <1>5

\* Every step keeps Signals.
LEMMA SignalsStep == Shape /\ Ownership /\ Signals /\ [Next]_vars => Signals'
<1> SUFFICES ASSUME Shape, Ownership, Signals, [Next]_vars, ~draining'
             PROVE  SleepersAreAttended' /\ OneEntry' /\ OwnersExist'
  BY DEF Signals
<1>1. ~draining
  <2>1. ASSUME NEW t \in Threads, \/ \E m \in Messages : TrackInit(t, m)
                                  \/ \E h \in Hosts : CreateNew(t, h)
                                  \/ \E s \in Sas, how \in {"id", "enum"} :
                                        StartCheckout(t, s, how)
        PROVE  ~draining
    BY <2>1 DEF TrackInit, CreateNew, StartCheckout, globals
  <2>2. ASSUME NEW t \in Threads, Proceeds(t) PROVE ~draining
    BY <2>2 DEF Proceeds, CheckAndPutInitHash, CheckLimit, PutInit, CheckoutNew, Lookup,
                Acquire, Resume, Checkin, CheckinAndDestroy, DriveOut, ResumeDriveOut,
                DestroyEntry, globals
  <2>3. CASE Flushes
    BY <2>3 DEF Flushes, Flush, FlushMark, FlushRow, FlushEntry, FlushResume, globals
  <2>4. CASE UNCHANGED vars BY <2>4 DEF vars, globals
  <2> QED BY <2>1, <2>2, <2>3, <2>4 DEF Next
<1>2. ASSUME NEW t \in Threads, Proceeds(t)
      PROVE  SleepersAreAttended' /\ OneEntry' /\ OwnersExist'
  <2>1. CASE CheckAndPutInitHash(t) \/ CheckLimit(t) \/ Lookup(t) \/ ResumeDriveOut(t)
    BY <1>1, <2>1, QuietActions
  <2>2. CASE PutInit(t) \/ CheckoutNew(t) BY <1>1, <2>2, PutNewSignals
  <2>3. CASE Acquire(t) BY <1>1, <2>3, AcquireSignals
  <2>4. CASE Resume(t) BY <1>1, <2>4, ResumeSignals
  <2>5. CASE \E st \in State, h \in Hosts : Checkin(t, st, h) BY <1>1, <2>5, CheckinSignals
  <2>6. CASE CheckinAndDestroy(t) BY <1>1, <2>6, CheckinAndDestroySignals
  <2>7. CASE DriveOut(t) BY <1>1, <2>7, DriveOutSignals
  <2>8. CASE DestroyEntry(t) BY <1>1, <2>8, DestroySignals
  <2> QED BY <1>2, <2>1, <2>2, <2>3, <2>4, <2>5, <2>6, <2>7, <2>8 DEF Proceeds
<1>3. CASE Flushes
  <2>1. thread[Main].pc \notin {"flush_row", "flush_entry", "flush_wait"}
    BY <1>1 DEF Ownership, FlushIsSound
  <2>2. Flush BY <1>3, <2>1 DEF Flushes, FlushMark, FlushRow, FlushEntry, FlushResume
  <2>3. UNCHANGED << entry, blocked >> /\ \A u \in Threads : thread'[u] = thread[u]
    BY <2>2, ManagerAssumption DEF Flush, Goto, table, Shape, All
  <2> QED BY <1>1, <2>3, SignalsAlike
<1>4. CASE UNCHANGED vars
  <2>1. UNCHANGED << entry, blocked, thread >> BY <1>4 DEF vars, table
  <2> QED BY <1>1, <2>1, SignalsAlike
<1> QED BY <1>1, <1>2, <1>3, <1>4, QuietActions DEF Next

\* No wakeup is lost, for any number of threads and IKE_SAs: the threads that
\* sleep on the condvar of an entry have one that is going to wake them, as long
\* as flush() did not close the table.
THEOREM WakeupsKept == Spec => []NoLostWakeup
<1>1. Init => Signals
  <2> SUFFICES ASSUME Init PROVE SleepersAreAttended /\ OneEntry /\ OwnersExist
    BY DEF Signals
  <2>1. blocked = {} /\ \A e \in Entries : ~entry[e].alive BY DEF Init, NoEntry
  <2> QED BY <2>1 DEF SleepersAreAttended, OneEntry, OwnersExist
<1>2. Ownership /\ Signals => NoLostWakeup
  BY DEF Signals, SleepersAreAttended, Attended, Served, NoLostWakeup
<1>3. Spec => [](Shape /\ Ownership /\ Signals)
  BY <1>1, ShapeInit, OwnershipInit, OwnershipStep, SignalsStep, PTL DEF Spec
<1> QED BY <1>2, <1>3, PTL

-----------------------------------------------------------------------------
(* The init hashes and the counters of half-open IKE_SAs.  The invariants    *)
(* need to know in addition that only entries that are alive hold a hash or  *)
(* are half-open, that those have a host, and that the hash stays with the   *)
(* entry it was created for, and not with one that checkin() creates.        *)

\* The thread is between check_and_put_init_hash() and the insertion.
Hashed(t) == thread[t].pc \in {"create", "put"}

\* Hashes are stored for these entries and threads, and for no others.
HashesAreHeld ==
    /\ \A e \in Entries : entry[e].init_hash # None =>
          /\ entry[e].alive /\ e <= MaxSas
          /\ initHash[entry[e].init_hash] = entry[e].sa
    /\ \A t \in Threads : Hashed(t) => initHash[thread[t].msg] = thread[t].sa
    /\ \A m \in Messages : initHash[m] # 0 =>
          \/ \E e \in Entries : entry[e].init_hash = m
          \/ \E t \in Threads : Hashed(t) /\ thread[t].msg = m

Responders(h) == {e \in HalfOpenEntries(h) : ~sa[entry[e].sa].initiator}

\* Half-open entries are alive and have a host.
HalfOpenIsSound ==
    /\ halfOpen \in [Hosts -> [count : Int, count_responder : Int]]
    /\ sa \in [Sas -> [state : State, initiator : BOOLEAN, other : Hosts \cup {None}]]
    /\ \A e \in Entries : entry[e].half_open => entry[e].alive /\ entry[e].other \in Hosts

Counted ==
    \A h \in Hosts :
       /\ halfOpen[h].count = Cardinality(Tracking(h)) + Cardinality(HalfOpenEntries(h))
       /\ halfOpen[h].count_responder = Cardinality(Tracking(h)) + Cardinality(Responders(h))

Books == HashesAreHeld /\ HalfOpenIsSound /\ Counted

\* The fields of entry f that the books are about.
SameBooks(f) ==
    /\ entry'[f].alive = entry[f].alive /\ entry'[f].sa = entry[f].sa
    /\ entry'[f].half_open = entry[f].half_open /\ entry'[f].other = entry[f].other
    /\ entry'[f].init_hash = entry[f].init_hash

\* Thread u tracks the same message as before, if any.
SameTracking(u) ==
    /\ thread'[u].pc = "init" <=> thread[u].pc = "init"
    /\ Hashed(u)' <=> Hashed(u)
    /\ thread[u].pc \in {"init", "create", "put"} =>
          thread'[u].msg = thread[u].msg /\ thread'[u].sa = thread[u].sa

SameInitiators ==
    \A s \in 1..(nextSpi - 1) : sa'[s].initiator = sa[s].initiator

SaType == [Sas -> [state : State, initiator : BOOLEAN, other : Hosts \cup {None}]]

\* A step that does not touch the books.
LEMMA BooksAlike ==
    ASSUME Shape, Ownership, Books, \A f \in Entries : SameBooks(f),
           \A u \in Threads : SameTracking(u), UNCHANGED << halfOpen, initHash >>,
           sa' \in SaType, SameInitiators
    PROVE  Books'
<1>1. HashesAreHeld'
  <2>1. \A u \in Threads : /\ Hashed(u)' <=> Hashed(u)
                           /\ Hashed(u) => /\ thread'[u].msg = thread[u].msg
                                           /\ thread'[u].sa = thread[u].sa
    BY DEF SameTracking, Hashed
  <2>2. \A e \in Entries : entry'[e].init_hash # None =>
           /\ entry'[e].alive /\ e <= MaxSas
           /\ initHash'[entry'[e].init_hash] = entry'[e].sa
    BY DEF Books, HashesAreHeld, SameBooks
  <2>3. \A t \in Threads : Hashed(t)' => initHash'[thread'[t].msg] = thread'[t].sa
    BY <2>1 DEF Books, HashesAreHeld
  <2>4. ASSUME NEW m \in Messages, initHash'[m] # 0
        PROVE  \/ \E e \in Entries : entry'[e].init_hash = m
               \/ \E t \in Threads : Hashed(t)' /\ thread'[t].msg = m
    <3>1. CASE \E e \in Entries : entry[e].init_hash = m BY <3>1 DEF SameBooks
    <3>2. CASE \E t \in Threads : Hashed(t) /\ thread[t].msg = m BY <2>1, <3>2
    <3> QED BY <2>4, <3>1, <3>2 DEF Books, HashesAreHeld
  <2> QED BY <2>2, <2>3, <2>4 DEF HashesAreHeld
<1>2. HalfOpenIsSound' BY DEF Books, HalfOpenIsSound, SameBooks, SaType
<1>3. ASSUME NEW h \in Hosts
      PROVE  /\ Tracking(h)' = Tracking(h) /\ HalfOpenEntries(h)' = HalfOpenEntries(h)
             /\ Responders(h)' = Responders(h)
  <2>1. Tracking(h)' = Tracking(h)
    <3>1. \A u \in Threads : /\ thread'[u].pc \in {"init", "create", "put"}
                                   <=> thread[u].pc \in {"init", "create", "put"}
                             /\ thread[u].pc \in {"init", "create", "put"}
                                   => thread'[u].msg = thread[u].msg
      BY DEF SameTracking, Hashed
    <3> QED BY <3>1 DEF Tracking
  <2>2. HalfOpenEntries(h)' = HalfOpenEntries(h) BY DEF HalfOpenEntries, SameBooks
  <2>3. \A e \in HalfOpenEntries(h) :
           entry'[e].sa = entry[e].sa /\ sa'[entry[e].sa].initiator = sa[entry[e].sa].initiator
    BY DEF HalfOpenEntries, Books, HalfOpenIsSound, Ownership, EntriesAreSound, SameBooks,
           SameInitiators
  <2>4. Responders(h)' = Responders(h) BY <2>2, <2>3 DEF Responders
  <2> QED BY <2>1, <2>2, <2>4
<1>4. Counted' BY <1>3 DEF Books, Counted
<1> QED BY <1>1, <1>2, <1>4 DEF Books

\* The fields of the table itself are written without touching the books.
LEMMA FieldBooks ==
    ASSUME EntriesTyped, NEW e \in Entries
    PROVE  /\ \A t \in Threads \cup {None} :
                 entry' = [entry EXCEPT ![e].checked_out = t]
                    => \A f \in Entries : SameBooks(f)
           /\ \A n \in Int :
                 entry' = [entry EXCEPT ![e].waiting_threads = n]
                    => \A f \in Entries : SameBooks(f)
           /\ entry' = [entry EXCEPT ![e].driveout_threads = TRUE]
                 => \A f \in Entries : SameBooks(f)
           /\ \A t \in Threads \cup {None}, m \in Messages \cup {None}, b \in BOOLEAN :
                 entry' = [entry EXCEPT ![e].checked_out = t,
                                        ![e].processing = IF b THEN m ELSE @]
                    => \A f \in Entries : SameBooks(f)
<1>1. ASSUME NEW t \in Threads \cup {None}, entry' = [entry EXCEPT ![e].checked_out = t]
      PROVE  \A f \in Entries : SameBooks(f)
  BY <1>1 DEF EntriesTyped, SameBooks, EntryShape
<1>2. ASSUME NEW n \in Int, entry' = [entry EXCEPT ![e].waiting_threads = n]
      PROVE  \A f \in Entries : SameBooks(f)
  BY <1>2 DEF EntriesTyped, SameBooks, EntryShape
<1>3. ASSUME entry' = [entry EXCEPT ![e].driveout_threads = TRUE]
      PROVE  \A f \in Entries : SameBooks(f)
  BY <1>3 DEF EntriesTyped, SameBooks, EntryShape
<1>4. ASSUME NEW t \in Threads \cup {None}, NEW m \in Messages \cup {None}, NEW b \in BOOLEAN,
             entry' = [entry EXCEPT ![e].checked_out = t,
                                    ![e].processing = IF b THEN m ELSE @]
      PROVE  \A f \in Entries : SameBooks(f)
  <2> DEFINE E == [entry EXCEPT ![e].checked_out = t]
             v == IF b THEN m ELSE E[e].processing
             F == [E EXCEPT ![e].processing = v]
  <2>1. entry' = F BY <1>4
  <2>2. /\ E \in [Entries -> EntryShape]
        /\ \A f \in Entries \ {e} : E[f] = entry[f]
        /\ E[e].alive = entry[e].alive /\ E[e].sa = entry[e].sa
        /\ E[e].half_open = entry[e].half_open /\ E[e].other = entry[e].other
        /\ E[e].init_hash = entry[e].init_hash
    BY DEF EntriesTyped, EntryShape
  <2> HIDE DEF E
  <2>3. v \in Messages \cup {None} BY <2>2 DEF EntryShape
  <2> HIDE DEF v
  <2>4. /\ \A f \in Entries \ {e} : F[f] = E[f]
        /\ F[e].alive = E[e].alive /\ F[e].sa = E[e].sa
        /\ F[e].half_open = E[e].half_open /\ F[e].other = E[e].other
        /\ F[e].init_hash = E[e].init_hash
    BY <2>2, <2>3 DEF EntryShape
  <2> HIDE DEF F
  <2> QED BY <2>1, <2>2, <2>4 DEF SameBooks
<1> QED BY <1>1, <1>2, <1>3, <1>4

\* FlushMark closes entries.
LEMMA MarkBooks ==
    ASSUME Shape, FlushMark
    PROVE  \A f \in Entries : SameBooks(f)
<1> SUFFICES ASSUME NEW f \in Entries PROVE SameBooks(f) OBVIOUS
<1> DEFINE b == entry[f].driveout_threads \/ InRow(f)
<1>1. entry[f] \in EntryShape BY DEF Shape
<1>2. entry'[f] = [entry[f] EXCEPT !.driveout_threads = b] BY DEF FlushMark
<1>3. b \in BOOLEAN OBVIOUS
<1> HIDE DEF b
<1> QED BY <1>1, <1>2, <1>3 DEF EntryShape, SameBooks

\* A thread that tracks no message moves, and tracks none then.
LEMMA SameTracks ==
    ASSUME NEW t \in Threads, thread[t].pc \notin {"init", "create", "put"},
           \A u \in Threads \ {t} : thread'[u] = thread[u],
           thread'[t].pc \notin {"init", "create", "put"}
    PROVE  \A u \in Threads : SameTracking(u)
BY DEF SameTracking, Hashed

\* Checkouts, and checkin_and_destroy() up to where the entry is freed.
LEMMA CheckoutBooks ==
    ASSUME Shape, Ownership, Books, NEW t \in Threads,
           \/ \E s \in Sas, how \in {"id", "enum"} : StartCheckout(t, s, how)
           \/ Lookup(t) \/ Acquire(t) \/ Resume(t) \/ CheckinAndDestroy(t)
           \/ DriveOut(t) \/ ResumeDriveOut(t)
    PROVE  Books'
<1>1. Typed /\ EntriesTyped /\ t \in All /\ thread[t] \in ThreadType BY WorkerFacts
<1>2. UNCHANGED << halfOpen, initHash, sa >>
  BY DEF StartCheckout, Lookup, Acquire, Resume, CheckinAndDestroy, DriveOut,
         ResumeDriveOut, globals
<1>3. sa' \in SaType /\ SameInitiators
  BY <1>2 DEF Books, HalfOpenIsSound, SaType, SameInitiators
<1>4. thread[t].pc \notin {"init", "create", "put"}
  BY DEF StartCheckout, Lookup, Acquire, Resume, CheckinAndDestroy, DriveOut,
         ResumeDriveOut, Starts, Worked
<1>5. \A u \in Threads : u \in All BY Values
<1>6. /\ \A u \in Threads \ {t} : thread'[u] = thread[u]
      /\ thread'[t].pc \notin {"init", "create", "put"}
  <2>1. CASE \E s \in Sas, how \in {"id", "enum"} : StartCheckout(t, s, how)
    BY <1>1, <1>5, <2>1 DEF StartCheckout, Starts, Job, Typed
  <2>2. ASSUME Goto(t, "wait") \/ Goto(t, "working") \/ Goto(t, "acquire")
               \/ Goto(t, "driveout") \/ Goto(t, "driveout_wait") \/ Goto(t, "destroy")
        PROVE  /\ \A u \in Threads \ {t} : thread'[u] = thread[u]
               /\ thread'[t].pc \notin {"init", "create", "put"}
    BY <1>1, <1>5, <2>2 DEF Goto, Typed, ThreadType
  <2>3. ASSUME Return(t)
        PROVE  /\ \A u \in Threads \ {t} : thread'[u] = thread[u]
               /\ thread'[t].pc \notin {"init", "create", "put"}
    BY <1>1, <1>5, <2>3 DEF Return, Idle, Job, Typed
  <2>4. ASSUME NEW e, \/ thread' = [thread EXCEPT ![t].pc = "acquire", ![t].at = e]
                      \/ thread' = [thread EXCEPT ![t].pc = "driveout", ![t].at = e]
        PROVE  /\ \A u \in Threads \ {t} : thread'[u] = thread[u]
               /\ thread'[t].pc \notin {"init", "create", "put"}
    BY <1>1, <1>5, <2>4 DEF Typed, ThreadType
  <2>5. ASSUME NEW e, thread' = [thread EXCEPT ![t].at = e]
        PROVE  /\ \A u \in Threads \ {t} : thread'[u] = thread[u]
               /\ thread'[t].pc \notin {"init", "create", "put"}
    BY <1>1, <1>4, <1>5, <2>5 DEF Typed, ThreadType
  <2>6. CASE Lookup(t) BY <2>3, <2>4, <2>6 DEF Lookup
  <2>7. CASE Acquire(t) BY <2>2, <2>3, <2>5, <2>7, SMTT(30) DEF Acquire, PassOver
  <2>8. CASE Resume(t) BY <2>2, <2>8 DEF Resume
  <2>9. CASE CheckinAndDestroy(t) BY <2>3, <2>4, <2>9 DEF CheckinAndDestroy
  <2>10. CASE DriveOut(t) BY <2>2, <2>10 DEF DriveOut
  <2>11. CASE ResumeDriveOut(t) BY <2>2, <2>11 DEF ResumeDriveOut
  <2> QED BY <2>1, <2>6, <2>7, <2>8, <2>9, <2>10, <2>11
<1>7. \A f \in Entries : SameBooks(f)
  <2>1. ASSUME UNCHANGED entry PROVE \A f \in Entries : SameBooks(f)
    BY <2>1 DEF SameBooks
  <2>2. CASE Acquire(t)
    <3>1. thread[t].pc = "acquire" BY <2>2 DEF Acquire
    <3> PICK e \in Entries : e = thread[t].at BY <3>1 DEF Ownership, PointersAreSound
    <3>2. entry[e].waiting_threads + 1 \in Int BY <1>1 DEF EntriesTyped, EntryShape
    <3> PICK n \in Int : n = entry[e].waiting_threads + 1 BY <3>2
    <3> PICK m \in Messages \cup {None} : m = thread[t].msg BY <1>1 DEF ThreadType
    <3> PICK b \in BOOLEAN : b = (thread[t].mode = "message") OBVIOUS
    <3>3. \/ UNCHANGED entry
          \/ entry' = [entry EXCEPT ![e].waiting_threads = n]
          \/ entry' = [entry EXCEPT ![e].checked_out = t,
                                    ![e].processing = IF b THEN m ELSE @]
      BY <2>2 DEF Acquire
    <3> QED BY <1>1, <2>1, <3>3, FieldBooks
  <2>3. CASE Resume(t)
    <3>1. thread[t].pc = "wait" BY <2>3 DEF Resume
    <3> PICK e \in Entries : e = thread[t].at BY <3>1 DEF Ownership, PointersAreSound
    <3>2. entry[e].waiting_threads - 1 \in Int BY <1>1 DEF EntriesTyped, EntryShape
    <3> PICK n \in Int : n = entry[e].waiting_threads - 1 BY <3>2
    <3>3. entry' = [entry EXCEPT ![e].waiting_threads = n] BY <2>3 DEF Resume
    <3> QED BY <1>1, <3>3, FieldBooks
  <2>4. CASE CheckinAndDestroy(t)
    <3>1. ASSUME NEW e \in EntriesOf(thread[t].sa),
                 \/ entry' = [entry EXCEPT ![e].checked_out = None]
                 \/ entry' = [entry EXCEPT ![e].driveout_threads = TRUE]
          PROVE  \A f \in Entries : SameBooks(f)
      <4>1. e \in Entries BY DEF EntriesOf
      <4> QED BY <1>1, <3>1, <4>1, FieldBooks
    <3> QED BY <2>1, <2>4, <3>1 DEF CheckinAndDestroy
  <2>5. CASE (\E s \in Sas, how \in {"id", "enum"} : StartCheckout(t, s, how))
             \/ Lookup(t) \/ DriveOut(t) \/ ResumeDriveOut(t)
    BY <2>1, <2>5 DEF StartCheckout, Lookup, DriveOut, ResumeDriveOut, table
  <2> QED BY <2>2, <2>3, <2>4, <2>5
<1>8. \A u \in Threads : SameTracking(u) BY <1>4, <1>6, SameTracks
<1> QED BY <1>2, <1>3, <1>7, <1>8, BooksAlike

\* 1 if the condition holds.
One(b) == IF b THEN 1 ELSE 0

\* Counting the members of a set but for one.
LEMMA CountBut ==
    ASSUME NEW S, IsFiniteSet(S), NEW x
    PROVE  /\ Cardinality(S) = Cardinality(S \ {x}) + One(x \in S)
           /\ Cardinality(S \ {x}) \in Nat
<1>1. CASE x \in S
  <2>1. /\ IsFiniteSet(S \ {x}) /\ Cardinality(S \ {x}) = Cardinality(S) - 1
    BY <1>1, FS_RemoveElement
  <2> QED BY <1>1, <2>1, FS_CardinalityType DEF One
<1>2. CASE x \notin S
  <2>1. S \ {x} = S /\ One(x \in S) = 0 BY <1>2 DEF One
  <2>2. Cardinality(S) \in Nat BY FS_CardinalityType
  <2> QED BY <2>1, <2>2
<1> QED BY <1>1, <1>2

\* The sets that are counted are finite.
LEMMA BooksFinite ==
    /\ \A h : /\ IsFiniteSet(Tracking(h)) /\ Cardinality(Tracking(h)) \in Nat
              /\ IsFiniteSet(HalfOpenEntries(h)) /\ Cardinality(HalfOpenEntries(h)) \in Nat
              /\ IsFiniteSet(Responders(h)) /\ Cardinality(Responders(h)) \in Nat
    /\ \A h : /\ IsFiniteSet(Tracking(h)')
              /\ IsFiniteSet(HalfOpenEntries(h)')
              /\ IsFiniteSet(Responders(h)')
<1>1. IsFiniteSet(Entries) BY FS_Interval, ManagerAssumption DEF Entries
<1>2. \A h : /\ Tracking(h) \in SUBSET Threads /\ HalfOpenEntries(h) \in SUBSET Entries
             /\ Responders(h) \in SUBSET Entries
             /\ Tracking(h)' \in SUBSET Threads /\ HalfOpenEntries(h)' \in SUBSET Entries
             /\ Responders(h)' \in SUBSET Entries
  BY DEF Tracking, HalfOpenEntries, Responders
<1>3. \A S \in SUBSET Threads : IsFiniteSet(S) /\ Cardinality(S) \in Nat
  BY FS_Subset, FS_CardinalityType, ManagerAssumption
<1>4. \A S \in SUBSET Entries : IsFiniteSet(S) /\ Cardinality(S) \in Nat
  BY <1>1, FS_Subset, FS_CardinalityType
<1> QED BY <1>2, <1>3, <1>4

\* The counters change by what thread t and entry e contribute.
LEMMA Balance ==
    ASSUME Shape, Ownership, Books, HalfOpenIsSound', NEW t, NEW e,
           \A f \in Entries \ {e} : SameBooks(f),
           \A u \in Threads \ {t} : SameTracking(u),
           \A f \in Entries \ {e} :
              entry[f].alive => sa'[entry[f].sa].initiator = sa[entry[f].sa].initiator,
           \A h \in Hosts :
              /\ halfOpen'[h].count + One(t \in Tracking(h)) + One(e \in HalfOpenEntries(h))
                    = halfOpen[h].count + One(t \in Tracking(h)')
                                        + One(e \in HalfOpenEntries(h)')
              /\ halfOpen'[h].count_responder + One(t \in Tracking(h))
                                              + One(e \in Responders(h))
                    = halfOpen[h].count_responder + One(t \in Tracking(h)')
                                                  + One(e \in Responders(h)')
    PROVE  Counted'
<1> SUFFICES ASSUME NEW h \in Hosts
             PROVE  /\ halfOpen'[h].count = Cardinality(Tracking(h)')
                                            + Cardinality(HalfOpenEntries(h)')
                    /\ halfOpen'[h].count_responder = Cardinality(Tracking(h)')
                                                      + Cardinality(Responders(h)')
  BY DEF Counted
<1>1. Tracking(h)' \ {t} = Tracking(h) \ {t}
  <2>1. \A u \in Threads \ {t} : /\ thread'[u].pc \in {"init", "create", "put"}
                                        <=> thread[u].pc \in {"init", "create", "put"}
                                 /\ thread[u].pc \in {"init", "create", "put"}
                                        => thread'[u].msg = thread[u].msg
    BY DEF SameTracking, Hashed
  <2> QED BY <2>1 DEF Tracking
<1>2. HalfOpenEntries(h)' \ {e} = HalfOpenEntries(h) \ {e}
  BY DEF HalfOpenEntries, SameBooks
<1>3. Responders(h)' \ {e} = Responders(h) \ {e}
  <2>1. \A f \in HalfOpenEntries(h) \ {e} :
           /\ entry'[f].sa = entry[f].sa
           /\ sa'[entry[f].sa].initiator = sa[entry[f].sa].initiator
    BY DEF HalfOpenEntries, Books, HalfOpenIsSound, SameBooks
  <2> QED BY <1>2, <2>1 DEF Responders
<1>4. /\ Cardinality(Tracking(h)) = Cardinality(Tracking(h) \ {t}) + One(t \in Tracking(h))
      /\ Cardinality(Tracking(h)') = Cardinality(Tracking(h) \ {t}) + One(t \in Tracking(h)')
      /\ Cardinality(Tracking(h) \ {t}) \in Nat
  BY <1>1, BooksFinite, CountBut
<1>5. /\ Cardinality(HalfOpenEntries(h)) = Cardinality(HalfOpenEntries(h) \ {e})
                                           + One(e \in HalfOpenEntries(h))
      /\ Cardinality(HalfOpenEntries(h)') = Cardinality(HalfOpenEntries(h) \ {e})
                                            + One(e \in HalfOpenEntries(h)')
      /\ Cardinality(HalfOpenEntries(h) \ {e}) \in Nat
  BY <1>2, BooksFinite, CountBut
<1>6. /\ Cardinality(Responders(h)) = Cardinality(Responders(h) \ {e})
                                      + One(e \in Responders(h))
      /\ Cardinality(Responders(h)') = Cardinality(Responders(h) \ {e})
                                       + One(e \in Responders(h)')
      /\ Cardinality(Responders(h) \ {e}) \in Nat
  BY <1>3, BooksFinite, CountBut
<1>7. \A b : One(b) \in Nat BY DEF One
<1>8. /\ halfOpen[h].count \in Int /\ halfOpen[h].count_responder \in Int
      /\ halfOpen'[h].count \in Int /\ halfOpen'[h].count_responder \in Int
  BY DEF Books, HalfOpenIsSound
<1>9. /\ halfOpen[h].count = Cardinality(Tracking(h)) + Cardinality(HalfOpenEntries(h))
      /\ halfOpen[h].count_responder = Cardinality(Tracking(h)) + Cardinality(Responders(h))
  BY DEF Books, Counted
<1>10. /\ halfOpen'[h].count + One(t \in Tracking(h)) + One(e \in HalfOpenEntries(h))
             = halfOpen[h].count + One(t \in Tracking(h)') + One(e \in HalfOpenEntries(h)')
       /\ halfOpen'[h].count_responder + One(t \in Tracking(h)) + One(e \in Responders(h))
             = halfOpen[h].count_responder + One(t \in Tracking(h)')
                                           + One(e \in Responders(h)')
  OBVIOUS
<1> DEFINE a == One(t \in Tracking(h))
           b == One(t \in Tracking(h)')
           c == One(e \in HalfOpenEntries(h))
           d == One(e \in HalfOpenEntries(h)')
           p == One(e \in Responders(h))
           q == One(e \in Responders(h)')
<1>11. a \in Nat /\ b \in Nat /\ c \in Nat /\ d \in Nat /\ p \in Nat /\ q \in Nat
  BY <1>7
<1>12. halfOpen'[h].count = Cardinality(Tracking(h)') + Cardinality(HalfOpenEntries(h)')
  <2>1. /\ halfOpen'[h].count + a + c = halfOpen[h].count + b + d
        /\ Cardinality(Tracking(h)) = Cardinality(Tracking(h) \ {t}) + a
        /\ Cardinality(Tracking(h)') = Cardinality(Tracking(h) \ {t}) + b
        /\ Cardinality(HalfOpenEntries(h)) = Cardinality(HalfOpenEntries(h) \ {e}) + c
        /\ Cardinality(HalfOpenEntries(h)') = Cardinality(HalfOpenEntries(h) \ {e}) + d
    BY <1>4, <1>5, <1>10
  <2>2. /\ Cardinality(Tracking(h) \ {t}) \in Nat
        /\ Cardinality(HalfOpenEntries(h) \ {e}) \in Nat
    BY <1>4, <1>5
  <2> HIDE DEF a, b, c, d
  <2> QED BY <1>8, <1>9, <1>11, <2>1, <2>2
<1>13. halfOpen'[h].count_responder = Cardinality(Tracking(h)') + Cardinality(Responders(h)')
  <2>1. /\ halfOpen'[h].count_responder + a + p = halfOpen[h].count_responder + b + q
        /\ Cardinality(Tracking(h)) = Cardinality(Tracking(h) \ {t}) + a
        /\ Cardinality(Tracking(h)') = Cardinality(Tracking(h) \ {t}) + b
        /\ Cardinality(Responders(h)) = Cardinality(Responders(h) \ {e}) + p
        /\ Cardinality(Responders(h)') = Cardinality(Responders(h) \ {e}) + q
    BY <1>4, <1>6, <1>10
  <2>2. /\ Cardinality(Tracking(h) \ {t}) \in Nat
        /\ Cardinality(Responders(h) \ {e}) \in Nat
    BY <1>4, <1>6
  <2> HIDE DEF a, b, p, q
  <2> QED BY <1>8, <1>9, <1>11, <2>1, <2>2
<1> QED BY <1>12, <1>13

CountersType == [Hosts -> [count : Int, count_responder : Int]]

\* The counters of host h change by v, those of responders if b is true.
Counts(c, d, h, v, b) ==
    /\ d \in CountersType
    /\ \A g \in Hosts \ {h} : d[g] = c[g]
    /\ d[h].count = c[h].count + v
    /\ b => d[h].count_responder = c[h].count_responder + v
    /\ ~b => d[h].count_responder = c[h].count_responder

\* put_half_open() and remove_half_open(), unless there is nothing to remove.
LEMMA CounterForms ==
    ASSUME NEW c \in CountersType, NEW h \in Hosts, NEW i \in BOOLEAN
    PROVE  /\ Counts(c, PutHalfOpen(c, h, i), h, 1, ~i)
           /\ RemoveHalfOpen(c, h, i) \in CountersType
           /\ c[h].count # 0 => Counts(c, RemoveHalfOpen(c, h, i), h, -1, ~i)
<1>1. ASSUME NEW v \in {1, -1}, NEW d,
             d = [c EXCEPT ![h].count = @ + v,
                           ![h].count_responder = IF i THEN @ ELSE @ + v]
      PROVE  Counts(c, d, h, v, ~i)
  <2> DEFINE k == [c EXCEPT ![h].count = @ + v]
             w == IF i THEN k[h].count_responder ELSE k[h].count_responder + v
  <2>1. d = [k EXCEPT ![h].count_responder = w] BY <1>1
  <2>2. /\ k \in CountersType
        /\ \A g \in Hosts \ {h} : k[g] = c[g]
        /\ k[h].count = c[h].count + v
        /\ k[h].count_responder = c[h].count_responder
    BY DEF CountersType
  <2> HIDE DEF k
  <2>3. w \in Int BY <2>2 DEF CountersType
  <2>4. /\ d \in CountersType
        /\ \A g \in Hosts \ {h} : d[g] = k[g]
        /\ d[h].count = k[h].count
        /\ d[h].count_responder = w
    <3> HIDE DEF w
    <3> QED BY <2>1, <2>2, <2>3 DEF CountersType
  <2> QED BY <2>2, <2>4 DEF Counts
<1>2. Counts(c, PutHalfOpen(c, h, i), h, 1, ~i) BY <1>1 DEF PutHalfOpen
<1>3. /\ RemoveHalfOpen(c, h, i) \in CountersType
      /\ c[h].count # 0 => Counts(c, RemoveHalfOpen(c, h, i), h, -1, ~i)
  <2> DEFINE d == [c EXCEPT ![h].count = @ + (-1),
                            ![h].count_responder = IF i THEN @ ELSE @ + (-1)]
  <2>1. Counts(c, d, h, -1, ~i) BY <1>1
  <2>2. RemoveHalfOpen(c, h, i) = IF c[h].count = 0 THEN c ELSE d
    BY DEF RemoveHalfOpen, CountersType
  <2> HIDE DEF d
  <2> QED BY <2>1, <2>2 DEF Counts
<1> QED BY <1>2, <1>3

\* The hashes are held by the same entries and threads as before.
LEMMA HashesKept ==
    ASSUME HashesAreHeld, UNCHANGED initHash,
           \A f \in Entries :
              /\ entry'[f].init_hash = entry[f].init_hash
              /\ entry[f].init_hash # None => /\ entry'[f].alive = entry[f].alive
                                              /\ entry'[f].sa = entry[f].sa,
           \A u \in Threads : /\ Hashed(u)' <=> Hashed(u)
                              /\ Hashed(u) => /\ thread'[u].msg = thread[u].msg
                                              /\ thread'[u].sa = thread[u].sa
    PROVE  HashesAreHeld'
<1>1. \A e \in Entries : entry'[e].init_hash # None =>
         /\ entry'[e].alive /\ e <= MaxSas
         /\ initHash'[entry'[e].init_hash] = entry'[e].sa
  BY DEF HashesAreHeld
<1>2. \A t \in Threads : Hashed(t)' => initHash'[thread'[t].msg] = thread'[t].sa
  BY DEF HashesAreHeld
<1>3. ASSUME NEW m \in Messages, initHash'[m] # 0
      PROVE  \/ \E e \in Entries : entry'[e].init_hash = m
             \/ \E t \in Threads : Hashed(t)' /\ thread'[t].msg = m
  <2>1. CASE \E e \in Entries : entry[e].init_hash = m BY <2>1
  <2>2. CASE \E t \in Threads : Hashed(t) /\ thread[t].msg = m BY <2>2
  <2> QED BY <1>3, <2>1, <2>2 DEF HashesAreHeld
<1> QED BY <1>1, <1>2, <1>3 DEF HashesAreHeld

\* The hash of a message m whose IKE_SA s is fresh is held by thread t alone.
LEMMA FreshHash ==
    ASSUME Shape, Ownership, HashesAreHeld, NEW t \in Threads, Hashed(t)
    PROVE  /\ thread[t].msg \in Messages /\ thread[t].sa \in 1..(nextSpi - 1)
           /\ initHash[thread[t].msg] = thread[t].sa
           /\ \A e \in Entries : entry[e].init_hash # thread[t].msg
           /\ \A u \in Threads \ {t} : Hashed(u) => thread[u].msg # thread[t].msg
<1>1. IsFresh(t) /\ thread[t].pc \in {"create", "put"} BY DEF Hashed, IsFresh
<1>2. thread[t].msg \in Messages /\ thread[t].sa \in 1..(nextSpi - 1)
  BY <1>1 DEF Shape, Ownership, OwnersAreSound
<1>3. initHash[thread[t].msg] = thread[t].sa BY DEF HashesAreHeld
<1>4. \A e \in Entries : entry[e].alive => entry[e].sa # thread[t].sa
  BY <1>1 DEF Ownership, OwnersAreSound
<1>5. \A e \in Entries : entry[e].init_hash # thread[t].msg
  BY <1>2, <1>3, <1>4, ManagerAssumption DEF HashesAreHeld
<1>6. \A u \in Threads \ {t} : Hashed(u) => IsFresh(u) BY DEF Hashed, IsFresh
<1>7. \A u \in Threads \ {t} : IsFresh(u) => thread[u].sa # thread[t].sa
  BY <1>1 DEF Ownership, OwnersAreSound
<1>8. \A u \in Threads \ {t} : Hashed(u) => thread[u].msg # thread[t].msg
  BY <1>3, <1>6, <1>7 DEF HashesAreHeld
<1> QED BY <1>2, <1>3, <1>5, <1>8

\* A thread starts to track a message, does so further, or ceases to.
LEMMA TrackingBooks ==
    ASSUME Shape, Ownership, Books, NEW t \in Threads, NEW h \in Hosts,
           UNCHANGED << entry, sa >>, \A u \in Threads \ {t} : thread'[u] = thread[u],
           \A g \in Hosts : t \in Tracking(g) \/ t \in Tracking(g)' => g = h,
           \/ /\ t \notin Tracking(h) /\ t \in Tracking(h)'
              /\ halfOpen' = PutHalfOpen(halfOpen, h, FALSE)
           \/ /\ t \in Tracking(h) /\ t \notin Tracking(h)'
              /\ halfOpen' = RemoveHalfOpen(halfOpen, h, FALSE)
           \/ /\ t \in Tracking(h) <=> t \in Tracking(h)'
              /\ UNCHANGED halfOpen
    PROVE  HalfOpenIsSound' /\ Counted'
<1>1. halfOpen \in CountersType BY DEF Books, HalfOpenIsSound, CountersType
<1>2. /\ Counts(halfOpen, PutHalfOpen(halfOpen, h, FALSE), h, 1, TRUE)
      /\ RemoveHalfOpen(halfOpen, h, FALSE) \in CountersType
      /\ halfOpen[h].count # 0 =>
            Counts(halfOpen, RemoveHalfOpen(halfOpen, h, FALSE), h, -1, TRUE)
  <2>1. ASSUME NEW d, NEW v, Counts(halfOpen, d, h, v, ~FALSE)
        PROVE  Counts(halfOpen, d, h, v, TRUE)
    BY <2>1 DEF Counts
  <2> QED BY <1>1, <2>1, CounterForms
<1>3. HalfOpenIsSound'
  <2>1. halfOpen' \in CountersType BY <1>1, <1>2 DEF Counts
  <2> QED BY <2>1 DEF CountersType, Books, HalfOpenIsSound
<1>4. t \in Tracking(h) => halfOpen[h].count # 0
  <2> SUFFICES ASSUME t \in Tracking(h) PROVE halfOpen[h].count # 0 OBVIOUS
  <2>1. Tracking(h) # {} OBVIOUS
  <2>2. Cardinality(Tracking(h)) \in Nat /\ Cardinality(Tracking(h)) # 0
    BY <2>1, BooksFinite, FS_EmptySet
  <2>3. Cardinality(HalfOpenEntries(h)) \in Nat BY BooksFinite
  <2>4. halfOpen[h].count = Cardinality(Tracking(h)) + Cardinality(HalfOpenEntries(h))
    BY DEF Books, Counted
  <2> QED BY <2>2, <2>3, <2>4
<1>5. \A g \in Hosts : halfOpen[g].count \in Int /\ halfOpen[g].count_responder \in Int
  BY <1>1 DEF CountersType
<1>6. \A g : 0 \notin HalfOpenEntries(g) /\ 0 \notin HalfOpenEntries(g)'
             /\ 0 \notin Responders(g) /\ 0 \notin Responders(g)'
  BY DEF HalfOpenEntries, Responders, Entries
<1>7. ASSUME NEW g \in Hosts
      PROVE  /\ halfOpen'[g].count + One(t \in Tracking(g)) + One(0 \in HalfOpenEntries(g))
                   = halfOpen[g].count + One(t \in Tracking(g)')
                                       + One(0 \in HalfOpenEntries(g)')
             /\ halfOpen'[g].count_responder + One(t \in Tracking(g))
                                             + One(0 \in Responders(g))
                   = halfOpen[g].count_responder + One(t \in Tracking(g)')
                                                 + One(0 \in Responders(g)')
  <2>1. One(0 \in HalfOpenEntries(g)) = 0 /\ One(0 \in HalfOpenEntries(g)') = 0
        /\ One(0 \in Responders(g)) = 0 /\ One(0 \in Responders(g)') = 0
    BY <1>6 DEF One
  <2>2. CASE g = h
    <3>1. CASE t \notin Tracking(h) /\ t \in Tracking(h)'
               /\ halfOpen' = PutHalfOpen(halfOpen, h, FALSE)
      <4>1. /\ halfOpen'[g].count = halfOpen[g].count + 1
            /\ halfOpen'[g].count_responder = halfOpen[g].count_responder + 1
        BY <1>2, <2>2, <3>1 DEF Counts
      <4>2. One(t \in Tracking(g)) = 0 /\ One(t \in Tracking(g)') = 1
        BY <2>2, <3>1 DEF One
      <4> QED BY <1>5, <2>1, <4>1, <4>2
    <3>2. CASE t \in Tracking(h) /\ t \notin Tracking(h)'
               /\ halfOpen' = RemoveHalfOpen(halfOpen, h, FALSE)
      <4>1. /\ halfOpen'[g].count = halfOpen[g].count + (-1)
            /\ halfOpen'[g].count_responder = halfOpen[g].count_responder + (-1)
        BY <1>2, <1>4, <2>2, <3>2 DEF Counts
      <4>2. One(t \in Tracking(g)) = 1 /\ One(t \in Tracking(g)') = 0
        BY <2>2, <3>2 DEF One
      <4> QED BY <1>5, <2>1, <4>1, <4>2
    <3>3. CASE (t \in Tracking(h) <=> t \in Tracking(h)') /\ UNCHANGED halfOpen
      BY <1>5, <2>1, <2>2, <3>3 DEF One
    <3> QED BY <3>1, <3>2, <3>3
  <2>3. CASE g # h
    <3>1. t \notin Tracking(g) /\ t \notin Tracking(g)' BY <2>3
    <3>2. One(t \in Tracking(g)) = 0 /\ One(t \in Tracking(g)') = 0
      BY <2>3, <3>1 DEF One
    <3>3. /\ halfOpen'[g].count = halfOpen[g].count
          /\ halfOpen'[g].count_responder = halfOpen[g].count_responder
      BY <1>2, <1>4, <2>3 DEF Counts
    <3> QED BY <1>5, <2>1, <3>2, <3>3
  <2> QED BY <2>2, <2>3
<1>8. \A f \in Entries \ {0} : SameBooks(f) BY DEF SameBooks
<1>9. \A u \in Threads \ {t} : SameTracking(u) BY DEF SameTracking, Hashed
<1>10. Counted' BY <1>3, <1>7, <1>8, <1>9, Balance
<1> QED BY <1>3, <1>10

\* process_message_job_create(), check_and_put_init_hash() and the check of the
\* limit.
LEMMA InitBooks ==
    ASSUME Shape, Ownership, Books, NEW t \in Threads,
           \/ \E m \in Messages : TrackInit(t, m)
           \/ CheckAndPutInitHash(t)
           \/ CheckLimit(t)
    PROVE  Books'
<1>1. HashesAreHeld BY DEF Books
<1>2. Typed /\ t \in All /\ (\A u \in Threads : u \in All) BY WorkerFacts, Values
<1>3. UNCHANGED << entry, sa >> /\ \A u \in Threads \ {t} : thread'[u] = thread[u]
  BY <1>2 DEF TrackInit, CheckAndPutInitHash, CheckLimit, Starts, Goto, Return, table, Typed
<1>4. initHash \in [Messages -> 0..MaxSas] /\ nextSpi \in 1..(MaxSas + 1) BY DEF Shape
<1>5. ASSUME NEW m \in Messages, TrackInit(t, m) PROVE Books'
  <2> PICK h \in Hosts : h = Source[m] BY ManagerAssumption
  <2>1. thread[t].pc = "idle" /\ thread'[t] = Job("init", 0, m, "message")
    BY <1>2, <1>5 DEF TrackInit, Starts, Typed
  <2>2. thread'[t].pc = "init" /\ thread'[t].msg = m BY <2>1 DEF Job
  <2>3. \A g \in Hosts : /\ t \notin Tracking(g)
                         /\ t \in Tracking(g)' <=> g = h
    BY <2>1, <2>2 DEF Tracking
  <2>4. halfOpen' = PutHalfOpen(halfOpen, h, FALSE) /\ UNCHANGED initHash
    BY <1>5 DEF TrackInit, globals
  <2>5. HalfOpenIsSound' /\ Counted' BY <1>3, <2>3, <2>4, TrackingBooks
  <2>6. \A u \in Threads : /\ Hashed(u)' <=> Hashed(u)
                           /\ Hashed(u) => /\ thread'[u].msg = thread[u].msg
                                           /\ thread'[u].sa = thread[u].sa
    BY <1>3, <2>1, <2>2 DEF Hashed
  <2>7. HashesAreHeld' BY <1>1, <1>3, <2>4, <2>6, HashesKept
  <2> QED BY <2>5, <2>7 DEF Books
<1> PICK m : m = thread[t].msg OBVIOUS
<1>6. CASE CheckAndPutInitHash(t) \/ CheckLimit(t)
  <2>1. thread[t].pc \in {"init", "create"} BY <1>6 DEF CheckAndPutInitHash, CheckLimit
  <2>2. m \in Messages BY <2>1 DEF Shape
  <2> PICK h \in Hosts : h = Source[m] BY <2>2, ManagerAssumption
  <2>3. \A g \in Hosts : t \in Tracking(g) <=> g = h BY <2>1 DEF Tracking
  <2>4. ASSUME thread'[t].pc \in {"idle", "lookup"},
               halfOpen' = RemoveHalfOpen(halfOpen, h, FALSE)
        PROVE  HalfOpenIsSound' /\ Counted'
    <3>1. \A g \in Hosts : t \notin Tracking(g)' BY <2>4 DEF Tracking
    <3> QED BY <1>3, <2>3, <2>4, <3>1, TrackingBooks
  <2>5. ASSUME thread'[t].pc \in {"create", "put"}, thread'[t].msg = m, UNCHANGED halfOpen
        PROVE  HalfOpenIsSound' /\ Counted'
    <3>1. \A g \in Hosts : t \in Tracking(g)' <=> g = h BY <2>5 DEF Tracking
    <3> QED BY <1>3, <2>3, <2>5, <3>1, TrackingBooks
  <2>6. ASSUME UNCHANGED initHash, thread[t].pc = "init", thread'[t].pc \in {"idle", "lookup"}
        PROVE  HashesAreHeld'
    <3>1. \A u \in Threads : /\ Hashed(u)' <=> Hashed(u)
                             /\ Hashed(u) => /\ thread'[u].msg = thread[u].msg
                                             /\ thread'[u].sa = thread[u].sa
      BY <1>3, <2>6 DEF Hashed
    <3> QED BY <1>1, <1>3, <2>6, <3>1, HashesKept
  <2>7. CASE /\ thread[t].pc = "init" /\ initHash[m] = 0 /\ SpiAvailable
             /\ initHash' = [initHash EXCEPT ![m] = nextSpi]
             /\ thread' = [thread EXCEPT ![t].pc = "create", ![t].sa = nextSpi]
             /\ UNCHANGED halfOpen
    <3> DEFINE x == Now(t, "create", thread[t].at, nextSpi)
    <3>1. nextSpi \in 0..MaxSas BY <1>4, <2>7 DEF SpiAvailable
    <3>2. Moves(t, x) BY <1>2, <2>7, <3>1, MoveForms DEF WorkerPc
    <3>3. thread'[t] = x /\ x.pc = "create" /\ x.sa = nextSpi /\ x.msg = m
      BY <3>2 DEF Now, Moves
    <3> HIDE DEF x
    <3>4. HalfOpenIsSound' /\ Counted' BY <2>5, <2>7, <3>3
    <3>5. initHash'[m] = nextSpi /\ \A n \in Messages \ {m} : initHash'[n] = initHash[n]
      BY <1>4, <2>2, <2>7
    <3>6. \A e \in Entries : entry[e].init_hash # m
      <4> SUFFICES ASSUME NEW e \in Entries, entry[e].init_hash = m PROVE FALSE OBVIOUS
      <4>1. entry[e].alive /\ entry[e].sa = 0
        BY <1>1, <2>2, <2>7, ManagerAssumption DEF HashesAreHeld
      <4>2. entry[e].sa \in 1..(nextSpi - 1)
        BY <4>1 DEF Ownership, EntriesAreSound
      <4> QED BY <1>4, <4>1, <4>2
    <3>7. \A u \in Threads : Hashed(u) => thread[u].msg # m
      <4> SUFFICES ASSUME NEW u \in Threads, Hashed(u), thread[u].msg = m PROVE FALSE
        OBVIOUS
      <4>1. thread[u].sa \in 1..(nextSpi - 1) /\ initHash[m] = thread[u].sa
        BY <1>1, FreshHash
      <4> QED BY <1>4, <2>7, <4>1
    <3>8. HashesAreHeld'
      <4>1. ASSUME NEW e \in Entries, entry'[e].init_hash # None
            PROVE  /\ entry'[e].alive /\ e <= MaxSas
                   /\ initHash'[entry'[e].init_hash] = entry'[e].sa
        <5>1. entry[e].init_hash \in Messages \ {m}
          BY <1>3, <3>6, <4>1 DEF Shape, EntryShape
        <5> QED BY <1>1, <1>3, <3>5, <4>1, <5>1 DEF HashesAreHeld
      <4>2. ASSUME NEW u \in Threads, Hashed(u)'
            PROVE  initHash'[thread'[u].msg] = thread'[u].sa
        <5>1. CASE u = t BY <3>3, <3>5, <5>1
        <5>2. CASE u # t
          <6>1. thread'[u] = thread[u] /\ Hashed(u) BY <1>3, <4>2, <5>2 DEF Hashed
          <6>2. thread[u].msg \in Messages \ {m} BY <1>1, <3>7, <6>1, FreshHash
          <6> QED BY <1>1, <3>5, <6>1, <6>2 DEF HashesAreHeld
        <5> QED BY <5>1, <5>2
      <4>3. ASSUME NEW n \in Messages, initHash'[n] # 0
            PROVE  \/ \E e \in Entries : entry'[e].init_hash = n
                   \/ \E u \in Threads : Hashed(u)' /\ thread'[u].msg = n
        <5>1. CASE n = m BY <3>3, <5>1 DEF Hashed
        <5>2. CASE n # m
          <6>1. initHash[n] # 0 BY <3>5, <4>3, <5>2
          <6>2. CASE \E e \in Entries : entry[e].init_hash = n BY <1>3, <6>2
          <6>3. ASSUME NEW u \in Threads, Hashed(u), thread[u].msg = n
                PROVE  \E v \in Threads : Hashed(v)' /\ thread'[v].msg = n
            <7>1. u # t BY <2>7, <6>3 DEF Hashed
            <7> QED BY <1>3, <6>3, <7>1 DEF Hashed
          <6> QED BY <1>1, <6>1, <6>2, <6>3 DEF HashesAreHeld
        <5> QED BY <5>1, <5>2
      <4> QED BY <4>1, <4>2, <4>3 DEF HashesAreHeld
    <3> QED BY <3>4, <3>8 DEF Books
  <2>8. CASE /\ thread[t].pc = "init" /\ Return(t) /\ UNCHANGED initHash
             /\ halfOpen' = RemoveHalfOpen(halfOpen, h, FALSE)
    <3>1. thread'[t].pc = "idle" BY <1>2, <2>8 DEF Return, Idle, Job, Typed
    <3> QED BY <2>4, <2>6, <2>8, <3>1 DEF Books
  <2>9. CASE /\ thread[t].pc = "init" /\ UNCHANGED initHash
             /\ halfOpen' = RemoveHalfOpen(halfOpen, h, FALSE)
             /\ thread' = [thread EXCEPT ![t].pc = "lookup", ![t].sa = initHash[m]]
    <3>1. thread'[t].pc = "lookup" BY <1>2, <2>9 DEF Typed, ThreadType
    <3> QED BY <2>4, <2>6, <2>9, <3>1 DEF Books
  <2>10. CASE thread[t].pc = "create" /\ Goto(t, "put") /\ UNCHANGED << initHash, halfOpen >>
    <3>1. thread'[t].pc = "put" /\ thread'[t].msg = m /\ thread'[t].sa = thread[t].sa
      BY <1>2, <2>10 DEF Goto, Typed, ThreadType
    <3>2. HalfOpenIsSound' /\ Counted' BY <2>5, <2>10, <3>1
    <3>3. \A u \in Threads : /\ Hashed(u)' <=> Hashed(u)
                             /\ Hashed(u) => /\ thread'[u].msg = thread[u].msg
                                             /\ thread'[u].sa = thread[u].sa
      BY <1>3, <2>10, <3>1 DEF Hashed
    <3>4. HashesAreHeld' BY <1>1, <1>3, <2>10, <3>3, HashesKept
    <3> QED BY <3>2, <3>4 DEF Books
  <2>11. CASE /\ thread[t].pc = "create" /\ Return(t)
              /\ initHash' = [initHash EXCEPT ![m] = 0]
              /\ halfOpen' = RemoveHalfOpen(halfOpen, h, FALSE)
    <3>1. thread'[t].pc = "idle" BY <1>2, <2>11 DEF Return, Idle, Job, Typed
    <3>2. Hashed(t) /\ ~Hashed(t)' BY <2>11, <3>1 DEF Hashed
    <3>3. /\ \A e \in Entries : entry[e].init_hash # m
          /\ \A u \in Threads \ {t} : Hashed(u) => thread[u].msg # m
      BY <1>1, <3>2, FreshHash
    <3>4. initHash'[m] = 0 /\ \A n \in Messages \ {m} : initHash'[n] = initHash[n]
      BY <1>4, <2>2, <2>11
    <3>5. HashesAreHeld'
      <4>1. ASSUME NEW e \in Entries, entry'[e].init_hash # None
            PROVE  /\ entry'[e].alive /\ e <= MaxSas
                   /\ initHash'[entry'[e].init_hash] = entry'[e].sa
        <5>1. entry[e].init_hash \in Messages \ {m}
          BY <1>3, <3>3, <4>1 DEF Shape, EntryShape
        <5> QED BY <1>1, <1>3, <3>4, <4>1, <5>1 DEF HashesAreHeld
      <4>2. ASSUME NEW u \in Threads, Hashed(u)'
            PROVE  initHash'[thread'[u].msg] = thread'[u].sa
        <5>1. u # t BY <3>2, <4>2
        <5>2. thread'[u] = thread[u] /\ Hashed(u) BY <1>3, <4>2, <5>1 DEF Hashed
        <5>3. thread[u].msg \in Messages \ {m} BY <1>1, <3>3, <5>1, <5>2, FreshHash
        <5> QED BY <1>1, <3>4, <5>2, <5>3 DEF HashesAreHeld
      <4>3. ASSUME NEW n \in Messages, initHash'[n] # 0
            PROVE  \/ \E e \in Entries : entry'[e].init_hash = n
                   \/ \E u \in Threads : Hashed(u)' /\ thread'[u].msg = n
        <5>1. n # m /\ initHash[n] # 0 BY <3>4, <4>3
        <5>2. CASE \E e \in Entries : entry[e].init_hash = n BY <1>3, <5>2
        <5>3. ASSUME NEW u \in Threads, Hashed(u), thread[u].msg = n
              PROVE  \E v \in Threads : Hashed(v)' /\ thread'[v].msg = n
          <6>1. u # t BY <5>1, <5>3
          <6> QED BY <1>3, <5>3, <6>1 DEF Hashed
        <5> QED BY <1>1, <5>1, <5>2, <5>3 DEF HashesAreHeld
      <4> QED BY <4>1, <4>2, <4>3 DEF HashesAreHeld
    <3> QED BY <2>4, <2>11, <3>1, <3>5 DEF Books
  <2> QED BY <1>6, <2>7, <2>8, <2>9, <2>10, <2>11 DEF CheckAndPutInitHash, CheckLimit
<1> QED BY <1>5, <1>6

\* The fields put_entry() writes.
LEMMA PutFields ==
    ASSUME EntriesTyped, draining \in BOOLEAN, NEW e \in Entries, NEW s \in 0..MaxSas,
           NEW out \in Threads \cup {None}, NEW half \in BOOLEAN,
           NEW other \in Hosts \cup {None}, NEW init \in Messages \cup {None},
           PutEntry(e, NewEntry(s, out, half, other, init))
    PROVE  /\ entry'[e].alive /\ entry'[e].sa = s /\ entry'[e].half_open = half
           /\ entry'[e].other = other /\ entry'[e].init_hash = init
           /\ \A f \in Entries \ {e} : entry'[f] = entry[f]
<1> DEFINE x == NewEntry(s, out, half, other, init)
           y == [x EXCEPT !.driveout_threads = draining]
<1>1. /\ x \in EntryShape
      /\ x.alive = TRUE /\ x.sa = s /\ x.half_open = half /\ x.other = other
      /\ x.init_hash = init
  BY DEF NewEntry, EntryShape
<1>2. entry' = [entry EXCEPT ![e] = y] BY DEF PutEntry
<1> HIDE DEF x
<1>3. /\ y.alive = TRUE /\ y.sa = s /\ y.half_open = half /\ y.other = other
      /\ y.init_hash = init
  BY <1>1 DEF EntryShape
<1> HIDE DEF y
<1> QED BY <1>2, <1>3 DEF EntriesTyped

\* An entry that is not alive is in no book.
LEMMA DeadEntry ==
    ASSUME Shape, Books, NEW e \in Entries, ~entry[e].alive
    PROVE  /\ entry[e].init_hash = None
           /\ \A g : e \notin HalfOpenEntries(g) /\ e \notin Responders(g)
BY DEF Books, HashesAreHeld, HalfOpenIsSound, HalfOpenEntries, Responders

\* checkout_new(), and checkin() of an IKE_SA without an entry.
LEMMA NewEntryBooks ==
    ASSUME Shape, Ownership, Books, NEW t \in Threads,
           \A u \in Threads : SameTracking(u),
           NEW e \in Entries, ~entry[e].alive, NEW s \in 1..(nextSpi - 1),
           NEW half \in BOOLEAN, NEW other,
           entry'[e].alive, entry'[e].sa = s, entry'[e].half_open = half,
           entry'[e].other = other, entry'[e].init_hash = None,
           \A f \in Entries \ {e} : entry'[f] = entry[f],
           sa' \in SaType, SameInitiators, UNCHANGED initHash,
           ~half => UNCHANGED halfOpen,
           half => /\ other \in Hosts
                   /\ halfOpen' = PutHalfOpen(halfOpen, other, sa[s].initiator)
    PROVE  Books'
<1>1. HashesAreHeld BY DEF Books
<1>2. entry[e].init_hash = None /\ \A g : e \notin HalfOpenEntries(g) /\ e \notin Responders(g)
  BY DeadEntry
<1>3. s \in Sas BY ManagerAssumption DEF Shape, Sas
<1>4. halfOpen \in CountersType /\ sa[s].initiator \in BOOLEAN
  BY <1>3 DEF Books, HalfOpenIsSound, CountersType
<1> PICK i \in BOOLEAN : i = sa[s].initiator BY <1>4
<1>5. sa'[s].initiator = i BY DEF SameInitiators
<1>6. HashesAreHeld'
  <2>1. \A f \in Entries :
           /\ entry'[f].init_hash = entry[f].init_hash
           /\ entry[f].init_hash # None => /\ entry'[f].alive = entry[f].alive
                                           /\ entry'[f].sa = entry[f].sa
    BY <1>2
  <2>2. \A u \in Threads : /\ Hashed(u)' <=> Hashed(u)
                           /\ Hashed(u) => /\ thread'[u].msg = thread[u].msg
                                           /\ thread'[u].sa = thread[u].sa
    BY DEF SameTracking, Hashed
  <2> QED BY <1>1, <2>1, <2>2, HashesKept
<1>7. half => Counts(halfOpen, halfOpen', other, 1, ~i) BY <1>4, CounterForms
<1>8. HalfOpenIsSound'
  <2>1. halfOpen' \in CountersType BY <1>4, <1>7 DEF Counts
  <2>2. \A f \in Entries : entry'[f].half_open => entry'[f].alive /\ entry'[f].other \in Hosts
    BY DEF Books, HalfOpenIsSound
  <2> QED BY <2>1, <2>2 DEF HalfOpenIsSound, CountersType, SaType
<1>9. \A g \in Hosts : /\ e \in HalfOpenEntries(g)' <=> half /\ other = g
                       /\ e \in Responders(g)' <=> half /\ other = g /\ ~i
  BY <1>5 DEF HalfOpenEntries, Responders
<1>10. ASSUME NEW g \in Hosts
      PROVE  /\ halfOpen'[g].count + One(t \in Tracking(g)) + One(e \in HalfOpenEntries(g))
                   = halfOpen[g].count + One(t \in Tracking(g)')
                                       + One(e \in HalfOpenEntries(g)')
             /\ halfOpen'[g].count_responder + One(t \in Tracking(g))
                                             + One(e \in Responders(g))
                   = halfOpen[g].count_responder + One(t \in Tracking(g)')
                                                 + One(e \in Responders(g)')
  <2>1. t \in Tracking(g)' <=> t \in Tracking(g) BY DEF Tracking, SameTracking, Hashed
  <2>2. PICK n \in Nat : One(t \in Tracking(g)') = n /\ One(t \in Tracking(g)) = n
    BY <2>1 DEF One
  <2>3. One(e \in HalfOpenEntries(g)) = 0 /\ One(e \in Responders(g)) = 0
    BY <1>2 DEF One
  <2>4. halfOpen[g].count \in Int /\ halfOpen[g].count_responder \in Int
    BY <1>4 DEF CountersType
  <2>5. CASE half /\ g = other
    <3>1. One(e \in HalfOpenEntries(g)') = 1 BY <1>9, <2>5 DEF One
    <3>2. halfOpen'[g].count = halfOpen[g].count + 1 BY <1>7, <2>5 DEF Counts
    <3>3. CASE i
      <4>1. One(e \in Responders(g)') = 0 BY <1>9, <3>3 DEF One
      <4>2. halfOpen'[g].count_responder = halfOpen[g].count_responder
        BY <1>7, <2>5, <3>3 DEF Counts
      <4> QED BY <2>2, <2>3, <2>4, <3>1, <3>2, <4>1, <4>2
    <3>4. CASE ~i
      <4>1. One(e \in Responders(g)') = 1 BY <1>9, <2>5, <3>4 DEF One
      <4>2. halfOpen'[g].count_responder = halfOpen[g].count_responder + 1
        BY <1>7, <2>5, <3>4 DEF Counts
      <4> QED BY <2>2, <2>3, <2>4, <3>1, <3>2, <4>1, <4>2
    <3> QED BY <3>3, <3>4
  <2>6. CASE ~half \/ g # other
    <3>1. One(e \in HalfOpenEntries(g)') = 0 /\ One(e \in Responders(g)') = 0
      BY <1>9, <2>6 DEF One
    <3>2. /\ halfOpen'[g].count = halfOpen[g].count
          /\ halfOpen'[g].count_responder = halfOpen[g].count_responder
      BY <1>7, <2>6 DEF Counts
    <3> QED BY <2>2, <2>3, <2>4, <3>1, <3>2
  <2> QED BY <2>5, <2>6
<1>11. \A f \in Entries \ {e} :
          /\ SameBooks(f)
          /\ entry[f].alive => sa'[entry[f].sa].initiator = sa[entry[f].sa].initiator
  BY DEF SameBooks, SameInitiators, Ownership, EntriesAreSound
<1>12. Counted' BY <1>8, <1>10, <1>11, Balance
<1> QED BY <1>6, <1>8, <1>12 DEF Books

\* checkout_new()
LEMMA CheckoutNewBooks ==
    ASSUME Shape, Ownership, Books, NEW t \in Threads, CheckoutNew(t)
    PROVE  Books'
<1> PICK s : s = thread[t].sa OBVIOUS
<1>1. /\ Typed /\ EntriesTyped /\ t \in All /\ draining \in BOOLEAN
      /\ thread[t].pc = "new" /\ IsFresh(t) /\ Goto(t, "working")
      /\ UNCHANGED << halfOpen, sa, initHash >>
      /\ \A u \in Threads : u \in All
  BY WorkerFacts, Values DEF CheckoutNew, IsFresh, Shape, globals
<1>2. s \in 1..(nextSpi - 1) BY <1>1 DEF Ownership, OwnersAreSound
<1>3. \A e \in Entries : ~(entry[e].alive /\ entry[e].sa = s)
  BY <1>1 DEF Ownership, OwnersAreSound
<1>4. s \in Entries /\ s \in 0..MaxSas /\ ~entry[s].alive BY <1>2, <1>3, Slots
<1>5. PutEntry(s, NewEntry(s, t, FALSE, None, None)) BY DEF CheckoutNew
<1>6. /\ entry'[s].alive /\ entry'[s].sa = s /\ entry'[s].half_open = FALSE
      /\ entry'[s].other = None /\ entry'[s].init_hash = None
      /\ \A f \in Entries \ {s} : entry'[f] = entry[f]
  <2>1. ASSUME NEW half \in BOOLEAN, NEW o \in Hosts \cup {None},
               NEW i \in Messages \cup {None}, PutEntry(s, NewEntry(s, t, half, o, i))
        PROVE  /\ entry'[s].alive /\ entry'[s].sa = s /\ entry'[s].half_open = half
               /\ entry'[s].other = o /\ entry'[s].init_hash = i
               /\ \A f \in Entries \ {s} : entry'[f] = entry[f]
    BY <1>1, <1>4, <2>1, PutFields
  <2>2. None \in Hosts \cup {None} /\ None \in Messages \cup {None} OBVIOUS
  <2> QED BY <1>5, <2>1, <2>2
<1>7. thread'[t].pc = "working" /\ \A u \in Threads \ {t} : thread'[u] = thread[u]
  BY <1>1 DEF Goto, Typed, ThreadType
<1>8. \A u \in Threads : SameTracking(u) BY <1>1, <1>7, SameTracks
<1>9. sa' \in SaType /\ SameInitiators
  BY <1>1 DEF Books, HalfOpenIsSound, SaType, SameInitiators
<1> QED BY <1>1, <1>2, <1>4, <1>6, <1>8, <1>9, NewEntryBooks

\* The IKE_SA for a new message is put into the table: the entry takes over the
\* hash and the place in the counters from the thread.
LEMMA PutInitBooks ==
    ASSUME Shape, Ownership, Books, NEW t \in Threads, PutInit(t)
    PROVE  Books'
<1> PICK s : s = thread[t].sa OBVIOUS
<1>1. /\ Typed /\ EntriesTyped /\ t \in All /\ draining \in BOOLEAN
      /\ thread[t].pc = "put" /\ IsFresh(t) /\ Hashed(t) /\ Goto(t, "working")
      /\ UNCHANGED << halfOpen, initHash >>
      /\ \A u \in Threads : u \in All
  BY WorkerFacts, Values DEF PutInit, IsFresh, Hashed, Shape, globals
<1>2. s \in 1..(nextSpi - 1) BY <1>1 DEF Ownership, OwnersAreSound
<1>3. \A e \in Entries : ~(entry[e].alive /\ entry[e].sa = s)
  BY <1>1 DEF Ownership, OwnersAreSound
<1>4. s \in Entries /\ s \in 0..MaxSas /\ ~entry[s].alive BY <1>2, <1>3, Slots
<1>5. thread[t].msg \in Messages BY <1>1 DEF Shape
<1> PICK m \in Messages : m = thread[t].msg BY <1>5
<1> PICK h \in Hosts : h = Source[m] BY ManagerAssumption
<1>6. /\ entry'[s].alive /\ entry'[s].sa = s /\ entry'[s].half_open = TRUE
      /\ entry'[s].other = h /\ entry'[s].init_hash = m
      /\ \A f \in Entries \ {s} : entry'[f] = entry[f]
  <2>1. PutEntry(s, NewEntry(s, t, TRUE, h, m)) BY DEF PutInit
  <2>2. /\ TRUE \in BOOLEAN /\ h \in Hosts \cup {None} /\ m \in Messages \cup {None}
        /\ t \in Threads \cup {None}
    OBVIOUS
  <2>3. ASSUME NEW half \in BOOLEAN, PutEntry(s, NewEntry(s, t, half, h, m))
        PROVE  /\ entry'[s].alive /\ entry'[s].sa = s /\ entry'[s].half_open = half
               /\ entry'[s].other = h /\ entry'[s].init_hash = m
               /\ \A f \in Entries \ {s} : entry'[f] = entry[f]
    BY <1>1, <1>4, <2>2, <2>3, PutFields
  <2> QED BY <2>1, <2>3
<1>7. thread'[t].pc = "working" /\ \A u \in Threads \ {t} : thread'[u] = thread[u]
  BY <1>1 DEF Goto, Typed, ThreadType
<1>8. s \in Sas BY <1>2, ManagerAssumption DEF Shape, Sas
<1>9. /\ sa' \in SaType /\ ~sa'[s].initiator
      /\ \A r \in Sas \ {s} : sa'[r] = sa[r]
  <2> DEFINE y == [state |-> "CREATED", initiator |-> FALSE, other |-> h]
  <2>1. /\ y \in [state : State, initiator : BOOLEAN, other : Hosts \cup {None}]
        /\ ~y.initiator
    BY DEF State
  <2>2. sa' = [sa EXCEPT ![s] = y] BY DEF PutInit
  <2> HIDE DEF y
  <2> QED BY <1>8, <2>1, <2>2 DEF SaType, Books, HalfOpenIsSound
<1>10. HalfOpenIsSound'
  BY <1>1, <1>6, <1>9 DEF Books, HalfOpenIsSound, SaType
<1>11. HashesAreHeld /\ MaxSas \in Nat /\ entry[s].init_hash = None
  BY <1>4, DeadEntry, ManagerAssumption DEF Books
<1>12. initHash[m] = s /\ \A u \in Threads \ {t} : Hashed(u) => thread[u].msg # m
  BY <1>1, <1>11, FreshHash
<1>13. HashesAreHeld'
  <2>1. ASSUME NEW e \in Entries, entry'[e].init_hash # None
        PROVE  /\ entry'[e].alive /\ e <= MaxSas
               /\ initHash'[entry'[e].init_hash] = entry'[e].sa
    <3>1. CASE e = s BY <1>1, <1>4, <1>6, <1>11, <1>12, <3>1
    <3>2. CASE e # s BY <1>1, <1>6, <1>11, <2>1, <3>2 DEF HashesAreHeld
    <3> QED BY <3>1, <3>2
  <2>2. ASSUME NEW u \in Threads, Hashed(u)'
        PROVE  initHash'[thread'[u].msg] = thread'[u].sa
    <3>1. u # t BY <1>7, <2>2 DEF Hashed
    <3> QED BY <1>1, <1>7, <1>11, <2>2, <3>1 DEF HashesAreHeld, Hashed
  <2>3. ASSUME NEW n \in Messages, initHash'[n] # 0
        PROVE  \/ \E e \in Entries : entry'[e].init_hash = n
               \/ \E u \in Threads : Hashed(u)' /\ thread'[u].msg = n
    <3>1. CASE n = m BY <1>4, <1>6, <3>1
    <3>2. CASE n # m
      <4>1. ASSUME NEW e \in Entries, entry[e].init_hash = n
            PROVE  \E f \in Entries : entry'[f].init_hash = n
        <5>1. e # s BY <1>11, <4>1, ManagerAssumption
        <5> QED BY <1>6, <4>1, <5>1
      <4>2. ASSUME NEW u \in Threads, Hashed(u), thread[u].msg = n
            PROVE  \E v \in Threads : Hashed(v)' /\ thread'[v].msg = n
        <5>1. u # t BY <3>2, <4>2
        <5> QED BY <1>7, <4>2, <5>1 DEF Hashed
      <4> QED BY <1>1, <1>11, <2>3, <4>1, <4>2 DEF HashesAreHeld
    <3> QED BY <3>1, <3>2
  <2> QED BY <2>1, <2>2, <2>3 DEF HashesAreHeld
<1>14. ASSUME NEW g \in Hosts
      PROVE  /\ halfOpen'[g].count + One(t \in Tracking(g)) + One(s \in HalfOpenEntries(g))
                   = halfOpen[g].count + One(t \in Tracking(g)')
                                       + One(s \in HalfOpenEntries(g)')
             /\ halfOpen'[g].count_responder + One(t \in Tracking(g))
                                             + One(s \in Responders(g))
                   = halfOpen[g].count_responder + One(t \in Tracking(g)')
                                                 + One(s \in Responders(g)')
  <2>1. s \notin HalfOpenEntries(g) /\ s \notin Responders(g) BY <1>4, DeadEntry
  <2>2. t \notin Tracking(g)' BY <1>7 DEF Tracking
  <2>3. /\ t \in Tracking(g) <=> g = h
        /\ s \in HalfOpenEntries(g)' <=> g = h
        /\ s \in Responders(g)' <=> g = h
    BY <1>1, <1>4, <1>6, <1>9 DEF Tracking, HalfOpenEntries, Responders
  <2>4. /\ One(s \in HalfOpenEntries(g)) = 0 /\ One(s \in Responders(g)) = 0
        /\ One(t \in Tracking(g)') = 0
    BY <2>1, <2>2 DEF One
  <2>5. halfOpen'[g] = halfOpen[g]
        /\ halfOpen[g].count \in Int /\ halfOpen[g].count_responder \in Int
    BY <1>1 DEF Books, HalfOpenIsSound
  <2>6. CASE g = h
    <3>1. /\ One(s \in HalfOpenEntries(g)') = 1 /\ One(s \in Responders(g)') = 1
          /\ One(t \in Tracking(g)) = 1
      BY <2>3, <2>6 DEF One
    <3> QED BY <2>4, <2>5, <3>1
  <2>7. CASE g # h
    <3>1. /\ One(s \in HalfOpenEntries(g)') = 0 /\ One(s \in Responders(g)') = 0
          /\ One(t \in Tracking(g)) = 0
      BY <2>3, <2>7 DEF One
    <3> QED BY <2>4, <2>5, <3>1
  <2> QED BY <2>6, <2>7
<1>15. \A f \in Entries \ {s} : SameBooks(f) BY <1>6 DEF SameBooks
<1>16. \A f \in Entries \ {s} :
          entry[f].alive => sa'[entry[f].sa].initiator = sa[entry[f].sa].initiator
  <2> SUFFICES ASSUME NEW f \in Entries \ {s}, entry[f].alive
               PROVE  sa'[entry[f].sa] = sa[entry[f].sa]
    OBVIOUS
  <2>1. entry[f].sa \in 1..(nextSpi - 1) BY DEF Ownership, EntriesAreSound
  <2>2. entry[f].sa \in Sas \ {s} BY <1>3, <2>1, ManagerAssumption DEF Shape, Sas
  <2> QED BY <1>9, <2>2
<1>17. \A u \in Threads \ {t} : SameTracking(u) BY <1>7 DEF SameTracking, Hashed
<1>18. Counted' BY <1>10, <1>14, <1>15, <1>16, <1>17, Balance
<1> QED BY <1>10, <1>13, <1>18 DEF Books

\* A half-open entry is counted for its host.
LEMMA HalfOpenCounted ==
    ASSUME Books, NEW e \in Entries, entry[e].half_open
    PROVE  entry[e].other \in Hosts /\ halfOpen[entry[e].other].count # 0
<1>1. entry[e].other \in Hosts BY DEF Books, HalfOpenIsSound
<1> PICK h \in Hosts : h = entry[e].other BY <1>1
<1>2. HalfOpenEntries(h) # {} BY DEF HalfOpenEntries
<1>3. Cardinality(HalfOpenEntries(h)) \in Nat /\ Cardinality(HalfOpenEntries(h)) # 0
  BY <1>2, BooksFinite, FS_EmptySet
<1>4. Cardinality(Tracking(h)) \in Nat BY BooksFinite
<1>5. halfOpen[h].count = Cardinality(Tracking(h)) + Cardinality(HalfOpenEntries(h))
  BY DEF Books, Counted
<1> QED BY <1>1, <1>3, <1>4, <1>5

\* The counters follow from what the entry e of IKE_SA s contributes.
LEMMA EntryCounts ==
    ASSUME Shape, Ownership, Books, HalfOpenIsSound', \A u \in Threads : SameTracking(u),
           NEW e \in Entries, NEW s \in 1..(nextSpi - 1), SameInitiators,
           \A f \in Entries \ {e} : SameBooks(f),
           entry[e].half_open => entry[e].sa = s,
           entry'[e].half_open => entry'[e].sa = s,
           \A g \in Hosts : \E x, y \in {0, 1} :
              /\ x = 1 <=> e \in HalfOpenEntries(g)
              /\ y = 1 <=> e \in HalfOpenEntries(g)'
              /\ halfOpen'[g].count + x = halfOpen[g].count + y
              /\ ~sa[s].initiator =>
                    halfOpen'[g].count_responder + x = halfOpen[g].count_responder + y
              /\ sa[s].initiator =>
                    halfOpen'[g].count_responder = halfOpen[g].count_responder
    PROVE  Counted'
<1>1. sa'[s].initiator = sa[s].initiator BY DEF SameInitiators
<1>2. ASSUME NEW g \in Hosts
      PROVE  /\ halfOpen'[g].count + One(0 \in Tracking(g)) + One(e \in HalfOpenEntries(g))
                   = halfOpen[g].count + One(0 \in Tracking(g))
                                       + One(e \in HalfOpenEntries(g)')
             /\ halfOpen'[g].count_responder + One(0 \in Tracking(g))
                                             + One(e \in Responders(g))
                   = halfOpen[g].count_responder + One(0 \in Tracking(g))
                                                 + One(e \in Responders(g)')
  <2>1. PICK x, y \in {0, 1} :
           /\ x = 1 <=> e \in HalfOpenEntries(g)
           /\ y = 1 <=> e \in HalfOpenEntries(g)'
           /\ halfOpen'[g].count + x = halfOpen[g].count + y
           /\ ~sa[s].initiator =>
                 halfOpen'[g].count_responder + x = halfOpen[g].count_responder + y
           /\ sa[s].initiator =>
                 halfOpen'[g].count_responder = halfOpen[g].count_responder
    OBVIOUS
  <2>2. One(e \in HalfOpenEntries(g)) = x /\ One(e \in HalfOpenEntries(g)') = y
    BY <2>1 DEF One
  <2>3. PICK n \in Nat : n = One(0 \in Tracking(g)) BY DEF One
  <2>4. /\ halfOpen[g].count \in Int /\ halfOpen[g].count_responder \in Int
        /\ halfOpen'[g].count \in Int /\ halfOpen'[g].count_responder \in Int
    BY DEF Books, HalfOpenIsSound
  <2>5. /\ e \in Responders(g) <=> e \in HalfOpenEntries(g) /\ ~sa[s].initiator
        /\ e \in Responders(g)' <=> e \in HalfOpenEntries(g)' /\ ~sa[s].initiator
    BY <1>1 DEF Responders, HalfOpenEntries
  <2>6. CASE sa[s].initiator
    <3>1. One(e \in Responders(g)) = 0 /\ One(e \in Responders(g)') = 0
      BY <2>5, <2>6 DEF One
    <3> QED BY <2>1, <2>2, <2>3, <2>4, <2>6, <3>1
  <2>7. CASE ~sa[s].initiator
    <3>1. One(e \in Responders(g)) = x /\ One(e \in Responders(g)') = y
      BY <2>1, <2>5, <2>7 DEF One
    <3> QED BY <2>1, <2>2, <2>3, <2>4, <2>7, <3>1
  <2> QED BY <2>6, <2>7
<1>3. \A g : Tracking(g)' = Tracking(g)
  <2>1. \A u \in Threads : /\ thread'[u].pc \in {"init", "create", "put"}
                                 <=> thread[u].pc \in {"init", "create", "put"}
                           /\ thread[u].pc \in {"init", "create", "put"}
                                 => thread'[u].msg = thread[u].msg
    BY DEF SameTracking, Hashed
  <2> QED BY <2>1 DEF Tracking
<1>4. ASSUME NEW g \in Hosts
      PROVE  /\ halfOpen'[g].count + One(0 \in Tracking(g)) + One(e \in HalfOpenEntries(g))
                   = halfOpen[g].count + One(0 \in Tracking(g)')
                                       + One(e \in HalfOpenEntries(g)')
             /\ halfOpen'[g].count_responder + One(0 \in Tracking(g))
                                             + One(e \in Responders(g))
                   = halfOpen[g].count_responder + One(0 \in Tracking(g)')
                                                 + One(e \in Responders(g)')
  <2>1. Tracking(g)' = Tracking(g) BY <1>3
  <2> QED BY <1>2, <2>1
<1>5. \A f \in Entries \ {e} :
         entry[f].alive => sa'[entry[f].sa].initiator = sa[entry[f].sa].initiator
  BY DEF SameInitiators, Ownership, EntriesAreSound
<1>6. \A u \in Threads \ {0} : SameTracking(u) OBVIOUS
<1> QED BY <1>4, <1>5, <1>6, Balance

\* The hash of a message is held by one entry at most.
LEMMA HashOwner ==
    ASSUME Shape, Ownership, HashesAreHeld, NEW e \in Entries, NEW f \in Entries,
           entry[e].init_hash # None, entry[f].init_hash = entry[e].init_hash
    PROVE  e = f
<1>1. ASSUME NEW d \in Entries, entry[d].init_hash # None
      PROVE  d = initHash[entry[d].init_hash]
  <2>1. entry[d].alive /\ d <= MaxSas /\ initHash[entry[d].init_hash] = entry[d].sa
    BY <1>1 DEF HashesAreHeld
  <2>2. entry[d].sa \in 1..(nextSpi - 1) /\ d \in {entry[d].sa, Twin(entry[d].sa)}
    BY <2>1 DEF Ownership, EntriesAreSound
  <2>3. Twin(entry[d].sa) > MaxSas BY <2>2, Slots
  <2> QED BY <2>1, <2>2, <2>3, ManagerAssumption DEF Entries
<1> QED BY <1>1

\* The entry e is freed with its place in the books.
LEMMA ForgetBooks ==
    ASSUME Shape, Ownership, Books, NEW e \in Entries, entry[e].alive, Forget(e),
           UNCHANGED sa, \A u \in Threads : SameTracking(u)
    PROVE  Books'
<1>1. EntriesTyped /\ HashesAreHeld BY DEF Shape, EntriesTyped, Books
<1>2. /\ entry'[e].init_hash = None /\ ~entry'[e].half_open
      /\ \A f \in Entries \ {e} : entry'[f] = entry[f]
  BY <1>1 DEF Forget, EntriesTyped, NoEntry
<1>3. entry[e].sa \in 1..(nextSpi - 1) BY DEF Ownership, EntriesAreSound
<1> PICK s \in 1..(nextSpi - 1) : s = entry[e].sa BY <1>3
<1>4. s \in Sas BY ManagerAssumption DEF Shape, Sas
<1>5. halfOpen \in CountersType /\ sa[s].initiator \in BOOLEAN
  BY <1>4 DEF Books, HalfOpenIsSound, CountersType
<1> PICK i \in BOOLEAN : i = sa[s].initiator BY <1>5
<1> PICK m : m = entry[e].init_hash OBVIOUS
<1>6. /\ \A n \in Messages \ {m} : initHash'[n] = initHash[n]
      /\ m \in Messages => initHash'[m] = 0
  BY DEF Forget
<1>7. HashesAreHeld'
  <2>1. ASSUME NEW f \in Entries, entry'[f].init_hash # None
        PROVE  /\ entry'[f].alive /\ f <= MaxSas
               /\ initHash'[entry'[f].init_hash] = entry'[f].sa
    <3>1. f # e /\ entry'[f] = entry[f] BY <1>2, <2>1
    <3>2. entry[f].init_hash \in Messages \ {m}
      BY <1>1, <2>1, <3>1, HashOwner DEF Shape, EntryShape
    <3> QED BY <1>1, <1>6, <2>1, <3>1, <3>2 DEF HashesAreHeld
  <2>2. ASSUME NEW u \in Threads, Hashed(u)'
        PROVE  initHash'[thread'[u].msg] = thread'[u].sa
    <3>1. /\ Hashed(u) /\ thread'[u].msg = thread[u].msg
          /\ thread'[u].sa = thread[u].sa
      BY <2>2 DEF SameTracking, Hashed
    <3>2. thread[u].msg \in Messages \ {m} BY <1>1, <3>1, FreshHash
    <3> QED BY <1>1, <1>6, <3>1, <3>2 DEF HashesAreHeld
  <2>3. ASSUME NEW n \in Messages, initHash'[n] # 0
        PROVE  \/ \E f \in Entries : entry'[f].init_hash = n
               \/ \E u \in Threads : Hashed(u)' /\ thread'[u].msg = n
    <3>1. n # m /\ initHash[n] # 0 BY <1>6, <2>3
    <3>2. ASSUME NEW f \in Entries, entry[f].init_hash = n
          PROVE  \E g \in Entries : entry'[g].init_hash = n
      <4>1. f # e BY <3>1, <3>2
      <4> QED BY <1>2, <3>2, <4>1
    <3>3. ASSUME NEW u \in Threads, Hashed(u), thread[u].msg = n
          PROVE  \E v \in Threads : Hashed(v)' /\ thread'[v].msg = n
      <4>1. Hashed(u)' /\ thread'[u].msg = n BY <3>3 DEF SameTracking, Hashed
      <4> QED BY <4>1
    <3> QED BY <1>1, <3>1, <3>2, <3>3 DEF HashesAreHeld
  <2> QED BY <2>1, <2>2, <2>3 DEF HashesAreHeld
<1>8. /\ entry[e].half_open =>
            /\ entry[e].other \in Hosts
            /\ Counts(halfOpen, halfOpen', entry[e].other, -1, ~i)
      /\ ~entry[e].half_open => UNCHANGED halfOpen
  <2>1. ASSUME entry[e].half_open
        PROVE  /\ entry[e].other \in Hosts
               /\ Counts(halfOpen, halfOpen', entry[e].other, -1, ~i)
    <3>1. entry[e].other \in Hosts /\ halfOpen[entry[e].other].count # 0
      BY <2>1, HalfOpenCounted
    <3>2. halfOpen' = RemoveHalfOpen(halfOpen, entry[e].other, i) BY <2>1 DEF Forget
    <3> QED BY <1>5, <3>1, <3>2, CounterForms
  <2> QED BY <2>1 DEF Forget
<1>9. HalfOpenIsSound'
  <2>1. halfOpen' \in CountersType BY <1>5, <1>8 DEF Counts
  <2> QED BY <1>2, <2>1 DEF Books, HalfOpenIsSound, CountersType
<1>10. ASSUME NEW g \in Hosts
       PROVE  \E x, y \in {0, 1} :
                 /\ x = 1 <=> e \in HalfOpenEntries(g)
                 /\ y = 1 <=> e \in HalfOpenEntries(g)'
                 /\ halfOpen'[g].count + x = halfOpen[g].count + y
                 /\ ~sa[s].initiator =>
                       halfOpen'[g].count_responder + x = halfOpen[g].count_responder + y
                 /\ sa[s].initiator =>
                       halfOpen'[g].count_responder = halfOpen[g].count_responder
  <2>1. e \notin HalfOpenEntries(g)' BY <1>2 DEF HalfOpenEntries
  <2>2. halfOpen[g].count \in Int /\ halfOpen[g].count_responder \in Int
    BY <1>5 DEF CountersType
  <2>3. CASE e \in HalfOpenEntries(g)
    <3>1. entry[e].half_open /\ entry[e].other = g BY <2>3 DEF HalfOpenEntries
    <3>2. /\ halfOpen'[g].count = halfOpen[g].count + (-1)
          /\ ~i => halfOpen'[g].count_responder = halfOpen[g].count_responder + (-1)
          /\ i => halfOpen'[g].count_responder = halfOpen[g].count_responder
      BY <1>8, <3>1 DEF Counts
    <3>3. /\ halfOpen'[g].count + 1 = halfOpen[g].count + 0
          /\ ~i => halfOpen'[g].count_responder + 1 = halfOpen[g].count_responder + 0
      BY <2>2, <3>2
    <3> WITNESS 1 \in {0, 1}, 0 \in {0, 1}
    <3> QED BY <2>1, <2>3, <3>2, <3>3
  <2>4. CASE e \notin HalfOpenEntries(g)
    <3>1. entry[e].half_open => entry[e].other # g BY <2>4 DEF HalfOpenEntries
    <3>2. halfOpen'[g] = halfOpen[g] BY <1>8, <3>1 DEF Counts
    <3> WITNESS 0 \in {0, 1}, 0 \in {0, 1}
    <3> QED BY <2>1, <2>2, <2>4, <3>2
  <2> QED BY <2>3, <2>4
<1>11. \A f \in Entries \ {e} : SameBooks(f) BY <1>2 DEF SameBooks
<1>12. SameInitiators BY DEF SameInitiators
<1>13. Counted' BY <1>2, <1>9, <1>10, <1>11, <1>12, EntryCounts
<1> QED BY <1>7, <1>9, <1>13 DEF Books

\* The fields checkin() writes in an entry.
LEMMA CheckinFields ==
    ASSUME EntriesTyped, NEW e \in Entries, NEW c \in BOOLEAN, NEW h \in Hosts,
           entry' = [entry EXCEPT ![e].checked_out = None,
                             ![e].processing = None, ![e].half_open = c,
                             ![e].other = IF c THEN h ELSE @]
    PROVE  /\ entry'[e].alive = entry[e].alive /\ entry'[e].sa = entry[e].sa
           /\ entry'[e].half_open = c /\ entry'[e].init_hash = entry[e].init_hash
           /\ c => entry'[e].other = h
           /\ \A f \in Entries \ {e} : entry'[f] = entry[f]
<1> DEFINE E == [entry EXCEPT ![e].checked_out = None]
           F == [E EXCEPT ![e].processing = None]
           G == [F EXCEPT ![e].half_open = c]
           v == IF c THEN h ELSE G[e].other
           H == [G EXCEPT ![e].other = v]
<1>1. entry' = H OBVIOUS
<1>2. /\ E \in [Entries -> EntryShape]
      /\ \A f \in Entries \ {e} : E[f] = entry[f]
      /\ E[e].alive = entry[e].alive /\ E[e].sa = entry[e].sa
      /\ E[e].init_hash = entry[e].init_hash
  BY DEF EntriesTyped, EntryShape
<1> HIDE DEF E
<1>3. /\ F \in [Entries -> EntryShape]
      /\ \A f \in Entries \ {e} : F[f] = E[f]
      /\ F[e].alive = E[e].alive /\ F[e].sa = E[e].sa
      /\ F[e].init_hash = E[e].init_hash
  BY <1>2 DEF EntryShape
<1> HIDE DEF F
<1>4. /\ G \in [Entries -> EntryShape]
      /\ \A f \in Entries \ {e} : G[f] = F[f]
      /\ G[e].alive = F[e].alive /\ G[e].sa = F[e].sa
      /\ G[e].init_hash = F[e].init_hash /\ G[e].half_open = c
  BY <1>3 DEF EntryShape
<1> HIDE DEF G
<1>5. v \in Hosts \cup {None} /\ (c => v = h) BY <1>4 DEF EntryShape
<1> HIDE DEF v
<1>6. /\ \A f \in Entries \ {e} : H[f] = G[f]
      /\ H[e].alive = G[e].alive /\ H[e].sa = G[e].sa
      /\ H[e].init_hash = G[e].init_hash /\ H[e].half_open = G[e].half_open
      /\ H[e].other = v
  BY <1>4, <1>5 DEF EntryShape
<1> HIDE DEF H
<1>7. H[e].half_open = c BY <1>4, <1>6
<1>8. /\ H[e].alive = entry[e].alive /\ H[e].sa = entry[e].sa
      /\ H[e].init_hash = entry[e].init_hash
  BY <1>2, <1>3, <1>4, <1>6
<1>9. \A f \in Entries \ {e} : H[f] = entry[f] BY <1>2, <1>3, <1>4, <1>6
<1>10. c => H[e].other = h BY <1>5, <1>6
<1> QED BY <1>1, <1>7, <1>8, <1>9, <1>10, Zenon

\* What the check-in changes in the counters of host g.
LEMMA RecountForms ==
    ASSUME NEW x, NEW y, NEW c \in BOOLEAN, NEW i \in BOOLEAN, NEW a, NEW h \in Hosts,
           NEW half \in BOOLEAN,
           halfOpen \in CountersType, x.half_open = half, x.other = a, y.initiator = i,
           y.other = h, c <=> y.state = "CONNECTING",
           half => a \in Hosts /\ halfOpen[a].count # 0
    PROVE  /\ Recount(x, y) \in CountersType
           /\ \A g \in Hosts : \E p, q \in {0, 1} :
                 /\ p = 1 <=> half /\ a = g
                 /\ q = 1 <=> c /\ h = g
                 /\ Recount(x, y)[g].count + p = halfOpen[g].count + q
                 /\ ~i => Recount(x, y)[g].count_responder + p
                             = halfOpen[g].count_responder + q
                 /\ i => Recount(x, y)[g].count_responder = halfOpen[g].count_responder
<1> DEFINE Put(d) == PutHalfOpen(d, h, i)
           Removed == RemoveHalfOpen(halfOpen, a, i)
<1>1. half /\ ~c => Recount(x, y) = Removed BY DEF Recount
<1>2. half /\ c /\ h # a => Recount(x, y) = Put(Removed) BY DEF Recount
<1>3. ~half /\ c => Recount(x, y) = Put(halfOpen) BY DEF Recount
<1>4. (half /\ c /\ h = a) \/ (~half /\ ~c) => Recount(x, y) = halfOpen BY DEF Recount
<1> PICK R : R = Recount(x, y) OBVIOUS
<1>5. half => Counts(halfOpen, Removed, a, -1, ~i) BY CounterForms
<1>6. ASSUME NEW d \in CountersType PROVE Counts(d, Put(d), h, 1, ~i) BY CounterForms
<1>7. half => Removed \in CountersType BY <1>5 DEF Counts
<1>8. half => Counts(Removed, Put(Removed), h, 1, ~i) BY <1>6, <1>7
<1>9. Counts(halfOpen, Put(halfOpen), h, 1, ~i) BY <1>6
<1> HIDE DEF Put, Removed
<1>w. 0 \in {0, 1} /\ 1 \in {0, 1} OBVIOUS
<1> USE <1>w
<1>10. R \in CountersType
  BY <1>1, <1>2, <1>3, <1>4, <1>5, <1>8, <1>9 DEF Counts
<1>11. ASSUME NEW g \in Hosts
       PROVE  \E p, q \in {0, 1} :
                 /\ p = 1 <=> half /\ a = g
                 /\ q = 1 <=> c /\ h = g
                 /\ R[g].count + p = halfOpen[g].count + q
                 /\ ~i => R[g].count_responder + p = halfOpen[g].count_responder + q
                 /\ i => R[g].count_responder = halfOpen[g].count_responder
  <2>1. halfOpen[g].count \in Int /\ halfOpen[g].count_responder \in Int
    BY DEF CountersType
  <2>2. CASE half /\ a = g /\ ~(c /\ h = g)
    <3>1. /\ Removed[g].count = halfOpen[g].count + (-1)
          /\ ~i => Removed[g].count_responder = halfOpen[g].count_responder + (-1)
          /\ i => Removed[g].count_responder = halfOpen[g].count_responder
      BY <1>5, <2>2 DEF Counts
    <3>2. R[g] = Removed[g]
      <4>1. c => h # g BY <2>2
      <4>2. CASE c BY <1>2, <1>8, <2>2, <4>1, <4>2 DEF Counts
      <4> QED BY <1>1, <2>2, <4>2
    <3>3. /\ R[g].count + 1 = halfOpen[g].count + 0
          /\ ~i => R[g].count_responder + 1 = halfOpen[g].count_responder + 0
      BY <2>1, <3>1, <3>2
    <3> WITNESS 1 \in {0, 1}, 0 \in {0, 1}
    <3> QED BY <2>2, <3>1, <3>2, <3>3
  <2>3. CASE ~(half /\ a = g) /\ c /\ h = g
    <3>1. ASSUME NEW d \in CountersType, d[g] = halfOpen[g], R = Put(d),
                 Counts(d, Put(d), h, 1, ~i)
          PROVE  /\ R[g].count = halfOpen[g].count + 1
                 /\ ~i => R[g].count_responder = halfOpen[g].count_responder + 1
                 /\ i => R[g].count_responder = halfOpen[g].count_responder
      BY <2>3, <3>1 DEF Counts
    <3>2. /\ R[g].count = halfOpen[g].count + 1
          /\ ~i => R[g].count_responder = halfOpen[g].count_responder + 1
          /\ i => R[g].count_responder = halfOpen[g].count_responder
      <4>1. ASSUME half
            PROVE  R = Put(Removed) /\ Removed[g] = halfOpen[g] /\ Removed \in CountersType
        BY <1>2, <1>5, <1>7, <2>3, <4>1 DEF Counts
      <4>2. ~half => R = Put(halfOpen) BY <1>3, <2>3
      <4> QED BY <1>8, <1>9, <3>1, <4>1, <4>2
    <3>3. /\ R[g].count + 0 = halfOpen[g].count + 1
          /\ ~i => R[g].count_responder + 0 = halfOpen[g].count_responder + 1
      BY <2>1, <3>2
    <3> WITNESS 0 \in {0, 1}, 1 \in {0, 1}
    <3> QED BY <2>3, <3>2, <3>3
  <2>4. CASE half /\ a = g /\ c /\ h = g
    <3>1. R = halfOpen BY <1>4, <2>4
    <3> WITNESS 1 \in {0, 1}, 1 \in {0, 1}
    <3> QED BY <2>1, <2>4, <3>1
  <2>5. CASE ~(half /\ a = g) /\ ~(c /\ h = g)
    <3>1. R[g] = halfOpen[g]
      <4>1. half => Removed[g] = halfOpen[g] BY <1>5, <2>5 DEF Counts
      <4>2. c /\ half => Put(Removed)[g] = Removed[g] BY <1>8, <2>5 DEF Counts
      <4>3. c => Put(halfOpen)[g] = halfOpen[g] BY <1>9, <2>5 DEF Counts
      <4> QED BY <1>1, <1>2, <1>3, <1>4, <4>1, <4>2, <4>3
    <3>2. /\ 0 = 1 <=> half /\ a = g
          /\ 0 = 1 <=> c /\ h = g
          /\ R[g].count + 0 = halfOpen[g].count + 0
          /\ ~i => R[g].count_responder + 0 = halfOpen[g].count_responder + 0
          /\ i => R[g].count_responder = halfOpen[g].count_responder
      BY <2>1, <2>5, <3>1
    <3> QED BY <1>w, <3>2, Zenon
  <2> QED BY <2>2, <2>3, <2>4, <2>5
<1> QED BY <1>10, <1>11

\* checkin()
LEMMA CheckinBooks ==
    ASSUME Shape, Ownership, Books, NEW t \in Threads, NEW st \in State, NEW h \in Hosts,
           Checkin(t, st, h)
    PROVE  Books'
<1>c. PICK c \in BOOLEAN : c <=> st = "CONNECTING" OBVIOUS
<1>1. /\ Typed /\ EntriesTyped /\ t \in All /\ t # None /\ draining \in BOOLEAN
      /\ Worked(t) /\ Return(t) /\ UNCHANGED initHash
      /\ \A u \in Threads : u \in All
  BY WorkerFacts, Values DEF Checkin, Shape, globals
<1>2. IsFresh(t) \/ (thread[t].pc = "working" /\ Owns(t))
  BY <1>1 DEF Worked, IsFresh, Owns
<1>3. thread[t].sa \in 1..(nextSpi - 1) BY <1>2 DEF Ownership, OwnersAreSound
<1> PICK s \in 1..(nextSpi - 1) : s = thread[t].sa BY <1>3
<1>4. s \in Sas BY ManagerAssumption DEF Shape, Sas
<1>5. sa \in SaType /\ halfOpen \in CountersType
  BY DEF Books, HalfOpenIsSound, SaType, CountersType
<1>y. PICK y : y = [sa[s] EXCEPT !.state = st, !.other = h] OBVIOUS
<1>6. /\ y \in [state : State, initiator : BOOLEAN, other : Hosts \cup {None}]
      /\ y.state = st /\ y.other = h /\ y.initiator = sa[s].initiator
  BY <1>4, <1>5, <1>y DEF SaType
<1>7. sa' = [sa EXCEPT ![s] = y] BY <1>y DEF Checkin
<1>8. sa' \in SaType /\ SameInitiators
  <2>1. sa' \in SaType BY <1>5, <1>6, <1>7 DEF SaType
  <2>2. \A r \in Sas : sa'[r].initiator = sa[r].initiator
    BY <1>5, <1>6, <1>7 DEF SaType
  <2>3. \A r \in 1..(nextSpi - 1) : r \in Sas BY ManagerAssumption DEF Shape, Sas
  <2> QED BY <2>1, <2>2, <2>3 DEF SameInitiators
<1>9. \A u \in Threads : SameTracking(u)
  <2>1. thread[t].pc \notin {"init", "create", "put"} BY <1>1 DEF Worked
  <2>2. /\ thread'[t].pc \notin {"init", "create", "put"}
        /\ \A u \in Threads \ {t} : thread'[u] = thread[u]
    BY <1>1 DEF Return, Idle, Job, Typed
  <2> QED BY <2>1, <2>2, SameTracks
<1>10. ASSUME NEW e \in EntriesOf(s), halfOpen' = Recount(entry[e], y),
              entry' = [entry EXCEPT ![e].checked_out = None,
                             ![e].processing = None, ![e].half_open = c,
                             ![e].other = IF c THEN h ELSE @]
       PROVE  Books'
  <2>1. e \in Entries /\ InRow(e) /\ entry[e].sa = s BY DEF EntriesOf
  <2>2. entry[e].alive BY <2>1 DEF Ownership, RowIsSound
  <2>3. /\ entry'[e].alive = entry[e].alive /\ entry'[e].sa = entry[e].sa
        /\ entry'[e].half_open = c /\ entry'[e].init_hash = entry[e].init_hash
        /\ c => entry'[e].other = h
        /\ \A f \in Entries \ {e} : entry'[f] = entry[f]
    BY <1>1, <1>10, <2>1, CheckinFields
  <2>4. HashesAreHeld'
    <3>1. \A f \in Entries :
             /\ entry'[f].init_hash = entry[f].init_hash
             /\ entry'[f].alive = entry[f].alive /\ entry'[f].sa = entry[f].sa
      BY <2>3
    <3>2. \A u \in Threads : /\ Hashed(u)' <=> Hashed(u)
                             /\ Hashed(u) => /\ thread'[u].msg = thread[u].msg
                                             /\ thread'[u].sa = thread[u].sa
      BY <1>9 DEF SameTracking, Hashed
    <3> QED BY <1>1, <3>1, <3>2, HashesKept DEF Books
  <2>5. entry[e].half_open \in BOOLEAN BY <1>1, <2>1 DEF EntriesTyped, EntryShape
  <2>half. PICK half \in BOOLEAN : half = entry[e].half_open BY <2>5
  <2> PICK a : a = entry[e].other OBVIOUS
  <2>6. sa[s].initiator \in BOOLEAN BY <1>4, <1>5 DEF SaType
  <2>i. PICK i \in BOOLEAN : i = sa[s].initiator BY <2>6
  <2>7. half => a \in Hosts /\ halfOpen[a].count # 0 BY <2>1, <2>half, HalfOpenCounted
  <2>8. /\ halfOpen' \in CountersType
        /\ \A g \in Hosts : \E p, q \in {0, 1} :
              /\ p = 1 <=> half /\ a = g
              /\ q = 1 <=> c /\ h = g
              /\ halfOpen'[g].count + p = halfOpen[g].count + q
              /\ ~i => halfOpen'[g].count_responder + p = halfOpen[g].count_responder + q
              /\ i => halfOpen'[g].count_responder = halfOpen[g].count_responder
    <3> PICK x : x = entry[e] OBVIOUS
    <3>1. /\ x.half_open = half /\ x.other = a /\ y.initiator = i
          /\ c <=> y.state = "CONNECTING"
      BY <1>6, <1>c, <2>half, <2>i
    <3>2. ASSUME NEW b \in BOOLEAN, NEW j \in BOOLEAN, NEW l \in BOOLEAN,
                 x.half_open = b, y.initiator = j, l <=> y.state = "CONNECTING",
                 b => a \in Hosts /\ halfOpen[a].count # 0
          PROVE  /\ Recount(x, y) \in CountersType
                 /\ \A g \in Hosts : \E p, q \in {0, 1} :
                       /\ p = 1 <=> b /\ a = g
                       /\ q = 1 <=> l /\ h = g
                       /\ Recount(x, y)[g].count + p = halfOpen[g].count + q
                       /\ ~j => Recount(x, y)[g].count_responder + p
                                   = halfOpen[g].count_responder + q
                       /\ j => Recount(x, y)[g].count_responder
                                   = halfOpen[g].count_responder
      <4>1. x.other = a /\ y.other = h BY <1>6
      <4> QED BY <1>5, <3>2, <4>1, RecountForms
    <3>3. /\ Recount(x, y) \in CountersType
          /\ \A g \in Hosts : \E p, q \in {0, 1} :
                /\ p = 1 <=> half /\ a = g
                /\ q = 1 <=> c /\ h = g
                /\ Recount(x, y)[g].count + p = halfOpen[g].count + q
                /\ ~i => Recount(x, y)[g].count_responder + p
                            = halfOpen[g].count_responder + q
                /\ i => Recount(x, y)[g].count_responder = halfOpen[g].count_responder
      BY <2>7, <3>1, <3>2
    <3> QED BY <1>10, <3>3
  <2>9. \A g \in Hosts : /\ e \in HalfOpenEntries(g) <=> half /\ a = g
                         /\ e \in HalfOpenEntries(g)' <=> c /\ h = g
    BY <2>1, <2>3, <2>half DEF HalfOpenEntries
  <2>10. HalfOpenIsSound'
    <3>1. \A f \in Entries : entry'[f].half_open =>
             entry'[f].alive /\ entry'[f].other \in Hosts
      BY <2>2, <2>3 DEF Books, HalfOpenIsSound
    <3> QED BY <1>8, <2>8, <3>1 DEF HalfOpenIsSound, CountersType, SaType
  <2>11. \A f \in Entries \ {e} : SameBooks(f) BY <2>3 DEF SameBooks
  <2>12. \A g \in Hosts : \E p, q \in {0, 1} :
            /\ p = 1 <=> e \in HalfOpenEntries(g)
            /\ q = 1 <=> e \in HalfOpenEntries(g)'
            /\ halfOpen'[g].count + p = halfOpen[g].count + q
            /\ ~sa[s].initiator =>
                  halfOpen'[g].count_responder + p = halfOpen[g].count_responder + q
            /\ sa[s].initiator =>
                  halfOpen'[g].count_responder = halfOpen[g].count_responder
    BY <2>8, <2>9, <2>i
  <2>13. Counted' BY <1>8, <1>9, <2>1, <2>3, <2>10, <2>11, <2>12, EntryCounts
  <2> QED BY <2>4, <2>10, <2>13 DEF Books
<1>11. ASSUME EntriesOf(s) = {},
              PutEntry(Twin(s), NewEntry(s, None, c, IF c THEN h ELSE None, None)),
              halfOpen' = IF c THEN PutHalfOpen(halfOpen, h, y.initiator) ELSE halfOpen
       PROVE  Books'
  <2>1. /\ Twin(s) \in Entries /\ s \in 0..MaxSas /\ Twin(s) > MaxSas
        /\ entry[Twin(s)].alive => entry[Twin(s)].sa = s
    BY Slots
  <2> PICK e \in Entries : e = Twin(s) BY <2>1
  <2>2. ~entry[e].alive
    <3> SUFFICES ASSUME entry[e].alive PROVE FALSE OBVIOUS
    <3>1. entry[e].sa = s /\ e > MaxSas BY <2>1
    <3>2. ~InRow(e) BY <1>11, <3>1 DEF EntriesOf
    <3>3. Owns(t) /\ entry[e].checked_out = t
      BY <1>2, <3>1 DEF Ownership, OwnersAreSound
    <3>4. ASSUME NEW u \in Threads, thread[u].pc = "destroy", thread[u].at = e PROVE FALSE
      <4>1. u # t /\ Owns(u) BY <1>1, <3>4 DEF Owns, Worked
      <4>2. thread[u].sa = s BY <3>1, <3>4 DEF Ownership, PointersAreSound
      <4> QED BY <3>3, <4>1, <4>2 DEF Ownership, OwnersAreSound
    <3>5. e > MaxSas => entry[e].checked_out = None
      BY <3>2, <3>4 DEF Ownership, RowIsSound
    <3> QED BY <1>1, <3>1, <3>3, <3>5
  <2>3. PICK o \in Hosts \cup {None} : o = IF c THEN h ELSE None OBVIOUS
  <2>4. PutEntry(e, NewEntry(s, None, c, o, None)) BY <1>11, <2>3
  <2>5. None \in Threads \cup {None} /\ None \in Messages \cup {None} OBVIOUS
  <2>6. /\ entry'[e].alive /\ entry'[e].sa = s /\ entry'[e].half_open = c
        /\ entry'[e].other = o /\ entry'[e].init_hash = None
        /\ \A f \in Entries \ {e} : entry'[f] = entry[f]
    <3>1. ASSUME NEW out \in Threads \cup {None}, NEW half \in BOOLEAN,
                 NEW i \in Messages \cup {None}, PutEntry(e, NewEntry(s, out, half, o, i))
          PROVE  /\ entry'[e].alive /\ entry'[e].sa = s /\ entry'[e].half_open = half
                 /\ entry'[e].other = o /\ entry'[e].init_hash = i
                 /\ \A f \in Entries \ {e} : entry'[f] = entry[f]
      BY <1>1, <2>1, <3>1, PutFields
    <3> QED BY <2>4, <2>5, <3>1
  <2>7. /\ ~c => UNCHANGED halfOpen
        /\ c => /\ o \in Hosts
                /\ halfOpen' = PutHalfOpen(halfOpen, o, sa[s].initiator)
    BY <1>6, <1>11, <2>3
  <2> QED BY <1>1, <1>8, <1>9, <2>2, <2>6, <2>7, NewEntryBooks
<1>12. \/ \E e \in EntriesOf(s) :
             /\ entry' = [entry EXCEPT ![e].checked_out = None,
                             ![e].processing = None, ![e].half_open = c,
                             ![e].other = IF c THEN h ELSE @]
             /\ halfOpen' = Recount(entry[e], y)
       \/ /\ EntriesOf(s) = {}
          /\ PutEntry(Twin(s), NewEntry(s, None, c, IF c THEN h ELSE None, None))
          /\ halfOpen' = IF c THEN PutHalfOpen(halfOpen, h, y.initiator) ELSE halfOpen
  BY <1>c, <1>y DEF Checkin
<1> QED BY <1>10, <1>11, <1>12

\* Main and a stutter leave the threads alone.
LEMMA UntouchedBooks ==
    ASSUME Shape, Ownership, Books, \A f \in Entries : SameBooks(f),
           \A u \in Threads : thread'[u] = thread[u], UNCHANGED << halfOpen, initHash, sa >>
    PROVE  Books'
<1>1. \A u \in Threads : SameTracking(u) BY DEF SameTracking, Hashed
<1>2. sa' \in SaType /\ SameInitiators
  BY DEF Books, HalfOpenIsSound, SaType, SameInitiators
<1> QED BY <1>1, <1>2, BooksAlike

\* create_new(): the IKE_SA is not in the table yet.
LEMMA CreateNewBooks ==
    ASSUME Shape, Ownership, Books, NEW t \in Threads, NEW h \in Hosts, CreateNew(t, h)
    PROVE  Books'
<1>1. /\ Typed /\ t \in All /\ nextSpi \in Sas /\ thread[t].pc = "idle"
      /\ UNCHANGED << entry, halfOpen, initHash >>
      /\ \A u \in Threads : u \in All
  BY WorkerFacts, Values DEF CreateNew, SpiAvailable, Starts, Shape, Sas, table
<1>2. \A f \in Entries : SameBooks(f) BY <1>1 DEF SameBooks
<1>3. \A u \in Threads : SameTracking(u)
  <2>1. /\ thread'[t].pc = "new" /\ \A u \in Threads \ {t} : thread'[u] = thread[u]
    BY <1>1 DEF CreateNew, Starts, Job, Typed
  <2> QED BY <1>1, <2>1, SameTracks
<1>4. sa' \in SaType /\ SameInitiators
  <2> DEFINE y == [state |-> "CREATED", initiator |-> TRUE, other |-> h]
  <2>1. y \in [state : State, initiator : BOOLEAN, other : Hosts \cup {None}] BY DEF State
  <2>2. sa' = [sa EXCEPT ![nextSpi] = y] BY DEF CreateNew
  <2> HIDE DEF y
  <2>3. sa' \in SaType /\ \A r \in Sas \ {nextSpi} : sa'[r] = sa[r]
    BY <1>1, <2>1, <2>2 DEF SaType, Books, HalfOpenIsSound
  <2>4. \A r \in 1..(nextSpi - 1) : r \in Sas \ {nextSpi}
    BY ManagerAssumption DEF Shape, Sas
  <2> QED BY <2>3, <2>4 DEF SameInitiators
<1> QED BY <1>1, <1>2, <1>3, <1>4, BooksAlike

\* Every step keeps the books.
LEMMA BooksStep == Shape /\ Ownership /\ Books /\ [Next]_vars => Books'
<1> SUFFICES ASSUME Shape, Ownership, Books, [Next]_vars PROVE Books' OBVIOUS
<1>1. ASSUME NEW t \in Threads, DestroyEntry(t) PROVE Books'
  <2>1. /\ Typed /\ t \in All /\ thread[t].pc = "destroy" /\ Return(t) /\ UNCHANGED sa
        /\ \A u \in Threads : u \in All
    BY <1>1, WorkerFacts, Values DEF DestroyEntry
  <2> PICK e \in Entries : e = thread[t].at BY <2>1 DEF Ownership, PointersAreSound
  <2>2. Forget(e) /\ entry[e].alive
    BY <1>1, <2>1 DEF DestroyEntry, Ownership, PointersAreSound
  <2>3. /\ thread'[t].pc \notin {"init", "create", "put"}
        /\ \A u \in Threads \ {t} : thread'[u] = thread[u]
    BY <2>1 DEF Return, Idle, Job, Typed
  <2>4. \A u \in Threads : SameTracking(u) BY <2>1, <2>3, SameTracks
  <2> QED BY <2>1, <2>2, <2>4, ForgetBooks
<1>2. ASSUME NEW t \in Threads, Proceeds(t) PROVE Books'
  <2>1. CASE CheckAndPutInitHash(t) \/ CheckLimit(t) BY <2>1, InitBooks
  <2>2. CASE PutInit(t) BY <2>2, PutInitBooks
  <2>3. CASE CheckoutNew(t) BY <2>3, CheckoutNewBooks
  <2>4. CASE Lookup(t) \/ Acquire(t) \/ Resume(t) \/ CheckinAndDestroy(t) \/ DriveOut(t)
             \/ ResumeDriveOut(t)
    BY <2>4, CheckoutBooks
  <2>5. CASE \E st \in State, h \in Hosts : Checkin(t, st, h) BY <2>5, CheckinBooks
  <2>6. CASE DestroyEntry(t) BY <1>1, <2>6
  <2> QED BY <1>2, <2>1, <2>2, <2>3, <2>4, <2>5, <2>6 DEF Proceeds
<1>3. ASSUME NEW t \in Threads, \/ \E m \in Messages : TrackInit(t, m)
                                \/ \E h \in Hosts : CreateNew(t, h)
                                \/ \E s \in Sas, how \in {"id", "enum"} :
                                      StartCheckout(t, s, how)
      PROVE  Books'
  BY <1>3, InitBooks, CreateNewBooks, CheckoutBooks
<1>4. CASE Flushes
  <2>1. \A u \in Threads : thread'[u] = thread[u]
    <3>1. thread \in [All -> ThreadType] /\ \A u \in Threads : u \in All /\ u # Main
      BY ManagerAssumption, Values DEF Shape
    <3> QED BY <1>4, <3>1
         DEF Flushes, Flush, FlushMark, FlushRow, FlushEntry, FlushResume, Goto
  <2>2. CASE Flush \/ FlushRow \/ FlushResume
    <3>1. UNCHANGED << entry, halfOpen, initHash, sa >>
      BY <2>2 DEF Flush, FlushRow, FlushResume, table, globals
    <3>2. \A f \in Entries : SameBooks(f) BY <3>1 DEF SameBooks
    <3> QED BY <2>1, <3>1, <3>2, UntouchedBooks
  <2>3. CASE FlushMark
    <3>1. UNCHANGED << halfOpen, initHash, sa >> BY <2>3 DEF FlushMark
    <3> QED BY <2>1, <2>3, <3>1, MarkBooks, UntouchedBooks
  <2>4. CASE FlushEntry
    <3>1. ASSUME UNCHANGED << entry, halfOpen, initHash, sa >> PROVE Books'
      <4>1. \A f \in Entries : SameBooks(f) BY <3>1 DEF SameBooks
      <4> QED BY <2>1, <3>1, <4>1, UntouchedBooks
    <3>2. ASSUME Forget(thread[Main].at), RemoveAtFront(thread[Main].at), UNCHANGED sa
          PROVE  Books'
      <4>1. PICK k \in 1..Len(row) : row[k] = thread[Main].at BY <3>2 DEF RemoveAtFront
      <4> PICK e : e = thread[Main].at OBVIOUS
      <4>2. e \in Entries /\ InRow(e) BY <4>1 DEF Shape, InRow
      <4>3. entry[e].alive BY <4>2 DEF Ownership, RowIsSound
      <4>4. \A u \in Threads : SameTracking(u) BY <2>1 DEF SameTracking, Hashed
      <4> QED BY <3>2, <4>2, <4>3, <4>4, ForgetBooks
    <3> QED BY <2>4, <3>1, <3>2 DEF FlushEntry, table
  <2> QED BY <1>4, <2>2, <2>3, <2>4 DEF Flushes
<1>5. CASE UNCHANGED vars
  <2>1. UNCHANGED << entry, halfOpen, initHash, sa, thread >> BY <1>5 DEF vars, table, globals
  <2>2. \A f \in Entries : SameBooks(f) BY <2>1 DEF SameBooks
  <2> QED BY <2>1, <2>2, UntouchedBooks
<1> QED BY <1>2, <1>3, <1>4, <1>5 DEF Next

\* The table starts with nothing in the books.
LEMMA BooksInit == Init => Books
<1> SUFFICES ASSUME Init PROVE Books OBVIOUS
<1>1. /\ \A e \in Entries : ~entry[e].half_open /\ entry[e].init_hash = None
      /\ \A t \in Threads : thread[t].pc = "idle"
      /\ \A m \in Messages : initHash[m] = 0
  BY Values DEF Init, NoEntry, Idle, Job
<1>2. HashesAreHeld BY <1>1 DEF HashesAreHeld, Hashed
<1>3. HalfOpenIsSound BY <1>1 DEF HalfOpenIsSound, Init, State
<1>4. \A h \in Hosts : Tracking(h) = {} /\ HalfOpenEntries(h) = {} /\ Responders(h) = {}
  BY <1>1 DEF Tracking, HalfOpenEntries, Responders
<1>5. \A h \in Hosts : halfOpen[h].count = 0 /\ halfOpen[h].count_responder = 0 BY DEF Init
<1>6. Cardinality({}) = 0 BY FS_EmptySet
<1>7. Counted BY <1>4, <1>5, <1>6 DEF Counted
<1> QED BY <1>2, <1>3, <1>7 DEF Books

\* The books are kept, for any number of threads, messages, hosts and IKE_SAs.
LEMMA BooksKept == Spec => [](Shape /\ Ownership /\ Books)
BY ShapeInit, OwnershipInit, OwnershipStep, BooksInit, BooksStep, PTL DEF Spec

\* The counters of half-open IKE_SAs never drift from the requests that are
\* being processed and the half-open IKE_SAs in the table, whichever threads
\* check IKE_SAs in, destroy them or shut the daemon down in between.
THEOREM HalfOpenCorrect == Spec => []HalfOpenAgrees
<1>1. Books => HalfOpenAgrees BY DEF Books, Counted, HalfOpenAgrees, Responders
<1> QED BY <1>1, BooksKept, PTL

\* An initial request that is received again, at any time, finds the IKE_SA that
\* was created for it, or a hash that is not there anymore: never two IKE_SAs.
THEOREM HashesCorrect == Spec => []InitHashAgrees
<1>1. ASSUME Shape, Ownership, Books, NEW m \in Messages,
             NEW E, E = {e \in Entries : entry[e].init_hash = m},
             NEW T, T = {t \in Threads : thread[t].pc \in {"create", "put"}
                                         /\ thread[t].msg = m}
      PROVE  /\ \A e \in E : initHash[m] = entry[e].sa
             /\ \A t \in T : initHash[m] = thread[t].sa
             /\ Cardinality(E) + Cardinality(T) = IF initHash[m] = 0 THEN 0 ELSE 1
  <2>1. HashesAreHeld /\ m # None BY <1>1, ManagerAssumption DEF Books
  <2>2. \A t \in T : t \in Threads /\ Hashed(t) /\ thread[t].msg = m BY <1>1 DEF Hashed
  <2>3. \A e \in E : e \in Entries /\ entry[e].init_hash = m BY <1>1
  <2>4. \A e \in E : initHash[m] = entry[e].sa BY <2>1, <2>3 DEF HashesAreHeld
  <2>5. \A t \in T : initHash[m] = thread[t].sa BY <2>1, <2>2 DEF HashesAreHeld
  <2>6. \A e \in E : initHash[m] # 0
    <3> SUFFICES ASSUME NEW e \in E PROVE initHash[m] # 0 OBVIOUS
    <3>1. entry[e].alive BY <2>1, <2>3 DEF HashesAreHeld
    <3>2. entry[e].sa \in 1..(nextSpi - 1) BY <1>1, <2>3, <3>1 DEF Ownership, EntriesAreSound
    <3> QED BY <1>1, <2>4, <3>2 DEF Shape
  <2>7. \A t \in T : initHash[m] # 0 /\ E = {} /\ T = {t}
    <3> SUFFICES ASSUME NEW t \in T PROVE initHash[m] # 0 /\ E = {} /\ T = {t} OBVIOUS
    <3>1. /\ thread[t].sa \in 1..(nextSpi - 1) /\ initHash[m] = thread[t].sa
          /\ \A e \in Entries : entry[e].init_hash # m
          /\ \A u \in Threads \ {t} : Hashed(u) => thread[u].msg # m
      BY <1>1, <2>1, <2>2, FreshHash
    <3>2. initHash[m] # 0 BY <1>1, <3>1 DEF Shape
    <3> QED BY <2>2, <2>3, <3>1, <3>2
  <2>8. \A e \in E : E = {e} BY <1>1, <2>1, <2>3, HashOwner
  <2>9. initHash[m] # 0 => E # {} \/ T # {}
    BY <1>1, <2>1 DEF HashesAreHeld, Hashed
  <2>10. Cardinality({}) = 0 /\ \A x : Cardinality({x}) = 1 BY FS_EmptySet, FS_Singleton
  <2>11. CASE T # {}
    <3>1. PICK t \in T : TRUE BY <2>11
    <3>2. Cardinality(E) = 0 /\ Cardinality(T) = 1 /\ initHash[m] # 0 BY <2>7, <2>10, <3>1
    <3> QED BY <2>4, <2>5, <3>2
  <2>12. CASE T = {} /\ E # {}
    <3>1. PICK e \in E : TRUE BY <2>12
    <3>2. Cardinality(E) = 1 /\ Cardinality(T) = 0 /\ initHash[m] # 0
      BY <2>6, <2>8, <2>10, <2>12, <3>1
    <3> QED BY <2>4, <2>5, <3>2
  <2>13. CASE T = {} /\ E = {}
    <3>1. Cardinality(E) = 0 /\ Cardinality(T) = 0 /\ initHash[m] = 0
      BY <2>9, <2>10, <2>13
    <3> QED BY <2>4, <2>5, <3>1
  <2> QED BY <2>11, <2>12, <2>13
<1>2. Shape /\ Ownership /\ Books => InitHashAgrees BY <1>1 DEF InitHashAgrees
<1> QED BY <1>2, BooksKept, PTL
=============================================================================
