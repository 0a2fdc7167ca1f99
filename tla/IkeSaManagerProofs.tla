------------------------- MODULE IkeSaManagerProofs -------------------------
(***************************************************************************)
(* At most one thread works on an IKE_SA, for any number of threads,       *)
(* IKE_SAs, messages and jobs, and also while the daemon shuts down.       *)
(*                                                                         *)
(* Exclusive is not inductive.  Ownership is, together with Shape: it says *)
(* which entries name which owner and which ones threads may point to.     *)
(***************************************************************************)
EXTENDS IkeSaManager, FiniteSetTheorems, TLAPS

WorkerPc == {"idle", "init", "create", "put", "new", "lookup", "acquire", "wait",
             "working", "driveout", "driveout_wait", "destroy"}
MainPc == {"idle", "flush", "flush_row", "flush_entry", "flush_wait", "flushed"}

EntryShape ==
    [alive : BOOLEAN, sa : 0..MaxSas, checked_out : Threads \cup {None},
     waiting_threads : Int, driveout_threads : BOOLEAN,
     half_open : BOOLEAN, other : Hosts \cup {None},
     init_hash : Messages \cup {None}, processing : Messages \cup {None}]

\* The types of the variables the argument is about.
Shape ==
    /\ entry \in [Entries -> EntryShape]
    /\ row \in Seq(Entries)
    /\ lock \in All \cup {None}
    /\ draining \in BOOLEAN
    /\ nextSpi \in 1..(MaxSas + 1)
    /\ initHash \in [Messages -> 0..MaxSas]
    /\ thread \in [All -> ThreadType]
    /\ thread[Main].pc \in MainPc
    /\ \A t \in Threads :
          /\ thread[t].pc \in WorkerPc
          /\ thread[t].pc \in {"init", "create", "put"} => thread[t].msg \in Messages

\* An idle thread, and a fresh entry, have their types.
LEMMA Values ==
    /\ Idle \in ThreadType
    /\ NoEntry \in EntryShape
    /\ Sas \subseteq Entries
    /\ \A s \in Sas : Twin(s) \in Entries
    /\ Threads \subseteq All /\ Main \in All
BY ManagerAssumption DEF Idle, Job, ThreadType, NoEntry, EntryShape, Sas, Entries, Twin, All


Typed == thread \in [All -> ThreadType]

\* Thread t moves to the state x, and no other thread moves.
Moves(t, x) ==
    /\ Typed'
    /\ thread'[t] = x
    /\ \A u \in All \ {t} : thread'[u] = thread[u]

\* The state of a thread with these fields changed.
Now(t, label, e, s) ==
    [pc |-> label, at |-> e, sa |-> s, msg |-> thread[t].msg, mode |-> thread[t].mode]

\* Writing a thread's state moves that thread only.
LEMMA SetThread ==
    ASSUME Typed, NEW t \in All, NEW x \in ThreadType, thread' = [thread EXCEPT ![t] = x]
    PROVE  Moves(t, x)
BY DEF Typed, Moves

\* The forms in which the actions write it.
LEMMA MoveForms ==
    ASSUME Typed, NEW t \in All
    PROVE  /\ \A label \in WorkerPc \cup MainPc :
                 Goto(t, label) => Moves(t, Now(t, label, thread[t].at, thread[t].sa))
           /\ Return(t) => Moves(t, Idle)
           /\ \A label \in WorkerPc \cup MainPc, s \in 0..MaxSas :
                 thread' = [thread EXCEPT ![t].pc = label, ![t].sa = s]
                    => Moves(t, Now(t, label, thread[t].at, s))
           /\ \A label \in WorkerPc \cup MainPc, e \in Entries :
                 thread' = [thread EXCEPT ![t].pc = label, ![t].at = e]
                    => Moves(t, Now(t, label, e, thread[t].sa))
           /\ \A e \in Entries :
                 thread' = [thread EXCEPT ![t].at = e]
                    => Moves(t, Now(t, thread[t].pc, e, thread[t].sa))
<1>1. ASSUME NEW label \in WorkerPc \cup MainPc \cup {thread[t].pc},
             NEW e \in 0..(2 * MaxSas), NEW s \in 0..MaxSas
      PROVE  Now(t, label, e, s) \in ThreadType
  BY DEF Now, ThreadType, Typed, WorkerPc, MainPc
<1>2. /\ thread[t] = Now(t, thread[t].pc, thread[t].at, thread[t].sa)
      /\ thread[t].at \in 0..(2 * MaxSas) /\ thread[t].sa \in 0..MaxSas
  BY DEF Now, ThreadType, Typed
<1>3. Entries \subseteq 0..(2 * MaxSas)
  BY ManagerAssumption DEF Entries
<1>4. ASSUME NEW label \in WorkerPc \cup MainPc, Goto(t, label)
      PROVE  Moves(t, Now(t, label, thread[t].at, thread[t].sa))
  <2> DEFINE x == Now(t, label, thread[t].at, thread[t].sa)
  <2>1. [thread[t] EXCEPT !.pc = label] = x BY DEF Now, ThreadType, Typed
  <2>2. thread' = [thread EXCEPT ![t] = x] BY <1>4, <2>1 DEF Goto, Typed
  <2> QED BY <1>1, <1>2, <2>2, SetThread
<1>5. ASSUME Return(t) PROVE Moves(t, Idle)
  BY <1>5, SetThread, Values DEF Return
<1>6. ASSUME NEW label \in WorkerPc \cup MainPc, NEW s \in 0..MaxSas,
             thread' = [thread EXCEPT ![t].pc = label, ![t].sa = s]
      PROVE  Moves(t, Now(t, label, thread[t].at, s))
  <2> DEFINE x == Now(t, label, thread[t].at, s)
  <2>1. [thread[t] EXCEPT !.pc = label] = Now(t, label, thread[t].at, thread[t].sa)
    BY DEF Now, ThreadType, Typed
  <2>2. [Now(t, label, thread[t].at, thread[t].sa) EXCEPT !.sa = s] = x BY DEF Now
  <2>3. thread' = [[thread EXCEPT ![t].pc = label] EXCEPT ![t].sa = s] BY <1>6
  <2>4. [thread EXCEPT ![t].pc = label]
           = [thread EXCEPT ![t] = Now(t, label, thread[t].at, thread[t].sa)]
    BY <2>1 DEF Typed
  <2>5. thread' = [thread EXCEPT ![t] = x] BY <2>2, <2>3, <2>4 DEF Typed
  <2> QED BY <1>1, <1>2, <2>5, SetThread
<1>7. ASSUME NEW label \in WorkerPc \cup MainPc, NEW e \in Entries,
             thread' = [thread EXCEPT ![t].pc = label, ![t].at = e]
      PROVE  Moves(t, Now(t, label, e, thread[t].sa))
  <2> DEFINE x == Now(t, label, e, thread[t].sa)
  <2>1. [thread[t] EXCEPT !.pc = label] = Now(t, label, thread[t].at, thread[t].sa)
    BY DEF Now, ThreadType, Typed
  <2>2. [Now(t, label, thread[t].at, thread[t].sa) EXCEPT !.at = e] = x BY DEF Now
  <2>3. thread' = [[thread EXCEPT ![t].pc = label] EXCEPT ![t].at = e] BY <1>7
  <2>4. [thread EXCEPT ![t].pc = label]
           = [thread EXCEPT ![t] = Now(t, label, thread[t].at, thread[t].sa)]
    BY <2>1 DEF Typed
  <2>5. thread' = [thread EXCEPT ![t] = x] BY <2>2, <2>3, <2>4 DEF Typed
  <2> QED BY <1>1, <1>2, <1>3, <2>5, SetThread
<1>8. ASSUME NEW e \in Entries, thread' = [thread EXCEPT ![t].at = e]
      PROVE  Moves(t, Now(t, thread[t].pc, e, thread[t].sa))
  <2> DEFINE x == Now(t, thread[t].pc, e, thread[t].sa)
  <2>1. [thread[t] EXCEPT !.at = e] = x BY DEF Now, ThreadType, Typed
  <2>2. thread' = [thread EXCEPT ![t] = x] BY <1>8, <2>1 DEF Typed
  <2> QED BY <1>1, <1>2, <1>3, <2>2, SetThread
<1> QED BY <1>4, <1>5, <1>6, <1>7, <1>8

\* The initial values have their types.
LEMMA ShapeInit == Init => Shape
<1> SUFFICES ASSUME Init PROVE Shape OBVIOUS
<1>1. thread \in [All -> ThreadType] /\ \A t \in All : thread[t].pc = "idle"
  BY Values DEF Init, Idle, Job
<1>2. row \in Seq(Entries) BY DEF Init
<1>3. entry \in [Entries -> EntryShape] BY Values DEF Init
<1>4. initHash \in [Messages -> 0..MaxSas] /\ nextSpi \in 1..(MaxSas + 1)
  BY ManagerAssumption DEF Init
<1> QED BY <1>1, <1>2, <1>3, <1>4, Values DEF Init, Shape, MainPc, WorkerPc

EntriesTyped == entry \in [Entries -> EntryShape]

\* Entry e gets these fields, and no other entry is written.
Writes(e, alive, s, out, waiting, closed) ==
    /\ EntriesTyped'
    /\ entry'[e].alive = alive
    /\ entry'[e].sa = s
    /\ entry'[e].checked_out = out
    /\ entry'[e].waiting_threads = waiting
    /\ entry'[e].driveout_threads = closed
    /\ \A f \in Entries \ {e} : entry'[f] = entry[f]

\* put_entry() writes the new entry, closed while flush() drains the table.
LEMMA PutWrites ==
    ASSUME EntriesTyped, draining \in BOOLEAN, NEW e \in Entries, NEW s \in 0..MaxSas,
           NEW out \in Threads \cup {None}, NEW half \in BOOLEAN,
           NEW other \in Hosts \cup {None}, NEW init \in Messages \cup {None},
           PutEntry(e, NewEntry(s, out, half, other, init))
    PROVE  Writes(e, TRUE, s, out, 0, draining)
<1> DEFINE x == NewEntry(s, out, half, other, init)
           y == [x EXCEPT !.driveout_threads = draining]
<1>1. /\ x \in EntryShape
      /\ x.alive = TRUE /\ x.sa = s /\ x.checked_out = out /\ x.waiting_threads = 0
  BY DEF NewEntry, EntryShape
<1>2. entry' = [entry EXCEPT ![e] = y] BY DEF PutEntry
<1> HIDE DEF x
<1>3. /\ y \in EntryShape
      /\ y.alive = TRUE /\ y.sa = s /\ y.checked_out = out
      /\ y.waiting_threads = 0 /\ y.driveout_threads = draining
  BY <1>1 DEF EntryShape
<1> HIDE DEF y
<1> QED BY <1>2, <1>3 DEF Writes, EntriesTyped

\* Freeing an entry.
LEMMA ForgetWrites ==
    ASSUME EntriesTyped, NEW e \in Entries, Forget(e)
    PROVE  Writes(e, FALSE, 0, None, 0, FALSE)
<1>1. NoEntry \in EntryShape BY Values
<1>2. entry' = [entry EXCEPT ![e] = NoEntry] BY DEF Forget
<1>3. entry'[e] = NoEntry /\ EntriesTyped' BY <1>1, <1>2 DEF EntriesTyped
<1>4. \A f \in Entries \ {e} : entry'[f] = entry[f] BY <1>2 DEF EntriesTyped
<1> QED BY <1>3, <1>4 DEF Writes, NoEntry

\* F is E but for fields of entry e that the argument is not about.
Alike(E, F, e) ==
    /\ F \in [Entries -> EntryShape]
    /\ \A f \in Entries \ {e} : F[f] = E[f]
    /\ F[e].alive = E[e].alive
    /\ F[e].sa = E[e].sa
    /\ F[e].checked_out = E[e].checked_out
    /\ F[e].waiting_threads = E[e].waiting_threads
    /\ F[e].driveout_threads = E[e].driveout_threads

\* These fields can be written one by one.
LEMMA OtherFields ==
    ASSUME NEW E \in [Entries -> EntryShape], NEW e \in Entries
    PROVE  /\ \A v \in Messages \cup {None} : Alike(E, [E EXCEPT ![e].processing = v], e)
           /\ \A v \in BOOLEAN : Alike(E, [E EXCEPT ![e].half_open = v], e)
           /\ \A v \in Hosts \cup {None} : Alike(E, [E EXCEPT ![e].other = v], e)
BY DEF Alike, EntryShape

\* The fields that are written one at a time.
LEMMA FieldWrites ==
    ASSUME EntriesTyped, NEW e \in Entries
    PROVE  /\ \A t \in Threads \cup {None} :
                 entry' = [entry EXCEPT ![e].checked_out = t] =>
                    Writes(e, entry[e].alive, entry[e].sa, t,
                           entry[e].waiting_threads, entry[e].driveout_threads)
           /\ \A n \in Int :
                 entry' = [entry EXCEPT ![e].waiting_threads = n] =>
                    Writes(e, entry[e].alive, entry[e].sa, entry[e].checked_out,
                           n, entry[e].driveout_threads)
           /\ entry' = [entry EXCEPT ![e].driveout_threads = TRUE] =>
                 Writes(e, entry[e].alive, entry[e].sa, entry[e].checked_out,
                        entry[e].waiting_threads, TRUE)
<1>1. ASSUME NEW t \in Threads \cup {None}, entry' = [entry EXCEPT ![e].checked_out = t]
      PROVE  Writes(e, entry[e].alive, entry[e].sa, t,
                    entry[e].waiting_threads, entry[e].driveout_threads)
  BY <1>1 DEF EntriesTyped, Writes, EntryShape
<1>2. ASSUME NEW n \in Int, entry' = [entry EXCEPT ![e].waiting_threads = n]
      PROVE  Writes(e, entry[e].alive, entry[e].sa, entry[e].checked_out,
                    n, entry[e].driveout_threads)
  BY <1>2 DEF EntriesTyped, Writes, EntryShape
<1>3. ASSUME entry' = [entry EXCEPT ![e].driveout_threads = TRUE]
      PROVE  Writes(e, entry[e].alive, entry[e].sa, entry[e].checked_out,
                    entry[e].waiting_threads, TRUE)
  BY <1>3 DEF EntriesTyped, Writes, EntryShape
<1> QED BY <1>1, <1>2, <1>3

\* checkin() of an IKE_SA that has an entry.
LEMMA CheckinWrites ==
    ASSUME EntriesTyped, NEW e \in Entries, NEW c \in BOOLEAN, NEW h \in Hosts,
           entry' = [entry EXCEPT ![e].checked_out = None,
                             ![e].processing = None, ![e].half_open = c,
                             ![e].other = IF c THEN h ELSE @]
    PROVE  Writes(e, entry[e].alive, entry[e].sa, None,
                  entry[e].waiting_threads, entry[e].driveout_threads)
<1> DEFINE E == [entry EXCEPT ![e].checked_out = None]
           F == [E EXCEPT ![e].processing = None]
           G == [F EXCEPT ![e].half_open = c]
           v == IF c THEN h ELSE G[e].other
           H == [G EXCEPT ![e].other = v]
<1>1. entry' = H OBVIOUS
<1>2. /\ E \in [Entries -> EntryShape]
      /\ \A f \in Entries \ {e} : E[f] = entry[f]
      /\ E[e].alive = entry[e].alive /\ E[e].sa = entry[e].sa
      /\ E[e].checked_out = None
      /\ E[e].waiting_threads = entry[e].waiting_threads
      /\ E[e].driveout_threads = entry[e].driveout_threads
  BY DEF EntriesTyped, EntryShape
<1> HIDE DEF E
<1>3. Alike(E, F, e) BY <1>2, OtherFields
<1> HIDE DEF F
<1>4. Alike(F, G, e) BY <1>3, OtherFields DEF Alike
<1> HIDE DEF G
<1>5. v \in Hosts \cup {None} BY <1>4 DEF Alike, EntryShape
<1> HIDE DEF v
<1>6. Alike(G, H, e) BY <1>4, <1>5, OtherFields DEF Alike
<1> HIDE DEF H
<1>7. Alike(E, G, e) BY <1>3, <1>4 DEF Alike
<1>8. Alike(E, H, e) BY <1>6, <1>7 DEF Alike
<1> QED BY <1>1, <1>2, <1>8 DEF Alike, Writes, EntriesTyped

\* A checkout that gets the entry.
LEMMA CheckoutWrites ==
    ASSUME EntriesTyped, NEW e \in Entries, NEW t \in Threads, NEW b,
           NEW m \in Messages \cup {None},
           entry' = [entry EXCEPT ![e].checked_out = t,
                                  ![e].processing = IF b THEN m ELSE @]
    PROVE  Writes(e, entry[e].alive, entry[e].sa, t,
                  entry[e].waiting_threads, entry[e].driveout_threads)
<1> DEFINE E == [entry EXCEPT ![e].checked_out = t]
           v == IF b THEN m ELSE E[e].processing
           F == [E EXCEPT ![e].processing = v]
<1>1. entry' = F OBVIOUS
<1>2. /\ E \in [Entries -> EntryShape]
      /\ \A f \in Entries \ {e} : E[f] = entry[f]
      /\ E[e].alive = entry[e].alive /\ E[e].sa = entry[e].sa
      /\ E[e].checked_out = t
      /\ E[e].waiting_threads = entry[e].waiting_threads
      /\ E[e].driveout_threads = entry[e].driveout_threads
  BY DEF EntriesTyped, EntryShape
<1> HIDE DEF E
<1>3. v \in Messages \cup {None} BY <1>2 DEF EntryShape
<1> HIDE DEF v
<1>4. Alike(E, F, e) BY <1>2, <1>3, OtherFields
<1> HIDE DEF F
<1> QED BY <1>1, <1>2, <1>4 DEF Alike, Writes, EntriesTyped

\* A thread moves and leaves the table alone.
LEMMA MoveOnly ==
    ASSUME Shape, Ownership, NEW t \in Threads, NEW x \in ThreadType, Moves(t, x),
           UNCHANGED << entry, row, draining >>,
           nextSpi' \in 1..(MaxSas + 1), nextSpi <= nextSpi',
           initHash' \in [Messages -> 0..MaxSas],
           lock' \in All \cup {None}, LockOwner',
           x.pc \in WorkerPc \ {"wait", "destroy", "working"},
           thread[t].pc \notin {"wait", "destroy"},
           x.pc \in {"init", "create", "put"} => x.msg \in Messages,
           x.pc = "acquire" => /\ x.at \in Entries /\ InRow(x.at)
                               /\ x.mode # "enum" => entry[x.at].sa = x.sa,
           x.pc \in {"driveout", "driveout_wait"} =>
              /\ thread[t].pc \in {"driveout", "driveout_wait"}
              /\ x.at = thread[t].at /\ x.sa = thread[t].sa,
           x.pc \in {"create", "put", "new"} =>
              \/ IsFresh(t) /\ x.sa = thread[t].sa
              \/ x.sa = nextSpi /\ nextSpi' = nextSpi + 1
    PROVE  Shape' /\ Ownership'
<1>1. \A e \in Entries : InRow(e)' <=> InRow(e) BY DEF InRow
<1>2. /\ thread'[t] = x /\ \A u \in Threads \ {t} : thread'[u] = thread[u]
      /\ thread'[Main] = thread[Main]
  BY ManagerAssumption DEF Moves, All
<1>3. nextSpi \in Int /\ nextSpi' \in Int /\ nextSpi <= nextSpi' BY DEF Shape
<1>4. Shape' BY <1>2 DEF Shape, Moves, Typed
<1>5. RowIsSound'
  BY <1>1, <1>2 DEF Ownership, RowIsSound
<1>6. EntriesAreSound'
  <2>1. \A e \in Entries : Waiters(e)' = Waiters(e) BY <1>2 DEF Waiters
  <2> QED BY <1>3, <2>1 DEF Ownership, EntriesAreSound
<1>7. PointersAreSound'
  BY <1>1, <1>2 DEF Ownership, PointersAreSound, RowIsSound
<1>8. OwnersAreSound'
  <2>1. \A u \in Threads \ {t} : /\ Owns(u)' <=> Owns(u)
                                 /\ IsFresh(u)' <=> IsFresh(u)
    BY <1>2 DEF Owns, IsFresh
  <2>2. Owns(t)' => Owns(t) /\ x.sa = thread[t].sa
    BY <1>2 DEF Owns, WorkerPc
  <2>3. IsFresh(t)' => \/ IsFresh(t) /\ x.sa = thread[t].sa
                       \/ x.sa = nextSpi /\ nextSpi' = nextSpi + 1
    BY <1>2 DEF IsFresh
  <2>4. \A u \in Threads : Owns(u) \/ IsFresh(u) => thread[u].sa \in 1..(nextSpi - 1)
    BY DEF Ownership, OwnersAreSound
  <2>5. \A u \in Threads : Owns(u)' \/ IsFresh(u)' => thread'[u].sa \in 1..(nextSpi' - 1)
    BY <1>2, <1>3, <2>1, <2>2, <2>3, <2>4 DEF Shape
  <2>6. \A u, v \in Threads :
           (Owns(u)' \/ IsFresh(u)') /\ (Owns(v)' \/ IsFresh(v)') /\ u # v
              => thread'[u].sa # thread'[v].sa
    BY <1>2, <1>3, <2>1, <2>2, <2>3, <2>4 DEF Ownership, OwnersAreSound
  <2>7. \A u \in Threads, e \in Entries :
           entry[e].alive /\ entry[e].sa = thread'[u].sa
           => (Owns(u)' => entry[e].checked_out = u) /\ ~IsFresh(u)'
    BY <1>2, <1>3, <2>1, <2>2, <2>3, <2>4 DEF Ownership, OwnersAreSound, EntriesAreSound
  <2> QED BY <2>5, <2>6, <2>7 DEF OwnersAreSound
<1>9. FlushIsSound'
  BY <1>1, <1>2 DEF Ownership, FlushIsSound
<1> QED BY <1>4, <1>5, <1>6, <1>7, <1>8, <1>9 DEF Ownership

\* The mutex after a move of a worker thread.
LEMMA LockStep ==
    ASSUME Shape, LockOwner, NEW t \in Threads, NEW x, Moves(t, x),
           lock' = lock \/ (lock \in {None, t} /\ lock' \in {None, t}),
           x.pc \in {"acquire", "driveout"} <=> lock' = t
    PROVE  LockOwner' /\ lock' \in All \cup {None}
<1>1. /\ thread'[t] = x /\ \A u \in Threads \ {t} : thread'[u] = thread[u]
      /\ thread'[Main] = thread[Main]
  BY ManagerAssumption DEF Moves, All
<1>2. Main # None /\ Main # t /\ t # None BY ManagerAssumption
<1>3. \A u \in Threads : u # None BY ManagerAssumption
<1> QED BY <1>1, <1>2, <1>3, Values DEF LockOwner, Shape

\* Jobs start without touching the table.
LEMMA StartsStep ==
    ASSUME Shape, Ownership, NEW t \in Threads,
           \/ \E m \in Messages : TrackInit(t, m)
           \/ \E h \in Hosts : CreateNew(t, h)
           \/ \E s \in Sas, how \in {"id", "enum"} : StartCheckout(t, s, how)
    PROVE  Shape' /\ Ownership'
<1> DEFINE Good(x) ==
       /\ x \in ThreadType /\ x.pc \in {"init", "new", "lookup"}
       /\ x.pc = "init" => x.msg \in Messages
       /\ x.pc = "new" => x.sa = nextSpi /\ nextSpi' = nextSpi + 1
<1>1. ASSUME NEW x, Good(x), Starts(t, x), UNCHANGED << entry, row, lock, draining, initHash >>,
             nextSpi' \in 1..(MaxSas + 1), nextSpi <= nextSpi'
      PROVE  Shape' /\ Ownership'
  <2>1. Typed /\ t \in All BY Values DEF Shape, Typed
  <2>2. Moves(t, x) BY <1>1, <2>1, SetThread DEF Starts
  <2>3. thread[t].pc = "idle" BY <1>1 DEF Starts
  <2>4. LockOwner /\ lock # t BY <2>3 DEF Ownership, LockOwner
  <2>5. LockOwner' /\ lock' \in All \cup {None} BY <1>1, <2>2, <2>4, LockStep
  <2>6. initHash' \in [Messages -> 0..MaxSas] BY <1>1 DEF Shape
  <2>7. x.pc \in WorkerPc \ {"wait", "destroy", "working"} BY <1>1 DEF WorkerPc
  <2> QED BY <1>1, <2>2, <2>3, <2>5, <2>6, <2>7, MoveOnly
<1>2. nextSpi \in 1..(MaxSas + 1) /\ MaxSas \in Nat BY ManagerAssumption DEF Shape
<1>3. ASSUME NEW m \in Messages, TrackInit(t, m) PROVE Shape' /\ Ownership'
  <2> DEFINE x == Job("init", 0, m, "message")
  <2>1. Good(x) BY <1>2 DEF ThreadType, Job
  <2>2. Starts(t, x) /\ UNCHANGED << entry, row, lock, draining, initHash, nextSpi >>
    BY <1>3 DEF TrackInit, table, globals
  <2> HIDE DEF x, Good
  <2> QED BY <1>1, <1>2, <2>1, <2>2
<1>4. ASSUME NEW h \in Hosts, CreateNew(t, h) PROVE Shape' /\ Ownership'
  <2> DEFINE x == Job("new", nextSpi, None, "id")
  <2>2. nextSpi \in 1..MaxSas /\ nextSpi' = nextSpi + 1
    BY <1>2, <1>4 DEF CreateNew, SpiAvailable
  <2>3. Good(x) BY <2>2, ManagerAssumption DEF ThreadType, Job
  <2>4. Starts(t, x) /\ UNCHANGED << entry, row, lock, draining, initHash >>
    BY <1>4 DEF CreateNew, table
  <2>5. nextSpi' \in 1..(MaxSas + 1) /\ nextSpi <= nextSpi' BY <1>2, <2>2
  <2> HIDE DEF x, Good
  <2> QED BY <1>1, <2>3, <2>4, <2>5
<1>5. ASSUME NEW s \in Sas, NEW how \in {"id", "enum"}, StartCheckout(t, s, how)
      PROVE  Shape' /\ Ownership'
  <2> DEFINE x == Job("lookup", s, None, how)
  <2>1. Good(x) BY <1>2 DEF ThreadType, Job, Sas
  <2>2. Starts(t, x) /\ UNCHANGED << entry, row, lock, draining, initHash, nextSpi >>
    BY <1>5 DEF StartCheckout, table, globals
  <2> HIDE DEF x, Good
  <2> QED BY <1>1, <1>2, <2>1, <2>2
<1> QED BY <1>3, <1>4, <1>5

\* MoveOnly with the mutex.
LEMMA MoveAndLock ==
    ASSUME Shape, Ownership, NEW t \in Threads, NEW x, Moves(t, x),
           UNCHANGED << entry, row, draining >>,
           nextSpi' \in 1..(MaxSas + 1), nextSpi <= nextSpi',
           initHash' \in [Messages -> 0..MaxSas],
           lock' = lock \/ (lock \in {None, t} /\ lock' \in {None, t}),
           x.pc \in {"acquire", "driveout"} <=> lock' = t,
           x.pc \in WorkerPc \ {"wait", "destroy", "working"},
           thread[t].pc \notin {"wait", "destroy"},
           x.pc \in {"init", "create", "put"} => x.msg \in Messages,
           x.pc = "acquire" => /\ x.at \in Entries /\ InRow(x.at)
                               /\ x.mode # "enum" => entry[x.at].sa = x.sa,
           x.pc \in {"driveout", "driveout_wait"} =>
              /\ thread[t].pc \in {"driveout", "driveout_wait"}
              /\ x.at = thread[t].at /\ x.sa = thread[t].sa,
           x.pc \in {"create", "put", "new"} =>
              \/ IsFresh(t) /\ x.sa = thread[t].sa
              \/ x.sa = nextSpi /\ nextSpi' = nextSpi + 1
    PROVE  Shape' /\ Ownership'
<1>1. LockOwner BY DEF Ownership
<1>2. LockOwner' /\ lock' \in All \cup {None} BY <1>1, LockStep
<1>3. x \in ThreadType BY Values DEF Moves, Typed
<1> QED BY <1>2, <1>3, MoveOnly

\* Facts about a worker thread.
LEMMA WorkerFacts ==
    ASSUME Shape, Ownership, NEW t \in Threads
    PROVE  /\ Typed /\ EntriesTyped /\ t \in All /\ t # None /\ t # Main
           /\ thread[t] \in ThreadType
           /\ thread[t].pc \in {"acquire", "driveout"} <=> lock = t
           /\ nextSpi \in 1..(MaxSas + 1) /\ nextSpi <= nextSpi
           /\ initHash \in [Messages -> 0..MaxSas]
           /\ WorkerPc \subseteq WorkerPc \cup MainPc
BY Values, ManagerAssumption
   DEF Shape, Ownership, LockOwner, Typed, EntriesTyped

\* check_and_put_init_hash() and the check of the limit.
LEMMA InitStep ==
    ASSUME Shape, Ownership, NEW t \in Threads,
           CheckAndPutInitHash(t) \/ CheckLimit(t)
    PROVE  Shape' /\ Ownership'
<1>1. /\ Typed /\ t \in All /\ t # None /\ t # Main
      /\ thread[t].pc \in {"acquire", "driveout"} <=> lock = t
      /\ nextSpi \in 1..(MaxSas + 1) /\ MaxSas \in Nat
      /\ initHash \in [Messages -> 0..MaxSas]
  BY WorkerFacts, ManagerAssumption
<1>2. thread[t].pc \in {"init", "create"} /\ UNCHANGED << entry, row, lock, draining >>
  BY DEF CheckAndPutInitHash, CheckLimit, table
<1>3. thread[t].msg \in Messages /\ lock # t BY <1>1, <1>2 DEF Shape
<1>4. CASE Return(t) /\ initHash' \in [Messages -> 0..MaxSas] /\ UNCHANGED nextSpi
  <2>1. Moves(t, Idle) BY <1>1, <1>4, MoveForms
  <2>2. Idle.pc = "idle" BY DEF Idle, Job
  <2> QED BY <1>1, <1>2, <1>3, <1>4, <2>1, <2>2, MoveAndLock DEF WorkerPc
<1>5. CASE CheckAndPutInitHash(t)
  <2> DEFINE m == thread[t].msg
  <2>1. CASE /\ SpiAvailable
             /\ initHash' = [initHash EXCEPT ![m] = nextSpi]
             /\ nextSpi' = nextSpi + 1
             /\ thread' = [thread EXCEPT ![t].pc = "create", ![t].sa = nextSpi]
    <3> DEFINE x == Now(t, "create", thread[t].at, nextSpi)
    <3>1. nextSpi \in 0..MaxSas /\ nextSpi' \in 1..(MaxSas + 1) /\ nextSpi <= nextSpi'
      BY <1>1, <2>1 DEF SpiAvailable
    <3>2. Moves(t, x) BY <1>1, <2>1, <3>1, MoveForms DEF WorkerPc
    <3>3. initHash' \in [Messages -> 0..MaxSas] BY <1>1, <2>1, <3>1
    <3>4. x.pc = "create" /\ x.msg = m /\ x.sa = nextSpi BY DEF Now
    <3> HIDE DEF x
    <3> QED BY <1>1, <1>2, <1>3, <2>1, <3>1, <3>2, <3>3, <3>4, MoveAndLock DEF WorkerPc
  <2>2. CASE Return(t) /\ UNCHANGED << initHash, nextSpi >>
    BY <1>1, <1>4, <2>2
  <2>3. CASE /\ thread' = [thread EXCEPT ![t].pc = "lookup", ![t].sa = initHash[m]]
             /\ UNCHANGED << initHash, nextSpi >>
    <3> DEFINE x == Now(t, "lookup", thread[t].at, initHash[m])
    <3>1. initHash[m] \in 0..MaxSas BY <1>1, <1>3
    <3>2. Moves(t, x) BY <1>1, <2>3, <3>1, MoveForms DEF WorkerPc
    <3>3. x.pc = "lookup" BY DEF Now
    <3> HIDE DEF x
    <3> QED BY <1>1, <1>2, <1>3, <2>3, <3>2, <3>3, MoveAndLock DEF WorkerPc
  <2> QED BY <1>5, <2>1, <2>2, <2>3 DEF CheckAndPutInitHash
<1>6. CASE CheckLimit(t)
  <2>1. CASE Goto(t, "put") /\ UNCHANGED initHash
    <3> DEFINE x == Now(t, "put", thread[t].at, thread[t].sa)
    <3>1. Moves(t, x) BY <1>1, <2>1, MoveForms DEF WorkerPc
    <3>2. x.pc = "put" /\ x.msg = thread[t].msg /\ x.sa = thread[t].sa BY DEF Now
    <3>3. IsFresh(t) /\ UNCHANGED nextSpi BY <1>6 DEF CheckLimit, IsFresh
    <3> HIDE DEF x
    <3> QED BY <1>1, <1>2, <1>3, <2>1, <3>1, <3>2, <3>3, MoveAndLock DEF WorkerPc
  <2>2. CASE initHash' = [initHash EXCEPT ![thread[t].msg] = 0] /\ Return(t)
    <3>1. 0 \in 0..MaxSas BY <1>1
    <3>2. initHash' \in [Messages -> 0..MaxSas] BY <1>1, <2>2, <3>1
    <3> QED BY <1>4, <1>6, <2>2, <3>2 DEF CheckLimit
  <2> QED BY <1>6, <2>1, <2>2 DEF CheckLimit
<1> QED BY <1>5, <1>6

\* A checkout looks an entry up.
LEMMA LookupStep ==
    ASSUME Shape, Ownership, NEW t \in Threads, Lookup(t)
    PROVE  Shape' /\ Ownership'
<1>1. /\ Typed /\ t \in All /\ t # None
      /\ nextSpi \in 1..(MaxSas + 1) /\ nextSpi <= nextSpi
      /\ initHash \in [Messages -> 0..MaxSas]
  BY WorkerFacts
<1>2. /\ thread[t].pc = "lookup" /\ lock = None
      /\ UNCHANGED << entry, row, draining, nextSpi, initHash >>
  BY DEF Lookup, table, globals
<1>3. CASE Return(t) /\ UNCHANGED lock
  <2>1. Moves(t, Idle) BY <1>1, <1>3, MoveForms
  <2>2. Idle.pc = "idle" BY DEF Idle, Job
  <2> QED BY <1>1, <1>2, <1>3, <2>1, <2>2, MoveAndLock DEF WorkerPc
<1>4. ASSUME NEW e \in Candidates(t),
             thread' = [thread EXCEPT ![t].pc = "acquire", ![t].at = e], lock' = t
      PROVE  Shape' /\ Ownership'
  <2> DEFINE x == Now(t, "acquire", e, thread[t].sa)
  <2>1. /\ e \in Entries /\ InRow(e)
        /\ thread[t].mode # "enum" => entry[e].sa = thread[t].sa
    BY DEF Candidates, EntriesOf, InRow, Shape
  <2>2. Moves(t, x) BY <1>1, <1>4, <2>1, MoveForms DEF WorkerPc
  <2>3. /\ x.pc = "acquire" /\ x.at = e /\ x.sa = thread[t].sa
        /\ x.mode = thread[t].mode
    BY DEF Now
  <2> HIDE DEF x
  <2> QED BY <1>1, <1>2, <1>4, <2>1, <2>2, <2>3, MoveAndLock DEF WorkerPc
<1> QED BY <1>3, <1>4 DEF Lookup

\* The thread that drives the others out gets the mutex back.
LEMMA ResumeDriveOutStep ==
    ASSUME Shape, Ownership, NEW t \in Threads, ResumeDriveOut(t)
    PROVE  Shape' /\ Ownership'
<1>1. /\ Typed /\ t \in All /\ t # None
      /\ nextSpi \in 1..(MaxSas + 1) /\ nextSpi <= nextSpi
      /\ initHash \in [Messages -> 0..MaxSas]
  BY WorkerFacts
<1>2. /\ thread[t].pc = "driveout_wait" /\ lock = None /\ lock' = t /\ Goto(t, "driveout")
      /\ UNCHANGED << entry, row, draining, nextSpi, initHash >>
  BY DEF ResumeDriveOut, table, globals
<1> DEFINE x == Now(t, "driveout", thread[t].at, thread[t].sa)
<1>3. Moves(t, x) BY <1>1, <1>2, MoveForms DEF WorkerPc
<1>4. x.pc = "driveout" /\ x.at = thread[t].at /\ x.sa = thread[t].sa BY DEF Now
<1> HIDE DEF x
<1> QED BY <1>1, <1>2, <1>3, <1>4, MoveAndLock DEF WorkerPc

\* Inserting at the front of the row.
LEMMA RowPut ==
    ASSUME Shape, NEW e \in Entries, row' = << e >> \o row
    PROVE  /\ row' \in Seq(Entries) /\ Len(row') = Len(row) + 1 /\ Len(row) \in Nat
           /\ row'[1] = e
           /\ \A k \in 2..Len(row') : k - 1 \in 1..Len(row) /\ row'[k] = row[k - 1]
           /\ \A f \in Entries : InRow(f)' <=> f = e \/ InRow(f)
<1>1. row \in Seq(Entries) BY DEF Shape
<1>2. /\ row' \in Seq(Entries) /\ Len(row') = Len(row) + 1 /\ Len(row) \in Nat
      /\ row'[1] = e
      /\ \A k \in 2..Len(row') : k - 1 \in 1..Len(row) /\ row'[k] = row[k - 1]
  BY <1>1
<1>3. \A k \in 1..Len(row) : k + 1 \in 2..Len(row') /\ row'[k + 1] = row[k]
  BY <1>1, <1>2
<1>4. ASSUME NEW f \in Entries PROVE InRow(f)' <=> f = e \/ InRow(f)
  <2>1. ASSUME InRow(f)' PROVE f = e \/ InRow(f)
    <3>1. PICK k \in 1..Len(row') : row'[k] = f BY <2>1 DEF InRow
    <3>2. CASE k = 1 BY <1>2, <3>1, <3>2
    <3>3. CASE k # 1
      <4>1. k \in 2..Len(row') BY <1>2, <3>3
      <4> QED BY <1>2, <3>1, <4>1 DEF InRow
    <3> QED BY <3>2, <3>3
  <2>2. ASSUME f = e PROVE InRow(f)'
    <3>1. 1 \in 1..Len(row') BY <1>2
    <3> QED BY <1>2, <2>2, <3>1 DEF InRow
  <2>3. ASSUME InRow(f) PROVE InRow(f)'
    <3>1. PICK k \in 1..Len(row) : row[k] = f BY <2>3 DEF InRow
    <3>2. k + 1 \in 1..Len(row') BY <1>2
    <3> QED BY <1>3, <3>1, <3>2 DEF InRow
  <2> QED BY <2>1, <2>2, <2>3
<1> QED BY <1>2, <1>4

\* An entry is put into the table.
LEMMA PutStep ==
    ASSUME Shape, Ownership, NEW t \in Threads, NEW x, Moves(t, x),
           NEW s \in 1..(nextSpi - 1), s = thread[t].sa,
           NEW e \in Entries, e \in {s, Twin(s)}, ~entry[e].alive,
           NEW out \in Threads \cup {None}, Writes(e, TRUE, s, out, 0, draining),
           row' = << e >> \o row, lock = None,
           UNCHANGED << lock, draining, nextSpi, initHash >>,
           IsFresh(t) \/ thread[t].pc = "working",
           \A f \in Entries : entry[f].alive /\ entry[f].sa = s
                                => draining /\ entry[f].driveout_threads,
           \/ x.pc = "working" /\ x.sa = s /\ out = t /\ IsFresh(t) /\ e = s
           \/ x.pc = "idle" /\ out = None
    PROVE  Shape' /\ Ownership'
<1>1. /\ thread'[t] = x /\ \A u \in Threads \ {t} : thread'[u] = thread[u]
      /\ thread'[Main] = thread[Main]
  BY ManagerAssumption DEF Moves, All
<1>2. thread[t].pc \in {"create", "put", "new", "working"} /\ x.pc \in {"working", "idle"}
  BY DEF IsFresh
<1>3. /\ EntriesTyped'
      /\ entry'[e].alive /\ entry'[e].sa = s /\ entry'[e].checked_out = out
      /\ entry'[e].waiting_threads = 0 /\ entry'[e].driveout_threads = draining
      /\ \A f \in Entries \ {e} : entry'[f] = entry[f]
  BY DEF Writes
<1>4. /\ row' \in Seq(Entries) /\ Len(row') = Len(row) + 1 /\ Len(row) \in Nat
      /\ row'[1] = e
      /\ \A k \in 2..Len(row') : k - 1 \in 1..Len(row) /\ row'[k] = row[k - 1]
      /\ \A f \in Entries : InRow(f)' <=> f = e \/ InRow(f)
  BY RowPut
<1>5. ~InRow(e) /\ \A k \in 1..Len(row) : row[k] # e
  BY DEF Ownership, RowIsSound, InRow
<1>6. Shape' BY <1>1, <1>2, <1>3, <1>4 DEF Shape, Moves, Typed, EntriesTyped, WorkerPc
<1>7. LockOwner'
  BY <1>1, <1>2, ManagerAssumption, LockStep DEF Ownership
<1>8. RowIsSound'
  <2>1. ASSUME NEW j \in 1..Len(row'), NEW k \in 1..Len(row'), row'[j] = row'[k]
        PROVE  j = k
    <3>1. CASE j = 1 \/ k = 1
      <4>1. j \in Int /\ k \in Int OBVIOUS
      <4>2. ASSUME NEW i \in 2..Len(row') PROVE row'[i] # e BY <1>4, <1>5
      <4> QED BY <1>4, <2>1, <3>1, <4>1, <4>2
    <3>2. CASE j # 1 /\ k # 1
      <4>1. j \in 2..Len(row') /\ k \in 2..Len(row') BY <1>4, <3>2
      <4>2. row[j - 1] = row[k - 1] /\ j - 1 \in 1..Len(row) /\ k - 1 \in 1..Len(row)
        BY <1>4, <2>1, <4>1
      <4>3. j - 1 = k - 1 BY <4>2 DEF Ownership, RowIsSound
      <4> QED BY <4>3
    <3> QED BY <3>1, <3>2
  <2>2. \A f \in Entries : InRow(f)' => entry'[f].alive
    BY <1>3, <1>4 DEF Ownership, RowIsSound
  <2>3. ASSUME NEW f \in Entries, entry'[f].alive, ~InRow(f)'
        PROVE  /\ entry'[f].driveout_threads
               /\ \/ \E u \in Threads : thread'[u].pc = "destroy" /\ thread'[u].at = f
                  \/ draining /\ (f > MaxSas => entry'[f].checked_out = None)
    <3>1. f # e /\ entry'[f] = entry[f] /\ ~InRow(f) BY <1>3, <1>4, <2>3
    <3>2. /\ entry[f].driveout_threads
          /\ \/ \E u \in Threads : thread[u].pc = "destroy" /\ thread[u].at = f
             \/ draining /\ (f > MaxSas => entry[f].checked_out = None)
      BY <2>3, <3>1 DEF Ownership, RowIsSound
    <3> QED BY <1>1, <1>2, <3>1, <3>2
  <2> QED BY <2>1, <2>2, <2>3 DEF RowIsSound
<1>9. EntriesAreSound'
  <2>1. \A f \in Entries : Waiters(f)' = Waiters(f) BY <1>1, <1>2 DEF Waiters
  <2>2. Waiters(e) = {} BY DEF Waiters, Ownership, PointersAreSound
  <2>3. Cardinality(Waiters(e)) = 0 BY <2>2, FS_EmptySet
  <2>4. nextSpi' = nextSpi /\ \A f \in Entries \ {e} : entry'[f] = entry[f] BY <1>3
  <2>5. ASSUME NEW f \in Entries, entry'[f].alive
        PROVE  /\ entry'[f].sa \in 1..(nextSpi' - 1)
               /\ f \in {entry'[f].sa, Twin(entry'[f].sa)}
    <3>1. CASE f = e BY <1>3, <2>4, <3>1
    <3>2. CASE f # e BY <2>4, <2>5, <3>2 DEF Ownership, EntriesAreSound
    <3> QED BY <3>1, <3>2
  <2>6. ASSUME NEW f \in Entries, NEW g \in Entries, entry'[f].alive, entry'[g].alive,
               entry'[f].sa = entry'[g].sa, f # g
        PROVE  entry'[f].driveout_threads
    <3>1. CASE f = e
      <4>1. g # e /\ entry'[g] = entry[g] BY <1>3, <2>6, <3>1
      <4>2. draining BY <1>3, <2>6, <3>1, <4>1
      <4> QED BY <1>3, <3>1, <4>2
    <3>2. CASE f # e /\ g = e BY <1>3, <2>6, <3>2
    <3>3. CASE f # e /\ g # e
      BY <2>4, <2>6, <3>3 DEF Ownership, EntriesAreSound
    <3> QED BY <3>1, <3>2, <3>3
  <2>7. \A f \in Entries : entry'[f].waiting_threads = Cardinality(Waiters(f)')
    BY <1>3, <2>1, <2>3 DEF Ownership, EntriesAreSound
  <2> QED BY <2>5, <2>6, <2>7 DEF EntriesAreSound
<1>10. PointersAreSound'
  <2>1. \A u \in Threads :
           thread'[u].pc \in {"acquire", "wait", "driveout", "driveout_wait", "destroy"}
              => /\ u # t /\ thread'[u] = thread[u] /\ thread[u].at \in Entries
                 /\ thread[u].at # e /\ entry'[thread[u].at] = entry[thread[u].at]
    <3> SUFFICES ASSUME NEW u \in Threads,
                        thread'[u].pc \in {"acquire", "wait", "driveout",
                                          "driveout_wait", "destroy"}
                 PROVE  /\ u # t /\ thread'[u] = thread[u] /\ thread[u].at \in Entries
                        /\ thread[u].at # e
                        /\ entry'[thread[u].at] = entry[thread[u].at]
      OBVIOUS
    <3>1. u # t /\ thread'[u] = thread[u] BY <1>1, <1>2
    <3>2. thread[u].at \in Entries /\ entry[thread[u].at].alive
      BY <3>1 DEF Ownership, PointersAreSound
    <3> QED BY <1>3, <3>1, <3>2
  <2>2. ASSUME NEW u \in Threads, thread'[u].pc \in {"acquire", "wait"}
        PROVE  /\ thread'[u].at \in Entries /\ entry'[thread'[u].at].alive
               /\ thread'[u].mode # "enum" => entry'[thread'[u].at].sa = thread'[u].sa
    BY <2>1, <2>2 DEF Ownership, PointersAreSound
  <2>3. ASSUME NEW u \in Threads, thread'[u].pc \in {"driveout", "driveout_wait", "destroy"}
        PROVE  /\ thread'[u].at \in Entries /\ entry'[thread'[u].at].alive
               /\ entry'[thread'[u].at].sa = thread'[u].sa
               /\ entry'[thread'[u].at].driveout_threads
    BY <2>1, <2>3 DEF Ownership, PointersAreSound
  <2>4. ASSUME NEW u \in Threads, thread'[u].pc = "destroy"
        PROVE  /\ \A k \in 1..Len(row') : row'[k] # thread'[u].at
               /\ \A v \in Threads : thread'[v].pc \in {"acquire", "wait"} =>
                     thread'[v].at # thread'[u].at
    <3>1. thread'[u] = thread[u] /\ thread[u].at \in Entries \ {e} BY <2>1, <2>4
    <3>2. ~InRow(thread[u].at) BY <2>4, <3>1 DEF Ownership, PointersAreSound
    <3>3. \A k \in 1..Len(row') : row'[k] # thread'[u].at
      BY <1>4, <3>1, <3>2 DEF InRow
    <3> QED BY <2>1, <2>4, <3>1, <3>3 DEF Ownership, PointersAreSound
  <2> QED BY <2>2, <2>3, <2>4 DEF PointersAreSound, InRow
<1>11. OwnersAreSound'
  <2>1. \A u \in Threads \ {t} : /\ Owns(u)' <=> Owns(u)
                                 /\ IsFresh(u)' <=> IsFresh(u)
    BY <1>1 DEF Owns, IsFresh
  <2>2. /\ Owns(t) \/ IsFresh(t)
        /\ ~IsFresh(t)'
        /\ Owns(t)' => x.sa = s /\ out = t /\ IsFresh(t)
    BY <1>1, <1>2 DEF Owns, IsFresh
  <2>3. \A u \in Threads : Owns(u)' \/ IsFresh(u)' => thread'[u].sa \in 1..(nextSpi - 1)
    BY <1>1, <2>1, <2>2 DEF Ownership, OwnersAreSound
  <2>4. \A u, v \in Threads :
           (Owns(u)' \/ IsFresh(u)') /\ (Owns(v)' \/ IsFresh(v)') /\ u # v
              => thread'[u].sa # thread'[v].sa
    BY <1>1, <2>1, <2>2 DEF Ownership, OwnersAreSound
  <2>5. ASSUME NEW u \in Threads, NEW f \in Entries,
               entry'[f].alive, entry'[f].sa = thread'[u].sa
        PROVE  (Owns(u)' => entry'[f].checked_out = u) /\ ~IsFresh(u)'
    BY <1>1, <1>3, <2>1, <2>2, <2>5 DEF Ownership, OwnersAreSound
  <2> QED BY <2>3, <2>4, <2>5 DEF OwnersAreSound
<1>12. FlushIsSound'
  <2>1. thread'[Main].pc \in {"flush_row", "flush_entry", "flush_wait", "flushed"} => draining
    BY <1>1 DEF Ownership, FlushIsSound
  <2>2. ASSUME thread'[Main].pc \in {"flush_entry", "flush_wait"},
               NEW j \in 1..Len(row'), NEW k \in 1..Len(row'),
               j < k, row'[k] = thread'[Main].at, row'[j] > MaxSas
        PROVE  entry'[row'[j]].checked_out = None
    <3>1. k \in 2..Len(row') BY <1>4, <2>2
    <3>2. row[k - 1] = thread[Main].at /\ k - 1 \in 1..Len(row) BY <1>1, <1>4, <2>2, <3>1
    <3>3. CASE j = 1
      <4>1. e # s
        BY <1>4, <2>2, <3>3, ManagerAssumption DEF Shape
      <4> QED BY <1>3, <1>4, <3>3, <4>1
    <3>4. CASE j # 1
      <4>1. j \in 2..Len(row') BY <1>4, <3>4
      <4>2. /\ row'[j] = row[j - 1] /\ j - 1 \in 1..Len(row) /\ j - 1 < k - 1
        BY <1>4, <2>2, <4>1
      <4>3. entry[row[j - 1]].checked_out = None
        BY <1>1, <2>2, <3>2, <4>2 DEF Ownership, FlushIsSound
      <4>4. row[j - 1] \in Entries \ {e} BY <1>5, <4>2 DEF Shape
      <4> QED BY <1>3, <4>2, <4>3, <4>4
    <3> QED BY <3>3, <3>4
  <2>3. draining => \A f \in Entries : InRow(f)' => entry'[f].driveout_threads
    BY <1>3, <1>4 DEF Ownership, FlushIsSound
  <2> QED BY <2>1, <2>2, <2>3 DEF FlushIsSound
<1> QED BY <1>6, <1>7, <1>8, <1>9, <1>10, <1>11, <1>12 DEF Ownership

\* Entry e stays alive and closed if it was; no other entry is written.
Rewrites(e) ==
    /\ EntriesTyped'
    /\ entry'[e].alive
    /\ entry'[e].sa = entry[e].sa
    /\ entry[e].driveout_threads => entry'[e].driveout_threads
    /\ \A f \in Entries \ {e} : entry'[f] = entry[f]

\* A thread changes the fields of an entry that is alive, and moves.  It waits
\* for the entry, looks at it again, closes it, checks it out or checks it in.
LEMMA EntryStep ==
    ASSUME Shape, Ownership, NEW t \in Threads, NEW x, Moves(t, x),
           NEW e \in Entries, entry[e].alive,
           Rewrites(e),
           UNCHANGED << row, draining, nextSpi, initHash >>,
           lock' = lock \/ (lock \in {None, t} /\ lock' \in {None, t}),
           x.pc \in {"acquire", "driveout"} <=> lock' = t,
           x.pc \in {"idle", "acquire", "wait", "working", "driveout"},
           thread[t].pc \in {"acquire", "wait", "working"},
           entry'[e].waiting_threads = Cardinality(Waiters(e)'),
           \A f \in Entries \ {e} : Waiters(f)' = Waiters(f),
           x.pc \in {"acquire", "wait"} => /\ thread[t].pc \in {"acquire", "wait"}
                                           /\ thread[t].at = e /\ x.at = e
                                           /\ x.sa = thread[t].sa
                                           /\ x.mode = thread[t].mode,
           x.pc = "driveout" => x.at = e /\ entry'[e].driveout_threads,
           \/ /\ entry'[e].checked_out = entry[e].checked_out
              /\ x.pc \in {"acquire", "wait"}
           \/ /\ entry'[e].checked_out = entry[e].checked_out
              /\ x.pc = "driveout" /\ thread[t].pc = "working"
              /\ thread[t].sa = entry[e].sa /\ x.sa = thread[t].sa
           \/ /\ entry'[e].checked_out = t /\ x.pc = "working" /\ x.sa = entry[e].sa
              /\ entry[e].checked_out = None /\ ~entry[e].driveout_threads
           \/ /\ entry'[e].checked_out = None /\ x.pc = "idle" /\ thread[t].pc = "working"
              /\ thread[t].sa = entry[e].sa
    PROVE  Shape' /\ Ownership'
<1>1. /\ thread'[t] = x /\ \A u \in Threads \ {t} : thread'[u] = thread[u]
      /\ thread'[Main] = thread[Main]
  BY ManagerAssumption DEF Moves, All
<1>2. /\ EntriesTyped'
      /\ entry'[e].alive /\ entry'[e].sa = entry[e].sa
      /\ entry[e].driveout_threads => entry'[e].driveout_threads
      /\ \A f \in Entries \ {e} : entry'[f] = entry[f]
  BY DEF Rewrites
<1>3. \A f \in Entries : /\ entry'[f].alive <=> entry[f].alive
                         /\ entry'[f].sa = entry[f].sa
                         /\ entry[f].driveout_threads => entry'[f].driveout_threads
                         /\ f # e => entry'[f].checked_out = entry[f].checked_out
  BY <1>2
<1>4. \A f \in Entries : InRow(f)' <=> InRow(f) BY DEF InRow
<1>5. lock' \in All \cup {None} /\ LockOwner' BY LockStep DEF Ownership
<1>6. Shape'
  BY <1>1, <1>2, <1>5 DEF Shape, Moves, Typed, EntriesTyped, WorkerPc
<1>7. RowIsSound'
  <2>1. \A j, k \in 1..Len(row') : row'[j] = row'[k] => j = k
    BY DEF Ownership, RowIsSound
  <2>2. \A f \in Entries : InRow(f)' => entry'[f].alive
    BY <1>3, <1>4 DEF Ownership, RowIsSound
  <2>3. ASSUME NEW f \in Entries, entry'[f].alive, ~InRow(f)'
        PROVE  /\ entry'[f].driveout_threads
               /\ \/ \E u \in Threads : thread'[u].pc = "destroy" /\ thread'[u].at = f
                  \/ draining' /\ (f > MaxSas => entry'[f].checked_out = None)
    <3>1. /\ entry[f].driveout_threads
          /\ \/ \E u \in Threads : thread[u].pc = "destroy" /\ thread[u].at = f
             \/ draining /\ (f > MaxSas => entry[f].checked_out = None)
      BY <1>3, <1>4, <2>3 DEF Ownership, RowIsSound
    <3>2. entry'[f].driveout_threads BY <1>3, <3>1
    <3>3. CASE \E u \in Threads : thread[u].pc = "destroy" /\ thread[u].at = f
      BY <1>1, <3>2, <3>3
    <3>4. CASE draining /\ (f > MaxSas => entry[f].checked_out = None)
      <4>1. entry[f].checked_out = None => entry'[f].checked_out = None
        BY <1>2, <1>3, <3>1
      <4> QED BY <3>2, <3>4, <4>1
    <3> QED BY <3>1, <3>3, <3>4
  <2> QED BY <2>1, <2>2, <2>3 DEF RowIsSound
<1>8. EntriesAreSound'
  <2>1. \A f \in Entries : entry'[f].waiting_threads = Cardinality(Waiters(f)')
    BY <1>2 DEF Ownership, EntriesAreSound
  <2> QED BY <1>3, <2>1 DEF Ownership, EntriesAreSound
<1>9. PointersAreSound'
  <2>1. ASSUME NEW u \in Threads, thread'[u].pc \in {"acquire", "wait"}
        PROVE  /\ thread[u].pc \in {"acquire", "wait"} /\ thread'[u].at = thread[u].at
               /\ thread'[u].sa = thread[u].sa /\ thread'[u].mode = thread[u].mode
    BY <1>1, <2>1
  <2>2. ASSUME NEW u \in Threads, thread'[u].pc \in {"acquire", "wait"}
        PROVE  /\ thread'[u].at \in Entries /\ entry'[thread'[u].at].alive
               /\ thread'[u].mode # "enum" => entry'[thread'[u].at].sa = thread'[u].sa
    <3>1. /\ thread[u].at \in Entries /\ entry[thread[u].at].alive
          /\ thread[u].mode # "enum" => entry[thread[u].at].sa = thread[u].sa
      BY <2>1, <2>2 DEF Ownership, PointersAreSound
    <3> QED BY <1>3, <2>1, <2>2, <3>1
  <2>3. ASSUME NEW u \in Threads, thread'[u].pc \in {"driveout", "driveout_wait", "destroy"}
        PROVE  /\ thread'[u].at \in Entries /\ entry'[thread'[u].at].alive
               /\ entry'[thread'[u].at].sa = thread'[u].sa
               /\ entry'[thread'[u].at].driveout_threads
    <3>1. CASE u = t BY <1>1, <1>2, <2>3, <3>1
    <3>2. CASE u # t
      <4>1. thread'[u] = thread[u] BY <1>1, <3>2
      <4>2. /\ thread[u].at \in Entries /\ entry[thread[u].at].alive
            /\ entry[thread[u].at].sa = thread[u].sa
            /\ entry[thread[u].at].driveout_threads
        BY <2>3, <4>1 DEF Ownership, PointersAreSound
      <4> QED BY <1>3, <4>1, <4>2
    <3> QED BY <3>1, <3>2
  <2>4. ASSUME NEW u \in Threads, thread'[u].pc = "destroy"
        PROVE  /\ \A k \in 1..Len(row') : row'[k] # thread'[u].at
               /\ \A v \in Threads : thread'[v].pc \in {"acquire", "wait"} =>
                     thread'[v].at # thread'[u].at
    <3>1. thread'[u] = thread[u] BY <1>1, <2>4
    <3> QED BY <2>1, <2>4, <3>1 DEF Ownership, PointersAreSound, InRow
  <2> QED BY <2>2, <2>3, <2>4 DEF PointersAreSound, InRow
<1>10. OwnersAreSound'
  <2>1. \A u \in Threads \ {t} : /\ Owns(u)' <=> Owns(u)
                                 /\ IsFresh(u)' <=> IsFresh(u)
    BY <1>1 DEF Owns, IsFresh
  <2>2. ~IsFresh(t)' /\ ~IsFresh(t) BY <1>1 DEF IsFresh
  <2>3. Owns(t)' <=> x.pc \in {"working", "driveout"} BY <1>1 DEF Owns
  <2>4. thread[t].pc = "working" => Owns(t) BY DEF Owns
  <2>5. entry[e].sa \in 1..(nextSpi - 1) BY DEF Ownership, EntriesAreSound
  <2>6. Owns(t)' => thread'[t].sa = entry[e].sa BY <1>1, <2>3
  <2>7. \A u \in Threads : Owns(u)' \/ IsFresh(u)' => thread'[u].sa \in 1..(nextSpi' - 1)
    BY <1>1, <2>1, <2>2, <2>5, <2>6 DEF Ownership, OwnersAreSound
  <2>8. ASSUME NEW u \in Threads \ {t}, Owns(u) \/ IsFresh(u), Owns(t)'
        PROVE  thread[u].sa # entry[e].sa
    <3>1. CASE x.pc = "driveout"
      BY <2>4, <2>8, <3>1 DEF Ownership, OwnersAreSound
    <3>2. CASE x.pc = "working"
      <4>1. entry[e].checked_out = None BY <3>2
      <4>2. u # None BY ManagerAssumption
      <4> QED BY <2>8, <4>1, <4>2 DEF Ownership, OwnersAreSound
    <3> QED BY <2>3, <2>8, <3>1, <3>2
  <2>9. \A u, v \in Threads :
           (Owns(u)' \/ IsFresh(u)') /\ (Owns(v)' \/ IsFresh(v)') /\ u # v
              => thread'[u].sa # thread'[v].sa
    BY <1>1, <2>1, <2>2, <2>6, <2>8 DEF Ownership, OwnersAreSound
  <2>10. ASSUME NEW u \in Threads, NEW f \in Entries,
                entry'[f].alive, entry'[f].sa = thread'[u].sa
         PROVE  (Owns(u)' => entry'[f].checked_out = u) /\ ~IsFresh(u)'
    <3>1. entry[f].alive /\ entry[f].sa = thread'[u].sa BY <1>3, <2>10
    <3>2. CASE u # t
      <4>1. thread'[u] = thread[u] BY <1>1, <3>2
      <4>2. (Owns(u) => entry[f].checked_out = u) /\ ~IsFresh(u)
        BY <3>1, <4>1 DEF Ownership, OwnersAreSound
      <4>3. ASSUME Owns(u), f = e PROVE entry'[f].checked_out = u
        <5>1. u # None /\ entry[e].checked_out = u /\ thread[u].sa = entry[e].sa
          BY <3>1, <4>1, <4>2, <4>3, ManagerAssumption
        <5>2. Owns(t) => thread[t].sa # thread[u].sa
          BY <3>2, <4>3 DEF Ownership, OwnersAreSound
        <5> QED BY <1>2, <2>4, <4>3, <5>1, <5>2
      <4> QED BY <1>3, <2>1, <3>2, <4>2, <4>3
    <3>3. CASE u = t
      <4>1. ASSUME Owns(t)' PROVE entry'[f].checked_out = t
        <5>1. CASE x.pc = "working"
          <6>1. f = e BY <2>6, <3>1, <3>3, <4>1, <5>1 DEF Ownership, EntriesAreSound
          <6> QED BY <1>2, <5>1, <6>1
        <5>2. CASE x.pc = "driveout"
          <6>1. entry[f].checked_out = t
            BY <1>1, <2>4, <3>1, <3>3, <5>2 DEF Ownership, OwnersAreSound
          <6> QED BY <1>2, <1>3, <5>2, <6>1
        <5> QED BY <2>3, <4>1, <5>1, <5>2
      <4> QED BY <2>2, <3>3, <4>1
    <3> QED BY <3>2, <3>3
  <2> QED BY <2>7, <2>9, <2>10 DEF OwnersAreSound
<1>11. FlushIsSound'
  <2>1. thread'[Main].pc \in {"flush_row", "flush_entry", "flush_wait", "flushed"} => draining'
    BY <1>1 DEF Ownership, FlushIsSound
  <2>2. ASSUME thread'[Main].pc \in {"flush_entry", "flush_wait"},
               NEW j \in 1..Len(row'), NEW k \in 1..Len(row'),
               j < k, row'[k] = thread'[Main].at, row'[j] > MaxSas
        PROVE  entry'[row'[j]].checked_out = None
    <3>1. entry[row[j]].checked_out = None
      BY <1>1, <2>2 DEF Ownership, FlushIsSound
    <3>2. row[j] \in Entries /\ InRow(row[j]) BY <2>2 DEF Shape, InRow
    <3>3. entry[row[j]].driveout_threads
      BY <1>1, <2>2, <3>2 DEF Ownership, FlushIsSound
    <3>4. row[j] = e => entry'[e].checked_out = None BY <3>1, <3>3
    <3> QED BY <1>2, <1>3, <3>1, <3>2, <3>4
  <2>3. draining' => \A f \in Entries : InRow(f)' => entry'[f].driveout_threads
    BY <1>3, <1>4 DEF Ownership, FlushIsSound
  <2> QED BY <2>1, <2>2, <2>3 DEF FlushIsSound
<1> QED BY <1>5, <1>6, <1>7, <1>8, <1>9, <1>10, <1>11 DEF Ownership

\* The entries of an IKE_SA are its slot and its twin.
LEMMA Slots ==
    ASSUME Shape, Ownership, NEW s \in 1..(nextSpi - 1)
    PROVE  /\ s \in Entries /\ Twin(s) \in Entries /\ s \in 0..MaxSas
           /\ Twin(s) > MaxSas
           /\ entry[s].alive => entry[s].sa = s
           /\ entry[Twin(s)].alive => entry[Twin(s)].sa = s
<1>1. MaxSas \in Nat /\ nextSpi \in 1..(MaxSas + 1) /\ s \in 1..MaxSas
  BY ManagerAssumption DEF Shape
<1>2. s \in Entries /\ Twin(s) \in Entries /\ Twin(s) > MaxSas
  BY <1>1 DEF Entries, Twin
<1>3. \A e \in Entries : entry[e].alive => /\ entry[e].sa \in 1..MaxSas
                                           /\ e = entry[e].sa \/ e = entry[e].sa + MaxSas
  BY <1>1 DEF Ownership, EntriesAreSound, Twin
<1> QED BY <1>1, <1>2, <1>3 DEF Twin

\* A new IKE_SA is put into the table.
LEMMA PutNewStep ==
    ASSUME Shape, Ownership, NEW t \in Threads, PutInit(t) \/ CheckoutNew(t)
    PROVE  Shape' /\ Ownership'
<1> DEFINE s == thread[t].sa
           x == Now(t, "working", thread[t].at, s)
<1>1. /\ Typed /\ EntriesTyped /\ t \in All /\ draining \in BOOLEAN
      /\ IsFresh(t) /\ lock = None /\ Goto(t, "working")
      /\ UNCHANGED << lock, draining, nextSpi, initHash >>
  BY WorkerFacts DEF PutInit, CheckoutNew, IsFresh, globals, Shape
<1>2. s \in 1..(nextSpi - 1) BY <1>1 DEF Ownership, OwnersAreSound
<1>3. \A e \in Entries : ~(entry[e].alive /\ entry[e].sa = s)
  BY <1>1 DEF Ownership, OwnersAreSound
<1>4. s \in Entries /\ s \in 0..MaxSas /\ ~entry[s].alive BY <1>2, <1>3, Slots
<1>5. Moves(t, x) BY <1>1, MoveForms DEF WorkerPc
<1>6. x.pc = "working" /\ x.sa = s BY DEF Now
<1>7. Writes(s, TRUE, s, t, 0, draining) /\ row' = << s >> \o row
  <2>1. CASE PutInit(t)
    <3>1. thread[t].msg \in Messages BY <2>1 DEF PutInit, Shape
    <3>2. Source[thread[t].msg] \in Hosts BY <3>1, ManagerAssumption
    <3>3. PutEntry(s, NewEntry(s, t, TRUE, Source[thread[t].msg], thread[t].msg))
      BY <2>1 DEF PutInit
    <3> QED BY <1>1, <1>4, <3>1, <3>2, <3>3, PutWrites DEF PutEntry
  <2>2. CASE CheckoutNew(t)
    <3>1. PutEntry(s, NewEntry(s, t, FALSE, None, None)) BY <2>2 DEF CheckoutNew
    <3> QED BY <1>1, <1>4, <3>1, PutWrites DEF PutEntry
  <2> QED BY <2>1, <2>2
<1> HIDE DEF x
<1> QED BY <1>1, <1>2, <1>3, <1>4, <1>5, <1>6, <1>7, PutStep

\* A thread leaves the entry it looked at.
LEMMA PassOverStep ==
    ASSUME Shape, Ownership, NEW t \in Threads, thread[t].pc = "acquire", lock = t,
           PassOver(t), UNCHANGED << entry, row, draining, nextSpi, initHash >>
    PROVE  Shape' /\ Ownership'
<1>1. /\ Typed /\ t \in All /\ t # None
      /\ nextSpi \in 1..(MaxSas + 1) /\ nextSpi <= nextSpi
      /\ initHash \in [Messages -> 0..MaxSas]
  BY WorkerFacts
<1>2. CASE lock' = None /\ Return(t)
  <2>1. Moves(t, Idle) BY <1>1, <1>2, MoveForms
  <2>2. Idle.pc = "idle" BY DEF Idle, Job
  <2> QED BY <1>1, <1>2, <2>1, <2>2, MoveAndLock DEF WorkerPc
<1>3. ASSUME thread[t].mode = "enum", UNCHANGED lock, NEW k \in 2..Len(row),
             thread' = [thread EXCEPT ![t].at = row[k]]
      PROVE  Shape' /\ Ownership'
  <2> DEFINE x == Now(t, thread[t].pc, row[k], thread[t].sa)
  <2>1. k \in 1..Len(row) /\ row[k] \in Entries BY DEF Shape
  <2>2. InRow(row[k]) BY <2>1 DEF InRow
  <2>3. Moves(t, x) BY <1>1, <1>3, <2>1, MoveForms
  <2>4. x.pc = "acquire" /\ x.at = row[k] /\ x.mode = "enum" BY <1>3 DEF Now
  <2> HIDE DEF x
  <2> QED BY <1>1, <1>3, <2>1, <2>2, <2>3, <2>4, MoveAndLock DEF WorkerPc
<1> QED BY <1>2, <1>3 DEF PassOver

\* Waiters are counted.
LEMMA WaitersFinite ==
    \A e : IsFiniteSet(Waiters(e)) /\ Cardinality(Waiters(e)) \in Nat
<1>1. \A e : Waiters(e) \in SUBSET Threads BY DEF Waiters
<1> QED BY <1>1, FS_Subset, FS_CardinalityType, ManagerAssumption

\* wait_for_entry()
LEMMA AcquireStep ==
    ASSUME Shape, Ownership, NEW t \in Threads, Acquire(t)
    PROVE  Shape' /\ Ownership'
<1> DEFINE m == thread[t].msg
<1>1. /\ Typed /\ EntriesTyped /\ t \in All /\ t # None /\ thread[t] \in ThreadType
  BY WorkerFacts
<1>2. /\ thread[t].pc = "acquire" /\ lock = t
      /\ UNCHANGED << row, draining, nextSpi, initHash >>
  BY DEF Acquire, globals
<1> PICK e \in Entries : e = thread[t].at BY <1>2 DEF Ownership, PointersAreSound
<1>3. /\ e \in Entries /\ entry[e].alive
      /\ thread[t].mode # "enum" => entry[e].sa = thread[t].sa
  BY <1>2 DEF Ownership, PointersAreSound
<1>4. CASE PassOver(t) /\ UNCHANGED entry BY <1>2, <1>4, PassOverStep
<1>5. CASE /\ entry' = [entry EXCEPT ![e].waiting_threads = entry[e].waiting_threads + 1]
           /\ lock' = None
           /\ Goto(t, "wait")
  <2> DEFINE x == Now(t, "wait", e, thread[t].sa)
  <2>0. entry[e].waiting_threads + 1 \in Int BY <1>1, <1>3 DEF EntriesTyped, EntryShape
  <2> PICK n \in Int : n = entry[e].waiting_threads + 1 BY <2>0
  <2>1. Moves(t, x) BY <1>1, <1>5, MoveForms DEF WorkerPc
  <2>2. /\ x.pc = "wait" /\ x.at = e /\ x.sa = thread[t].sa /\ x.mode = thread[t].mode
    BY DEF Now
  <2> HIDE DEF x
  <2>4. Writes(e, TRUE, entry[e].sa, entry[e].checked_out, n, entry[e].driveout_threads)
    BY <1>1, <1>3, <1>5, FieldWrites DEF EntriesTyped, EntryShape
  <2>5. thread'[t] = x /\ \A u \in Threads \ {t} : thread'[u] = thread[u]
    BY <2>1 DEF Moves, All
  <2>6. Waiters(e)' = Waiters(e) \cup {t} /\ t \notin Waiters(e)
    BY <1>2, <2>2, <2>5 DEF Waiters
  <2>7. n = Cardinality(Waiters(e)')
    <3>1. entry[e].waiting_threads = Cardinality(Waiters(e))
      BY <1>3 DEF Ownership, EntriesAreSound
    <3>2. Cardinality(Waiters(e) \cup {t}) = Cardinality(Waiters(e)) + 1
      BY <2>6, WaitersFinite, FS_AddElement
    <3> QED BY <2>6, <3>1, <3>2
  <2>8. \A f \in Entries \ {e} : Waiters(f)' = Waiters(f)
    BY <1>2, <2>2, <2>5 DEF Waiters
  <2>9. /\ Rewrites(e) /\ entry'[e].waiting_threads = n
        /\ entry'[e].checked_out = entry[e].checked_out
    BY <2>4 DEF Writes, Rewrites
  <2> QED BY <1>1, <1>2, <1>3, <1>5, <2>1, <2>2, <2>7, <2>8, <2>9, EntryStep
<1>6. CASE /\ ~entry[e].driveout_threads /\ entry[e].checked_out = None
           /\ thread[t].mode # "enum" \/ entry[e].sa = thread[t].sa
           /\ entry' = [entry EXCEPT ![e].checked_out = t,
                           ![e].processing = IF thread[t].mode = "message" THEN m ELSE @]
           /\ lock' = None
           /\ Goto(t, "working")
  <2> DEFINE x == Now(t, "working", e, thread[t].sa)
  <2>1. Moves(t, x) BY <1>1, <1>6, MoveForms DEF WorkerPc
  <2>2. x.pc = "working" /\ x.sa = entry[e].sa BY <1>3, <1>6 DEF Now
  <2> HIDE DEF x
  <2>3. m \in Messages \cup {None} BY <1>1 DEF ThreadType
  <2>4. Writes(e, TRUE, entry[e].sa, t, entry[e].waiting_threads, entry[e].driveout_threads)
    <3> DEFINE b == thread[t].mode = "message"
    <3>1. entry' = [entry EXCEPT ![e].checked_out = t,
                                 ![e].processing = IF b THEN m ELSE @]
      BY <1>6
    <3>2. entry[e].alive = TRUE BY <1>1, <1>3 DEF EntriesTyped, EntryShape
    <3> HIDE DEF b, m
    <3>3. e \in Entries OBVIOUS
    <3>4. Writes(e, entry[e].alive, entry[e].sa, t,
                 entry[e].waiting_threads, entry[e].driveout_threads)
      BY <1>1, <2>3, <3>1, <3>3, CheckoutWrites
    <3> QED BY <3>2, <3>4
  <2>5. thread'[t] = x /\ \A u \in Threads \ {t} : thread'[u] = thread[u]
    BY <2>1 DEF Moves, All
  <2>6. \A f \in Entries : Waiters(f)' = Waiters(f)
    BY <1>2, <2>2, <2>5 DEF Waiters
  <2>7. entry[e].waiting_threads = Cardinality(Waiters(e)')
    BY <1>3, <2>6 DEF Ownership, EntriesAreSound
  <2>8. /\ Rewrites(e) /\ entry'[e].waiting_threads = entry[e].waiting_threads
        /\ entry'[e].checked_out = t
    BY <2>4 DEF Writes, Rewrites
  <2> QED BY <1>1, <1>2, <1>3, <1>6, <2>1, <2>2, <2>6, <2>7, <2>8, EntryStep
<1> QED BY <1>4, <1>5, <1>6 DEF Acquire

\* The end of the wait in wait_for_entry().
LEMMA ResumeStep ==
    ASSUME Shape, Ownership, NEW t \in Threads, Resume(t)
    PROVE  Shape' /\ Ownership'
<1>1. /\ Typed /\ EntriesTyped /\ t \in All /\ t # None
  BY WorkerFacts
<1> PICK e \in Entries : e = thread[t].at
  BY DEF Resume, Ownership, PointersAreSound
<1>0. entry[e].waiting_threads - 1 \in Int BY <1>1 DEF EntriesTyped, EntryShape
<1> PICK n \in Int : n = entry[e].waiting_threads - 1 BY <1>0
<1> DEFINE x == Now(t, "acquire", e, thread[t].sa)
<1>2. /\ thread[t].pc = "wait" /\ lock = None /\ lock' = t /\ Goto(t, "acquire")
      /\ entry' = [entry EXCEPT ![e].waiting_threads = n]
      /\ UNCHANGED << row, draining, nextSpi, initHash >>
  BY DEF Resume, globals
<1>3. e \in Entries /\ entry[e].alive BY <1>2 DEF Ownership, PointersAreSound
<1>4. Moves(t, x) BY <1>1, <1>2, MoveForms DEF WorkerPc
<1>5. x.pc = "acquire" /\ x.at = e /\ x.sa = thread[t].sa /\ x.mode = thread[t].mode
  BY DEF Now
<1> HIDE DEF x
<1>7. Writes(e, TRUE, entry[e].sa, entry[e].checked_out, n, entry[e].driveout_threads)
  BY <1>1, <1>2, <1>3, FieldWrites DEF EntriesTyped, EntryShape
<1>8. thread'[t] = x /\ \A u \in Threads \ {t} : thread'[u] = thread[u]
  BY <1>4 DEF Moves, All
<1>9. Waiters(e)' = Waiters(e) \ {t} /\ t \in Waiters(e)
  BY <1>2, <1>5, <1>8 DEF Waiters
<1>10. n = Cardinality(Waiters(e)')
  <2>1. entry[e].waiting_threads = Cardinality(Waiters(e))
    BY <1>3 DEF Ownership, EntriesAreSound
  <2>2. IsFiniteSet(Waiters(e)) BY WaitersFinite
  <2>3. Cardinality(Waiters(e) \ {t}) = Cardinality(Waiters(e)) - 1
    BY <1>9, <2>2, FS_RemoveElement
  <2> QED BY <1>9, <2>1, <2>3
<1>11. \A f \in Entries \ {e} : Waiters(f)' = Waiters(f)
  BY <1>2, <1>5, <1>8 DEF Waiters
<1>12. /\ Rewrites(e) /\ entry'[e].waiting_threads = n
       /\ entry'[e].checked_out = entry[e].checked_out
  BY <1>7 DEF Writes, Rewrites
<1> QED BY <1>1, <1>2, <1>3, <1>4, <1>5, <1>10, <1>11, <1>12, EntryStep

\* checkin() and checkin_and_destroy() of an entry in the table: nobody has the
\* IKE_SA checked out anymore.
LEMMA ReleaseStep ==
    ASSUME Shape, Ownership, NEW t \in Threads, Worked(t), Return(t),
           NEW e \in EntriesOf(thread[t].sa),
           Writes(e, entry[e].alive, entry[e].sa, None,
                  entry[e].waiting_threads, entry[e].driveout_threads),
           UNCHANGED << row, lock, draining, nextSpi, initHash >>, lock = None
    PROVE  Shape' /\ Ownership'
<1>1. Typed /\ t \in All /\ t # None BY WorkerFacts
<1>2. e \in Entries /\ InRow(e) /\ entry[e].sa = thread[t].sa BY DEF EntriesOf
<1>3. entry[e].alive BY <1>2 DEF Ownership, RowIsSound
<1>4. thread[t].pc = "working"
  BY <1>2, <1>3 DEF Ownership, OwnersAreSound, IsFresh, Worked
<1>5. Moves(t, Idle) BY <1>1, MoveForms
<1>6. Idle.pc = "idle" BY DEF Idle, Job
<1>7. thread'[t] = Idle /\ \A u \in Threads \ {t} : thread'[u] = thread[u]
  BY <1>5 DEF Moves, All
<1>8. \A f \in Entries : Waiters(f)' = Waiters(f) BY <1>4, <1>6, <1>7 DEF Waiters
<1>9. /\ Rewrites(e) /\ entry'[e].waiting_threads = entry[e].waiting_threads
      /\ entry'[e].checked_out = None
  BY <1>3 DEF Writes, Rewrites
<1>10. entry'[e].waiting_threads = Cardinality(Waiters(e)')
  BY <1>2, <1>8, <1>9 DEF Ownership, EntriesAreSound
<1> QED BY <1>1, <1>2, <1>3, <1>4, <1>5, <1>6, <1>8, <1>9, <1>10, EntryStep

\* checkin() of an IKE_SA that has no entry in the table.
LEMMA CheckinPutStep ==
    ASSUME Shape, Ownership, NEW t \in Threads, Worked(t), Return(t),
           EntriesOf(thread[t].sa) = {},
           NEW half \in BOOLEAN, NEW other \in Hosts \cup {None},
           PutEntry(Twin(thread[t].sa), NewEntry(thread[t].sa, None, half, other, None)),
           UNCHANGED << lock, draining, nextSpi, initHash >>, lock = None
    PROVE  Shape' /\ Ownership'
<1>1. Typed /\ EntriesTyped /\ t \in All /\ t # None /\ draining \in BOOLEAN
  BY WorkerFacts DEF Shape
<1>2. /\ IsFresh(t) \/ (thread[t].pc = "working" /\ Owns(t))
      /\ thread[t].pc # "destroy"
  BY DEF Worked, IsFresh, Owns
<1>3. thread[t].sa \in 1..(nextSpi - 1) BY <1>2 DEF Ownership, OwnersAreSound
<1> PICK s \in 1..(nextSpi - 1) : s = thread[t].sa BY <1>3
<1>4. /\ Twin(s) \in Entries /\ s \in 0..MaxSas /\ Twin(s) > MaxSas
      /\ entry[Twin(s)].alive => entry[Twin(s)].sa = s
  BY Slots
<1>5. ASSUME NEW f \in Entries, entry[f].alive, entry[f].sa = s
      PROVE  /\ draining /\ entry[f].driveout_threads
             /\ f <= MaxSas
  <2>1. ~InRow(f) BY <1>5 DEF EntriesOf
  <2>2. Owns(t) /\ entry[f].checked_out = t
    BY <1>2, <1>5 DEF Ownership, OwnersAreSound
  <2>3. ASSUME NEW u \in Threads, thread[u].pc = "destroy", thread[u].at = f PROVE FALSE
    <3>1. u # t /\ Owns(u) BY <1>2, <2>3 DEF Owns
    <3>2. thread[u].sa = s BY <1>5, <2>3 DEF Ownership, PointersAreSound
    <3> QED BY <2>2, <3>1, <3>2 DEF Ownership, OwnersAreSound
  <2>4. /\ entry[f].driveout_threads
        /\ draining /\ (f > MaxSas => entry[f].checked_out = None)
    BY <1>5, <2>1, <2>3 DEF Ownership, RowIsSound
  <2>5. ~(f > MaxSas) BY <1>1, <2>2, <2>4
  <2> QED BY <2>4, <2>5, ManagerAssumption DEF Entries
<1>6. ~entry[Twin(s)].alive BY <1>4, <1>5, ManagerAssumption DEF Entries
<1>7. Writes(Twin(s), TRUE, s, None, 0, draining) /\ row' = << Twin(s) >> \o row
  BY <1>1, <1>4, PutWrites DEF PutEntry
<1>8. Moves(t, Idle) BY <1>1, MoveForms
<1>9. Idle.pc = "idle" BY DEF Idle, Job
<1> HIDE DEF Twin
<1> QED BY <1>1, <1>2, <1>4, <1>5, <1>6, <1>7, <1>8, <1>9, PutStep

\* checkin()
LEMMA CheckinStep ==
    ASSUME Shape, Ownership, NEW t \in Threads, NEW st \in State, NEW h \in Hosts,
           Checkin(t, st, h)
    PROVE  Shape' /\ Ownership'
<1> DEFINE s == thread[t].sa
           c == st = "CONNECTING"
<1>1. /\ Worked(t) /\ lock = None /\ Return(t)
      /\ UNCHANGED << lock, draining, nextSpi, initHash >>
  BY DEF Checkin, globals
<1>2. ASSUME NEW e \in EntriesOf(s), UNCHANGED row,
             entry' = [entry EXCEPT ![e].checked_out = None,
                             ![e].processing = None, ![e].half_open = c,
                             ![e].other = IF c THEN h ELSE @]
      PROVE  Shape' /\ Ownership'
  <2>1. EntriesTyped /\ e \in Entries /\ c \in BOOLEAN BY WorkerFacts DEF EntriesOf
  <2> HIDE DEF c
  <2>2. Writes(e, entry[e].alive, entry[e].sa, None,
               entry[e].waiting_threads, entry[e].driveout_threads)
    BY <1>2, <2>1, CheckinWrites
  <2> QED BY <1>1, <1>2, <2>2, ReleaseStep
<1>3. ASSUME EntriesOf(s) = {},
             PutEntry(Twin(s), NewEntry(s, None, c, IF c THEN h ELSE None, None))
      PROVE  Shape' /\ Ownership'
  <2>1. c \in BOOLEAN /\ (IF c THEN h ELSE None) \in Hosts \cup {None} OBVIOUS
  <2> HIDE DEF c
  <2> QED BY <1>1, <1>3, <2>1, CheckinPutStep
<1> QED BY <1>2, <1>3 DEF Checkin

\* checkin_and_destroy(): the IKE_SA is released, or its entry closed.
LEMMA CheckinAndDestroyStep ==
    ASSUME Shape, Ownership, NEW t \in Threads, CheckinAndDestroy(t)
    PROVE  Shape' /\ Ownership'
<1> DEFINE s == thread[t].sa
<1>1. /\ Typed /\ EntriesTyped /\ t \in All /\ t # None
      /\ nextSpi \in 1..(MaxSas + 1) /\ nextSpi <= nextSpi
      /\ initHash \in [Messages -> 0..MaxSas]
  BY WorkerFacts
<1>2. /\ Worked(t) /\ lock = None /\ thread[t].pc \notin {"wait", "destroy"}
      /\ UNCHANGED << row, draining, nextSpi, initHash >>
  BY DEF CheckinAndDestroy, globals, Worked
<1>3. CASE Return(t) /\ UNCHANGED << entry, lock >>
  <2>1. Moves(t, Idle) BY <1>1, <1>3, MoveForms
  <2>2. Idle.pc = "idle" BY DEF Idle, Job
  <2> QED BY <1>1, <1>2, <1>3, <2>1, <2>2, MoveAndLock DEF WorkerPc
<1>4. ASSUME NEW e \in EntriesOf(s), entry' = [entry EXCEPT ![e].checked_out = None],
             Return(t), UNCHANGED lock
      PROVE  Shape' /\ Ownership'
  <2>1. e \in Entries BY DEF EntriesOf
  <2>2. Writes(e, entry[e].alive, entry[e].sa, None,
               entry[e].waiting_threads, entry[e].driveout_threads)
    BY <1>1, <1>4, <2>1, FieldWrites
  <2> QED BY <1>2, <1>4, <2>2, ReleaseStep
<1>5. ASSUME NEW e \in EntriesOf(s),
             entry' = [entry EXCEPT ![e].driveout_threads = TRUE],
             thread' = [thread EXCEPT ![t].pc = "driveout", ![t].at = e],
             lock' = t
      PROVE  Shape' /\ Ownership'
  <2> DEFINE x == Now(t, "driveout", e, s)
  <2>1. e \in Entries /\ InRow(e) /\ entry[e].sa = s BY DEF EntriesOf
  <2>2. entry[e].alive BY <2>1 DEF Ownership, RowIsSound
  <2>3. thread[t].pc = "working"
    BY <1>2, <2>1, <2>2 DEF Ownership, OwnersAreSound, IsFresh, Worked
  <2>4. Moves(t, x) BY <1>1, <1>5, <2>1, MoveForms DEF WorkerPc
  <2>5. x.pc = "driveout" /\ x.at = e /\ x.sa = s BY DEF Now
  <2> HIDE DEF x
  <2>6. thread'[t] = x /\ \A u \in Threads \ {t} : thread'[u] = thread[u]
    BY <2>4 DEF Moves, All
  <2>7. \A f \in Entries : Waiters(f)' = Waiters(f) BY <2>3, <2>5, <2>6 DEF Waiters
  <2>8. Writes(e, entry[e].alive, entry[e].sa, entry[e].checked_out,
               entry[e].waiting_threads, TRUE)
    BY <1>1, <1>5, <2>1, FieldWrites
  <2>9. /\ Rewrites(e) /\ entry'[e].waiting_threads = entry[e].waiting_threads
        /\ entry'[e].checked_out = entry[e].checked_out /\ entry'[e].driveout_threads
    BY <2>2, <2>8 DEF Writes, Rewrites
  <2>10. entry'[e].waiting_threads = Cardinality(Waiters(e)')
    BY <2>1, <2>7, <2>9 DEF Ownership, EntriesAreSound
  <2> QED
    BY <1>1, <1>2, <1>5, <2>1, <2>2, <2>3, <2>4, <2>5, <2>7, <2>9, <2>10, EntryStep
<1> QED BY <1>3, <1>4, <1>5 DEF CheckinAndDestroy

\* Unlinking an entry keeps the others, in their order.
LEMMA RowRemove ==
    ASSUME Shape, RowIsSound, NEW e \in Entries, RemoveEntry(e)
    PROVE  /\ row' \in Seq(Entries)
           /\ \A i \in 1..Len(row') : \E k \in 1..Len(row) : row'[i] = row[k] /\ row[k] # e
           /\ \A i, j \in 1..Len(row') : i < j =>
                 \E k, l \in 1..Len(row) : k < l /\ row'[i] = row[k] /\ row'[j] = row[l]
           /\ \A f \in Entries : InRow(f)' <=> InRow(f) /\ f # e
<1>1. PICK p \in 1..Len(row) :
         /\ row[p] = e
         /\ row' = SubSeq(row, 1, p - 1) \o SubSeq(row, p + 1, Len(row))
  BY DEF RemoveEntry
<1>2. row \in Seq(Entries) /\ Len(row) \in Nat /\ p \in Int /\ 1 <= p /\ p <= Len(row)
  BY DEF Shape
<1> DEFINE front == SubSeq(row, 1, p - 1)
           back  == SubSeq(row, p + 1, Len(row))
<1>3. /\ front \in Seq(Entries) /\ Len(front) = p - 1
      /\ \A i \in 1..(p - 1) : front[i] = row[i]
  BY <1>2
<1>4. /\ back \in Seq(Entries) /\ Len(back) = Len(row) - p
      /\ \A i \in 1..(Len(row) - p) : back[i] = row[p + i]
  BY <1>2
<1>5. row' = front \o back BY <1>1
<1> HIDE DEF front, back
<1>6. /\ row' \in Seq(Entries) /\ Len(row') = Len(row) - 1
      /\ \A i \in 1..(p - 1) : row'[i] = row[i]
      /\ \A i \in p..(Len(row) - 1) : row'[i] = row[i + 1]
  <2>1. row' \in Seq(Entries) /\ Len(row') = Len(row) - 1
    <3>1. \A u, v \in Seq(Entries) : u \o v \in Seq(Entries) /\ Len(u \o v) = Len(u) + Len(v)
      OBVIOUS
    <3>2. (p - 1) + (Len(row) - p) = Len(row) - 1 BY <1>2
    <3> QED BY <1>3, <1>4, <1>5, <3>1, <3>2
  <2>2. \A i \in 1..(p - 1) : row'[i] = row[i] BY <1>2, <1>3, <1>4, <1>5
  <2>3. ASSUME NEW i \in p..(Len(row) - 1) PROVE row'[i] = row[i + 1]
    <3>1. row'[i] = back[i - (p - 1)] BY <1>2, <1>3, <1>4, <1>5
    <3>2. i - (p - 1) \in 1..(Len(row) - p) /\ p + (i - (p - 1)) = i + 1 BY <1>2
    <3> QED BY <1>4, <3>1, <3>2
  <2> QED BY <2>1, <2>2, <2>3
<1> DEFINE Up(i) == IF i < p THEN i ELSE i + 1
<1>7. ASSUME NEW i \in 1..Len(row')
      PROVE  Up(i) \in 1..Len(row) /\ Up(i) # p /\ row'[i] = row[Up(i)]
  BY <1>2, <1>6
<1>8. \A i, j \in 1..Len(row') : i < j => Up(i) < Up(j) BY <1>2, <1>6
<1>9. \A k \in 1..Len(row) : k # p => \E i \in 1..Len(row') : Up(i) = k
  <2> SUFFICES ASSUME NEW k \in 1..Len(row), k # p
               PROVE  \E i \in 1..Len(row') : Up(i) = k
    OBVIOUS
  <2>1. CASE k < p
    <3>1. k \in 1..Len(row') /\ Up(k) = k BY <1>2, <1>6, <2>1
    <3> QED BY <3>1
  <2>2. CASE k > p
    <3>1. k - 1 \in 1..Len(row') /\ Up(k - 1) = k BY <1>2, <1>6, <2>2
    <3> QED BY <3>1
  <2> QED BY <1>2, <2>1, <2>2
<1> HIDE DEF Up
<1>10. \A k \in 1..Len(row) : row[k] = e <=> k = p BY <1>1 DEF RowIsSound
<1>11. \A i \in 1..Len(row') : \E k \in 1..Len(row) : row'[i] = row[k] /\ row[k] # e
  BY <1>7, <1>10
<1>12. \A i, j \in 1..Len(row') : i < j =>
          \E k, l \in 1..Len(row) : k < l /\ row'[i] = row[k] /\ row'[j] = row[l]
  BY <1>7, <1>8
<1>13. ASSUME NEW f \in Entries PROVE InRow(f)' <=> InRow(f) /\ f # e
  <2>1. InRow(f)' => InRow(f) /\ f # e BY <1>11 DEF InRow
  <2>2. ASSUME InRow(f), f # e PROVE InRow(f)'
    <3>1. PICK k \in 1..Len(row) : row[k] = f BY <2>2 DEF InRow
    <3>2. PICK i \in 1..Len(row') : Up(i) = k BY <1>9, <1>10, <2>2, <3>1
    <3> QED BY <1>7, <3>1, <3>2 DEF InRow
  <2> QED BY <2>1, <2>2
<1> QED BY <1>6, <1>11, <1>12, <1>13

\* Nobody waits for an entry whose counter is zero.
LEMMA NobodyWaitsMeans ==
    ASSUME Ownership, NEW e \in Entries, entry[e].waiting_threads = 0
    PROVE  \A u \in Threads : ~(thread[u].pc = "wait" /\ thread[u].at = e)
<1>1. Cardinality(Waiters(e)) = 0 BY DEF Ownership, EntriesAreSound
<1>2. Waiters(e) = {} BY <1>1, WaitersFinite, FS_EmptySet
<1> QED BY <1>2 DEF Waiters

\* The thread that drives others out waits, or takes the entry from the table.
LEMMA DriveOutStep ==
    ASSUME Shape, Ownership, NEW t \in Threads, DriveOut(t)
    PROVE  Shape' /\ Ownership'
<1>1. /\ Typed /\ EntriesTyped /\ t \in All /\ t # None
      /\ nextSpi \in 1..(MaxSas + 1) /\ nextSpi <= nextSpi
      /\ initHash \in [Messages -> 0..MaxSas]
  BY WorkerFacts
<1>2. /\ thread[t].pc = "driveout" /\ lock = t /\ lock' = None
      /\ UNCHANGED << entry, draining, nextSpi, initHash >>
  BY DEF DriveOut, globals
<1> PICK e \in Entries : e = thread[t].at
  BY <1>2 DEF Ownership, PointersAreSound
<1>3. entry[e].alive /\ entry[e].sa = thread[t].sa /\ entry[e].driveout_threads
  BY <1>2 DEF Ownership, PointersAreSound
<1>4. CASE Goto(t, "driveout_wait") /\ UNCHANGED row
  <2> DEFINE x == Now(t, "driveout_wait", thread[t].at, thread[t].sa)
  <2>1. Moves(t, x) BY <1>1, <1>4, MoveForms DEF WorkerPc
  <2>2. x.pc = "driveout_wait" /\ x.at = thread[t].at /\ x.sa = thread[t].sa BY DEF Now
  <2> HIDE DEF x
  <2> QED BY <1>1, <1>2, <1>4, <2>1, <2>2, MoveAndLock DEF WorkerPc
<1>5. CASE NobodyWaits(e) /\ RemoveEntry(e) /\ Goto(t, "destroy")
  <2> DEFINE x == Now(t, "destroy", thread[t].at, thread[t].sa)
  <2>1. Moves(t, x) BY <1>1, <1>5, MoveForms DEF WorkerPc
  <2>2. x.pc = "destroy" /\ x.at = e /\ x.sa = thread[t].sa BY DEF Now
  <2> HIDE DEF x
  <2>3. /\ thread'[t] = x /\ \A u \in Threads \ {t} : thread'[u] = thread[u]
        /\ thread'[Main] = thread[Main]
    BY <2>1, ManagerAssumption DEF Moves, All
  <2>4. /\ row' \in Seq(Entries)
        /\ \A i, j \in 1..Len(row') : i < j =>
              \E k, l \in 1..Len(row) : k < l /\ row'[i] = row[k] /\ row'[j] = row[l]
        /\ \A f \in Entries : InRow(f)' <=> InRow(f) /\ f # e
    BY <1>5, RowRemove DEF Ownership
  <2>5. LockOwner' /\ lock' \in All \cup {None}
    BY <1>1, <1>2, <2>1, <2>2, LockStep DEF Ownership
  <2>6. Shape'
    BY <1>2, <2>1, <2>2, <2>3, <2>4, <2>5 DEF Shape, Moves, Typed, WorkerPc
  <2>7. \A u \in Threads : thread[u].pc \in {"acquire", "wait"} => thread[u].at # e
    BY <1>2, <1>5, NobodyWaitsMeans DEF NobodyWaits, Ownership, LockOwner
  <2>8. RowIsSound'
    <3>1. ASSUME NEW i \in 1..Len(row'), NEW j \in 1..Len(row'), i < j
          PROVE  row'[i] # row'[j]
      <4>1. PICK k \in 1..Len(row), l \in 1..Len(row) :
               k < l /\ row'[i] = row[k] /\ row'[j] = row[l]
        BY <2>4, <3>1
      <4> QED BY <4>1 DEF Ownership, RowIsSound
    <3>2. ASSUME NEW i \in 1..Len(row'), NEW j \in 1..Len(row'), row'[i] = row'[j]
          PROVE  i = j
      <4>1. ~(i < j) /\ ~(j < i) BY <3>1, <3>2
      <4> QED BY <4>1
    <3>3. \A f \in Entries : InRow(f)' => entry'[f].alive
      BY <1>2, <2>4 DEF Ownership, RowIsSound
    <3>4. ASSUME NEW f \in Entries, entry'[f].alive, ~InRow(f)'
          PROVE  /\ entry'[f].driveout_threads
                 /\ \/ \E u \in Threads : thread'[u].pc = "destroy" /\ thread'[u].at = f
                    \/ draining' /\ (f > MaxSas => entry'[f].checked_out = None)
      <4>1. CASE f = e BY <1>2, <1>3, <2>2, <2>3, <4>1
      <4>2. CASE f # e
        <5>1. ~InRow(f) BY <2>4, <3>4, <4>2
        <5>2. /\ entry[f].driveout_threads
              /\ \/ \E u \in Threads : thread[u].pc = "destroy" /\ thread[u].at = f
                 \/ draining /\ (f > MaxSas => entry[f].checked_out = None)
          BY <1>2, <3>4, <5>1 DEF Ownership, RowIsSound
        <5> QED BY <1>2, <2>3, <5>2
      <4> QED BY <4>1, <4>2
    <3> QED BY <3>2, <3>3, <3>4 DEF RowIsSound
  <2>9. EntriesAreSound'
    <3>1. \A f \in Entries : Waiters(f)' = Waiters(f) BY <1>2, <2>2, <2>3 DEF Waiters
    <3> QED BY <1>2, <3>1 DEF Ownership, EntriesAreSound
  <2>10. PointersAreSound'
    <3>1. ASSUME NEW u \in Threads, thread'[u].pc \in {"acquire", "wait"}
          PROVE  u # t /\ thread'[u] = thread[u] /\ thread[u].at # e
      BY <2>2, <2>3, <2>7, <3>1
    <3>2. ASSUME NEW u \in Threads, thread'[u].pc \in {"acquire", "wait"}
          PROVE  /\ thread'[u].at \in Entries /\ entry'[thread'[u].at].alive
                 /\ thread'[u].mode # "enum" => entry'[thread'[u].at].sa = thread'[u].sa
      BY <1>2, <3>1, <3>2 DEF Ownership, PointersAreSound
    <3>3. ASSUME NEW u \in Threads,
                 thread'[u].pc \in {"driveout", "driveout_wait", "destroy"}
          PROVE  /\ thread'[u].at \in Entries /\ entry'[thread'[u].at].alive
                 /\ entry'[thread'[u].at].sa = thread'[u].sa
                 /\ entry'[thread'[u].at].driveout_threads
      <4>1. CASE u = t BY <1>2, <1>3, <2>2, <2>3, <4>1
      <4>2. CASE u # t BY <1>2, <2>3, <3>3, <4>2 DEF Ownership, PointersAreSound
      <4> QED BY <4>1, <4>2
    <3>4. ASSUME NEW u \in Threads, thread'[u].pc = "destroy"
          PROVE  /\ \A k \in 1..Len(row') : row'[k] # thread'[u].at
                 /\ \A v \in Threads : thread'[v].pc \in {"acquire", "wait"} =>
                       thread'[v].at # thread'[u].at
      <4>1. CASE u = t
        <5>1. \A k \in 1..Len(row') : row'[k] # e BY <2>4 DEF InRow
        <5> QED BY <2>2, <2>3, <3>1, <4>1, <5>1
      <4>2. CASE u # t
        <5>1. thread'[u] = thread[u] /\ thread[u].pc = "destroy" BY <2>3, <3>4, <4>2
        <5>2. thread[u].at \in Entries /\ ~InRow(thread[u].at)
          BY <5>1 DEF Ownership, PointersAreSound
        <5>3. \A k \in 1..Len(row') : row'[k] # thread[u].at BY <2>4, <5>2 DEF InRow
        <5>4. \A v \in Threads : thread'[v].pc \in {"acquire", "wait"} =>
                 thread'[v].at # thread[u].at
          BY <3>1, <5>1 DEF Ownership, PointersAreSound
        <5> QED BY <5>1, <5>3, <5>4
      <4> QED BY <4>1, <4>2
    <3> QED BY <3>2, <3>3, <3>4 DEF PointersAreSound, InRow
  <2>11. OwnersAreSound'
    <3>1. \A u \in Threads : /\ Owns(u)' <=> Owns(u)
                             /\ IsFresh(u)' <=> IsFresh(u)
                             /\ thread'[u].sa = thread[u].sa
      BY <1>2, <2>2, <2>3 DEF Owns, IsFresh
    <3> QED BY <1>2, <3>1 DEF Ownership, OwnersAreSound
  <2>12. FlushIsSound'
    <3>1. ASSUME thread'[Main].pc \in {"flush_entry", "flush_wait"},
                 NEW i \in 1..Len(row'), NEW j \in 1..Len(row'),
                 i < j, row'[j] = thread'[Main].at, row'[i] > MaxSas
          PROVE  entry'[row'[i]].checked_out = None
      <4>1. PICK k \in 1..Len(row), l \in 1..Len(row) :
               k < l /\ row'[i] = row[k] /\ row'[j] = row[l]
        BY <2>4, <3>1
      <4> QED BY <1>2, <2>3, <3>1, <4>1 DEF Ownership, FlushIsSound
    <3>2. draining' => \A f \in Entries : InRow(f)' => entry'[f].driveout_threads
      BY <1>2, <2>4 DEF Ownership, FlushIsSound
    <3>3. thread'[Main].pc \in {"flush_row", "flush_entry", "flush_wait", "flushed"} => draining'
      BY <1>2, <2>3 DEF Ownership, FlushIsSound
    <3> QED BY <3>1, <3>2, <3>3 DEF FlushIsSound
  <2> QED BY <2>5, <2>6, <2>8, <2>9, <2>10, <2>11, <2>12 DEF Ownership
<1> QED BY <1>4, <1>5 DEF DriveOut

\* The entry is freed.
LEMMA DestroyEntryStep ==
    ASSUME Shape, Ownership, NEW t \in Threads, DestroyEntry(t)
    PROVE  Shape' /\ Ownership'
<1>1. Typed /\ EntriesTyped /\ t \in All /\ t # None /\ initHash \in [Messages -> 0..MaxSas]
  BY WorkerFacts
<1>2. /\ thread[t].pc = "destroy" /\ Return(t)
      /\ UNCHANGED << row, lock, draining, nextSpi >>
  BY DEF DestroyEntry
<1> PICK e \in Entries : e = thread[t].at
  BY <1>2 DEF Ownership, PointersAreSound
<1>3. /\ entry[e].sa = thread[t].sa /\ ~InRow(e)
      /\ \A u \in Threads : thread[u].pc \in {"acquire", "wait"} => thread[u].at # e
  BY <1>2 DEF Ownership, PointersAreSound
<1>4. Forget(e) BY DEF DestroyEntry
<1>5. Writes(e, FALSE, 0, None, 0, FALSE) BY <1>1, <1>4, ForgetWrites
<1>6. /\ EntriesTyped' /\ ~entry'[e].alive /\ entry'[e].waiting_threads = 0
      /\ \A f \in Entries \ {e} : entry'[f] = entry[f]
  BY <1>5 DEF Writes
<1>7. initHash' \in [Messages -> 0..MaxSas]
  <2>1. 0 \in 0..MaxSas BY ManagerAssumption
  <2> QED BY <1>1, <1>4, <2>1 DEF Forget
<1>8. Moves(t, Idle) BY <1>1, <1>2, MoveForms
<1>9. Idle.pc = "idle" BY DEF Idle, Job
<1>10. /\ thread'[t] = Idle /\ \A u \in Threads \ {t} : thread'[u] = thread[u]
       /\ thread'[Main] = thread[Main]
  BY <1>8, ManagerAssumption DEF Moves, All
<1>11. lock # t BY <1>2 DEF Ownership, LockOwner
<1>12. LockOwner' /\ lock' \in All \cup {None}
  BY <1>2, <1>8, <1>9, <1>11, LockStep DEF Ownership
<1>13. Shape'
  BY <1>2, <1>6, <1>7, <1>8, <1>9, <1>10, <1>12
     DEF Shape, Moves, Typed, EntriesTyped, WorkerPc
<1>14. \A f \in Entries : InRow(f)' <=> InRow(f) BY <1>2 DEF InRow
<1>15. \A u \in Threads :
          thread'[u].pc \in {"acquire", "wait", "driveout", "driveout_wait", "destroy"}
             => /\ u # t /\ thread'[u] = thread[u] /\ thread[u].at \in Entries
                /\ thread[u].at # e /\ entry'[thread[u].at] = entry[thread[u].at]
  <2> SUFFICES ASSUME NEW u \in Threads,
                      thread'[u].pc \in {"acquire", "wait", "driveout",
                                        "driveout_wait", "destroy"}
               PROVE  /\ u # t /\ thread'[u] = thread[u] /\ thread[u].at \in Entries
                      /\ thread[u].at # e /\ entry'[thread[u].at] = entry[thread[u].at]
    OBVIOUS
  <2>1. u # t /\ thread'[u] = thread[u] BY <1>9, <1>10
  <2>2. thread[u].at \in Entries BY <2>1 DEF Ownership, PointersAreSound
  <2>3. ASSUME thread[u].pc \in {"driveout", "driveout_wait", "destroy"}, thread[u].at = e
        PROVE  FALSE
    <3>1. thread[u].sa = thread[t].sa BY <1>3, <2>3 DEF Ownership, PointersAreSound
    <3>2. Owns(u) /\ Owns(t) BY <1>2, <2>3 DEF Owns
    <3> QED BY <2>1, <3>1, <3>2 DEF Ownership, OwnersAreSound
  <2>4. thread[u].at # e BY <1>3, <2>1, <2>3
  <2> QED BY <1>6, <2>1, <2>2, <2>4
<1>16. RowIsSound'
  <2>1. \A j, k \in 1..Len(row') : row'[j] = row'[k] => j = k
    BY <1>2 DEF Ownership, RowIsSound
  <2>2. \A f \in Entries : InRow(f)' => entry'[f].alive
    BY <1>3, <1>6, <1>14 DEF Ownership, RowIsSound
  <2>3. ASSUME NEW f \in Entries, entry'[f].alive, ~InRow(f)'
        PROVE  /\ entry'[f].driveout_threads
               /\ \/ \E u \in Threads : thread'[u].pc = "destroy" /\ thread'[u].at = f
                  \/ draining' /\ (f > MaxSas => entry'[f].checked_out = None)
    <3>1. f # e /\ entry'[f] = entry[f] /\ ~InRow(f) BY <1>6, <1>14, <2>3
    <3>2. /\ entry[f].driveout_threads
          /\ \/ \E u \in Threads : thread[u].pc = "destroy" /\ thread[u].at = f
             \/ draining /\ (f > MaxSas => entry[f].checked_out = None)
      BY <2>3, <3>1 DEF Ownership, RowIsSound
    <3> QED BY <1>2, <1>10, <3>1, <3>2
  <2> QED BY <2>1, <2>2, <2>3 DEF RowIsSound
<1>17. EntriesAreSound'
  <2>1. \A f \in Entries : Waiters(f)' = Waiters(f)
    BY <1>2, <1>9, <1>10 DEF Waiters
  <2>2. Waiters(e) = {} BY <1>3 DEF Waiters
  <2>3. \A f \in Entries : entry'[f].waiting_threads = Cardinality(Waiters(f)')
    BY <1>6, <2>1, <2>2, FS_EmptySet DEF Ownership, EntriesAreSound
  <2>4. \A f \in Entries : entry'[f].alive => f # e /\ entry'[f] = entry[f] BY <1>6
  <2> QED BY <1>2, <2>3, <2>4 DEF Ownership, EntriesAreSound
<1>18. PointersAreSound'
  <2>2. ASSUME NEW u \in Threads, thread'[u].pc \in {"acquire", "wait"}
        PROVE  /\ thread'[u].at \in Entries /\ entry'[thread'[u].at].alive
               /\ thread'[u].mode # "enum" => entry'[thread'[u].at].sa = thread'[u].sa
    BY <1>15, <2>2 DEF Ownership, PointersAreSound
  <2>3. ASSUME NEW u \in Threads, thread'[u].pc \in {"driveout", "driveout_wait", "destroy"}
        PROVE  /\ thread'[u].at \in Entries /\ entry'[thread'[u].at].alive
               /\ entry'[thread'[u].at].sa = thread'[u].sa
               /\ entry'[thread'[u].at].driveout_threads
    BY <1>15, <2>3 DEF Ownership, PointersAreSound
  <2>4. ASSUME NEW u \in Threads, thread'[u].pc = "destroy"
        PROVE  /\ \A k \in 1..Len(row') : row'[k] # thread'[u].at
               /\ \A v \in Threads : thread'[v].pc \in {"acquire", "wait"} =>
                     thread'[v].at # thread'[u].at
    BY <1>2, <1>15, <2>4 DEF Ownership, PointersAreSound, InRow
  <2> QED BY <2>2, <2>3, <2>4 DEF PointersAreSound, InRow
<1>19. OwnersAreSound'
  <2>1. \A u \in Threads \ {t} : /\ Owns(u)' <=> Owns(u)
                                 /\ IsFresh(u)' <=> IsFresh(u)
    BY <1>10 DEF Owns, IsFresh
  <2>2. ~Owns(t)' /\ ~IsFresh(t)' BY <1>9, <1>10 DEF Owns, IsFresh
  <2>3. \A f \in Entries : entry'[f].alive => f # e /\ entry'[f] = entry[f] BY <1>6
  <2> QED BY <1>2, <1>10, <2>1, <2>2, <2>3 DEF Ownership, OwnersAreSound
<1>20. FlushIsSound'
  <2>1. thread'[Main].pc \in {"flush_row", "flush_entry", "flush_wait", "flushed"} => draining'
    BY <1>2, <1>10 DEF Ownership, FlushIsSound
  <2>2. ASSUME thread'[Main].pc \in {"flush_entry", "flush_wait"},
               NEW j \in 1..Len(row'), NEW k \in 1..Len(row'),
               j < k, row'[k] = thread'[Main].at, row'[j] > MaxSas
        PROVE  entry'[row'[j]].checked_out = None
    <3>1. row[j] \in Entries \ {e} BY <1>2, <1>3 DEF Shape, InRow
    <3> QED BY <1>2, <1>6, <1>10, <2>2, <3>1 DEF Ownership, FlushIsSound
  <2>3. draining' => \A f \in Entries : InRow(f)' => entry'[f].driveout_threads
    BY <1>2, <1>3, <1>6, <1>14 DEF Ownership, FlushIsSound
  <2> QED BY <2>1, <2>2, <2>3 DEF FlushIsSound
<1> QED BY <1>12, <1>13, <1>16, <1>17, <1>18, <1>19, <1>20 DEF Ownership

\* The mutex after a move of the thread that shuts the daemon down.
LEMMA LockMain ==
    ASSUME Shape, LockOwner, NEW x, Moves(Main, x),
           lock' = lock \/ (lock \in {None, Main} /\ lock' \in {None, Main}),
           x.pc \in {"flush_row", "flush_entry"} <=> lock' = Main
    PROVE  LockOwner' /\ lock' \in All \cup {None}
<1>1. thread'[Main] = x /\ \A u \in Threads : thread'[u] = thread[u]
  BY ManagerAssumption DEF Moves, All
<1>2. \A u \in Threads : u # None /\ u # Main BY ManagerAssumption
<1>3. Main # None BY ManagerAssumption
<1> QED BY <1>1, <1>2, <1>3, Values DEF LockOwner, Shape

\* flush() goes on and leaves the table alone.
LEMMA MainStep ==
    ASSUME Shape, Ownership, NEW x, Moves(Main, x),
           UNCHANGED << entry, row, draining, nextSpi, initHash >>,
           lock' = lock \/ (lock \in {None, Main} /\ lock' \in {None, Main}),
           x.pc \in {"flush_row", "flush_entry"} <=> lock' = Main,
           x.pc \in MainPc,
           x.pc \in {"flush_row", "flush_entry", "flush_wait", "flushed"} => draining,
           x.pc \in {"flush_entry", "flush_wait"} =>
              \/ /\ thread[Main].pc \in {"flush_entry", "flush_wait"}
                 /\ x.at = thread[Main].at
              \/ Len(row) > 0 /\ x.at = row[1]
    PROVE  Shape' /\ Ownership'
<1>1. thread'[Main] = x /\ \A u \in Threads : thread'[u] = thread[u]
  BY ManagerAssumption DEF Moves, All
<1>2. LockOwner' /\ lock' \in All \cup {None} BY LockMain DEF Ownership
<1>3. Shape' BY <1>1, <1>2 DEF Shape, Moves, Typed
<1>4. \A f \in Entries : InRow(f)' <=> InRow(f) BY DEF InRow
<1>5. RowIsSound' BY <1>1, <1>4 DEF Ownership, RowIsSound
<1>6. EntriesAreSound'
  <2>1. \A f \in Entries : Waiters(f)' = Waiters(f) BY <1>1 DEF Waiters
  <2> QED BY <2>1 DEF Ownership, EntriesAreSound
<1>7. PointersAreSound' BY <1>1 DEF Ownership, PointersAreSound, InRow
<1>8. OwnersAreSound'
  <2>1. \A u \in Threads : (Owns(u)' <=> Owns(u)) /\ (IsFresh(u)' <=> IsFresh(u))
    BY <1>1 DEF Owns, IsFresh
  <2> QED BY <1>1, <2>1 DEF Ownership, OwnersAreSound
<1>9. FlushIsSound'
  <2>1. ASSUME x.pc \in {"flush_entry", "flush_wait"},
               NEW j \in 1..Len(row), NEW k \in 1..Len(row),
               j < k, row[k] = x.at, row[j] > MaxSas
        PROVE  entry[row[j]].checked_out = None
    <3>1. CASE thread[Main].pc \in {"flush_entry", "flush_wait"} /\ x.at = thread[Main].at
      BY <2>1, <3>1 DEF Ownership, FlushIsSound
    <3>2. CASE Len(row) > 0 /\ x.at = row[1]
      <4>1. 1 \in 1..Len(row) /\ Len(row) \in Nat BY <3>2 DEF Shape
      <4>2. k = 1 BY <2>1, <3>2, <4>1 DEF Ownership, RowIsSound
      <4> QED BY <2>1, <4>2
    <3> QED BY <2>1, <3>1, <3>2
  <2>2. draining' => \A f \in Entries : InRow(f)' => entry'[f].driveout_threads
    BY <1>4 DEF Ownership, FlushIsSound
  <2> QED BY <1>1, <2>1, <2>2 DEF FlushIsSound
<1> QED BY <1>2, <1>3, <1>5, <1>6, <1>7, <1>8, <1>9 DEF Ownership

\* All entries in the table are closed.
LEMMA FlushMarkStep ==
    ASSUME Shape, Ownership, FlushMark
    PROVE  Shape' /\ Ownership'
<1> DEFINE x == Now(Main, "flush_row", thread[Main].at, thread[Main].sa)
<1>1. /\ thread[Main].pc = "flush" /\ lock = None /\ lock' = Main
      /\ draining' = TRUE /\ Goto(Main, "flush_row")
      /\ entry' = [f \in Entries |->
                     [entry[f] EXCEPT !.driveout_threads = @ \/ InRow(f)]]
      /\ UNCHANGED << row, nextSpi, initHash >>
  BY DEF FlushMark
<1>2. Moves(Main, x) BY <1>1, MoveForms, Values DEF MainPc, Shape, Typed
<1>3. x.pc = "flush_row" BY DEF Now
<1> HIDE DEF x
<1>4. thread'[Main] = x /\ \A u \in Threads : thread'[u] = thread[u]
  BY <1>2, ManagerAssumption DEF Moves, All
<1>5. LockOwner' /\ lock' \in All \cup {None}
  BY <1>1, <1>2, <1>3, LockMain DEF Ownership
<1>6. ASSUME NEW f \in Entries
      PROVE  /\ entry'[f] \in EntryShape
             /\ entry'[f].alive <=> entry[f].alive
             /\ entry'[f].sa = entry[f].sa
             /\ entry'[f].checked_out = entry[f].checked_out
             /\ entry'[f].waiting_threads = entry[f].waiting_threads
             /\ entry'[f].driveout_threads <=> entry[f].driveout_threads \/ InRow(f)
  <2> DEFINE b == entry[f].driveout_threads \/ InRow(f)
  <2>1. entry[f] \in EntryShape BY DEF Shape
  <2>2. entry'[f] = [entry[f] EXCEPT !.driveout_threads = b] BY <1>1
  <2>3. b \in BOOLEAN OBVIOUS
  <2>4. b <=> entry[f].driveout_threads \/ InRow(f) OBVIOUS
  <2> HIDE DEF b
  <2> QED BY <2>1, <2>2, <2>3, <2>4 DEF EntryShape
<1>7. \A f \in Entries :
         /\ entry'[f].alive <=> entry[f].alive
         /\ entry'[f].sa = entry[f].sa
         /\ entry'[f].checked_out = entry[f].checked_out
         /\ entry[f].driveout_threads => entry'[f].driveout_threads
  BY <1>6
<1>8. entry' \in [Entries -> EntryShape] BY <1>1, <1>6
<1>9. Shape'
  BY <1>1, <1>2, <1>3, <1>4, <1>5, <1>8 DEF Shape, Moves, Typed, MainPc
<1>10. \A f \in Entries : InRow(f)' <=> InRow(f) BY <1>1 DEF InRow
<1>11. RowIsSound'
  <2>1. \A j, k \in 1..Len(row') : row'[j] = row'[k] => j = k
    BY <1>1 DEF Ownership, RowIsSound
  <2>2. \A f \in Entries : InRow(f)' => entry'[f].alive
    BY <1>6, <1>10 DEF Ownership, RowIsSound
  <2>3. ASSUME NEW f \in Entries, entry'[f].alive, ~InRow(f)'
        PROVE  /\ entry'[f].driveout_threads
               /\ \/ \E u \in Threads : thread'[u].pc = "destroy" /\ thread'[u].at = f
                  \/ draining' /\ (f > MaxSas => entry'[f].checked_out = None)
    <3>1. /\ entry[f].driveout_threads
          /\ \/ \E u \in Threads : thread[u].pc = "destroy" /\ thread[u].at = f
             \/ draining /\ (f > MaxSas => entry[f].checked_out = None)
      BY <1>6, <1>10, <2>3 DEF Ownership, RowIsSound
    <3> QED BY <1>1, <1>4, <1>6, <3>1
  <2> QED BY <2>1, <2>2, <2>3 DEF RowIsSound
<1>12. EntriesAreSound'
  <2>1. \A f \in Entries : Waiters(f)' = Waiters(f) BY <1>4 DEF Waiters
  <2>2. \A f \in Entries : entry'[f].waiting_threads = Cardinality(Waiters(f)')
    BY <1>6, <2>1 DEF Ownership, EntriesAreSound
  <2>3. nextSpi' = nextSpi BY <1>1
  <2> QED BY <1>7, <2>2, <2>3 DEF Ownership, EntriesAreSound
<1>13. PointersAreSound'
  <2>2. ASSUME NEW u \in Threads, thread'[u].pc \in {"acquire", "wait"}
        PROVE  /\ thread'[u].at \in Entries /\ entry'[thread'[u].at].alive
               /\ thread'[u].mode # "enum" => entry'[thread'[u].at].sa = thread'[u].sa
    BY <1>4, <1>7, <2>2 DEF Ownership, PointersAreSound
  <2>3. ASSUME NEW u \in Threads, thread'[u].pc \in {"driveout", "driveout_wait", "destroy"}
        PROVE  /\ thread'[u].at \in Entries /\ entry'[thread'[u].at].alive
               /\ entry'[thread'[u].at].sa = thread'[u].sa
               /\ entry'[thread'[u].at].driveout_threads
    BY <1>4, <1>7, <2>3 DEF Ownership, PointersAreSound
  <2>4. ASSUME NEW u \in Threads, thread'[u].pc = "destroy"
        PROVE  /\ \A k \in 1..Len(row') : row'[k] # thread'[u].at
               /\ \A v \in Threads : thread'[v].pc \in {"acquire", "wait"} =>
                     thread'[v].at # thread'[u].at
    BY <1>1, <1>4, <2>4 DEF Ownership, PointersAreSound, InRow
  <2> QED BY <2>2, <2>3, <2>4 DEF PointersAreSound, InRow
<1>14. OwnersAreSound'
  <2>1. \A u \in Threads : (Owns(u)' <=> Owns(u)) /\ (IsFresh(u)' <=> IsFresh(u))
    BY <1>4 DEF Owns, IsFresh
  <2>2. nextSpi' = nextSpi BY <1>1
  <2> QED BY <1>4, <1>7, <2>1, <2>2 DEF Ownership, OwnersAreSound
<1>15. FlushIsSound'
  <2>1. thread'[Main].pc = "flush_row" BY <1>3, <1>4
  <2>2. \A f \in Entries : InRow(f)' => entry'[f].driveout_threads BY <1>6, <1>10
  <2> QED BY <1>1, <2>1, <2>2 DEF FlushIsSound
<1> QED BY <1>5, <1>9, <1>11, <1>12, <1>13, <1>14, <1>15 DEF Ownership

\* What is left of the row when flush() removes an entry.
LEMMA RowDrop ==
    ASSUME Shape, RowIsSound, NEW p \in 1..Len(row), row' = SubSeq(row, p + 1, Len(row))
    PROVE  /\ row' \in Seq(Entries) /\ Len(row) \in Nat /\ Len(row') = Len(row) - p
           /\ \A i \in 1..Len(row') : p + i \in 1..Len(row) /\ row'[i] = row[p + i]
           /\ \A f \in Entries : InRow(f)' => InRow(f) /\ f # row[p]
           /\ \A f \in Entries : InRow(f) /\ ~InRow(f)' =>
                 \E j \in 1..p : row[j] = f
<1>1. row \in Seq(Entries) /\ Len(row) \in Nat /\ p \in Int /\ 1 <= p /\ p <= Len(row)
  BY DEF Shape
<1>2. /\ row' \in Seq(Entries) /\ Len(row') = Len(row) - p
      /\ \A i \in 1..(Len(row) - p) : row'[i] = row[p + i]
  BY <1>1
<1>3. \A i \in 1..Len(row') : p + i \in 1..Len(row) /\ p + i # p /\ row'[i] = row[p + i]
  BY <1>1, <1>2
<1>4. \A f \in Entries : InRow(f)' => InRow(f) /\ f # row[p]
  BY <1>3 DEF InRow, RowIsSound
<1>5. ASSUME NEW f \in Entries, InRow(f), ~InRow(f)' PROVE \E j \in 1..p : row[j] = f
  <2>1. PICK j \in 1..Len(row) : row[j] = f BY <1>5 DEF InRow
  <2>2. ASSUME j > p PROVE FALSE
    <3>1. j - p \in 1..Len(row') /\ p + (j - p) = j BY <1>1, <1>2, <2>2
    <3>2. row'[j - p] = f BY <1>3, <2>1, <3>1
    <3> QED BY <1>5, <3>1, <3>2 DEF InRow
  <2>3. j \in 1..p BY <1>1, <2>2
  <2> QED BY <2>1, <2>3
<1> QED BY <1>1, <1>2, <1>3, <1>4, <1>5

\* flush() removes an entry everybody left, and loses those in front of it.
LEMMA FlushEntryRemoves ==
    ASSUME Shape, Ownership, NEW e \in Entries, e = thread[Main].at,
           thread[Main].pc = "flush_entry", lock = Main, Left(e), Forget(e),
           RemoveAtFront(e), Goto(Main, "flush_row"),
           UNCHANGED << lock, draining, nextSpi >>
    PROVE  Shape' /\ Ownership'
<1> DEFINE x == Now(Main, "flush_row", thread[Main].at, thread[Main].sa)
<1>1. EntriesTyped /\ Main # None /\ \A u \in Threads : u # None /\ u # Main
  BY ManagerAssumption DEF Shape, EntriesTyped
<1>2. Moves(Main, x) BY MoveForms, Values DEF MainPc, Shape, Typed
<1>3. x.pc = "flush_row" BY DEF Now
<1> HIDE DEF x
<1>4. thread'[Main] = x /\ \A u \in Threads : thread'[u] = thread[u]
  BY <1>2, ManagerAssumption DEF Moves, All
<1>5. LockOwner' /\ lock' \in All \cup {None}
  BY <1>2, <1>3, LockMain DEF Ownership
<1>6. Writes(e, FALSE, 0, None, 0, FALSE) BY <1>1, ForgetWrites
<1>7. /\ EntriesTyped' /\ ~entry'[e].alive /\ entry'[e].waiting_threads = 0
      /\ \A f \in Entries \ {e} : entry'[f] = entry[f]
  BY <1>6 DEF Writes
<1>8. initHash' \in [Messages -> 0..MaxSas]
  <2>1. 0 \in 0..MaxSas /\ initHash \in [Messages -> 0..MaxSas]
    BY ManagerAssumption DEF Shape
  <2> QED BY <2>1 DEF Forget
<1>9. PICK p \in 1..Len(row) : row[p] = e /\ row' = SubSeq(row, p + 1, Len(row))
  BY DEF RemoveAtFront
<1>10. /\ row' \in Seq(Entries) /\ Len(row) \in Nat
       /\ \A i \in 1..Len(row') : p + i \in 1..Len(row) /\ row'[i] = row[p + i]
       /\ \A f \in Entries : InRow(f)' => InRow(f) /\ f # e
       /\ \A f \in Entries : InRow(f) /\ ~InRow(f)' => \E j \in 1..p : row[j] = f
  BY <1>9, RowDrop DEF Ownership
<1>11. Shape'
  BY <1>2, <1>3, <1>4, <1>5, <1>7, <1>8, <1>10
     DEF Shape, Moves, Typed, EntriesTyped, MainPc
<1>12. draining BY DEF Ownership, FlushIsSound
<1>13. \A u \in Threads :
          thread[u].pc \in {"acquire", "wait", "driveout", "driveout_wait", "destroy"}
             => /\ thread[u].at \in Entries \ {e}
                /\ entry'[thread[u].at] = entry[thread[u].at]
  <2> SUFFICES ASSUME NEW u \in Threads,
                      thread[u].pc \in {"acquire", "wait", "driveout",
                                        "driveout_wait", "destroy"}
               PROVE  /\ thread[u].at \in Entries \ {e}
                      /\ entry'[thread[u].at] = entry[thread[u].at]
    OBVIOUS
  <2>1. thread[u].at \in Entries /\ entry[thread[u].at].alive
    BY DEF Ownership, PointersAreSound
  <2>2. CASE thread[u].pc \in {"acquire", "wait"}
    <3>1. thread[u].pc # "acquire" BY <1>1 DEF Ownership, LockOwner
    <3>2. thread[u].at # e BY <2>2, <3>1, NobodyWaitsMeans DEF Left
    <3> QED BY <1>7, <2>1, <3>2
  <2>3. CASE thread[u].pc \in {"driveout", "driveout_wait", "destroy"}
    <3>1. Owns(u) /\ entry[thread[u].at].sa = thread[u].sa
      BY <2>3 DEF Owns, Ownership, PointersAreSound
    <3>2. entry[thread[u].at].checked_out = u
      BY <2>1, <3>1 DEF Ownership, OwnersAreSound
    <3>3. thread[u].at # e BY <1>1, <3>2 DEF Left
    <3> QED BY <1>7, <2>1, <3>3
  <2> QED BY <2>2, <2>3
<1>14. RowIsSound'
  <2>1. ASSUME NEW j \in 1..Len(row'), NEW k \in 1..Len(row'), row'[j] = row'[k]
        PROVE  j = k
    <3>1. row[p + j] = row[p + k] /\ p + j \in 1..Len(row) /\ p + k \in 1..Len(row)
      BY <1>10, <2>1
    <3>2. p + j = p + k BY <3>1 DEF Ownership, RowIsSound
    <3> QED BY <3>2
  <2>2. \A f \in Entries : InRow(f)' => entry'[f].alive
    BY <1>7, <1>10 DEF Ownership, RowIsSound
  <2>3. ASSUME NEW f \in Entries, entry'[f].alive, ~InRow(f)'
        PROVE  /\ entry'[f].driveout_threads
               /\ \/ \E u \in Threads : thread'[u].pc = "destroy" /\ thread'[u].at = f
                  \/ draining' /\ (f > MaxSas => entry'[f].checked_out = None)
    <3>1. f # e /\ entry'[f] = entry[f] BY <1>7, <2>3
    <3>2. CASE InRow(f)
      <4>1. PICK j \in 1..p : row[j] = f BY <1>10, <2>3, <3>2
      <4>2. j \in 1..Len(row) /\ j < p BY <1>9, <1>10, <3>1, <4>1
      <4>3. f > MaxSas => entry[f].checked_out = None
        BY <1>9, <4>1, <4>2 DEF Ownership, FlushIsSound
      <4>4. entry[f].driveout_threads BY <1>12, <3>2 DEF Ownership, FlushIsSound
      <4> QED BY <1>12, <3>1, <4>3, <4>4
    <3>3. CASE ~InRow(f)
      <4>1. /\ entry[f].driveout_threads
            /\ \/ \E u \in Threads : thread[u].pc = "destroy" /\ thread[u].at = f
               \/ draining /\ (f > MaxSas => entry[f].checked_out = None)
        BY <2>3, <3>1, <3>3 DEF Ownership, RowIsSound
      <4> QED BY <1>4, <3>1, <4>1
    <3> QED BY <3>2, <3>3
  <2> QED BY <2>1, <2>2, <2>3 DEF RowIsSound
<1>15. EntriesAreSound'
  <2>1. \A f \in Entries : Waiters(f)' = Waiters(f) BY <1>4 DEF Waiters
  <2>2. Waiters(e) = {} BY <1>13 DEF Waiters
  <2>3. \A f \in Entries : entry'[f].waiting_threads = Cardinality(Waiters(f)')
    BY <1>7, <2>1, <2>2, FS_EmptySet DEF Ownership, EntriesAreSound
  <2>4. \A f \in Entries : entry'[f].alive => f # e /\ entry'[f] = entry[f] BY <1>7
  <2> QED BY <2>3, <2>4 DEF Ownership, EntriesAreSound
<1>16. PointersAreSound'
  <2>2. ASSUME NEW u \in Threads, thread'[u].pc \in {"acquire", "wait"}
        PROVE  /\ thread'[u].at \in Entries /\ entry'[thread'[u].at].alive
               /\ thread'[u].mode # "enum" => entry'[thread'[u].at].sa = thread'[u].sa
    BY <1>4, <1>13, <2>2 DEF Ownership, PointersAreSound
  <2>3. ASSUME NEW u \in Threads, thread'[u].pc \in {"driveout", "driveout_wait", "destroy"}
        PROVE  /\ thread'[u].at \in Entries /\ entry'[thread'[u].at].alive
               /\ entry'[thread'[u].at].sa = thread'[u].sa
               /\ entry'[thread'[u].at].driveout_threads
    BY <1>4, <1>13, <2>3 DEF Ownership, PointersAreSound
  <2>4. ASSUME NEW u \in Threads, thread'[u].pc = "destroy"
        PROVE  /\ \A k \in 1..Len(row') : row'[k] # thread'[u].at
               /\ \A v \in Threads : thread'[v].pc \in {"acquire", "wait"} =>
                     thread'[v].at # thread'[u].at
    <3>1. ~InRow(thread[u].at) /\ thread[u].at \in Entries
      BY <1>4, <1>13, <2>4 DEF Ownership, PointersAreSound
    <3>2. \A k \in 1..Len(row') : row'[k] # thread[u].at BY <1>10, <3>1 DEF InRow
    <3>3. \A v \in Threads : thread[v].pc \in {"acquire", "wait"} =>
             thread[v].at # thread[u].at
      BY <1>4, <2>4 DEF Ownership, PointersAreSound
    <3> QED BY <1>4, <3>2, <3>3
  <2> QED BY <2>2, <2>3, <2>4 DEF PointersAreSound, InRow
<1>17. OwnersAreSound'
  <2>1. \A u \in Threads : (Owns(u)' <=> Owns(u)) /\ (IsFresh(u)' <=> IsFresh(u))
    BY <1>4 DEF Owns, IsFresh
  <2>2. \A f \in Entries : entry'[f].alive => f # e /\ entry'[f] = entry[f] BY <1>7
  <2> QED BY <1>4, <2>1, <2>2 DEF Ownership, OwnersAreSound
<1>18. FlushIsSound'
  <2>1. thread'[Main].pc = "flush_row" BY <1>3, <1>4
  <2>2. \A f \in Entries : InRow(f)' => entry'[f].driveout_threads
    BY <1>7, <1>10, <1>12 DEF Ownership, FlushIsSound
  <2> QED BY <1>12, <2>1, <2>2 DEF FlushIsSound
<1> QED BY <1>5, <1>11, <1>14, <1>15, <1>16, <1>17, <1>18 DEF Ownership

\* The steps of the shutdown.
LEMMA FlushesStep ==
    ASSUME Shape, Ownership, Flushes
    PROVE  Shape' /\ Ownership'
<1>1. Typed /\ Main \in All /\ Main # None BY Values, ManagerAssumption DEF Shape, Typed
<1>2. thread[Main].pc \in {"flush_row", "flush_entry"} <=> lock = Main
  BY DEF Ownership, LockOwner
<1>3. CASE Flush
  <2> DEFINE x == Now(Main, "flush", thread[Main].at, thread[Main].sa)
  <2>1. /\ thread[Main].pc = "idle" /\ Goto(Main, "flush")
        /\ UNCHANGED << entry, row, draining, nextSpi, initHash, lock >>
    BY <1>3 DEF Flush, table
  <2>2. Moves(Main, x) BY <1>1, <2>1, MoveForms DEF MainPc
  <2>3. x.pc = "flush" BY DEF Now
  <2> HIDE DEF x
  <2> QED BY <1>1, <1>2, <2>1, <2>2, <2>3, MainStep DEF MainPc
<1>4. CASE FlushMark BY <1>4, FlushMarkStep
<1>5. CASE FlushRow
  <2>1. /\ thread[Main].pc = "flush_row" /\ lock = Main
        /\ UNCHANGED << entry, row, draining, nextSpi, initHash >>
    BY <1>5 DEF FlushRow, table, globals
  <2>2. draining BY <2>1 DEF Ownership, FlushIsSound
  <2>3. CASE lock' = None /\ Goto(Main, "flushed")
    <3> DEFINE x == Now(Main, "flushed", thread[Main].at, thread[Main].sa)
    <3>1. Moves(Main, x) BY <1>1, <2>3, MoveForms DEF MainPc
    <3>2. x.pc = "flushed" BY DEF Now
    <3> HIDE DEF x
    <3> QED BY <1>1, <2>1, <2>2, <2>3, <3>1, <3>2, MainStep DEF MainPc
  <2>4. CASE /\ Len(row) > 0
             /\ thread' = [thread EXCEPT ![Main].pc = "flush_entry", ![Main].at = row[1]]
             /\ UNCHANGED lock
    <3> DEFINE x == Now(Main, "flush_entry", row[1], thread[Main].sa)
    <3>1. row[1] \in Entries BY <2>4 DEF Shape
    <3>2. Moves(Main, x) BY <1>1, <2>4, <3>1, MoveForms DEF MainPc
    <3>3. x.pc = "flush_entry" /\ x.at = row[1] BY DEF Now
    <3> HIDE DEF x
    <3> QED BY <1>1, <2>1, <2>2, <2>4, <3>2, <3>3, MainStep DEF MainPc
  <2> QED BY <1>5, <2>3, <2>4 DEF FlushRow
<1>6. CASE FlushEntry
  <2>1. /\ thread[Main].pc = "flush_entry" /\ lock = Main
        /\ UNCHANGED << draining, nextSpi >>
    BY <1>6 DEF FlushEntry
  <2>2. draining BY <2>1 DEF Ownership, FlushIsSound
  <2>3. CASE /\ lock' = None /\ Goto(Main, "flush_wait")
             /\ UNCHANGED << table, initHash >>
    <3> DEFINE x == Now(Main, "flush_wait", thread[Main].at, thread[Main].sa)
    <3>1. Moves(Main, x) BY <1>1, <2>3, MoveForms DEF MainPc
    <3>2. x.pc = "flush_wait" /\ x.at = thread[Main].at BY DEF Now
    <3>3. UNCHANGED << entry, row >> BY <2>3 DEF table
    <3> HIDE DEF x
    <3> QED BY <1>1, <2>1, <2>2, <2>3, <3>1, <3>2, <3>3, MainStep DEF MainPc
  <2>4. CASE /\ Left(thread[Main].at) /\ Forget(thread[Main].at)
             /\ RemoveAtFront(thread[Main].at)
             /\ Goto(Main, "flush_row") /\ UNCHANGED lock
    <3>1. thread[Main].at \in Entries BY <2>4 DEF RemoveAtFront, Shape
    <3> QED BY <2>1, <2>4, <3>1, FlushEntryRemoves
  <2> QED BY <1>6, <2>3, <2>4 DEF FlushEntry
<1>7. CASE FlushResume
  <2> DEFINE x == Now(Main, "flush_entry", thread[Main].at, thread[Main].sa)
  <2>1. /\ thread[Main].pc = "flush_wait" /\ lock = None /\ lock' = Main
        /\ Goto(Main, "flush_entry")
        /\ UNCHANGED << entry, row, draining, nextSpi, initHash >>
    BY <1>7 DEF FlushResume, table, globals
  <2>2. draining BY <2>1 DEF Ownership, FlushIsSound
  <2>3. Moves(Main, x) BY <1>1, <2>1, MoveForms DEF MainPc
  <2>4. x.pc = "flush_entry" /\ x.at = thread[Main].at BY DEF Now
  <2> HIDE DEF x
  <2> QED BY <1>1, <2>1, <2>2, <2>3, <2>4, MainStep DEF MainPc
<1> QED BY <1>3, <1>4, <1>5, <1>6, <1>7 DEF Flushes

\* Nothing changes.
LEMMA Stutter ==
    ASSUME Shape, Ownership, UNCHANGED vars
    PROVE  Shape' /\ Ownership'
<1>1. /\ entry' = entry /\ row' = row /\ lock' = lock /\ draining' = draining
      /\ nextSpi' = nextSpi /\ initHash' = initHash /\ thread' = thread
  BY DEF vars, table, globals
<1>2. Shape' BY <1>1 DEF Shape
<1>3. \A e \in Entries : (InRow(e)' <=> InRow(e)) /\ Waiters(e)' = Waiters(e)
  BY <1>1 DEF InRow, Waiters
<1>4. \A t \in Threads : (Owns(t)' <=> Owns(t)) /\ (IsFresh(t)' <=> IsFresh(t))
  BY <1>1 DEF Owns, IsFresh
<1>5. LockOwner' BY <1>1 DEF Ownership, LockOwner
<1>6. RowIsSound' BY <1>1, <1>3 DEF Ownership, RowIsSound
<1>7. EntriesAreSound' BY <1>1, <1>3 DEF Ownership, EntriesAreSound
<1>8. PointersAreSound' BY <1>1 DEF Ownership, PointersAreSound, InRow
<1>9. OwnersAreSound' BY <1>1, <1>4 DEF Ownership, OwnersAreSound
<1>10. FlushIsSound' BY <1>1, <1>3 DEF Ownership, FlushIsSound
<1> QED BY <1>2, <1>5, <1>6, <1>7, <1>8, <1>9, <1>10 DEF Ownership

\* In the beginning the table is empty and nobody works.
LEMMA OwnershipInit == Init => Ownership
<1> SUFFICES ASSUME Init PROVE Ownership OBVIOUS
<1>1. \A t \in All : thread[t].pc = "idle" BY DEF Init, Idle, Job
<1>2. /\ \A t \in Threads : thread[t].pc = "idle" /\ t # None
      /\ thread[Main].pc = "idle" /\ Main # None
  BY <1>1, Values, ManagerAssumption
<1>3. \A e \in Entries : ~entry[e].alive /\ entry[e].waiting_threads = 0
  BY DEF Init, NoEntry
<1>4. Len(row) = 0 /\ lock = None /\ draining = FALSE BY DEF Init
<1>5. \A e \in Entries : ~InRow(e) BY <1>4 DEF InRow
<1>6. LockOwner BY <1>2, <1>4 DEF LockOwner
<1>7. RowIsSound BY <1>3, <1>4, <1>5 DEF RowIsSound
<1>8. EntriesAreSound
  <2>1. \A e \in Entries : Waiters(e) = {} BY <1>2 DEF Waiters
  <2> QED BY <1>3, <2>1, FS_EmptySet DEF EntriesAreSound
<1>9. PointersAreSound BY <1>2 DEF PointersAreSound
<1>10. OwnersAreSound BY <1>2, <1>3 DEF OwnersAreSound, Owns, IsFresh
<1>11. FlushIsSound BY <1>2, <1>4, <1>5 DEF FlushIsSound
<1> QED BY <1>6, <1>7, <1>8, <1>9, <1>10, <1>11 DEF Ownership

\* Every step keeps the invariant.
LEMMA OwnershipStep == Shape /\ Ownership /\ [Next]_vars => Shape' /\ Ownership'
<1> SUFFICES ASSUME Shape, Ownership, [Next]_vars PROVE Shape' /\ Ownership'
  OBVIOUS
<1>1. ASSUME NEW t \in Threads, Proceeds(t) PROVE Shape' /\ Ownership'
  <2>1. CASE CheckAndPutInitHash(t) \/ CheckLimit(t) BY <2>1, InitStep
  <2>2. CASE PutInit(t) \/ CheckoutNew(t) BY <2>2, PutNewStep
  <2>3. CASE Lookup(t) BY <2>3, LookupStep
  <2>4. CASE Acquire(t) BY <2>4, AcquireStep
  <2>5. CASE Resume(t) BY <2>5, ResumeStep
  <2>6. CASE \E st \in State, h \in Hosts : Checkin(t, st, h) BY <2>6, CheckinStep
  <2>7. CASE CheckinAndDestroy(t) BY <2>7, CheckinAndDestroyStep
  <2>8. CASE DriveOut(t) BY <2>8, DriveOutStep
  <2>9. CASE ResumeDriveOut(t) BY <2>9, ResumeDriveOutStep
  <2>10. CASE DestroyEntry(t) BY <2>10, DestroyEntryStep
  <2> QED
    BY <1>1, <2>1, <2>2, <2>3, <2>4, <2>5, <2>6, <2>7, <2>8, <2>9, <2>10 DEF Proceeds
<1>2. CASE Flushes BY <1>2, FlushesStep
<1>3. CASE UNCHANGED vars BY <1>3, Stutter
<1> QED BY <1>1, <1>2, <1>3, StartsStep DEF Next

\* The table and the threads fit together at all times, for any number of
\* threads, IKE_SAs, messages and jobs, and whether or not the daemon shuts down.
THEOREM OwnershipCorrect == Spec => []Ownership
<1>1. Spec => [](Shape /\ Ownership)
  BY ShapeInit, OwnershipInit, OwnershipStep, PTL DEF Spec
<1> QED BY <1>1, PTL

\* At most one thread works on an IKE_SA: checkouts, check-ins, destruction and
\* flush() never let a second thread at an IKE_SA that is checked out.
THEOREM MutualExclusion == Spec => []Exclusive
<1>1. Ownership => Exclusive
  <2>1. \A t : Holds(t) => Owns(t) \/ IsFresh(t) BY DEF Holds, Owns, IsFresh
  <2> QED BY <2>1 DEF Ownership, OwnersAreSound, Exclusive
<1> QED BY <1>1, OwnershipCorrect, PTL

\* Once flush() closed the table, every entry in it is closed, also those that
\* threads put there later.
THEOREM DrainedTableIsClosed == Spec => []ClosedWhileDraining
<1>1. Ownership => ClosedWhileDraining BY DEF Ownership, FlushIsSound, ClosedWhileDraining
<1> QED BY <1>1, OwnershipCorrect, PTL

\* Worker threads that wait for an entry, or for others to leave it, find it
\* alive: checkin_and_destroy() and flush() free no entry under them.
THEOREM WorkersWaitOnLiveEntries == Spec => []NoWaiterOnFreed
<1>1. Shape /\ Ownership => NoWaiterOnFreed
  BY DEF Shape, WorkerPc, Ownership, PointersAreSound, Waits, NoWaiterOnFreed
<1>2. Spec => [](Shape /\ Ownership)
  BY ShapeInit, OwnershipInit, OwnershipStep, PTL DEF Spec
<1> QED BY <1>1, <1>2, PTL
=============================================================================
