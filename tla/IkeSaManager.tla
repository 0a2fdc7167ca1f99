---------------------------- MODULE IkeSaManager ----------------------------
(***************************************************************************)
(* The IKE_SA manager of charon (ike_sa_manager.c): threads check IKE_SAs  *)
(* out, work on them alone and check them in again or destroy them, while  *)
(* other threads wait for them and the daemon may shut down.               *)
(*                                                                         *)
(* The table has one row and one segment, which is the default             *)
(* configuration.  What a thread does while it holds the segment's mutex   *)
(* is one action, except where it goes through the row entry by entry:     *)
(* then "lock" is the thread.  Every entry has a condvar; the threads      *)
(* sleeping in a wait on it are in "blocked", and return from the wait     *)
(* once they were signalled and the mutex is free.  The init hashes and    *)
(* the half-open counters have locks of their own.                         *)
(***************************************************************************)
EXTENDS Integers, Sequences, FiniteSets

CONSTANTS
    Threads,      \* worker threads of the processor
    Main,         \* the thread that shuts the daemon down
    Messages,     \* initial requests (IKE_SA_INIT) peers send, and resend
    Source,       \* [Messages -> Hosts]: where they come from
    Hosts,
    None,
    MaxSas,       \* bound: SPIs allocated
    MaxJobs,      \* bound: [Threads -> jobs it executes]
    IkesaLimit,   \* ikesa_limit: no IKE_SAs are accepted at this count, or 0
    Shutdown      \* does the daemon shut down?

ASSUME ManagerAssumption ==
    /\ Source \in [Messages -> Hosts]
    /\ None \notin Threads \cup Messages \cup {Main}
    /\ Main \notin Threads
    /\ IsFiniteSet(Threads)
    /\ MaxSas \in Nat /\ MaxJobs \in [Threads -> Nat] /\ IkesaLimit \in Nat
    /\ Shutdown \in BOOLEAN

All == Threads \cup {Main}

\* IKE_SAs are numbered in the order of their SPIs.  An entry a checkout creates
\* is numbered like its IKE_SA, one that checkin() creates is its twin.
Sas == 1..MaxSas
Entries == 1..(2 * MaxSas)
Twin(s) == s + MaxSas

-----------------------------------------------------------------------------
VARIABLES
    entry,       \* entry_t structs
    row,         \* ike_sa_table[0]: the entries, from the front
    total,       \* total_sa_count
    lock,        \* the thread that holds the mutex between two actions
    blocked,     \* threads asleep on the condvar of the entry they are at
    rng,         \* are SPIs still allocated?
    draining,    \* new_entries_driveout_threads
    nextSpi,     \* the SPI allocated next
    initHash,    \* init_hashes_table: our_spi by message, 0 if it is not in there
    halfOpen,    \* half_open_table: half-open SAs by host
    sa,          \* the IKE_SAs: state, role and host of the other peer
    thread,      \* what each thread is doing
    jobs         \* number of jobs a thread executed

table   == << entry, row, total >>
globals == << rng, draining, nextSpi, initHash >>
vars    == << table, lock, blocked, globals, halfOpen, sa, thread, jobs >>

\* The value of a freed or unused entry.
NoEntry == [alive |-> FALSE, sa |-> 0, checked_out |-> None,
            waiting_threads |-> 0, driveout_threads |-> FALSE,
            half_open |-> FALSE, other |-> None, init_hash |-> None,
            processing |-> None]

\* entry_create() for IKE_SA s, with the fields checkouts and check-ins set.
NewEntry(s, checked_out, half_open, other, init) ==
    [alive |-> TRUE, sa |-> s, checked_out |-> checked_out,
     waiting_threads |-> 0, driveout_threads |-> FALSE,
     half_open |-> half_open, other |-> other, init_hash |-> init,
     processing |-> init]

\* A thread is at a point "pc" of its job and points to an entry; it looks for,
\* creates or works on an IKE_SA, maybe to process a message, and checks it out
\* by its SPIs ("id"), by message, or by enumerating the table ("enum").
Job(label, s, m, how) == [pc |-> label, at |-> 0, sa |-> s, msg |-> m, mode |-> how]

Idle == Job("idle", 0, None, "id")

Init ==
    /\ entry = [e \in Entries |-> NoEntry]
    /\ row = << >>
    /\ total = 0
    /\ lock = None
    /\ blocked = {}
    /\ rng = TRUE
    /\ draining = FALSE
    /\ nextSpi = 1
    /\ initHash = [m \in Messages |-> 0]
    /\ halfOpen = [h \in Hosts |-> [count |-> 0, count_responder |-> 0]]
    /\ sa = [s \in Sas |-> [state |-> "CREATED", initiator |-> FALSE, other |-> None]]
    /\ thread = [t \in All |-> Idle]
    /\ jobs = [t \in Threads |-> 0]

InRow(e) == \E k \in 1..Len(row) : row[k] = e

\* get_entry_by_id() and get_entry_by_sa(): the entries of an IKE_SA.
EntriesOf(s) == {e \in Entries : InRow(e) /\ entry[e].sa = s}

Sleepers(e) == {t \in blocked : thread[t].at = e}

\* The sets of threads that n signals on the condvar of e may wake.
Signal(e, n) ==
    LET c == Cardinality(Sleepers(e))
    IN  {W \in SUBSET Sleepers(e) : Cardinality(W) = IF c < n THEN c ELSE n}

Goto(t, label) == thread' = [thread EXCEPT ![t].pc = label]

Return(t) == thread' = [thread EXCEPT ![t] = Idle]

\* put_half_open() and remove_half_open() on the table c.
PutHalfOpen(c, h, initiator) ==
    [c EXCEPT ![h].count = @ + 1,
              ![h].count_responder = IF initiator THEN @ ELSE @ + 1]

RemoveHalfOpen(c, h, initiator) ==
    IF c[h].count = 0 THEN c
    ELSE [c EXCEPT ![h].count = @ - 1,
                   ![h].count_responder = IF initiator THEN @ ELSE @ - 1]

\* put_entry(): insert at the front of the row.
PutEntry(e, x) ==
    /\ entry' = [entry EXCEPT ![e] = [x EXCEPT !.driveout_threads = draining]]
    /\ row' = << e >> \o row
    /\ total' = total + 1

-----------------------------------------------------------------------------
(* Jobs of the worker threads.                                              *)

\* A worker thread starts a job with this state.  A job that uses the manager
\* several times, one IKE_SA after the other, counts as several jobs; threads do
\* that even while the daemon shuts down.
Starts(t, job) ==
    /\ thread[t].pc = "idle"
    /\ jobs[t] < MaxJobs[t]
    /\ jobs' = [jobs EXCEPT ![t] = @ + 1]
    /\ thread' = [thread EXCEPT ![t] = job]

\* process_message_job_create() for an initial request.
TrackInit(t, m) ==
    /\ Starts(t, Job("init", 0, m, "message"))
    /\ halfOpen' = PutHalfOpen(halfOpen, Source[m], FALSE)
    /\ UNCHANGED << table, lock, blocked, globals, sa >>

\* get_spi()
SpiAvailable == rng /\ nextSpi <= MaxSas

\* check_and_put_init_hash(): the message is new and gets an SPI, or there is
\* none, or it is a retransmit, which is not tracked as half-open anymore.
CheckAndPutInitHash(t) ==
    LET m == thread[t].msg IN
    /\ thread[t].pc = "init"
    /\ \/ /\ initHash[m] = 0
          /\ SpiAvailable
          /\ initHash' = [initHash EXCEPT ![m] = nextSpi]
          /\ nextSpi' = nextSpi + 1
          /\ thread' = [thread EXCEPT ![t].pc = "create", ![t].sa = nextSpi]
          /\ UNCHANGED halfOpen
       \/ /\ initHash[m] = 0
          /\ ~SpiAvailable
          /\ halfOpen' = RemoveHalfOpen(halfOpen, Source[m], FALSE)
          /\ Return(t)
          /\ UNCHANGED << initHash, nextSpi >>
       \/ /\ initHash[m] # 0
          /\ halfOpen' = RemoveHalfOpen(halfOpen, Source[m], FALSE)
          /\ thread' = [thread EXCEPT ![t].pc = "lookup", ![t].sa = initHash[m]]
          /\ UNCHANGED << initHash, nextSpi >>
    /\ UNCHANGED << table, lock, blocked, rng, draining, sa, jobs >>

\* checkout_by_message() compares the count to the limit before it creates the
\* IKE_SA for a new message.
CheckLimit(t) ==
    LET m == thread[t].msg IN
    /\ thread[t].pc = "create"
    /\ \/ /\ IkesaLimit = 0 \/ total < IkesaLimit
          /\ Goto(t, "put")
          /\ UNCHANGED << initHash, halfOpen >>
       \/ /\ IkesaLimit # 0 /\ total >= IkesaLimit
          /\ initHash' = [initHash EXCEPT ![m] = 0]
          /\ halfOpen' = RemoveHalfOpen(halfOpen, Source[m], FALSE)
          /\ Return(t)
    /\ UNCHANGED << table, lock, blocked, rng, draining, nextSpi, sa, jobs >>

\* The IKE_SA for a new message is put into the table, checked out.
PutInit(t) ==
    LET s == thread[t].sa
        m == thread[t].msg
    IN
    /\ thread[t].pc = "put"
    /\ lock = None
    /\ PutEntry(s, NewEntry(s, t, TRUE, Source[m], m))
    /\ sa' = [sa EXCEPT ![s] = [state |-> "CREATED", initiator |-> FALSE,
                                other |-> Source[m]]]
    /\ Goto(t, "working")
    /\ UNCHANGED << lock, blocked, globals, halfOpen, jobs >>

\* create_new() for an IKE_SA we initiate with host h.
CreateNew(t, h) ==
    /\ SpiAvailable
    /\ nextSpi' = nextSpi + 1
    /\ Starts(t, Job("new", nextSpi, None, "id"))
    /\ sa' = [sa EXCEPT ![nextSpi] = [state |-> "CREATED", initiator |-> TRUE,
                                      other |-> h]]
    /\ UNCHANGED << table, lock, blocked, rng, draining, initHash, halfOpen >>

\* checkout_new(): put it into the table, checked out.
CheckoutNew(t) ==
    LET s == thread[t].sa IN
    /\ thread[t].pc = "new"
    /\ lock = None
    /\ PutEntry(s, NewEntry(s, t, FALSE, None, None))
    /\ Goto(t, "working")
    /\ UNCHANGED << lock, blocked, globals, halfOpen, sa, jobs >>

\* A job checks out an IKE_SA by its SPIs, or by its unique ID.
StartCheckout(t, s, how) ==
    /\ s < nextSpi
    /\ Starts(t, Job("lookup", s, None, how))
    /\ UNCHANGED << table, lock, blocked, globals, halfOpen, sa >>

\* The entry to look at first: the one with the SPIs, unless it is processing
\* the message already, or the first one of the enumeration.
Candidates(t) ==
    LET x == thread[t] IN
    IF x.mode = "enum" THEN {e \in Entries : Len(row) > 0 /\ e = row[1]}
    ELSE {e \in EntriesOf(x.sa) : x.mode = "message" => entry[e].processing # x.msg}

Lookup(t) ==
    /\ thread[t].pc = "lookup"
    /\ lock = None
    /\ \/ /\ Candidates(t) = {}
          /\ Return(t)
          /\ UNCHANGED lock
       \/ \E e \in Candidates(t) :
             /\ thread' = [thread EXCEPT ![t].pc = "acquire", ![t].at = e]
             /\ lock' = t
    /\ UNCHANGED << table, blocked, globals, halfOpen, sa, jobs >>

\* A checkout does not get the entry it looks at: it fails, or the enumerator
\* turns to the next entry.
PassOver(t) ==
    LET next == {k \in 2..Len(row) : row[k - 1] = thread[t].at} IN
    \/ /\ thread[t].mode # "enum" \/ next = {}
       /\ lock' = None
       /\ Return(t)
    \/ /\ thread[t].mode = "enum"
       /\ \E k \in next : thread' = [thread EXCEPT ![t].at = row[k]]
       /\ UNCHANGED lock

\* A mutant of EnumSignals: enumerators do not wake others.
NoEnumSignals(t, n) == 0

\* The number of signals an enumerating checkout sends on leaving an entry.
EnumSignals(t, n) == IF thread[t].mode = "enum" THEN n ELSE 0

\* wait_for_entry(), and what the checkouts make of its result.
Acquire(t) ==
    LET e == thread[t].at
        x == entry[e]
        wanted == thread[t].mode # "enum" \/ x.sa = thread[t].sa
    IN
    /\ thread[t].pc = "acquire"
    /\ lock = t
    /\ \/ /\ x.driveout_threads                 \* not allowed to get it
          /\ PassOver(t)
          /\ \E W \in Signal(e, EnumSignals(t, 1)) : blocked' = blocked \ W
          /\ UNCHANGED entry
       \/ /\ ~x.driveout_threads                \* wait for it
          /\ x.checked_out # None
          /\ entry' = [entry EXCEPT ![e].waiting_threads = @ + 1]
          /\ blocked' = blocked \cup {t}
          /\ lock' = None
          /\ Goto(t, "wait")
       \/ /\ ~x.driveout_threads                \* got it
          /\ x.checked_out = None
          /\ wanted
          /\ entry' = [entry EXCEPT ![e].checked_out = t,
                          ![e].processing = IF thread[t].mode = "message"
                                            THEN thread[t].msg ELSE @]
          /\ \E W \in Signal(e, EnumSignals(t, 1)) : blocked' = blocked \ W
          /\ lock' = None
          /\ Goto(t, "working")
       \/ /\ ~x.driveout_threads                \* not the one looked for
          /\ x.checked_out = None
          /\ ~wanted
          /\ \E W \in Signal(e, EnumSignals(t, 2)) : blocked' = blocked \ W
          /\ PassOver(t)
          /\ UNCHANGED entry
    /\ UNCHANGED << row, total, globals, halfOpen, sa, jobs >>

\* A mutant of LeaveSignals: threads that are driven out leave without notice.
NoLeaveSignals(e) == 0

\* The number of signals wait_for_entry() sends if it was driven out.
LeaveSignals(e) == IF entry[e].driveout_threads THEN 1 ELSE 0

\* A mutant of Resume: the entry is taken without another look at it.
ResumeUnchecked(t) ==
    LET e == thread[t].at IN
    /\ thread[t].pc = "wait"
    /\ t \notin blocked
    /\ lock = None
    /\ entry' = [entry EXCEPT ![e].waiting_threads = @ - 1, ![e].checked_out = t]
    /\ Goto(t, "working")
    /\ UNCHANGED << row, total, lock, blocked, globals, halfOpen, sa, jobs >>

\* A thread returns from the wait in wait_for_entry().
Resume(t) ==
    LET e == thread[t].at IN
    /\ thread[t].pc = "wait"
    /\ t \notin blocked
    /\ lock = None
    /\ lock' = t
    /\ entry' = [entry EXCEPT ![e].waiting_threads = @ - 1]
    /\ \E W \in Signal(e, LeaveSignals(e)) : blocked' = blocked \ W
    /\ Goto(t, "acquire")
    /\ UNCHANGED << row, total, globals, halfOpen, sa, jobs >>

-----------------------------------------------------------------------------
(* Checking in.                                                             *)

State == {"CREATED", "CONNECTING", "ESTABLISHED"}

\* Jobs end with a check-in of the IKE_SA they checked out, or of the one they
\* created without putting it into the table (trap policies, rekeyings).
Worked(t) == thread[t].pc \in {"working", "new"}

\* The states an IKE_SA may be in after a job worked on it.
Later(state) ==
    CASE state = "CREATED" -> State
      [] state = "CONNECTING" -> {"CONNECTING", "ESTABLISHED"}
      [] OTHER -> {"ESTABLISHED"}

\* A mutant of Recount: a new host is not accounted for.
RecountSameHost(x, y) ==
    LET connecting == y.state = "CONNECTING" IN
    CASE x.half_open /\ ~connecting ->
            RemoveHalfOpen(halfOpen, x.other, y.initiator)
      [] ~x.half_open /\ connecting -> PutHalfOpen(halfOpen, y.other, y.initiator)
      [] OTHER -> halfOpen

\* The half-open table after the check-in of entry x with the IKE_SA y.
Recount(x, y) ==
    LET connecting == y.state = "CONNECTING" IN
    CASE x.half_open /\ ~connecting ->
            RemoveHalfOpen(halfOpen, x.other, y.initiator)
      [] x.half_open /\ connecting /\ y.other # x.other ->
            PutHalfOpen(RemoveHalfOpen(halfOpen, x.other, y.initiator),
                        y.other, y.initiator)
      [] ~x.half_open /\ connecting -> PutHalfOpen(halfOpen, y.other, y.initiator)
      [] OTHER -> halfOpen

\* checkin() of an IKE_SA that is now in state st, with the other peer at host
\* h.  If it has no entry, one is created.
Checkin(t, st, h) ==
    LET s == thread[t].sa
        y == [sa[s] EXCEPT !.state = st, !.other = h]
        connecting == st = "CONNECTING"
    IN
    /\ Worked(t)
    /\ lock = None
    /\ st \in Later(sa[s].state)
    /\ connecting \/ h = sa[s].other
    /\ sa' = [sa EXCEPT ![s] = y]
    /\ \/ \E e \in EntriesOf(s) :
             /\ entry' = [entry EXCEPT ![e].checked_out = None,
                             ![e].processing = None, ![e].half_open = connecting,
                             ![e].other = IF connecting THEN h ELSE @]
             /\ halfOpen' = Recount(entry[e], y)
             /\ \E W \in Signal(e, 1) : blocked' = blocked \ W
             /\ UNCHANGED << row, total >>
       \/ /\ EntriesOf(s) = {}
          /\ PutEntry(Twin(s), NewEntry(s, None, connecting,
                                       IF connecting THEN h ELSE None, None))
          /\ halfOpen' = IF connecting THEN PutHalfOpen(halfOpen, h, y.initiator)
                         ELSE halfOpen
          /\ UNCHANGED blocked
    /\ Return(t)
    /\ UNCHANGED << lock, globals, jobs >>

\* checkin_and_destroy(): an entry flush() is going to remove is only checked
\* in, any other one is closed to new threads.
CheckinAndDestroy(t) ==
    LET s == thread[t].sa IN
    /\ Worked(t)
    /\ lock = None
    /\ \/ /\ EntriesOf(s) = {}
          /\ Return(t)
          /\ UNCHANGED << entry, lock, blocked >>
       \/ \E e \in EntriesOf(s) :
             /\ entry[e].driveout_threads
             /\ entry' = [entry EXCEPT ![e].checked_out = None]
             /\ blocked' = blocked \ Sleepers(e)
             /\ Return(t)
             /\ UNCHANGED lock
       \/ \E e \in EntriesOf(s) :
             /\ ~entry[e].driveout_threads
             /\ entry' = [entry EXCEPT ![e].driveout_threads = TRUE]
             /\ thread' = [thread EXCEPT ![t].pc = "driveout", ![t].at = e]
             /\ lock' = t
             /\ UNCHANGED blocked
    /\ UNCHANGED << row, total, globals, halfOpen, sa, jobs >>

\* A mutant of NobodyWaits: the waiting threads are not considered.
NobodyMatters(e) == TRUE

\* Is nobody waiting for entry e?
NobodyWaits(e) == entry[e].waiting_threads = 0

\* remove_entry(): unlink the item of entry e from the row.
RemoveEntry(e) ==
    \E k \in 1..Len(row) :
       /\ row[k] = e
       /\ row' = SubSeq(row, 1, k - 1) \o SubSeq(row, k + 1, Len(row))

\* Wait for the threads that wait for the entry, then take it from the table.
DriveOut(t) ==
    LET e == thread[t].at IN
    /\ thread[t].pc = "driveout"
    /\ lock = t
    /\ lock' = None
    /\ \/ /\ ~NobodyWaits(e)
          /\ blocked' = (blocked \ Sleepers(e)) \cup {t}
          /\ Goto(t, "driveout_wait")
          /\ UNCHANGED << row, total >>
       \/ /\ NobodyWaits(e)
          /\ RemoveEntry(e)
          /\ total' = total - 1
          /\ Goto(t, "destroy")
          /\ UNCHANGED blocked
    /\ UNCHANGED << entry, globals, halfOpen, sa, jobs >>

\* The thread returns from the wait in checkin_and_destroy().
ResumeDriveOut(t) ==
    /\ thread[t].pc = "driveout_wait"
    /\ t \notin blocked
    /\ lock = None
    /\ lock' = t
    /\ Goto(t, "driveout")
    /\ UNCHANGED << table, blocked, globals, halfOpen, sa, jobs >>

\* A mutant of Forget: the init hash is left behind.
ForgetButHash(e) ==
    LET x == entry[e] IN
    /\ halfOpen' = IF x.half_open
                   THEN RemoveHalfOpen(halfOpen, x.other, sa[x.sa].initiator)
                   ELSE halfOpen
    /\ entry' = [entry EXCEPT ![e] = NoEntry]
    /\ UNCHANGED initHash

\* The counters and the init hash of an entry are removed, and it is freed.
Forget(e) ==
    LET x == entry[e] IN
    /\ halfOpen' = IF x.half_open
                   THEN RemoveHalfOpen(halfOpen, x.other, sa[x.sa].initiator)
                   ELSE halfOpen
    /\ initHash' = [m \in Messages |-> IF x.init_hash = m THEN 0 ELSE initHash[m]]
    /\ entry' = [entry EXCEPT ![e] = NoEntry]

\* The rest of checkin_and_destroy(), without the mutex.
DestroyEntry(t) ==
    /\ thread[t].pc = "destroy"
    /\ Forget(thread[t].at)
    /\ Return(t)
    /\ UNCHANGED << row, total, lock, blocked, rng, draining, nextSpi, sa, jobs >>

-----------------------------------------------------------------------------
(* flush(), when the daemon shuts down.                                     *)

\* No SPIs are allocated from now on.
Flush ==
    /\ Shutdown
    /\ thread[Main].pc = "idle"
    /\ rng' = FALSE
    /\ Goto(Main, "flush")
    /\ UNCHANGED << table, lock, blocked, draining, nextSpi, initHash, halfOpen,
                    sa, jobs >>

\* Close all entries to new threads; the enumerator signals each on its way.
FlushMark ==
    /\ thread[Main].pc = "flush"
    /\ lock = None
    /\ lock' = Main
    /\ entry' = [e \in Entries |->
                   [entry[e] EXCEPT !.driveout_threads = @ \/ InRow(e)]]
    /\ draining' = TRUE
    /\ \E W \in SUBSET {t \in blocked : InRow(thread[t].at)} :
          /\ \A e \in Entries : InRow(e) => W \cap Sleepers(e) \in Signal(e, 1)
          /\ blocked' = blocked \ W
    /\ Goto(Main, "flush_row")
    /\ UNCHANGED << row, total, rng, nextSpi, initHash, halfOpen, sa, jobs >>

\* Turn to the front of the row, or return once no entries are left.  With
\* entries counted that are not in the row, flush() loops here for ever.
FlushRow ==
    /\ thread[Main].pc = "flush_row"
    /\ lock = Main
    /\ \/ /\ total = 0
          /\ lock' = None
          /\ Goto(Main, "flushed")
       \/ /\ total # 0 /\ Len(row) > 0
          /\ thread' = [thread EXCEPT ![Main].pc = "flush_entry", ![Main].at = row[1]]
          /\ UNCHANGED lock
    /\ UNCHANGED << table, blocked, globals, halfOpen, sa, jobs >>

\* remove_entry_at() of an enumerator without a previous item: the row is what
\* follows the current item.
RemoveAtFront(e) ==
    \E k \in 1..Len(row) : row[k] = e /\ row' = SubSeq(row, k + 1, Len(row))

\* Have all threads left entry e?
Left(e) == entry[e].waiting_threads = 0 /\ entry[e].checked_out = None

\* Wait until all threads have left the entry, then remove and destroy it.
FlushEntry ==
    LET e == thread[Main].at IN
    /\ thread[Main].pc = "flush_entry"
    /\ lock = Main
    /\ \/ /\ ~Left(e)
          /\ blocked' = (blocked \ Sleepers(e)) \cup {Main}
          /\ lock' = None
          /\ Goto(Main, "flush_wait")
          /\ UNCHANGED << table, halfOpen, initHash >>
       \/ /\ Left(e)
          /\ Forget(e)
          /\ RemoveAtFront(e)
          /\ total' = total - 1
          /\ Goto(Main, "flush_row")
          /\ UNCHANGED << lock, blocked >>
    /\ UNCHANGED << rng, draining, nextSpi, sa, jobs >>

\* The thread returns from the wait in flush().
FlushResume ==
    /\ thread[Main].pc = "flush_wait"
    /\ Main \notin blocked
    /\ lock = None
    /\ lock' = Main
    /\ Goto(Main, "flush_entry")
    /\ UNCHANGED << table, blocked, globals, halfOpen, sa, jobs >>

-----------------------------------------------------------------------------
\* What a worker thread does once it started a job.
Proceeds(t) ==
    \/ CheckAndPutInitHash(t)
    \/ CheckLimit(t)
    \/ PutInit(t)
    \/ CheckoutNew(t)
    \/ Lookup(t)
    \/ Acquire(t)
    \/ Resume(t)
    \/ \E st \in State, h \in Hosts : Checkin(t, st, h)
    \/ CheckinAndDestroy(t)
    \/ DriveOut(t)
    \/ ResumeDriveOut(t)
    \/ DestroyEntry(t)

Flushes == Flush \/ FlushMark \/ FlushRow \/ FlushEntry \/ FlushResume

Next ==
    \/ \E t \in Threads :
          \/ \E m \in Messages : TrackInit(t, m)
          \/ \E h \in Hosts : CreateNew(t, h)
          \/ \E s \in Sas, how \in {"id", "enum"} : StartCheckout(t, s, how)
          \/ Proceeds(t)
    \/ Flushes

Spec == Init /\ [][Next]_vars

\* The processor's threads keep running, and every job comes to its end.
FairSpec == Spec /\ \A t \in Threads : WF_vars(Proceeds(t))

-----------------------------------------------------------------------------
(* Properties.                                                              *)

EntryType ==
    [alive : BOOLEAN, sa : 0..MaxSas, checked_out : Threads \cup {None},
     waiting_threads : 0..Cardinality(Threads), driveout_threads : BOOLEAN,
     half_open : BOOLEAN, other : Hosts \cup {None},
     init_hash : Messages \cup {None}, processing : Messages \cup {None}]

ThreadType ==
    [pc : {"idle", "init", "create", "put", "new", "lookup", "acquire", "wait",
           "working", "driveout", "driveout_wait", "destroy", "flush",
           "flush_row", "flush_entry", "flush_wait", "flushed"},
     at : 0..(2 * MaxSas), sa : 0..MaxSas, msg : Messages \cup {None},
     mode : {"id", "message", "enum"}]

\* The variables have the types of the fields they model; the counters of
\* half-open SAs, which are unsigned, never get below zero.
TypeOK ==
    /\ entry \in [Entries -> EntryType]
    /\ row \in Seq(Entries)
    /\ total \in Nat
    /\ lock \in All \cup {None}
    /\ blocked \subseteq All
    /\ rng \in BOOLEAN /\ draining \in BOOLEAN
    /\ nextSpi \in 1..(MaxSas + 1)
    /\ initHash \in [Messages -> 0..MaxSas]
    /\ halfOpen \in [Hosts -> [count : Nat, count_responder : Nat]]
    /\ sa \in [Sas -> [state : State, initiator : BOOLEAN, other : Hosts \cup {None}]]
    /\ thread \in [All -> ThreadType]
    /\ jobs \in [Threads -> Nat] /\ \A t \in Threads : jobs[t] <= MaxJobs[t]

\* A thread has an IKE_SA to itself from its creation or checkout to checkin.
Holds(t) ==
    thread[t].pc \in {"new", "working", "driveout", "driveout_wait", "destroy"}

\* At most one thread works on an IKE_SA at any time, while others wait for it,
\* enumerate it, destroy it or shut the daemon down.
Exclusive ==
    \A t, u \in Threads :
       t # u /\ Holds(t) /\ Holds(u) => thread[t].sa # thread[u].sa

(* The inductive invariant behind Exclusive.                                *)

Owns(t) == thread[t].pc \in {"working", "driveout", "driveout_wait", "destroy"}

\* The thread is about to put an IKE_SA nobody else knows into the table.
IsFresh(t) == thread[t].pc \in {"create", "put", "new"}

Waiters(e) == {t \in Threads : thread[t].pc = "wait" /\ thread[t].at = e}

\* The mutex is held by the thread that goes through the row.
LockOwner ==
    /\ \A t \in Threads : thread[t].pc \in {"acquire", "driveout"} <=> lock = t
    /\ thread[Main].pc \in {"flush_row", "flush_entry"} <=> lock = Main

\* The row has no duplicates and only entries that are alive; entries outside of
\* it are being destroyed, or were lost by flush().
RowIsSound ==
    /\ \A j, k \in 1..Len(row) : row[j] = row[k] => j = k
    /\ \A e \in Entries : InRow(e) => entry[e].alive
    /\ \A e \in Entries :
          entry[e].alive /\ ~InRow(e) =>
             /\ entry[e].driveout_threads
             /\ \/ \E t \in Threads : thread[t].pc = "destroy" /\ thread[t].at = e
                \/ draining /\ (e > MaxSas => entry[e].checked_out = None)

\* Entries know their IKE_SA; of two entries of one IKE_SA none can be acquired.
EntriesAreSound ==
    /\ \A e \in Entries :
          entry[e].alive => /\ entry[e].sa \in 1..(nextSpi - 1)
                            /\ e \in {entry[e].sa, Twin(entry[e].sa)}
    /\ \A e, f \in Entries :
          entry[e].alive /\ entry[f].alive /\ entry[e].sa = entry[f].sa /\ e # f
             => entry[e].driveout_threads
    /\ \A e \in Entries : entry[e].waiting_threads = Cardinality(Waiters(e))

\* What threads that look at or destroy an entry rely on.
PointersAreSound ==
    /\ \A t \in Threads : thread[t].pc \in {"acquire", "wait"} =>
          LET e == thread[t].at IN
          /\ e \in Entries /\ entry[e].alive
          /\ thread[t].mode # "enum" => entry[e].sa = thread[t].sa
    /\ \A t \in Threads : thread[t].pc \in {"driveout", "driveout_wait", "destroy"} =>
          LET e == thread[t].at IN
          /\ e \in Entries /\ entry[e].alive
          /\ entry[e].sa = thread[t].sa
          /\ entry[e].driveout_threads
    /\ \A t \in Threads : thread[t].pc = "destroy" =>
          /\ ~InRow(thread[t].at)
          /\ \A u \in Threads : thread[u].pc \in {"acquire", "wait"} =>
                thread[u].at # thread[t].at

\* An IKE_SA has one owner, who is the one its entries name, and a fresh IKE_SA
\* has no entry.
OwnersAreSound ==
    /\ \A t \in Threads : Owns(t) \/ IsFresh(t) => thread[t].sa \in 1..(nextSpi - 1)
    /\ \A t, u \in Threads :
          (Owns(t) \/ IsFresh(t)) /\ (Owns(u) \/ IsFresh(u)) /\ t # u
             => thread[t].sa # thread[u].sa
    /\ \A t \in Threads, e \in Entries :
          /\ entry[e].alive
          /\ entry[e].sa = thread[t].sa
          => /\ Owns(t) => entry[e].checked_out = t
             /\ ~IsFresh(t)

\* The entries in front of the one flush() is at were put there since.
FlushIsSound ==
    /\ thread[Main].pc \in {"flush_row", "flush_entry", "flush_wait", "flushed"}
          => draining
    /\ thread[Main].pc \in {"flush_entry", "flush_wait"} =>
          \A j, k \in 1..Len(row) :
             j < k /\ row[k] = thread[Main].at /\ row[j] > MaxSas
                => entry[row[j]].checked_out = None
    /\ draining => \A e \in Entries : InRow(e) => entry[e].driveout_threads

\* The table, the entries and what the threads know about them fit together: an
\* IKE_SA has at most one owner, its entries name that owner, nobody points to a
\* freed entry, and entries flush() loses cannot be acquired.
Ownership ==
    /\ LockOwner
    /\ RowIsSound
    /\ EntriesAreSound
    /\ PointersAreSound
    /\ OwnersAreSound
    /\ FlushIsSound

Waits(t) == thread[t].pc \in {"wait", "driveout_wait", "flush_wait"}

\* An entry is not freed under the worker threads that wait for its IKE_SA, or
\* for others to leave it, while checkin_and_destroy() and flush() drive threads
\* out of entries side by side.
NoWaiterOnFreed == \A t \in Threads : Waits(t) => entry[thread[t].at].alive

\* "We must ensure that no thread is waiting for this SA" when
\* checkin_and_destroy() frees an entry; the thread in flush() is one of them.
NobodyWaitsOnFreed == \A t \in All : Waits(t) => entry[thread[t].at].alive

\* No wakeup is lost: while threads sleep on the condvar of an entry, one that
\* is awake is going to look at the entry, or a thread works on the IKE_SA and
\* will check it in.  In particular a thread that drives the others out sleeps
\* only while one of them is on its way.
NoLostWakeup ==
    \A t \in blocked :
       LET e == thread[t].at IN
       \/ \E u \in Threads \ blocked :
             /\ thread[u].at = e
             /\ thread[u].pc \in {"acquire", "wait", "driveout", "driveout_wait"}
       \/ \E u \in Threads :
             /\ thread[u].pc = "working"
             /\ entry[e].checked_out = u
             /\ ~entry[e].driveout_threads
       \/ draining

\* Threads that track an initial request whose IKE_SA is not in the table yet.
Tracking(h) ==
    {t \in Threads : thread[t].pc \in {"init", "create", "put"}
                     /\ Source[thread[t].msg] = h}

HalfOpenEntries(h) == {e \in Entries : entry[e].half_open /\ entry[e].other = h}

\* The half-open counters of a host, which the receiver bases its limits on, are
\* the tracked requests and the half-open IKE_SAs with it.
HalfOpenAgrees ==
    \A h \in Hosts :
       /\ halfOpen[h].count =
             Cardinality(Tracking(h)) + Cardinality(HalfOpenEntries(h))
       /\ halfOpen[h].count_responder =
             Cardinality(Tracking(h)) +
             Cardinality({e \in HalfOpenEntries(h) : ~sa[entry[e].sa].initiator})

\* An initial request has at most one IKE_SA, however often it is received, and
\* its hash is stored, with that SPI, just as long as there is one.
InitHashAgrees ==
    \A m \in Messages :
       LET E == {e \in Entries : entry[e].init_hash = m}
           T == {t \in Threads : thread[t].pc \in {"create", "put"}
                                 /\ thread[t].msg = m}
       IN
       /\ \A e \in E : initHash[m] = entry[e].sa
       /\ \A t \in T : initHash[m] = thread[t].sa
       /\ Cardinality(E) + Cardinality(T) = IF initHash[m] = 0 THEN 0 ELSE 1

\* Once flush() closed the table, it stays closed: entries that threads put into
\* it later "get marked directly so other threads can't get them again".
ClosedWhileDraining ==
    draining => \A e \in Entries : InRow(e) => entry[e].driveout_threads

\* Every job ends: nobody waits for ever for an IKE_SA or for other threads, so
\* that after the jobs there are, whose number is bounded, all threads are idle.
JobsEnd == <>[](\A t \in Threads : thread[t].pc = "idle")
=============================================================================
