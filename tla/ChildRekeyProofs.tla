------------------------- MODULE ChildRekeyProofs -------------------------
(***************************************************************************)
(* Proofs about ChildRekey: whatever the two peers rekey, delete, expire   *)
(* and recreate at once, the response a peer processes is one of the kind  *)
(* its active task asked for.                                              *)
(*                                                                         *)
(* The argument has four parts.  (1) What a peer does while it waits for a *)
(* response - serve the other peer's request, run a job - leaves the       *)
(* request it sent, and the stage, the SAs and the entries of the task     *)
(* that sent it, as they are (Follows).  (2) A request is built by a task  *)
(* in a stage that can process its response (Built).  (3) initiate() ends  *)
(* with a request out or with no task left, since every round but the last *)
(* ends a task (Load, StepProgress).  (4) The handlers of a response leave *)
(* the peer ready for initiate() (Open).  The loops over SPIs, entries and *)
(* rounds are recursive functions; what they compute is shown by induction *)
(* on the number of rounds (HasLeast, Induct).                             *)
(***************************************************************************)
EXTENDS ChildRekey, SequenceTheorems, FiniteSetTheorems, WellFoundedInduction, TLAPS

\* The states of a rekey task: the stages of child_rekey.c and the ways it goes on
Stages == {"CREATE", "DELETE", "DELETE_REPLACEMENT", "DELETE_OLD_DESTROY",
           "DELETE_BOTH_RECREATE", "DELETE_REPLACEMENT_RECREATE"}

\* A peer has the fields it starts with, whatever they hold
IsPeer(s) ==
    s \in [half : {s.half}, active : {s.active}, queue : {s.queue}, out : {s.out},
           linger : {s.linger}, retry : {s.retry}, events : {s.events},
           next : {s.next}]

\* A task of each kind has its fields, whatever most of them hold
IsRekey(t) ==
    t \in [type : {"REKEY"}, stage : Stages, sa : {t.sa}, new : {t.new},
           retry : {t.retry}, flags : {t.flags}, gone : {t.gone},
           collision : {t.collision}, victim : {t.victim}, entries : {t.entries}]

IsDelete(t) ==
    t \in [type : {"DELETE"}, sa : {t.sa}, expired : {t.expired},
           entries : {t.entries}]

IsCreate(t) ==
    t \in [type : {"CREATE"}, stage : {"CREATE", "DELETE_FAILED"}, new : {t.new},
           retry : {t.retry}]

IsTask(t) == IsRekey(t) \/ IsDelete(t) \/ IsCreate(t)

\* The tasks that are queued: those that have not built anything yet
QueuedTask == {CreateTask} \cup {RekeyTask(k) : k \in Sa}
              \cup {DeleteTask(k, e) : k \in Sa, e \in BOOLEAN}

\* What every handler keeps of a peer: its fields, its active task and its queue
Sound(s) ==
    /\ IsPeer(s)
    /\ s.active = NoTask \/ IsTask(s.active)
    /\ s.queue \in Seq(QueuedTask)

\* The peer in t waits for the response s waits for, with the same task
Follows(s, t) ==
    /\ Sound(t)
    /\ t.out = s.out
    /\ \/ t.active = s.active
       \/ /\ IsRekey(s.active) /\ IsRekey(t.active)
          /\ t.active.stage = s.active.stage
          /\ t.active.sa = s.active.sa
          /\ t.active.new = s.active.new
          /\ t.active.entries = s.active.entries

\* A set of numbers has a least member: the least initial segment of a set
\* of finite sets
LEMMA HasLeast ==
    ASSUME NEW S \in SUBSET Nat, S # {}
    PROVE  \E m \in S : \A k \in S : m <= k
<1> DEFINE Segments == {0..k : k \in S}
           R == StrictSubsetOrdering(Nat)
<1>1. Segments \subseteq FiniteSubsetsOf(Nat)
  <2>1. \A k \in S : IsFiniteSet(0..k) /\ 0..k \subseteq Nat BY FS_Interval
  <2> QED BY <2>1 DEF FiniteSubsetsOf
<1>2. Segments # {} OBVIOUS
<1> HIDE DEF Segments, R
<1>3. PICK x \in Segments : \A y \in Segments : ~(<<y, x>> \in R)
  BY <1>1, <1>2, WFMin, FS_StrictSubsetOrderingWellFounded DEF R
<1> USE DEF Segments
<1>4. PICK m \in S : x = 0..m BY <1>3
<1>5. ASSUME NEW k \in S, k < m PROVE FALSE
  <2>1. 0..k \in Segments /\ 0..k \subseteq x /\ 0..k # x BY <1>4, <1>5
  <2>2. <<0..k, x>> \in R BY <1>1, <1>3, <2>1 DEF R, StrictSubsetOrdering
  <2> QED BY <1>3, <2>1, <2>2
<1> QED BY <1>5

\* Induction over the rounds of a loop, for a set of round numbers
LEMMA Induct ==
    ASSUME NEW S, 0 \in S, \A n \in Nat : n \in S => n + 1 \in S
    PROVE  Nat \subseteq S
<1> SUFFICES ASSUME Nat \ S # {} PROVE FALSE OBVIOUS
<1>1. PICK m \in Nat \ S : \A k \in Nat \ S : m <= k BY HasLeast
<1>2. m # 0 /\ m - 1 \in Nat BY <1>1
<1>3. m - 1 \in S BY <1>1, <1>2
<1>4. (m - 1) + 1 \in S BY <1>2, <1>3
<1> QED BY <1>1, <1>4

\* What is queued is a task
LEMMA QueuedAreTasks ==
    ASSUME NEW t \in QueuedTask
    PROVE  IsTask(t)
<1>1. CASE t = CreateTask
  BY <1>1 DEF CreateTask, IsTask, IsCreate
<1>2. CASE t \in {RekeyTask(k) : k \in Sa}
  BY <1>2 DEF RekeyTask, IsTask, IsRekey, Stages
<1>3. CASE t \in {DeleteTask(k, e) : k \in Sa, e \in BOOLEAN}
  BY <1>3 DEF DeleteTask, IsTask, IsDelete
<1> QED BY <1>1, <1>2, <1>3 DEF QueuedTask

\* Doing nothing, and doing one thing after the other, keep what Follows says
LEMMA FollowsItself ==
    ASSUME NEW s, Sound(s) PROVE Follows(s, s)
BY DEF Follows

LEMMA FollowsOn ==
    ASSUME NEW s, NEW t, NEW u, Follows(s, t), Follows(t, u)
    PROVE  Follows(s, u)
BY DEF Follows

\* Only halves and jobs are different
Calm(s, t) ==
    /\ IsPeer(t)
    /\ t.out = s.out /\ t.active = s.active /\ t.queue = s.queue

\* One calm change after the other is calm
LEMMA CalmOn ==
    ASSUME NEW s, NEW t, NEW u, Calm(s, t), Calm(t, u)
    PROVE  Calm(s, u)
BY DEF Calm

\* A peer goes on waiting when only halves and jobs change
LEMMA CalmFollows ==
    ASSUME NEW s, NEW t, Sound(s), Calm(s, t)
    PROVE  Follows(s, t)
BY DEF Calm, Follows, Sound

\* The operations on one CHILD_SA are calm
LEMMA CalmChange ==
    ASSUME NEW s, NEW k, NEW x, IsPeer(s)
    PROVE  /\ Calm(s, SetState(s, k, x))
           /\ Calm(s, RemoveOutbound(s, k))
           /\ Calm(s, InstallOutbound(s, k))
           /\ Calm(s, Unlink(s, k))
<1>1. Calm(s, SetState(s, k, x)) BY DEF SetState, Calm, IsPeer
<1>2. Calm(s, RemoveOutbound(s, k)) BY DEF RemoveOutbound, Calm, IsPeer
<1>3. Calm(s, InstallOutbound(s, k)) BY DEF InstallOutbound, Calm, IsPeer
<1>4. Calm(s, Unlink(s, k)) BY DEF Unlink, Calm, IsPeer
<1> QED BY <1>1, <1>2, <1>3, <1>4

\* The same, for what a waiting peer keeps
LEMMA HalvesChange ==
    ASSUME NEW s, NEW k, NEW x, Sound(s)
    PROVE  /\ Follows(s, SetState(s, k, x))
           /\ Follows(s, RemoveOutbound(s, k))
           /\ Follows(s, InstallOutbound(s, k))
           /\ Follows(s, Unlink(s, k))
<1>1. IsPeer(s) BY DEF Sound
<1> QED BY <1>1, CalmChange, CalmFollows

\* The helpers of child_rekey.c and child_delete.c on CHILD_SAs are calm
LEMMA CalmWork ==
    ASSUME NEW s, NEW j, NEW k, IsPeer(s)
    PROVE  /\ Calm(s, Destroy(s, k, FALSE))
           /\ Calm(s, DestroyRekeyed(s, k))
           /\ Calm(s, ConcludeRekeying(s, j, k))
           /\ Calm(s, Conclude(s, k))
           /\ Calm(s, ScheduleDelayedRekey(s, k))
<1>1. ASSUME NEW t, Calm(s, t) PROVE Calm(s, Destroy(t, k, FALSE))
  BY <1>1 DEF Destroy, Calm, IsPeer
<1>2. Calm(s, s) BY DEF Calm
<1>3. Calm(s, DestroyRekeyed(s, k))
  <2>1. PICK a : a = RemoveOutbound(s, k) OBVIOUS
  <2>2. PICK b : b = SetState(a, k, "DELETED") OBVIOUS
  <2>3. Calm(s, a) /\ IsPeer(a) BY <2>1, CalmChange DEF Calm
  <2>4. Calm(s, b) /\ IsPeer(b) BY <2>2, <2>3, CalmChange, CalmOn DEF Calm
  <2>5. Calm(b, [b EXCEPT !.linger = @ \cup {k}]) BY <2>4 DEF Calm, IsPeer
  <2> QED BY <1>1, <2>1, <2>2, <2>4, <2>5, CalmOn DEF DestroyRekeyed
<1>4. ASSUME NEW t, Calm(s, t), NEW m, NEW n
      PROVE  Calm(s, ConcludeRekeying(t, m, n))
  <2>1. PICK a : a = InstallOutbound(t, n) OBVIOUS
  <2>2. Calm(s, a) /\ IsPeer(a) BY <1>4, <2>1, CalmChange, CalmOn DEF Calm
  <2> QED BY <2>1, <2>2, CalmChange, CalmOn DEF ConcludeRekeying
<1>5. Calm(s, Conclude(s, k))
  <2>1. PICK n : n = s.half[k].link OBVIOUS
  <2>2. PICK a : a = Unlink(s, k) OBVIOUS
  <2>3. PICK b : b = Unlink(a, n) OBVIOUS
  <2>4. Calm(s, a) /\ IsPeer(a) BY <2>2, CalmChange DEF Calm
  <2>5. Calm(s, b) BY <2>3, <2>4, CalmChange, CalmOn DEF Calm
  <2> QED BY <1>4, <2>1, <2>2, <2>3, <2>5 DEF Conclude
<1>6. Calm(s, ScheduleDelayedRekey(s, k))
  <2>1. PICK a : a = SetState(s, k, "INSTALLED") OBVIOUS
  <2>2. Calm(s, a) /\ IsPeer(a) BY <2>1, CalmChange DEF Calm
  <2>3. Calm(a, [a EXCEPT !.retry = @ \cup {k}]) BY <2>2 DEF Calm, IsPeer
  <2> QED BY <2>1, <2>2, <2>3, CalmOn DEF ScheduleDelayedRekey
<1> QED BY <1>1, <1>2, <1>3, <1>4, <1>5, <1>6

\* The same, for what a waiting peer keeps
LEMMA HalvesWork ==
    ASSUME NEW s, NEW j, NEW k, Sound(s)
    PROVE  /\ Follows(s, DestroyRekeyed(s, k))
           /\ Follows(s, ConcludeRekeying(s, j, k))
           /\ Follows(s, Conclude(s, k))
           /\ Follows(s, ScheduleDelayedRekey(s, k))
<1>1. IsPeer(s) BY DEF Sound
<1> QED BY <1>1, CalmWork, CalmFollows

\* Queueing a task leaves the active one alone
LEMMA QueueFollows ==
    ASSUME NEW s, NEW t \in QueuedTask, Sound(s)
    PROVE  Follows(s, Queue(s, t))
<1>1. Append(s.queue, t) \in Seq(QueuedTask) BY DEF Sound
<1> QED BY <1>1 DEF Queue, Follows, Sound, IsPeer

\* Destroying a CHILD_SA, recreating it if asked to, leaves the task alone
LEMMA DestroyFollows ==
    ASSUME NEW s, NEW k, NEW r, Sound(s)
    PROVE  Follows(s, Destroy(s, k, r))
<1> DEFINE d == [s EXCEPT !.half[k] = NoHalf, !.linger = @ \ {k}, !.retry = @ \ {k}]
<1>1. Follows(s, d) BY DEF Follows, Sound, IsPeer
<1>2. CreateTask \in QueuedTask BY DEF QueuedTask
<1>3. Sound(d) BY <1>1 DEF Follows
<1> HIDE DEF d
<1>4. Follows(s, Queue(d, CreateTask)) BY <1>1, <1>2, <1>3, QueueFollows, FollowsOn
<1> QED BY <1>1, <1>4 DEF Destroy, d

-----------------------------------------------------------------------------
(* Deletes: what the peer deletes while we wait *)

\* A rekey task takes notes without becoming another one
LEMMA Notes ==
    ASSUME NEW s, Sound(s), IsRekey(s.active), NEW x
    PROVE  /\ Follows(s, [s EXCEPT !.active.gone = x])
           /\ Follows(s, [s EXCEPT !.active.flags = x])
           /\ Follows(s, [s EXCEPT !.active.collision = x])
<1>1. IsPeer(s) BY DEF Sound
<1>2. ASSUME NEW a, IsRekey(a),
             a.stage = s.active.stage, a.sa = s.active.sa, a.new = s.active.new,
             a.entries = s.active.entries
      PROVE  Follows(s, [s EXCEPT !.active = a])
  BY <1>2 DEF Follows, Sound, IsPeer, IsTask
<1>3. PICK a : a = [s.active EXCEPT !.gone = x] OBVIOUS
<1>4. PICK b : b = [s.active EXCEPT !.flags = x] OBVIOUS
<1>5. PICK c : c = [s.active EXCEPT !.collision = x] OBVIOUS
<1>6. Follows(s, [s EXCEPT !.active = a]) BY <1>2, <1>3 DEF IsRekey
<1>7. Follows(s, [s EXCEPT !.active = b]) BY <1>2, <1>4 DEF IsRekey
<1>8. Follows(s, [s EXCEPT !.active = c]) BY <1>2, <1>5 DEF IsRekey
<1> QED BY <1>3, <1>4, <1>5, <1>6, <1>7, <1>8

\* An active task of type REKEY is a rekey task
LEMMA RekeyByType ==
    ASSUME NEW s, Sound(s), s.active.type = "REKEY" PROVE IsRekey(s.active)
BY DEF Sound, IsTask, IsDelete, IsCreate, NoTask

\* child_rekey_t.handle_delete() only notes the peer's delete
LEMMA HandleDeleteFollows ==
    ASSUME NEW s, NEW k, Sound(s)
    PROVE  Follows(s, HandleDelete(s, k))
<1>1. CASE Collision(s, k) \in {"UNKNOWN", "OLD", "PEER"}
  <2>1. IsRekey(s.active) BY <1>1, RekeyByType DEF Collision
  <2>2. PICK g : g = s.active.gone \cup {k} OBVIOUS
  <2>3. PICK f : f = s.active.flags \cup {"OLD_SA_DELETED"} OBVIOUS
  <2>4. PICK h : h = s.active.flags \cup {"OTHER_DELETED"} OBVIOUS
  <2> QED BY <1>1, <2>1, <2>2, <2>3, <2>4, Notes DEF HandleDelete
<1>2. CASE Collision(s, k) \notin {"UNKNOWN", "OLD", "PEER"}
  BY <1>2, FollowsItself DEF HandleDelete
<1> QED BY <1>1, <1>2

\* A CHILD_SA that is kept for the rekeying does not touch the task
LEMMA KeepEntryFollows ==
    ASSUME NEW s, NEW e, Sound(s)
    PROVE  Follows(s, KeepEntry(s, e))
<1>1. PICK k : k = e.sa OBVIOUS
<1>2. PICK o : o = s.half[k].link OBVIOUS
<1>3. PICK a : a = Unlink(s, k) OBVIOUS
<1>4. PICK b : b = Unlink(a, o) OBVIOUS
<1>5. Follows(s, a) /\ Sound(a) BY <1>3, HalvesChange DEF Follows
<1>6. Follows(s, b) /\ Sound(b) BY <1>4, <1>5, HalvesChange, FollowsOn DEF Follows
<1>7. Follows(s, SetState(b, o, "REKEYING")) BY <1>6, HalvesChange, FollowsOn
<1> QED BY <1>1, <1>2, <1>3, <1>4, <1>6, <1>7, FollowsItself DEF KeepEntry

\* destroy_and_reestablish() of one entry does not touch the task
LEMMA DestroyEntryFollows ==
    ASSUME NEW s, NEW p, NEW e, NEW i, Sound(s)
    PROVE  Follows(s, DestroyEntry(s, p, e, i))
<1>1. PICK d : d = SetState(s, e.sa, "DELETED") OBVIOUS
<1>2. Follows(s, d) /\ Sound(d) BY <1>1, HalvesChange DEF Follows
<1>3. Follows(s, DeleteRekeyed(d, e))
  <2>1. PICK w : w = IF d.half[e.sa].link # None THEN Conclude(d, e.sa)
                                             ELSE RemoveOutbound(d, e.sa) OBVIOUS
  <2>2. Follows(d, w) BY <1>2, <2>1, HalvesWork, HalvesChange
  <2>3. Follows(s, w) /\ Sound(w) BY <1>2, <2>2, FollowsOn DEF Follows
  <2> QED BY <2>1, <2>3, HalvesWork, FollowsOn DEF DeleteRekeyed
<1>4. Follows(s, DeleteRegular(d, p, e, i))
  <2>1. PICK o : o = d.half[e.sa].link OBVIOUS
  <2>2. PICK w : w = IF o # None /\ e.orig = "INSTALLED" THEN Conclude(d, o) ELSE d
    OBVIOUS
  <2>3. Follows(d, w) BY <1>2, <2>2, HalvesWork, FollowsItself
  <2>4. Follows(s, w) /\ Sound(w) BY <1>2, <2>3, FollowsOn DEF Follows
  <2> QED BY <2>1, <2>2, <2>4, DestroyFollows, FollowsOn DEF DeleteRegular
<1> QED BY <1>1, <1>3, <1>4, KeepEntryFollows DEF DestroyEntry

-----------------------------------------------------------------------------
(* The loops over entries and SPIs *)

\* A sequence of anything: what is in a message or an entry does not matter
IsSeq(q) == \E S : q \in Seq(S)

\* A sequence has a length
LEMMA SeqLen == ASSUME NEW q, IsSeq(q) PROVE Len(q) \in Nat
BY DEF IsSeq

\* A sequence with one more member is a sequence
LEMMA SeqAppend == ASSUME NEW q, NEW x, IsSeq(q) PROVE IsSeq(Append(q, x))
<1>1. PICK S : q \in Seq(S) BY DEF IsSeq
<1>2. q \in Seq(S \cup {x}) BY <1>1, SeqMonotonic
<1>3. Append(q, x) \in Seq(S \cup {x}) BY <1>2, AppendProperties
<1> QED BY <1>3 DEF IsSeq

\* The rounds of the loop over the entries: n of them done
DestroyRun(f, N, s, p, es, i) ==
    f = [n \in 0..N |-> IF n = 0 THEN s ELSE DestroyEntry(f[n - 1], p, es[n], i)]

\* The loop has a result for every number of rounds
LEMMA DestroyRunExists ==
    ASSUME NEW s, NEW p, NEW es, NEW i, NEW N \in Nat
    PROVE  \E f : DestroyRun(f, N, s, p, es, i)
<1> DEFINE S == {n \in Nat : \E f : DestroyRun(f, n, s, p, es, i)}
<1>1. 0 \in S
  <2>1. PICK f : f = [n \in 0..0 |-> s] OBVIOUS
  <2>2. \A n \in 0..0 : n = 0 OBVIOUS
  <2>3. DestroyRun(f, 0, s, p, es, i) BY <2>1, <2>2 DEF DestroyRun
  <2> QED BY <2>3
<1>2. ASSUME NEW n \in Nat, n \in S PROVE n + 1 \in S
  <2>1. PICK f : DestroyRun(f, n, s, p, es, i) BY <1>2
  <2>2. PICK last : last = DestroyEntry(f[n], p, es[n + 1], i) OBVIOUS
  <2>3. PICK g : g = [m \in 0..(n + 1) |-> IF m = n + 1 THEN last ELSE f[m]] OBVIOUS
  <2>4. ASSUME NEW m \in 0..(n + 1)
        PROVE  g[m] = IF m = 0 THEN s ELSE DestroyEntry(g[m - 1], p, es[m], i)
    <3>1. CASE m = n + 1
      <4>1. g[m] = last /\ m # 0 /\ m - 1 = n /\ g[n] = f[n] BY <2>3, <3>1
      <4> QED BY <2>2, <3>1, <4>1
    <3>2. CASE m # n + 1
      <4>1. m \in 0..n /\ g[m] = f[m] BY <2>3, <3>2
      <4>2. m # 0 => g[m - 1] = f[m - 1] BY <2>3, <4>1
      <4>3. f[m] = IF m = 0 THEN s ELSE DestroyEntry(f[m - 1], p, es[m], i)
        BY <2>1, <4>1 DEF DestroyRun
      <4> QED BY <4>1, <4>2, <4>3
    <3> QED BY <3>1, <3>2
  <2>5. g = [m \in 0..(n + 1) |-> g[m]] BY <2>3
  <2>6. DestroyRun(g, n + 1, s, p, es, i) BY <2>4, <2>5 DEF DestroyRun
  <2> QED BY <2>6
<1> HIDE DEF S
<1>3. N \in S BY <1>1, <1>2, Induct
<1> QED BY <1>3 DEF S

\* The whole of destroy_and_reestablish() leaves the task alone
LEMMA DestroyEntriesFollows ==
    ASSUME NEW s, NEW p, NEW es, NEW i, Sound(s), IsSeq(es)
    PROVE  Follows(s, DestroyEntries(s, p, es, i))
<1>1. PICK N \in Nat : N = Len(es) BY SeqLen
<1>2. PICK f : /\ DestroyRun(f, N, s, p, es, i)
               /\ DestroyEntries(s, p, es, i) = f[N]
  <2>1. PICK f : f = CHOOSE g : g = [n \in 0..N |-> IF n = 0 THEN s
                                       ELSE DestroyEntry(g[n - 1], p, es[n], i)]
    OBVIOUS
  <2>2. DestroyRun(f, N, s, p, es, i) BY <2>1, DestroyRunExists DEF DestroyRun
  <2>3. DestroyEntries(s, p, es, i) = f[N] BY <1>1, <2>1 DEF DestroyEntries
  <2> QED BY <2>2, <2>3
<1> DEFINE S == {n \in Nat : n <= N => Follows(s, f[n])}
<1>3. 0 \in S
  <2>1. f[0] = s BY <1>2 DEF DestroyRun
  <2> QED BY <2>1, FollowsItself
<1>4. ASSUME NEW n \in Nat, n \in S PROVE n + 1 \in S
  <2>1. SUFFICES ASSUME n + 1 <= N PROVE Follows(s, f[n + 1]) OBVIOUS
  <2>2. f[n + 1] = DestroyEntry(f[n], p, es[n + 1], i)
    <3>1. n + 1 \in 0..N /\ n + 1 # 0 /\ (n + 1) - 1 = n BY <2>1
    <3> QED BY <1>2, <3>1 DEF DestroyRun
  <2>3. Follows(s, f[n]) /\ Sound(f[n]) BY <1>4, <2>1 DEF Follows
  <2> QED BY <2>2, <2>3, DestroyEntryFollows, FollowsOn
<1> HIDE DEF S
<1>5. N \in S BY <1>3, <1>4, Induct
<1> QED BY <1>2, <1>5 DEF S

\* The rounds of the loop over the SPIs of a delete payload
SpiRun(f, N, start, sas) ==
    f = [n \in 0..N |-> IF n = 0 THEN start ELSE ProcessSpi(f[n - 1], sas[n])]

\* The loop has a result for every number of rounds
LEMMA SpiRunExists ==
    ASSUME NEW start, NEW sas, NEW N \in Nat
    PROVE  \E f : SpiRun(f, N, start, sas)
<1> DEFINE S == {n \in Nat : \E f : SpiRun(f, n, start, sas)}
<1>1. 0 \in S
  <2>1. PICK f : f = [n \in 0..0 |-> start] OBVIOUS
  <2>2. \A n \in 0..0 : n = 0 OBVIOUS
  <2>3. SpiRun(f, 0, start, sas) BY <2>1, <2>2 DEF SpiRun
  <2> QED BY <2>3
<1>2. ASSUME NEW n \in Nat, n \in S PROVE n + 1 \in S
  <2>1. PICK f : SpiRun(f, n, start, sas) BY <1>2
  <2>2. PICK last : last = ProcessSpi(f[n], sas[n + 1]) OBVIOUS
  <2>3. PICK g : g = [m \in 0..(n + 1) |-> IF m = n + 1 THEN last ELSE f[m]] OBVIOUS
  <2>4. ASSUME NEW m \in 0..(n + 1)
        PROVE  g[m] = IF m = 0 THEN start ELSE ProcessSpi(g[m - 1], sas[m])
    <3>1. CASE m = n + 1
      <4>1. g[m] = last /\ m # 0 /\ m - 1 = n /\ g[n] = f[n] BY <2>3, <3>1
      <4> QED BY <2>2, <3>1, <4>1
    <3>2. CASE m # n + 1
      <4>1. m \in 0..n /\ g[m] = f[m] BY <2>3, <3>2
      <4>2. m # 0 => g[m - 1] = f[m - 1] BY <2>3, <4>1
      <4>3. f[m] = IF m = 0 THEN start ELSE ProcessSpi(f[m - 1], sas[m])
        BY <2>1, <4>1 DEF SpiRun
      <4> QED BY <4>1, <4>2, <4>3
    <3> QED BY <3>1, <3>2
  <2>5. g = [m \in 0..(n + 1) |-> g[m]] BY <2>3
  <2>6. SpiRun(g, n + 1, start, sas) BY <2>4, <2>5 DEF SpiRun
  <2> QED BY <2>6
<1> HIDE DEF S
<1>3. N \in S BY <1>1, <1>2, Induct
<1> QED BY <1>3 DEF S

\* What the loop over the SPIs has so far
Found(s, acc) ==
    /\ acc \in [s : {acc.s}, entries : {acc.entries}]
    /\ Follows(s, acc.s)
    /\ IsSeq(acc.entries)

\* One SPI of process_payloads() is noted or becomes an entry
LEMMA ProcessSpiFinds ==
    ASSUME NEW s, NEW acc, NEW k, Found(s, acc)
    PROVE  Found(s, ProcessSpi(acc, k))
<1>1. PICK t : t = HandleDelete(acc.s, k) OBVIOUS
<1>2. Follows(s, t) /\ Sound(t)
  BY <1>1, HandleDeleteFollows, FollowsOn DEF Follows, Found
<1>3. Follows(s, SetState(t, k, "DELETING")) BY <1>2, HalvesChange, FollowsOn
<1>4. PICK e : e = [sa |-> k, orig |-> t.half[k].state,
                    collision |-> Collision(acc.s, k)] OBVIOUS
<1>5. IsSeq(Append(acc.entries, e)) BY SeqAppend DEF Found
<1>6. CASE t.half[k].state \in {"NONE", "DELETED", "DELETING"}
  BY <1>1, <1>2, <1>6 DEF ProcessSpi, Found
<1>7. CASE t.half[k].state \notin {"NONE", "DELETED", "DELETING"}
  <2>1. ProcessSpi(acc, k) = [s |-> SetState(t, k, "DELETING"),
                              entries |-> Append(acc.entries, e)]
    BY <1>1, <1>4, <1>7 DEF ProcessSpi
  <2> QED BY <1>3, <1>5, <2>1 DEF Found
<1> QED BY <1>6, <1>7

\* process_payloads() leaves the task alone and returns a list of entries
LEMMA ProcessSpisFind ==
    ASSUME NEW s, NEW sas, Sound(s), IsSeq(sas)
    PROVE  Found(s, ProcessSpis(s, sas))
<1>1. PICK N \in Nat : N = Len(sas) BY SeqLen
<1>2. PICK start : start = [s |-> s, entries |-> << >>] OBVIOUS
<1>3. PICK f : SpiRun(f, N, start, sas) /\ ProcessSpis(s, sas) = f[N]
  <2>1. PICK f : f = CHOOSE g : g = [n \in 0..N |-> IF n = 0 THEN start
                                       ELSE ProcessSpi(g[n - 1], sas[n])]
    OBVIOUS
  <2>2. SpiRun(f, N, start, sas) BY <2>1, SpiRunExists DEF SpiRun
  <2>3. ProcessSpis(s, sas) = f[N] BY <1>1, <1>2, <2>1 DEF ProcessSpis
  <2> QED BY <2>2, <2>3
<1> DEFINE S == {n \in Nat : n <= N => Found(s, f[n])}
<1>4. 0 \in S
  <2>1. f[0] = [s |-> s, entries |-> << >>] BY <1>2, <1>3 DEF SpiRun
  <2>2. << >> \in Seq({}) OBVIOUS
  <2>3. IsSeq(<< >>) BY <2>2 DEF IsSeq
  <2> QED BY <2>1, <2>3, FollowsItself DEF Found
<1>5. ASSUME NEW n \in Nat, n \in S PROVE n + 1 \in S
  <2>1. SUFFICES ASSUME n + 1 <= N PROVE Found(s, f[n + 1]) OBVIOUS
  <2>2. f[n + 1] = ProcessSpi(f[n], sas[n + 1])
    <3>1. n + 1 \in 0..N /\ n + 1 # 0 /\ (n + 1) - 1 = n BY <2>1
    <3> QED BY <1>3, <3>1 DEF SpiRun
  <2>3. Found(s, f[n]) BY <1>5, <2>1
  <2> QED BY <2>2, <2>3, ProcessSpiFinds
<1> HIDE DEF S
<1>6. N \in S BY <1>4, <1>5, Induct
<1> QED BY <1>3, <1>6 DEF S

\* Serving the peer's delete leaves the own exchange alone
LEMMA ServeDeleteFollows ==
    ASSUME NEW s, NEW p, NEW sas, Sound(s), IsSeq(sas)
    PROVE  /\ Follows(s, ServeDelete(s, p, sas).s)
           /\ ServeDelete(s, p, sas).response = [type |-> "DELETED"]
<1>1. PICK x : x = ProcessSpis(s, sas) OBVIOUS
<1>2. Follows(s, x.s) /\ Sound(x.s) /\ IsSeq(x.entries)
  BY <1>1, ProcessSpisFind DEF Found, Follows
<1>3. Follows(s, DestroyEntries(x.s, p, x.entries, FALSE))
  BY <1>2, DestroyEntriesFollows, FollowsOn
<1> QED BY <1>1, <1>3 DEF ServeDelete, Answer

\* The rounds of initiate()
InitiateRun(f, N, s, p, fails) ==
    f = [n \in 0..N |-> IF n = 0 THEN s ELSE InitiateStep(f[n - 1], p, fails)]

\* initiate() has a result for every number of rounds
LEMMA InitiateRunExists ==
    ASSUME NEW s, NEW p, NEW fails, NEW N \in Nat
    PROVE  \E f : InitiateRun(f, N, s, p, fails)
<1> DEFINE S == {n \in Nat : \E f : InitiateRun(f, n, s, p, fails)}
<1>1. 0 \in S
  <2>1. PICK f : f = [n \in 0..0 |-> s] OBVIOUS
  <2>2. \A n \in 0..0 : n = 0 OBVIOUS
  <2>3. InitiateRun(f, 0, s, p, fails) BY <2>1, <2>2 DEF InitiateRun
  <2> QED BY <2>3
<1>2. ASSUME NEW n \in Nat, n \in S PROVE n + 1 \in S
  <2>1. PICK f : InitiateRun(f, n, s, p, fails) BY <1>2
  <2>2. PICK last : last = InitiateStep(f[n], p, fails) OBVIOUS
  <2>3. PICK g : g = [m \in 0..(n + 1) |-> IF m = n + 1 THEN last ELSE f[m]] OBVIOUS
  <2>4. ASSUME NEW m \in 0..(n + 1)
        PROVE  g[m] = IF m = 0 THEN s ELSE InitiateStep(g[m - 1], p, fails)
    <3>1. CASE m = n + 1
      <4>1. g[m] = last /\ m # 0 /\ m - 1 = n /\ g[n] = f[n] BY <2>3, <3>1
      <4> QED BY <2>2, <3>1, <4>1
    <3>2. CASE m # n + 1
      <4>1. m \in 0..n /\ g[m] = f[m] BY <2>3, <3>2
      <4>2. m # 0 => g[m - 1] = f[m - 1] BY <2>3, <4>1
      <4>3. f[m] = IF m = 0 THEN s ELSE InitiateStep(f[m - 1], p, fails)
        BY <2>1, <4>1 DEF InitiateRun
      <4> QED BY <4>1, <4>2, <4>3
    <3> QED BY <3>1, <3>2
  <2>5. g = [m \in 0..(n + 1) |-> g[m]] BY <2>3
  <2>6. InitiateRun(g, n + 1, s, p, fails) BY <2>4, <2>5 DEF InitiateRun
  <2> QED BY <2>6
<1> HIDE DEF S
<1>3. N \in S BY <1>1, <1>2, Induct
<1> QED BY <1>3 DEF S

-----------------------------------------------------------------------------
(* Building requests *)

\* The invariant of a peer that waits for a response, with the types it needs
Waiting(s) ==
    /\ Sound(s) /\ Awaits(s)
    /\ s.out.type \in {"REKEY", "CREATE", "DELETE"}
    /\ s.out.type = "DELETE" => /\ IsSeq(s.out.sas)
                                /\ s.active # NoTask => IsSeq(s.active.entries)

\* The outcome of building the request of an active task: it is sent, or the task
\* ended without one
Built(s, t) ==
    \/ Waiting(t)
    \/ Sound(t) /\ t.out = NoMsg /\ t.active = NoTask /\ t.queue = s.queue

\* A task that ends after calm changes has sent nothing
LEMMA EndsCalm ==
    ASSUME NEW s, NEW t, Sound(s), s.out = NoMsg, Calm(s, t)
    PROVE  Built(s, Done(t))
BY DEF Built, Calm, Done, Sound, IsPeer, NoMsg

\* A delete for one SPI has a sequence of them
LEMMA Singleton == ASSUME NEW x PROVE IsSeq(<< x >>)
<1>1. << x >> \in Seq({x}) OBVIOUS
<1> QED BY <1>1 DEF IsSeq

\* A task that deletes may send a delete
LEMMA SendsDelete ==
    ASSUME NEW s, NEW u, NEW sas, Sound(s), IsSeq(sas), u = Send(s, DeleteMsg(sas))
    PROVE  Waiting(Done(u))
BY DEF Waiting, Awaits, Done, Send, DeleteMsg, Sound, IsPeer, NoTask

\* The tasks that child_delete.c builds a request for
Deletes(t) == IsDelete(t) \/ (IsRekey(t) /\ t.stage = "DELETE")

\* child_delete.c build_i() sends a delete or ends the task
LEMMA BuildDeleteBuilds ==
    ASSUME NEW s, NEW k, NEW expired, Sound(s), s.out = NoMsg, Deletes(s.active)
    PROVE  Built(s, BuildDelete(s, k, expired))
<1>0. IsPeer(s) /\ Calm(s, s) BY DEF Sound, Calm
<1>1. PICK other : other = s.half[k].link OBVIOUS
<1>2. PICK linked : linked = IF other = None THEN s
            ELSE IF s.half[k].state = "REKEYED"
                 THEN Conclude(SetState(s, k, "DELETED"), k)
                 ELSE Conclude(s, other) OBVIOUS
<1>3. Calm(s, linked)
  <2>1. PICK d : d = SetState(s, k, "DELETED") OBVIOUS
  <2>2. Calm(s, d) /\ IsPeer(d) BY <1>0, <2>1, CalmChange DEF Calm
  <2>3. Calm(s, Conclude(d, k)) BY <2>2, CalmWork, CalmOn
  <2>4. Calm(s, Conclude(s, other)) BY <1>0, CalmWork
  <2> QED BY <1>0, <1>2, <2>1, <2>3, <2>4
<1>4. PICK orig : orig = linked.half[k].state OBVIOUS
<1>5. PICK es : es = << [sa |-> k, orig |-> orig, collision |-> "NONE"] >> OBVIOUS
<1>6. PICK d : d = SetState(linked, k, "DELETING") OBVIOUS
<1>7. PICK sent : sent = Send([d EXCEPT !.active.entries = es], DeleteMsg(<< k >>))
  OBVIOUS
<1>8. Calm(s, d) BY <1>3, <1>6, CalmChange, CalmOn DEF Calm
<1>9. Waiting(sent)
  <2>1. PICK a : a = [d.active EXCEPT !.entries = es] OBVIOUS
  <2>2. d.active = s.active BY <1>8 DEF Calm
  <2>3. a.entries = es /\ (IsDelete(a) \/ (IsRekey(a) /\ a.stage = "DELETE"))
    BY <2>1, <2>2 DEF Deletes, IsDelete, IsRekey
  <2>4. sent = Send([d EXCEPT !.active = a], DeleteMsg(<< k >>)) BY <1>7, <2>1
  <2>5. /\ IsPeer(sent) /\ sent.active = a /\ sent.queue = s.queue
        /\ sent.out = DeleteMsg(<< k >>)
    BY <1>8, <2>4 DEF Calm, Send, IsPeer
  <2>6. Sound(sent) BY <2>3, <2>5 DEF Sound, IsTask
  <2>7. IsSeq(es) /\ IsSeq(<< k >>) BY <1>5, Singleton
  <2>8. << k >> = [n \in DOMAIN es |-> es[n].sa] BY <1>5
  <2>9. a.type \in {"DELETE", "REKEY"} /\ (a.type = "REKEY" => a.stage = "DELETE")
    BY <2>3 DEF IsDelete, IsRekey
  <2> QED BY <2>3, <2>5, <2>6, <2>7, <2>8, <2>9 DEF Waiting, Awaits, DeleteMsg
<1>10. Waiting(Queue(sent, CreateTask))
  <2>1. PICK q : q = Queue(sent, CreateTask) OBVIOUS
  <2>2. Sound(q) BY <1>9, <2>1, QueueFollows DEF Waiting, Follows, QueuedTask
  <2>3. q.active = sent.active /\ q.out = sent.out
    BY <1>9, <2>1 DEF Queue, Waiting, Sound, IsPeer
  <2> QED BY <1>9, <2>1, <2>2, <2>3 DEF Waiting, Awaits
<1>11. Built(s, Done(s)) BY <1>0, EndsCalm
<1>12. Built(s, Done(Destroy(linked, k, FALSE)))
  <2>1. PICK t : t = Destroy(linked, k, FALSE) OBVIOUS
  <2>2. IsPeer(linked) BY <1>3 DEF Calm
  <2>3. Calm(linked, t) BY <2>1, <2>2, CalmWork
  <2>4. Calm(s, t) BY <1>3, <2>3, CalmOn
  <2> QED BY <2>1, <2>4, EndsCalm
<1> QED BY <1>1, <1>2, <1>4, <1>5, <1>6, <1>7, <1>9, <1>10, <1>11, <1>12
    DEF BuildDelete, Built

\* child_rekey.c build_i() sends a rekey request, or ends the task
LEMMA BuildRekeyBuilds ==
    ASSUME NEW s, NEW p, NEW fails, Sound(s), s.out = NoMsg, IsRekey(s.active),
           s.active.stage = "CREATE"
    PROVE  Built(s, BuildRekey(s, p, fails))
<1>0. IsPeer(s) /\ Calm(s, s) BY DEF Sound, Calm
<1>1. PICK k : k = s.active.sa OBVIOUS
<1>2. PICK new : new = IF s.active.new = None THEN s.next ELSE s.active.new OBVIOUS
<1>3. PICK next : next = IF s.active.new = None THEN s.next + 1 ELSE s.next OBVIOUS
<1>4. PICK d : d = SetState(s, k, "REKEYING") OBVIOUS
<1>5. PICK a : a = [d.active EXCEPT !.new = new] OBVIOUS
<1>6. PICK m : m = [type |-> "REKEY", old |-> k, new |-> new] OBVIOUS
<1>7. PICK sent : sent = Send([d EXCEPT !.active = a, !.next = next], m) OBVIOUS
<1>8. Calm(s, d) /\ d.next = s.next
  <2>1. d.next = s.next BY <1>0, <1>4 DEF SetState, IsPeer
  <2> QED BY <1>0, <1>4, <2>1, CalmChange
<1>9. IsRekey(a) /\ a.stage = "CREATE" /\ a.sa = k /\ a.new = new
  BY <1>1, <1>5, <1>8 DEF Calm, IsRekey
<1>10. /\ IsPeer(sent) /\ sent.active = a /\ sent.queue = s.queue /\ sent.out = m
  BY <1>7, <1>8 DEF Calm, Send, IsPeer
<1>11. Sound(sent) BY <1>9, <1>10 DEF Sound, IsTask
<1>12. Waiting(sent) BY <1>6, <1>9, <1>10, <1>11 DEF Waiting, Awaits, IsRekey
<1>13. Built(s, Done(s)) BY <1>0, EndsCalm
<1>14. Built(s, Done(ScheduleDelayedRekey(s, k))) BY <1>0, EndsCalm, CalmWork
<1>15. d.active.new = s.active.new BY <1>8 DEF Calm
<1>16. BuildRekey(s, p, fails) \in {Done(s), Done(ScheduleDelayedRekey(s, k)), sent}
  BY <1>1, <1>2, <1>3, <1>4, <1>5, <1>6, <1>7, <1>8, <1>15 DEF BuildRekey
<1> QED BY <1>12, <1>13, <1>14, <1>16 DEF Built

\* child_create.c build_i() sends a create request, or ends the task
LEMMA BuildCreateBuilds ==
    ASSUME NEW s, Sound(s), s.out = NoMsg, IsCreate(s.active)
    PROVE  Built(s, BuildCreate(s))
<1>0. IsPeer(s) /\ Calm(s, s) BY DEF Sound, Calm
<1>1. PICK new : new = IF s.active.new = None THEN s.next ELSE s.active.new OBVIOUS
<1>2. PICK a : a = [s.active EXCEPT !.new = new] OBVIOUS
<1>3. PICK sent :
        sent = Send([s EXCEPT !.active = a,
                              !.next = IF s.active.new = None THEN @ + 1 ELSE @],
                    [type |-> "CREATE", new |-> new]) OBVIOUS
<1>4. /\ IsPeer(sent) /\ sent.active = a /\ sent.queue = s.queue
      /\ sent.out = [type |-> "CREATE", new |-> new]
  BY <1>0, <1>3 DEF Send, IsPeer
<1>5. IsCreate(a) /\ a.new = new /\ a.stage = s.active.stage BY <1>2 DEF IsCreate
<1>6. Sound(sent) BY <1>4, <1>5 DEF Sound, IsTask
<1>7. s.active.stage = "CREATE" => Waiting(sent)
  BY <1>4, <1>5, <1>6 DEF Waiting, Awaits, IsCreate
<1>8. Waiting(Done(Send(s, DeleteMsg(<< new >>)))) BY Singleton, SendsDelete
<1>9. Built(s, Done(s)) BY <1>0, EndsCalm
<1>10. s.active.stage \in {"CREATE", "DELETE_FAILED"} BY DEF IsCreate
<1> QED BY <1>1, <1>2, <1>3, <1>7, <1>8, <1>9, <1>10 DEF BuildCreate, Built

\* The stages in which child_rekey.c cleans up end in a delete or end the task
LEMMA BuildCleanupBuilds ==
    ASSUME NEW s, NEW p, Sound(s), s.out = NoMsg, IsRekey(s.active),
           s.active.stage \notin {"CREATE", "DELETE"}
    PROVE  Built(s, BuildCleanup(s, p))
<1>1. PICK old : old = s.active.sa OBVIOUS
<1>2. PICK new : new = s.active.new OBVIOUS
<1>3. ASSUME NEW sas, IsSeq(sas), NEW r
      PROVE  Waiting(Done(Destroy(Send(s, DeleteMsg(sas)), old, r)))
  <2>1. PICK u : u = Send(s, DeleteMsg(sas)) OBVIOUS
  <2>2. Sound(u) /\ u.out = DeleteMsg(sas) BY <2>1 DEF Send, Sound, IsPeer
  <2>3. PICK d : d = Destroy(u, old, r) OBVIOUS
  <2>4. Sound(d) /\ d.out = DeleteMsg(sas) BY <2>2, <2>3, DestroyFollows DEF Follows
  <2>5. Waiting(Done(d))
    <3>1. PICK e : e = Done(d) OBVIOUS
    <3>2. IsPeer(e) /\ e.active = NoTask /\ e.out = d.out /\ e.queue = d.queue
      BY <2>4, <3>1 DEF Done, Sound, IsPeer
    <3>3. Sound(e) BY <2>4, <3>2 DEF Sound
    <3>4. e.out.type = "DELETE" /\ e.out.sas = sas BY <2>4, <3>2 DEF DeleteMsg
    <3>5. Waiting(e) BY <1>3, <3>2, <3>3, <3>4 DEF Waiting, Awaits
    <3> QED BY <3>1, <3>5
  <2> QED BY <2>1, <2>3, <2>5
<1>4. Waiting(Done(Send(s, DeleteMsg(<< new >>)))) BY Singleton, SendsDelete
<1>5. << old, new >> \in Seq({old, new}) OBVIOUS
<1>6. IsSeq(<< old, new >>) /\ IsSeq(<< old >>) /\ IsSeq(<< new >>)
  BY <1>5, Singleton DEF IsSeq
<1>7. s.active.stage \in {"DELETE_REPLACEMENT", "DELETE_OLD_DESTROY",
                          "DELETE_BOTH_RECREATE", "DELETE_REPLACEMENT_RECREATE"}
  BY DEF IsRekey, Stages
<1>8. Waiting(BuildCleanup(s, p))
  BY <1>1, <1>2, <1>3, <1>4, <1>6, <1>7 DEF BuildCleanup
<1> QED BY <1>8 DEF Built

\* build() of whatever task is active sends its request or ends it
LEMMA BuildBuilds ==
    ASSUME NEW s, NEW p, NEW fails, Sound(s), s.out = NoMsg, s.active # NoTask
    PROVE  Built(s, Build(s, p, fails))
<1>1. IsRekey(s.active) \/ IsDelete(s.active) \/ IsCreate(s.active) BY DEF Sound, IsTask
<1>2. CASE IsDelete(s.active)
  <2>1. s.active.type = "DELETE" BY <1>2 DEF IsDelete
  <2>2. PICK k : k = s.active.sa OBVIOUS
  <2>3. PICK expired : expired = s.active.expired OBVIOUS
  <2>4. Build(s, p, fails) = BuildDelete(s, k, expired) BY <2>1, <2>2, <2>3 DEF Build
  <2>5. Deletes(s.active) BY <1>2 DEF Deletes
  <2>6. Built(s, BuildDelete(s, k, expired)) BY <2>5, BuildDeleteBuilds
  <2> QED BY <2>4, <2>6
<1>3. CASE IsCreate(s.active)
  BY <1>3, BuildCreateBuilds DEF Build, IsCreate
<1>4. CASE IsRekey(s.active)
  <2>1. s.active.type = "REKEY" BY <1>4 DEF IsRekey
  <2>2. s.active.stage = "CREATE" => Built(s, Build(s, p, fails))
    BY <1>4, <2>1, BuildRekeyBuilds DEF Build
  <2>3. s.active.stage = "DELETE" => Built(s, Build(s, p, fails))
    BY <1>4, <2>1, BuildDeleteBuilds DEF Build, Deletes
  <2>4. s.active.stage \notin {"CREATE", "DELETE"} => Built(s, Build(s, p, fails))
    BY <1>4, <2>1, BuildCleanupBuilds DEF Build
  <2> QED BY <2>2, <2>3, <2>4
<1> QED BY <1>1, <1>2, <1>3, <1>4

-----------------------------------------------------------------------------
(* initiate() *)

\* initiate() activates a task from the queue
LEMMA NextTaskIsQueued ==
    ASSUME NEW q \in Seq(QueuedTask), q # << >>
    PROVE  NextTask(q) \in 1..Len(q)
<1> DEFINE U(n) == Urgency[q[n].type]
           Us == {U(n) : n \in 1..Len(q)}
<1>1. Len(q) \in Nat /\ DOMAIN q = 1..Len(q) /\ 1 \in 1..Len(q)
  BY EmptySeq, LenProperties
<1>2. ASSUME NEW n \in 1..Len(q) PROVE U(n) \in Nat
  <2>1. q[n] \in QueuedTask BY <1>2, ElementOfSeq
  <2>2. q[n].type \in {"DELETE", "CREATE", "REKEY"}
    BY <2>1, QueuedAreTasks DEF IsTask, IsRekey, IsDelete, IsCreate
  <2> QED BY <2>2 DEF Urgency
<1>3. PICK u \in Us : \A v \in Us : u <= v
  <2>1. Us \in SUBSET Nat /\ Us # {} BY <1>1, <1>2
  <2> HIDE DEF Us
  <2> QED BY <2>1, HasLeast
<1> DEFINE Ns == {n \in 1..Len(q) : U(n) = u}
<1>4. PICK n \in Ns : \A m \in Ns : n <= m
  <2>1. Ns \in SUBSET Nat /\ Ns # {} BY <1>1, <1>3
  <2> HIDE DEF Ns
  <2> QED BY <2>1, HasLeast
<1>5. ASSUME NEW m \in 1..Len(q)
      PROVE  U(n) < U(m) \/ (U(n) = U(m) /\ n <= m)
  <2>1. u <= U(m) /\ U(m) \in Nat /\ u \in Nat /\ U(n) = u BY <1>2, <1>3, <1>4, <1>5
  <2>2. U(m) = u => n <= m BY <1>4, <1>5
  <2> HIDE DEF U
  <2> QED BY <2>1, <2>2
<1>6. \E j \in DOMAIN q : \A m \in DOMAIN q :
          \/ Urgency[q[j].type] < Urgency[q[m].type]
          \/ Urgency[q[j].type] = Urgency[q[m].type] /\ j <= m
  BY <1>1, <1>4, <1>5
<1> QED BY <1>1, <1>6 DEF NextTask

\* The queue without the activated task is one shorter
LEMMA OneTaken ==
    ASSUME NEW S, NEW q \in Seq(S), NEW n \in 1..Len(q)
    PROVE  RemoveAt(q, n) \in Seq(S) /\ Len(RemoveAt(q, n)) = Len(q) - 1
<1>1. PICK l \in Nat : l = Len(q) OBVIOUS
<1>2. \A i \in 1..l : q[i] \in S BY <1>1, ElementOfSeq
<1>3. n \in Int /\ n - 1 \in Int /\ n + 1 \in Int /\ l \in Int /\ n \in 1..l BY <1>1
<1>4. PICK a : a = SubSeq(q, 1, n - 1) OBVIOUS
<1>5. PICK b : b = SubSeq(q, n + 1, l) OBVIOUS
<1>6. (\A i \in 1..(n - 1) : q[i] \in S) /\ (\A i \in (n + 1)..l : q[i] \in S)
  BY <1>2, <1>3
<1>7. a \in Seq(S) /\ Len(a) = IF 1 <= n - 1 THEN (n - 1) - 1 + 1 ELSE 0
  BY <1>3, <1>4, <1>6, SubSeqProperties
<1>8. b \in Seq(S) /\ Len(b) = IF n + 1 <= l THEN l - (n + 1) + 1 ELSE 0
  BY <1>3, <1>5, <1>6, SubSeqProperties
<1>9. a \o b \in Seq(S) /\ Len(a \o b) = Len(a) + Len(b)
  BY <1>7, <1>8, ConcatProperties
<1>10. Len(a) + Len(b) = l - 1 BY <1>3, <1>7, <1>8
<1> QED BY <1>1, <1>4, <1>5, <1>9, <1>10 DEF RemoveAt

\* How many more tasks a peer can end
Load(s) == Len(s.queue) + (IF s.active = NoTask THEN 0 ELSE 1)

\* Nothing is left to do: a request is out or there are no tasks
Finished(s) ==
    \/ Waiting(s)
    \/ Sound(s) /\ s.out = NoMsg /\ s.active = NoTask /\ s.queue = << >>

\* A peer in initiate(): one that had a request out keeps it
Open(s) == Sound(s) /\ s.out = NoMsg

\* The load is a number, zero with no tasks
LEMMA LoadIs ==
    ASSUME NEW s, Sound(s)
    PROVE  /\ Len(s.queue) \in Nat /\ Load(s) \in Nat
           /\ s.active = NoTask => Load(s) = Len(s.queue)
           /\ s.active # NoTask => Load(s) = Len(s.queue) + 1
<1>1. PICK l \in Nat : l = Len(s.queue) BY DEF Sound
<1>2. CASE s.active = NoTask
  <2>1. Load(s) = l + 0 BY <1>1, <1>2 DEF Load
  <2> QED BY <1>1, <1>2, <2>1
<1>3. CASE s.active # NoTask
  <2>1. Load(s) = l + 1 BY <1>1, <1>3 DEF Load
  <2> QED BY <1>1, <1>3, <2>1
<1> QED BY <1>2, <1>3

\* A round of initiate() sends a request or makes the load smaller
LEMMA StepProgress ==
    ASSUME NEW s, NEW p, NEW fails, Open(s)
    PROVE  LET t == InitiateStep(s, p, fails)
           IN  Finished(t) \/ (Open(t) /\ Load(t) = Load(s) - 1)
<1>0. Sound(s) /\ s.out = NoMsg BY DEF Open
<1>1. PICK t : t = InitiateStep(s, p, fails) OBVIOUS
<1>2. CASE s.active = NoTask /\ s.queue = << >>
  BY <1>0, <1>1, <1>2 DEF InitiateStep, Finished
<1>3. CASE s.active # NoTask
  <2>1. Built(s, t) BY <1>0, <1>1, <1>3, BuildBuilds DEF InitiateStep
  <2>2. PICK l \in Nat : l = Len(s.queue) /\ Load(s) = l + 1 BY <1>0, <1>3, LoadIs
  <2>3. Waiting(t) \/ (Open(t) /\ t.active = NoTask /\ Len(t.queue) = l)
    BY <2>1, <2>2 DEF Built, Open
  <2>4. Open(t) /\ t.active = NoTask /\ Len(t.queue) = l => Load(t) = l
    BY LoadIs DEF Open
  <2>5. Waiting(t) \/ (Open(t) /\ Load(t) = Load(s) - 1)
    BY <2>2, <2>3, <2>4
  <2> QED BY <1>1, <2>5 DEF Finished
<1>4. CASE s.active = NoTask /\ s.queue # << >>
  <2>1. s.queue \in Seq(QueuedTask) BY <1>0 DEF Sound
  <2>2. PICK n \in 1..Len(s.queue) : n = NextTask(s.queue)
    BY <1>4, <2>1, NextTaskIsQueued
  <2>3. PICK a : a = s.queue[n] OBVIOUS
  <2>4. PICK q : q = RemoveAt(s.queue, n) OBVIOUS
  <2>5. PICK u : u = [s EXCEPT !.active = a, !.queue = q] OBVIOUS
  <2>6. q \in Seq(QueuedTask) /\ Len(q) = Len(s.queue) - 1 BY <2>1, <2>4, OneTaken
  <2>7. IsTask(a)
    <3>1. a \in QueuedTask BY <2>1, <2>3, ElementOfSeq
    <3> QED BY <3>1, QueuedAreTasks
  <2>8. a # NoTask BY <2>7 DEF IsTask, IsRekey, IsDelete, IsCreate, NoTask
  <2>9. Sound(u) /\ u.out = NoMsg /\ u.active = a /\ u.queue = q
    BY <1>0, <2>5, <2>6, <2>7 DEF Sound, IsPeer
  <2>10. t = Build(u, p, fails)
    BY <1>0, <1>1, <1>4, <2>2, <2>3, <2>4, <2>5 DEF InitiateStep
  <2>11. Built(u, t) BY <2>8, <2>9, <2>10, BuildBuilds
  <2>12. Waiting(t) \/ (Open(t) /\ t.active = NoTask /\ t.queue = q)
    BY <2>9, <2>11 DEF Built, Open
  <2>13. Open(t) /\ t.active = NoTask /\ t.queue = q => Load(t) = Load(s) - 1
    BY <1>0, <1>4, <2>6, LoadIs DEF Open
  <2> QED BY <1>1, <2>12, <2>13 DEF Finished
<1> QED BY <1>2, <1>3, <1>4

\* With nothing left to do a round changes nothing
LEMMA FinishedStays ==
    ASSUME NEW s, NEW p, NEW fails, Finished(s)
    PROVE  InitiateStep(s, p, fails) = s
<1>1. Waiting(s) => s.out # NoMsg BY DEF Waiting, NoMsg
<1> QED BY <1>1 DEF Finished, InitiateStep

\* initiate() ends with a request out or with no task left
LEMMA InitiateFinishes ==
    ASSUME NEW s, NEW p, NEW fails, Open(s) \/ Waiting(s)
    PROVE  Finished(Initiate(s, p, fails))
<1>0. Sound(s) BY DEF Open, Waiting
<1>1. PICK l \in Nat : l = Load(s) /\ l <= Len(s.queue) + 1
  BY <1>0, LoadIs
<1>2. PICK N \in Nat : N = Len(s.queue) + 2 BY <1>0 DEF Sound
<1>3. PICK f : InitiateRun(f, N, s, p, fails) /\ Initiate(s, p, fails) = f[N]
  <2>1. PICK f : f = CHOOSE g : g = [n \in 0..N |-> IF n = 0 THEN s
                                       ELSE InitiateStep(g[n - 1], p, fails)]
    OBVIOUS
  <2>2. InitiateRun(f, N, s, p, fails) BY <2>1, InitiateRunExists DEF InitiateRun
  <2>3. Initiate(s, p, fails) = f[N] BY <1>2, <2>1 DEF Initiate
  <2> QED BY <2>2, <2>3
<1> DEFINE S == {n \in Nat : n <= N =>
                   Finished(f[n]) \/ (Open(f[n]) /\ Load(f[n]) = l - n)}
<1>4. 0 \in S
  <2>1. f[0] = s BY <1>3 DEF InitiateRun
  <2> QED BY <1>1, <2>1 DEF Finished
<1>5. ASSUME NEW n \in Nat, n \in S PROVE n + 1 \in S
  <2>1. SUFFICES ASSUME n + 1 <= N
        PROVE  Finished(f[n + 1]) \/ (Open(f[n + 1]) /\ Load(f[n + 1]) = l - (n + 1))
    OBVIOUS
  <2>2. PICK t : t = f[n] OBVIOUS
  <2>3. PICK u : u = f[n + 1] OBVIOUS
  <2>4. u = InitiateStep(t, p, fails)
    <3>1. n + 1 \in 0..N /\ n + 1 # 0 /\ (n + 1) - 1 = n BY <2>1
    <3> QED BY <1>3, <2>2, <2>3, <3>1 DEF InitiateRun
  <2>5. Finished(t) \/ (Open(t) /\ Load(t) = l - n) BY <1>5, <2>1, <2>2
  <2>6. Finished(t) => Finished(u) BY <2>4, FinishedStays
  <2>7. Open(t) => Finished(u) \/ (Open(u) /\ Load(u) = Load(t) - 1)
    BY <2>4, StepProgress
  <2>8. Finished(u) \/ (Open(u) /\ Load(u) = l - (n + 1))
    BY <1>1, <2>5, <2>6, <2>7
  <2> QED BY <2>3, <2>8
<1> HIDE DEF S
<1>6. N \in S BY <1>4, <1>5, Induct
<1>7. Finished(f[N]) \/ (Open(f[N]) /\ Load(f[N]) = l - N) BY <1>6 DEF S
<1>8. Open(f[N]) => Load(f[N]) \in Nat BY LoadIs DEF Open
<1>9. Len(s.queue) \in Nat BY <1>0 DEF Sound
<1>10. l - N < 0 BY <1>1, <1>2, <1>9
<1>11. ~(Open(f[N]) /\ Load(f[N]) = l - N) BY <1>1, <1>2, <1>8, <1>10
<1> QED BY <1>3, <1>7, <1>11

-----------------------------------------------------------------------------
(* Requests *)

\* child_rekey_t.collide() only notes the peer's rekeying
LEMMA CollideFollows ==
    ASSUME NEW s, NEW old, NEW new, NEW nonce, NEW fault, Sound(s)
    PROVE  Follows(s, Collide(s, old, new, nonce, fault))
<1>1. CASE s.active.type # "REKEY"
  BY <1>1, FollowsItself DEF Collide
<1>2. CASE s.active.type = "REKEY"
  <2>1. IsRekey(s.active) BY <1>2, RekeyByType
  <2>2. PICK c : c = [sa |-> new, nonce |-> nonce, freed |-> TRUE] OBVIOUS
  <2>3. PICK d : d = [sa |-> new, nonce |-> nonce, freed |-> FALSE] OBVIOUS
  <2>4. PICK t : t = [s EXCEPT !.active.collision = d] OBVIOUS
  <2>5. PICK f : f = s.active.flags \cup {"PASSIVE_INSTALLED"} OBVIOUS
  <2>6. Follows(s, [s EXCEPT !.active.collision = c]) BY <2>1, Notes
  <2>7. Follows(s, t) BY <2>1, <2>4, Notes
  <2>8. Sound(t) /\ IsRekey(t.active) BY <2>1, <2>7 DEF Follows
  <2>9. Follows(s, [t EXCEPT !.active.flags = f]) BY <2>7, <2>8, Notes, FollowsOn
  <2>10. t.active.flags = s.active.flags
    BY <2>1, <2>4 DEF Sound, IsPeer, IsRekey
  <2>11. [t EXCEPT !.active.flags = f]
         = [s EXCEPT !.active.collision = d,
                     !.active.flags = @ \cup {"PASSIVE_INSTALLED"}]
    BY <2>1, <2>4, <2>5, <2>10 DEF Sound, IsPeer, IsRekey
  <2> QED BY <1>2, <2>2, <2>3, <2>6, <2>9, <2>11, FollowsItself DEF Collide
<1> QED BY <1>1, <1>2

\* Serving the peer's create leaves the own exchange alone
LEMMA ServeCreateFollows ==
    ASSUME NEW s, NEW new, NEW fault, Sound(s)
    PROVE  /\ Follows(s, ServeCreate(s, new, fault).s)
           /\ ServeCreate(s, new, fault).response.type \in Answers["CREATE"]
<1>1. PICK h : h = [state |-> "INSTALLED", out |-> "INSTALLED", link |-> None] OBVIOUS
<1>2. Follows(s, [s EXCEPT !.half[new] = h]) BY DEF Follows, Sound, IsPeer
<1> QED BY <1>1, <1>2, FollowsItself DEF ServeCreate, Answer, Answers

\* Serving the peer's rekeying leaves the own exchange alone
LEMMA ServeRekeyFollows ==
    ASSUME NEW s, NEW old, NEW new, NEW nonce, NEW fault, Sound(s)
    PROVE  /\ Follows(s, ServeRekey(s, old, new, nonce, fault).s)
           /\ ServeRekey(s, old, new, nonce, fault).response.type \in Answers["REKEY"]
<1>1. PICK t : t = Replace(s, old, new) OBVIOUS
<1>2. Follows(s, t) /\ Sound(t) BY <1>1 DEF Replace, Follows, Sound, IsPeer
<1>3. Follows(s, Collide(t, old, new, nonce, fault)) BY <1>2, CollideFollows, FollowsOn
<1>4. Follows(s, Collide(s, old, new, nonce, fault)) BY CollideFollows
<1>5. Follows(s, s) BY FollowsItself
<1>6. PICK r : r = Refusal(s, old) OBVIOUS
<1>7. r \in {"NONE", "CHILD_SA_NOT_FOUND", "TEMPORARY_FAILURE"} BY <1>6 DEF Refusal
<1>8. CASE r # "NONE"
  BY <1>5, <1>6, <1>7, <1>8 DEF ServeRekey, Answer, Answers
<1>9. CASE r = "NONE" /\ fault \in {"none", "build"}
  BY <1>1, <1>3, <1>6, <1>9 DEF ServeRekey, Answer, Answers
<1>10. CASE r = "NONE" /\ fault \notin {"none", "build"}
  BY <1>4, <1>6, <1>10 DEF ServeRekey, Answer, Answers
<1> QED BY <1>8, <1>9, <1>10

\* A request is answered by a response of its kind, and the own exchange
\* is left alone
LEMMA ServeFollows ==
    ASSUME NEW s, NEW p, NEW u, NEW nonce, NEW fault, Sound(s), Waiting(u)
    PROVE  /\ Follows(s, Serve(s, p, u.out, nonce, fault).s)
           /\ Serve(s, p, u.out, nonce, fault).response.type \in Answers[u.out.type]
<1>1. PICK m : m = u.out OBVIOUS
<1>2. m.type \in {"REKEY", "CREATE", "DELETE"} /\ (m.type = "DELETE" => IsSeq(m.sas))
  BY <1>1 DEF Waiting
<1>3. CASE m.type = "DELETE"
  <2>1. Serve(s, p, m, nonce, fault) = ServeDelete(s, p, m.sas) BY <1>3 DEF Serve
  <2>2. IsSeq(m.sas) BY <1>2, <1>3
  <2> QED BY <1>1, <1>3, <2>1, <2>2, ServeDeleteFollows DEF Answers
<1>4. CASE m.type = "CREATE"
  <2>1. Serve(s, p, m, nonce, fault) = ServeCreate(s, m.new, fault) BY <1>4 DEF Serve
  <2> QED BY <1>1, <1>4, <2>1, ServeCreateFollows
<1>5. CASE m.type = "REKEY"
  <2>1. Serve(s, p, m, nonce, fault) = ServeRekey(s, m.old, m.new, nonce, fault)
    BY <1>5 DEF Serve
  <2> QED BY <1>1, <1>5, <2>1, ServeRekeyFollows
<1> QED BY <1>2, <1>3, <1>4, <1>5

-----------------------------------------------------------------------------
(* Responses *)

\* A peer with no request out has none after what leaves the exchange alone
LEMMA OpenFollows ==
    ASSUME NEW s, NEW t, Open(s), Follows(s, t) PROVE Open(t)
BY DEF Open, Follows

\* Ending the task leaves the peer ready for the next one
LEMMA OpenDone == ASSUME NEW s, Open(s) PROVE Open(Done(s))
BY DEF Open, Done, Sound, IsPeer

\* A rekey task that goes on to another stage leaves the peer ready to build it
LEMMA OpenStage ==
    ASSUME NEW s, Open(s), IsRekey(s.active), NEW x \in Stages
    PROVE  Open(Stage(s, x))
<1>1. PICK a : a = [s.active EXCEPT !.stage = x] OBVIOUS
<1>2. IsRekey(a) BY <1>1 DEF IsRekey
<1>3. Stage(s, x) = [s EXCEPT !.active = a] BY <1>1 DEF Stage
<1> QED BY <1>2, <1>3 DEF Open, Sound, IsPeer, IsTask

\* A peer that processes the response to a rekey request
Rekeying(s) == Open(s) /\ IsRekey(s.active)

\* What Rekeying says, part by part
LEMMA RekeyingSound ==
    ASSUME NEW s, Rekeying(s) PROVE Sound(s) /\ Open(s) /\ IsRekey(s.active)
BY DEF Rekeying, Open

\* What leaves the exchange alone leaves the peer processing its response
LEMMA RekeyingFollows ==
    ASSUME NEW s, NEW t, Rekeying(s), Follows(s, t) PROVE Rekeying(t) /\ Sound(t)
BY DEF Rekeying, Open, Follows

\* The failed rekeying: the old CHILD_SA is kept or handed to the peer
LEMMA RekeyFailedOpen ==
    ASSUME NEW s, NEW p, Rekeying(s)
    PROVE  Open(RekeyFailed(s, p)) /\ Open(Done(IgnoreFailure(s, p)))
<1>1. Sound(s) /\ Open(s) BY RekeyingSound
<1>2. Follows(s, IgnoreFailure(s, p))
  BY <1>1, FollowsItself, HalvesWork, DestroyFollows DEF IgnoreFailure
<1>3. PICK t : t = ScheduleDelayedRekey(s, s.active.sa) OBVIOUS
<1>4. Follows(s, t) BY <1>1, <1>3, HalvesWork
<1>5. Open(Done(IgnoreFailure(s, p))) /\ Open(Done(t))
  BY <1>1, <1>2, <1>4, OpenFollows, OpenDone
<1> QED BY <1>3, <1>5 DEF RekeyFailed

\* A TEMPORARY_FAILURE ends the task and schedules another try
LEMMA RetryRekeyOpen ==
    ASSUME NEW s, NEW p, Rekeying(s)
    PROVE  Open(RetryRekey(s, p))
<1>1. Open([s EXCEPT !.active.retry = TRUE])
  <2>1. PICK a : a = [s.active EXCEPT !.retry = TRUE] OBVIOUS
  <2>2. IsRekey(a) BY <2>1 DEF IsRekey, Rekeying
  <2>3. [s EXCEPT !.active.retry = TRUE] = [s EXCEPT !.active = a] BY <2>1
  <2> QED BY <2>2, <2>3 DEF Rekeying, Open, Sound, IsPeer, IsTask
<1> QED BY <1>1, RekeyFailedOpen DEF RetryRekey

\* CHILD_SA_NOT_FOUND ends the task, deletes or recreates the CHILD_SA
LEMMA ChildSaNotFoundOpen ==
    ASSUME NEW s, NEW p, Rekeying(s)
    PROVE  Open(ChildSaNotFound(s, p))
<1>1. Sound(s) /\ Open(s) BY RekeyingSound
<1>2. PICK old : old = s.active.sa OBVIOUS
<1>3. PICK c : c = s.active.collision.sa OBVIOUS
<1>4. PICK r : r = CloseAction(p) OBVIOUS
<1>5. PICK d : d = DestroyRekeyed(s, old) OBVIOUS
<1>6. Follows(s, d) /\ Sound(d) BY <1>1, <1>5, HalvesWork DEF Follows
<1>7. Follows(s, Destroy(d, c, r)) BY <1>6, DestroyFollows, FollowsOn
<1>8. Follows(s, Destroy(s, old, TRUE)) /\ Follows(s, Destroy(s, old, r))
  BY <1>1, DestroyFollows
<1>9. /\ Open(Done(d)) /\ Open(Done(Destroy(d, c, r)))
      /\ Open(Done(Destroy(s, old, TRUE))) /\ Open(Done(Destroy(s, old, r)))
  BY <1>1, <1>6, <1>7, <1>8, OpenFollows, OpenDone
<1>10. ChildSaNotFound(s, p) \in {Done(d), Done(Destroy(d, c, r)),
                                  Done(Destroy(s, old, TRUE)), Done(Destroy(s, old, r))}
  BY <1>2, <1>3, <1>4, <1>5 DEF ChildSaNotFound
<1> QED BY <1>9, <1>10

\* A failure to install the new CHILD_SA leads to a clean-up stage
LEMMA LocalFailureOpen ==
    ASSUME NEW s, NEW p, NEW lost, Rekeying(s)
    PROVE  Open(LocalFailure(s, p, lost))
<1>1. Sound(s) /\ Open(s) /\ IsRekey(s.active) BY RekeyingSound
<1>2. PICK old : old = s.active.sa OBVIOUS
<1>3. PICK d : d = DestroyRekeyed(s, old) OBVIOUS
<1>4. Rekeying(d) BY <1>1, <1>3, HalvesWork, RekeyingFollows
<1>5. PICK e : e = Destroy(s, old, CloseAction(p)) OBVIOUS
<1>6. Open(Done(e)) BY <1>1, <1>5, DestroyFollows, OpenFollows, OpenDone
<1>7. \A x \in Stages : Open(Stage(s, x)) /\ Open(Stage(d, x))
  BY <1>1, <1>4, RekeyingSound, OpenStage
<1>8. /\ Open(Stage(d, "DELETE_REPLACEMENT")) /\ Open(Stage(s, "DELETE_REPLACEMENT"))
      /\ Open(Stage(s, "DELETE_OLD_DESTROY"))
      /\ Open(Stage(s, "DELETE_REPLACEMENT_RECREATE"))
      /\ Open(Stage(s, "DELETE_BOTH_RECREATE"))
  BY <1>7 DEF Stages
<1> QED BY <1>2, <1>3, <1>5, <1>6, <1>8 DEF LocalFailure

\* Losing a collision leaves the task as it is
LEMMA LoseCollisionFollows ==
    ASSUME NEW s, Sound(s) PROVE Follows(s, LoseCollision(s))
<1>1. PICK old : old = s.active.sa OBVIOUS
<1> QED BY <1>1, FollowsItself, HalvesWork, HalvesChange DEF LoseCollision

\* Winning a collision leaves the task as it is
LEMMA WinCollisionFollows ==
    ASSUME NEW s, Sound(s), IsRekey(s.active) PROVE Follows(s, WinCollision(s))
<1>1. PICK old : old = s.active.sa OBVIOUS
<1>2. PICK r : r = s.active.collision.sa OBVIOUS
<1>3. PICK a : a = [s EXCEPT !.active.collision = NoCollision] OBVIOUS
<1>4. PICK b : b = Unlink(a, old) OBVIOUS
<1>5. PICK c : c = Unlink(b, r) OBVIOUS
<1>6. PICK d : d = SetState(c, r, "REKEYED") OBVIOUS
<1>7. Follows(s, a) /\ Sound(a) BY <1>3, Notes DEF Follows
<1>8. Follows(s, b) /\ Sound(b) BY <1>4, <1>7, HalvesChange, FollowsOn DEF Follows
<1>9. Follows(s, c) /\ Sound(c) BY <1>5, <1>8, HalvesChange, FollowsOn DEF Follows
<1>10. Follows(s, d) /\ Sound(d) BY <1>6, <1>9, HalvesChange, FollowsOn DEF Follows
<1>11. Follows(s, RemoveOutbound(d, r)) BY <1>10, HalvesChange, FollowsOn
<1>12. Follows(s, DestroyRekeyed(a, r)) BY <1>7, HalvesWork, FollowsOn
<1> QED BY <1>1, <1>2, <1>3, <1>4, <1>5, <1>6, <1>7, <1>11, <1>12 DEF WinCollision

\* After the collision the task goes on to delete a CHILD_SA, or ends
LEMMA DeleteNextOpen ==
    ASSUME NEW s, NEW k, Rekeying(s) PROVE Open(DeleteNext(s, k))
<1>1. Sound(s) BY RekeyingSound
<1>2. PICK r : r = SetState(s, k, "REKEYED") OBVIOUS
<1>3. Rekeying(r) /\ Sound(r) BY <1>1, <1>2, HalvesChange, RekeyingFollows
<1>4. PICK q : q = IF r.half[k].out # "INSTALLED" THEN RemoveOutbound(r, k) ELSE r OBVIOUS
<1>5. Rekeying(q) BY <1>3, <1>4, HalvesChange, RekeyingFollows
<1>6. PICK a : a = [q.active EXCEPT !.stage = "DELETE", !.victim = k] OBVIOUS
<1>7. IsRekey(a) BY <1>5, <1>6 DEF IsRekey, Rekeying, Stages
<1>8. Open([q EXCEPT !.active = a])
  BY <1>5, <1>7 DEF Rekeying, Open, Sound, IsPeer, IsTask
<1>9. DeleteNext(s, k) = [q EXCEPT !.active.stage = "DELETE", !.active.victim = k]
  BY <1>2, <1>4 DEF DeleteNext
<1>10. [q EXCEPT !.active.stage = "DELETE", !.active.victim = k] = [q EXCEPT !.active = a]
  BY <1>5, <1>6 DEF Rekeying, Open, Sound, IsPeer
<1> QED BY <1>8, <1>9, <1>10

\* A rekeying that succeeded leaves the peer ready for initiate()
LEMMA RekeyDoneOpen ==
    ASSUME NEW s, NEW p, NEW lost \in BOOLEAN, Rekeying(s)
    PROVE  Open(RekeyDone(s, p, lost))
<1>0. Sound(s) BY RekeyingSound
<1>1. PICK old : old = s.active.sa OBVIOUS
<1>2. PICK new : new = s.active.new OBVIOUS
<1>3. PICK i : i = [s EXCEPT !.half[new] = [state |-> "INSTALLED",
                                   out |-> "REGISTERED", link |-> None]] OBVIOUS
<1>4. Rekeying(i) /\ Sound(i)
  <2>1. Follows(s, i) BY <1>0, <1>3 DEF Follows, Sound, IsPeer
  <2> QED BY <2>1, RekeyingFollows
<1>5. PICK r : r = IF lost THEN LoseCollision(i) ELSE WinCollision(i) OBVIOUS
<1>6. Rekeying(r) /\ Sound(r)
  BY <1>4, <1>5, LoseCollisionFollows, WinCollisionFollows, RekeyingFollows, RekeyingSound
<1>7. PICK w : w = DeletedWinner(s, lost) OBVIOUS
<1>8. PICK t : t = IF w # None THEN Destroy(r, w, CloseAction(p))
                   ELSE IF lost THEN r ELSE ConcludeRekeying(r, old, new) OBVIOUS
<1>9. Rekeying(t) /\ Sound(t)
  BY <1>6, <1>8, DestroyFollows, HalvesWork, RekeyingFollows
<1>10. PICK d : d = DestroyRekeyed(t, old) OBVIOUS
<1>11. Open(Done(d)) BY <1>9, <1>10, HalvesWork, RekeyingFollows, RekeyingSound, OpenDone
<1>12. Open(DeleteNext(t, new)) /\ Open(DeleteNext(t, old)) BY <1>9, DeleteNextOpen
<1>13. RekeyDone(s, p, lost) \in {Done(d), DeleteNext(t, new), DeleteNext(t, old)}
  BY <1>1, <1>2, <1>3, <1>5, <1>7, <1>8, <1>10 DEF RekeyDone
<1> QED BY <1>11, <1>12, <1>13

\* process_i() of child_rekey.c, whatever the response to its request says
LEMMA RekeyResponseOpen ==
    ASSUME NEW s, NEW p, NEW r, NEW fault, NEW garbage \in BOOLEAN, Rekeying(s),
           r.type \in Answers["REKEY"]
    PROVE  Open(RekeyResponse(s, p, r, fault, garbage))
<1>1. r.type \in {"CREATED", "CHILD_SA_NOT_FOUND", "TEMPORARY_FAILURE", "FAILED",
                  "INVALID_KE_PAYLOAD"}
  BY DEF Answers
<1>2. CASE r.type = "CHILD_SA_NOT_FOUND"
  BY <1>2, ChildSaNotFoundOpen DEF RekeyResponse
<1>3. CASE r.type \in {"TEMPORARY_FAILURE", "FAILED"}
  BY <1>3, RekeyFailedOpen DEF RekeyResponse
<1>4. CASE r.type = "INVALID_KE_PAYLOAD"
  BY <1>4, RetryRekeyOpen DEF RekeyResponse
<1>5. CASE r.type = "CREATED"
  <2>1. PICK lost : lost = Lost(s, r.nonce, garbage) OBVIOUS
  <2>2. lost \in BOOLEAN BY <2>1 DEF Lost
  <2>3. Open(LocalFailure(s, p, lost)) BY LocalFailureOpen
  <2>4. Open(RekeyDone(s, p, lost)) BY <2>2, RekeyDoneOpen
  <2>5. RekeyResponse(s, p, r, fault, garbage)
          \in {LocalFailure(s, p, lost), RekeyDone(s, p, lost)}
    BY <1>5, <2>1 DEF RekeyResponse
  <2> QED BY <2>3, <2>4, <2>5
<1> QED BY <1>1, <1>2, <1>3, <1>4, <1>5

\* process_i() of child_create.c, whatever the response says
LEMMA CreateResponseOpen ==
    ASSUME NEW s, NEW r, NEW fault, Open(s), IsCreate(s.active)
    PROVE  Open(CreateResponse(s, r, fault))
<1>1. Open(Done(s)) BY OpenDone
<1>2. Open(Stage(s, "DELETE_FAILED"))
  <2>1. PICK a : a = [s.active EXCEPT !.stage = "DELETE_FAILED"] OBVIOUS
  <2>2. IsCreate(a) BY <2>1 DEF IsCreate
  <2>3. Stage(s, "DELETE_FAILED") = [s EXCEPT !.active = a] BY <2>1 DEF Stage
  <2> QED BY <2>2, <2>3 DEF Open, Sound, IsPeer, IsTask
<1>3. PICK h : h = [state |-> "INSTALLED", out |-> "INSTALLED", link |-> None] OBVIOUS
<1>4. PICK t : t = [s EXCEPT !.half[s.active.new] = h] OBVIOUS
<1>5. Open(t) BY <1>4 DEF Open, Sound, IsPeer
<1>6. Open(Done(t)) BY <1>5, OpenDone
<1>7. Open([s EXCEPT !.active.retry = TRUE])
  <2>1. PICK a : a = [s.active EXCEPT !.retry = TRUE] OBVIOUS
  <2>2. IsCreate(a) BY <2>1 DEF IsCreate
  <2>3. [s EXCEPT !.active.retry = TRUE] = [s EXCEPT !.active = a]
    BY <2>1 DEF Open, Sound, IsPeer
  <2> QED BY <2>2, <2>3 DEF Open, Sound, IsPeer, IsTask
<1> QED BY <1>1, <1>2, <1>3, <1>4, <1>6, <1>7 DEF CreateResponse

\* What Awaits says, one kind of request at a time
LEMMA AwaitsIs ==
    ASSUME NEW s, Awaits(s)
    PROVE  /\ s.out.type = "REKEY" =>
                s.active.type = "REKEY" /\ s.active.stage = "CREATE"
           /\ s.out.type = "CREATE" => s.active.type = "CREATE"
           /\ s.out.type = "DELETE" =>
                \/ s.active = NoTask
                \/ s.active.type = "DELETE"
                \/ s.active.type = "REKEY" /\ s.active.stage = "DELETE"
<1>1. s.out.type = "REKEY" => s.active.type = "REKEY" /\ s.active.stage = "CREATE"
  BY DEF Awaits
<1>2. s.out.type = "CREATE" => s.active.type = "CREATE" BY DEF Awaits
<1>3. ASSUME s.out.type = "DELETE"
      PROVE  \/ s.active = NoTask
             \/ s.active.type = "DELETE"
             \/ s.active.type = "REKEY" /\ s.active.stage = "DELETE"
  BY <1>3 DEF Awaits
<1> QED BY <1>1, <1>2, <1>3

\* process_response() leaves the peer ready for initiate()
LEMMA ProcessOpen ==
    ASSUME NEW u, NEW p, NEW r, NEW fault, NEW garbage \in BOOLEAN, Waiting(u),
           r.type \in Answers[u.out.type]
    PROVE  Open(Process([u EXCEPT !.out = NoMsg], p, r, fault, garbage))
<1>1. PICK s : s = [u EXCEPT !.out = NoMsg] OBVIOUS
<1>2. Open(s) /\ s.active = u.active BY <1>1 DEF Waiting, Open, Sound, IsPeer
<1>3. s.active = NoTask \/ IsRekey(s.active) \/ IsDelete(s.active) \/ IsCreate(s.active)
  BY <1>2 DEF Open, Sound, IsTask
<1>4. PICK t : t = Process(s, p, r, fault, garbage) OBVIOUS
<1> SUFFICES Open(t) BY <1>1, <1>4
<1>5. /\ u.out.type \in {"REKEY", "CREATE", "DELETE"} /\ Awaits(u)
  BY DEF Waiting
<1>6. CASE s.active = NoTask
  <2>1. s.active.type = "NONE" BY <1>6 DEF NoTask
  <2>2. t = s BY <1>4, <2>1 DEF Process
  <2> QED BY <1>2, <2>2
<1>7. CASE IsCreate(s.active)
  <2>1. s.active.type = "CREATE" BY <1>7 DEF IsCreate
  <2>2. t = CreateResponse(s, r, fault) BY <1>4, <2>1 DEF Process
  <2> QED BY <1>2, <1>7, <2>2, CreateResponseOpen
<1>8. CASE IsRekey(s.active) /\ s.active.stage = "CREATE"
  <2>1. s.active.type = "REKEY" /\ s.active # NoTask BY <1>8 DEF IsRekey, NoTask
  <2>2. t = RekeyResponse(s, p, r, fault, garbage) BY <1>4, <1>8, <2>1 DEF Process
  <2>3. u.out.type = "REKEY" BY <1>2, <1>5, <1>8, <2>1, AwaitsIs
  <2>4. Rekeying(s) BY <1>2, <1>8 DEF Rekeying
  <2> QED BY <2>2, <2>3, <2>4, RekeyResponseOpen
<1>9. CASE \/ IsDelete(s.active)
           \/ IsRekey(s.active) /\ s.active.stage # "CREATE"
  <2>1. /\ s.active.type \in {"DELETE", "REKEY"} /\ s.active # NoTask
        /\ s.active.type = "REKEY" => s.active.stage # "CREATE"
    BY <1>9 DEF IsDelete, IsRekey, NoTask
  <2>2. PICK es : es = s.active.entries OBVIOUS
  <2>3. t = Done(DestroyEntries(s, p, es, TRUE)) BY <1>4, <2>1, <2>2 DEF Process
  <2>4. u.out.type = "DELETE" BY <1>2, <1>5, <2>1, AwaitsIs
  <2>5. IsSeq(es) BY <1>2, <2>1, <2>2, <2>4 DEF Waiting
  <2>6. Open(DestroyEntries(s, p, es, TRUE))
    BY <1>2, <2>5, DestroyEntriesFollows, OpenFollows DEF Open
  <2> QED BY <2>3, <2>6, OpenDone
<1> QED BY <1>3, <1>6, <1>7, <1>8, <1>9

-----------------------------------------------------------------------------
(* The invariant and the theorem *)

\* The inductive invariant: every peer has finished initiating, and the responses
\* in flight answer the requests they respond to
Matched ==
    /\ DOMAIN peer = Peer /\ DOMAIN resp = Peer
    /\ \A p \in Peer :
         /\ Finished(peer[p])
         /\ \/ resp[p] = NoMsg
            \/ Waiting(peer[p]) /\ resp[p].type \in Answers[peer[p].out.type]

\* Whatever a peer learns while it waits, it goes on waiting for the same response
LEMMA WaitingFollows ==
    ASSUME NEW s, NEW t, Waiting(s), Follows(s, t) PROVE Waiting(t)
<1>1. Sound(t) /\ t.out = s.out BY DEF Follows
<1>2. CASE t.active = s.active
  <2>1. Awaits(t)
    <3>1. s.out.type # "NONE" BY DEF Waiting
    <3> QED BY <1>1, <1>2, <3>1 DEF Waiting, Awaits
  <2> QED BY <1>1, <1>2, <2>1 DEF Waiting
<1>3. CASE t.active # s.active
  <2>1. /\ IsRekey(s.active) /\ IsRekey(t.active)
        /\ t.active.stage = s.active.stage /\ t.active.sa = s.active.sa
        /\ t.active.new = s.active.new /\ t.active.entries = s.active.entries
    BY <1>3 DEF Follows
  <2>2. /\ s.active.type = "REKEY" /\ t.active.type = "REKEY"
        /\ s.active # NoTask /\ t.active # NoTask
    BY <2>1 DEF IsRekey, NoTask
  <2>3. Awaits(t)
    <3>1. s.out.type \in {"REKEY", "CREATE", "DELETE"} /\ Awaits(s) BY DEF Waiting
    <3>2. s.out.type # "CREATE" BY <2>2, <3>1, AwaitsIs
    <3>3. CASE s.out.type = "REKEY"
      BY <1>1, <2>1, <2>2, <3>1, <3>3 DEF Awaits
    <3>4. CASE s.out.type = "DELETE"
      BY <1>1, <2>1, <2>2, <3>1, <3>4 DEF Awaits
    <3> QED BY <3>1, <3>2, <3>3, <3>4
  <2> QED BY <1>1, <2>1, <2>2, <2>3 DEF Waiting
<1> QED BY <1>2, <1>3

\* initiate() does nothing while a request is out
LEMMA InitiateStays ==
    ASSUME NEW s, NEW p, NEW fails, Waiting(s)
    PROVE  Initiate(s, p, fails) = s
<1>1. PICK N \in Nat : N = Len(s.queue) + 2 BY DEF Waiting, Sound
<1>2. PICK f : InitiateRun(f, N, s, p, fails) /\ Initiate(s, p, fails) = f[N]
  <2>1. PICK f : f = CHOOSE g : g = [n \in 0..N |-> IF n = 0 THEN s
                                       ELSE InitiateStep(g[n - 1], p, fails)]
    OBVIOUS
  <2>2. InitiateRun(f, N, s, p, fails) BY <2>1, InitiateRunExists DEF InitiateRun
  <2>3. Initiate(s, p, fails) = f[N] BY <1>1, <2>1 DEF Initiate
  <2> QED BY <2>2, <2>3
<1>3. Finished(s) BY DEF Finished
<1> DEFINE S == {n \in Nat : n <= N => f[n] = s}
<1>4. 0 \in S
  <2>1. f[0] = s BY <1>2 DEF InitiateRun
  <2> QED BY <2>1
<1>5. ASSUME NEW n \in Nat, n \in S PROVE n + 1 \in S
  <2>1. SUFFICES ASSUME n + 1 <= N PROVE f[n + 1] = s OBVIOUS
  <2>2. f[n + 1] = InitiateStep(f[n], p, fails)
    <3>1. n + 1 \in 0..N /\ n + 1 # 0 /\ (n + 1) - 1 = n BY <2>1
    <3> QED BY <1>2, <3>1 DEF InitiateRun
  <2>3. f[n] = s BY <1>5, <2>1
  <2> QED BY <1>3, <2>2, <2>3, FinishedStays
<1> HIDE DEF S
<1>6. N \in S BY <1>4, <1>5, Induct
<1> QED BY <1>2, <1>6 DEF S

\* A handler that leaves the peer in s, which follows from what it was
LEMMA FinishMatches ==
    ASSUME Matched, NEW p \in Peer, NEW s, NEW fault, Follows(peer[p], s),
           Finish(p, s, fault)
    PROVE  /\ DOMAIN peer' = Peer
           /\ \A q \in Peer \ {p} : peer'[q] = peer[q]
           /\ Finished(peer'[p])
           /\ Waiting(peer[p]) => Waiting(peer'[p]) /\ peer'[p].out = peer[p].out
<1>1. Finished(peer[p]) /\ DOMAIN peer = Peer BY DEF Matched
<1>2. PICK fails : fails = (fault = "build") OBVIOUS
<1>3. peer' = [peer EXCEPT ![p] = Initiate(s, p, fails)] BY <1>2 DEF Finish
<1>4. DOMAIN peer' = Peer /\ peer'[p] = Initiate(s, p, fails)
      /\ \A q \in Peer \ {p} : peer'[q] = peer[q]
  BY <1>1, <1>3
<1>5. CASE Waiting(peer[p])
  <2>1. Waiting(s) /\ s.out = peer[p].out BY <1>5, WaitingFollows DEF Follows
  <2>2. peer'[p] = s BY <1>4, <2>1, InitiateStays
  <2> QED BY <1>4, <2>1, <2>2 DEF Finished
<1>6. CASE ~Waiting(peer[p])
  <2>1. Open(s) BY <1>1, <1>6, OpenFollows DEF Finished, Open
  <2>2. Finished(peer'[p]) BY <1>4, <2>1, InitiateFinishes
  <2> QED BY <1>4, <1>6, <2>2
<1> QED BY <1>5, <1>6

\* A job queues a task and calls initiate()
LEMMA JobMatches ==
    ASSUME Matched, NEW p \in Peer, NEW s, NEW task \in QueuedTask,
           Calm(peer[p], s), Job(p, s, task)
    PROVE  Matched'
<1>1. Sound(peer[p])
  BY DEF Matched, Finished, Waiting
<1>2. Follows(peer[p], s) /\ Sound(s) BY <1>1, CalmFollows DEF Follows
<1>3. PICK t : t = Queue(s, task) OBVIOUS
<1>4. Follows(peer[p], t) BY <1>2, <1>3, QueueFollows, FollowsOn
<1>5. PICK fault : Finish(p, t, fault) BY <1>3 DEF Job
<1>6. resp' = resp BY DEF Job
<1>7. /\ DOMAIN peer' = Peer /\ Finished(peer'[p])
      /\ \A q \in Peer \ {p} : peer'[q] = peer[q]
      /\ Waiting(peer[p]) => Waiting(peer'[p]) /\ peer'[p].out = peer[p].out
  BY <1>4, <1>5, FinishMatches
<1> QED BY <1>6, <1>7 DEF Matched

\* A rekeying, delete or expiry asked for from outside is such a job
LEMMA EventMatches ==
    ASSUME Matched, NEW p \in Peer, NEW kind, NEW task \in QueuedTask,
           Event(p, kind, task)
    PROVE  Matched'
<1>1. PICK s : s = [peer[p] EXCEPT !.events = @ + 1] OBVIOUS
<1>2. IsPeer(peer[p]) BY DEF Matched, Finished, Waiting, Sound
<1>3. Calm(peer[p], s) BY <1>1, <1>2 DEF Calm, IsPeer
<1>4. Job(p, s, task) BY <1>1 DEF Event
<1> QED BY <1>3, <1>4, JobMatches

\* Every job of ChildRekey keeps the exchanges matched
LEMMA JobsMatch ==
    ASSUME Matched, NEW p \in Peer, NEW k \in Sa,
           \/ Rekey(p, k) \/ Delete(p, k) \/ Expire(p, k)
           \/ DestroyJob(p, k) \/ RetryJob(p, k)
    PROVE  Matched'
<1>1. RekeyTask(k) \in QueuedTask /\ DeleteTask(k, FALSE) \in QueuedTask
      /\ DeleteTask(k, TRUE) \in QueuedTask
  <2>1. RekeyTask(k) \in QueuedTask BY DEF QueuedTask
  <2>2. ASSUME NEW e \in BOOLEAN PROVE DeleteTask(k, e) \in QueuedTask
    BY <2>2 DEF QueuedTask
  <2> QED BY <2>1, <2>2
<1>2. CASE Rekey(p, k) BY <1>1, <1>2, EventMatches DEF Rekey
<1>3. CASE Delete(p, k) BY <1>1, <1>3, EventMatches DEF Delete
<1>4. CASE Expire(p, k) BY <1>1, <1>4, EventMatches DEF Expire
<1>5. IsPeer(peer[p]) BY DEF Matched, Finished, Waiting, Sound
<1>6. CASE DestroyJob(p, k)
  <2>1. PICK s : s = [peer[p] EXCEPT !.linger = @ \ {k}] OBVIOUS
  <2>2. Calm(peer[p], s) BY <1>5, <2>1 DEF Calm, IsPeer
  <2>3. Job(p, s, DeleteTask(k, FALSE)) BY <1>6, <2>1 DEF DestroyJob
  <2> QED BY <1>1, <2>2, <2>3, JobMatches
<1>7. CASE RetryJob(p, k)
  <2>1. PICK s : s = [peer[p] EXCEPT !.retry = @ \ {k}, !.events = @ + 1] OBVIOUS
  <2>2. Calm(peer[p], s) BY <1>5, <2>1 DEF Calm, IsPeer
  <2>3. Job(p, s, RekeyTask(k)) BY <1>7, <2>1 DEF RetryJob
  <2> QED BY <1>1, <2>2, <2>3, JobMatches
<1> QED BY <1>2, <1>3, <1>4, <1>6, <1>7

\* A served request keeps the exchanges of both peers matched
LEMMA RequestMatches ==
    ASSUME Matched, NEW p \in Peer, ReceiveRequest(p)
    PROVE  Matched'
<1>1. PICK q \in Peer : q = Other(p) /\ q # p BY DEF Peer, Other
<1>2. /\ peer[q].out # NoMsg /\ resp[q] = NoMsg BY <1>1 DEF ReceiveRequest
<1>3. Waiting(peer[q]) BY <1>2 DEF Matched, Finished
<1>4. PICK nonce, fault :
        LET answer == Serve(peer[p], p, peer[q].out, nonce, fault)
        IN  Finish(p, answer.s, fault) /\ resp' = [resp EXCEPT ![q] = answer.response]
  BY <1>1 DEF ReceiveRequest
<1>5. PICK answer : answer = Serve(peer[p], p, peer[q].out, nonce, fault) OBVIOUS
<1>6. Sound(peer[p]) BY DEF Matched, Finished, Waiting
<1>7. Follows(peer[p], answer.s) /\ answer.response.type \in Answers[peer[q].out.type]
  BY <1>3, <1>5, <1>6, ServeFollows
<1>8. PICK t : t = answer.s OBVIOUS
<1>9. Finish(p, t, fault) /\ resp' = [resp EXCEPT ![q] = answer.response]
  BY <1>4, <1>5, <1>8
<1>10. /\ DOMAIN peer' = Peer /\ Finished(peer'[p])
       /\ \A r \in Peer \ {p} : peer'[r] = peer[r]
       /\ Waiting(peer[p]) => Waiting(peer'[p]) /\ peer'[p].out = peer[p].out
  BY <1>7, <1>8, <1>9, FinishMatches
<1>11. DOMAIN resp' = Peer /\ resp'[q] = answer.response
       /\ \A r \in Peer \ {q} : resp'[r] = resp[r]
  BY <1>9 DEF Matched
<1>12. ASSUME NEW r \in Peer
       PROVE  /\ Finished(peer'[r])
              /\ \/ resp'[r] = NoMsg
                 \/ Waiting(peer'[r]) /\ resp'[r].type \in Answers[peer'[r].out.type]
  <2>1. r = p \/ r = q BY <1>1 DEF Peer, Other
  <2>2. r = p => /\ Finished(peer'[r])
                 /\ \/ resp'[r] = NoMsg
                    \/ Waiting(peer'[r]) /\ resp'[r].type \in Answers[peer'[r].out.type]
    BY <1>1, <1>10, <1>11 DEF Matched
  <2>3. r = q => /\ Finished(peer'[r])
                 /\ \/ resp'[r] = NoMsg
                    \/ Waiting(peer'[r]) /\ resp'[r].type \in Answers[peer'[r].out.type]
    BY <1>1, <1>3, <1>7, <1>10, <1>11 DEF Finished
  <2> QED BY <2>1, <2>2, <2>3
<1> QED BY <1>10, <1>11, <1>12 DEF Matched

\* A processed response starts the next exchange, or none
LEMMA ResponseMatches ==
    ASSUME Matched, NEW p \in Peer, ReceiveResponse(p)
    PROVE  Matched'
<1>1. PICK u : u = peer[p] OBVIOUS
<1>2. PICK s : s = [u EXCEPT !.out = NoMsg] OBVIOUS
<1>3. resp[p] # NoMsg /\ resp' = [resp EXCEPT ![p] = NoMsg] BY DEF ReceiveResponse
<1>4. Waiting(u) /\ resp[p].type \in Answers[u.out.type] BY <1>1, <1>3 DEF Matched
<1>5. PICK fault : \E garbage \in BOOLEAN :
        Finish(p, Process(s, p, resp[p], fault, garbage), fault)
  BY <1>1, <1>2 DEF ReceiveResponse
<1>. PICK garbage \in BOOLEAN : Finish(p, Process(s, p, resp[p], fault, garbage), fault)
  BY <1>5
<1>6. PICK t : t = Process(s, p, resp[p], fault, garbage) OBVIOUS
<1>7. Open(t) BY <1>2, <1>4, <1>6, ProcessOpen
<1>8. PICK fails : fails = (fault = "build") OBVIOUS
<1>9. peer' = [peer EXCEPT ![p] = Initiate(t, p, fails)] BY <1>6, <1>8 DEF Finish
<1>10. Finished(Initiate(t, p, fails)) BY <1>7, InitiateFinishes
<1> QED BY <1>3, <1>9, <1>10 DEF Matched

\* Every response finds the task that asked for it, for any CHILD_SAs, any number
\* of rekeyings, deletes and expiries and any failures: the request that initiate()
\* of task_manager_v2.c has sent is one the active task built, about the same SAs
\* and in the stage it is still in, and the response under way is one that
\* process_response() can give to that task.  Nothing that handle_delete(),
\* collide() or a job does meanwhile (child_rekey.c, child_delete.c) changes the
\* task under a response.
THEOREM ExchangesMatched == Spec => []ExchangesMatch
<1>1. Init => Matched
  <2> SUFFICES ASSUME Init PROVE Matched OBVIOUS
  <2>1. ASSUME NEW p \in Peer PROVE Finished(peer[p]) /\ resp[p] = NoMsg
    <3>1. << >> \in Seq(QueuedTask) OBVIOUS
    <3> QED BY <3>1 DEF Init, Finished, Sound, IsPeer
  <2> QED BY <2>1 DEF Init, Matched
<1>2. Matched /\ [Next]_vars => Matched'
  <2> SUFFICES ASSUME Matched, [Next]_vars PROVE Matched' OBVIOUS
  <2>1. CASE UNCHANGED vars BY <2>1 DEF vars, Matched
  <2>2. ASSUME NEW p \in Peer, ReceiveRequest(p) PROVE Matched' BY <2>2, RequestMatches
  <2>3. ASSUME NEW p \in Peer, ReceiveResponse(p) PROVE Matched' BY <2>3, ResponseMatches
  <2>4. ASSUME NEW p \in Peer, NEW k \in Sa,
               Rekey(p, k) \/ Delete(p, k) \/ Expire(p, k) \/ DestroyJob(p, k) \/ RetryJob(p, k)
        PROVE  Matched'
    BY <2>4, JobsMatch
  <2> QED BY <2>1, <2>2, <2>3, <2>4 DEF Next
<1>3. Matched => ExchangesMatch
  <2> SUFFICES ASSUME Matched, NEW p \in Peer
               PROVE  /\ Awaits(peer[p])
                      /\ resp[p].type \in {"NONE"} \cup Answers[peer[p].out.type]
    BY DEF ExchangesMatch
  <2>1. Awaits(peer[p])
    <3>1. Waiting(peer[p]) => Awaits(peer[p]) BY DEF Waiting
    <3>2. peer[p].out = NoMsg /\ peer[p].active = NoTask /\ peer[p].queue = << >>
            => Awaits(peer[p])
      BY DEF Awaits, NoMsg
    <3> QED BY <3>1, <3>2 DEF Matched, Finished
  <2>2. resp[p].type \in {"NONE"} \cup Answers[peer[p].out.type] BY DEF Matched, NoMsg
  <2> QED BY <2>1, <2>2
<1> QED BY <1>1, <1>2, <1>3, PTL DEF Spec
=============================================================================
