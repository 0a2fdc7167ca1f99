----------------------------- MODULE ChildRekey -----------------------------
(***************************************************************************)
(* CHILD_SAs of one IKE_SA at both of its ends: how they are rekeyed,      *)
(* deleted and recreated by the tasks child_rekey.c, child_delete.c and    *)
(* child_create.c, and how rekeyings and deletes that the two peers start  *)
(* at the same time collide.                                               *)
(*                                                                         *)
(* A CHILD_SA has a half at each peer; both halves carry the same          *)
(* identifier, which stands for the two SPIs.  Every handler of a peer is  *)
(* atomic, as the IKE_SA is checked out.  Exchanges are those of           *)
(* TaskManager: each peer has one request outstanding, it is processed     *)
(* exactly once, and the two directions are independent.                   *)
(***************************************************************************)
EXTENDS Naturals, Sequences, FiniteSets, SequencesExt

CONSTANTS
    MaxOwn,      \* bound: CHILD_SAs a peer creates as initiator
    MaxEvents,   \* bound, per peer: jobs and user requests
    Events,      \* [Peer -> SUBSET {"rekey", "delete", "expire"}]
    Faults,      \* failures that happen, a subset of Fault
    MaxFaults,   \* bound: failures per behaviour
    Restart,     \* peers whose config has close_action = start
    Linger       \* are rekeyed SAs kept for delete_rekeyed_delay?

Peer == {"i", "r"}

Other(p) == IF p = "i" THEN "r" ELSE "i"

\* "build"      : child_create fails to build the rekey request
\* "refuse"     : the responder fails before it creates the CHILD_SA object
\* "install_r"  : the responder fails after it created the CHILD_SA object
\* "invalid_ke" : the responder asks for a different key exchange method
\* "install_i"  : the initiator fails to install the CHILD_SA it negotiated
Fault == {"build", "refuse", "install_r", "invalid_ke", "install_i"}

ASSUME ConstantAssumption ==
    /\ MaxOwn \in Nat
    /\ MaxEvents \in [Peer -> Nat]
    /\ Events \in [Peer -> SUBSET {"rekey", "delete", "expire"}]
    /\ Faults \subseteq Fault
    /\ MaxFaults \in Nat
    /\ Restart \subseteq Peer
    /\ Linger \in BOOLEAN

None == 0

Initial == 1

Own(p) == IF p = "i" THEN 2..(MaxOwn + 1) ELSE (MaxOwn + 2)..(2 * MaxOwn + 1)

Sa == {Initial} \cup Own("i") \cup Own("r")

ChildState == {"NONE", "INSTALLED", "REKEYING", "REKEYED", "DELETING", "DELETED"}

\* outbound_state; "KEYLESS" is an outbound SA installed after remove_outbound()
\* cleared the keys that register_outbound() had kept for it.
OutboundState == {"NONE", "REGISTERED", "INSTALLED", "KEYLESS"}

NoHalf == [state |-> "NONE", out |-> "NONE", link |-> None]

NoMsg == [type |-> "NONE"]

NoTask == [type |-> "NONE"]

NoCollision == [sa |-> None, nonce |-> 0, freed |-> FALSE]

RekeyTask(k) ==
    [type |-> "REKEY", stage |-> "CREATE", sa |-> k, new |-> None,
     retry |-> FALSE, flags |-> {}, gone |-> {}, collision |-> NoCollision,
     victim |-> None, entries |-> << >>]

DeleteTask(k, expired) ==
    [type |-> "DELETE", sa |-> k, expired |-> expired, entries |-> << >>]

CreateTask == [type |-> "CREATE", stage |-> "CREATE", new |-> None, retry |-> FALSE]

VARIABLES
    peer,   \* [Peer -> what the IKE_SA of that peer holds]
    resp,   \* [Peer -> the response in flight to its request, or NoMsg]
    faults, \* number of failures so far
    causes  \* history: why the peers may be without a CHILD_SA, or disagree

vars == << peer, resp, faults, causes >>

-----------------------------------------------------------------------------
(* CHILD_SA halves.  s is the state of one peer; every operator returns the *)
(* state after the call.                                                    *)

Exists(s, k) == s.half[k].state # "NONE"

SetState(s, k, state) == [s EXCEPT !.half[k].state = state]

RemoveOutbound(s, k) == [s EXCEPT !.half[k].out = "NONE"]

InstallOutbound(s, k) ==
    [s EXCEPT !.half[k].out =
        IF @ \in {"REGISTERED", "INSTALLED"} THEN "INSTALLED" ELSE "KEYLESS"]

Unlink(s, k) == [s EXCEPT !.half[k].link = None]

Queue(s, task) == [s EXCEPT !.queue = Append(@, task)]

\* destroy_and_reestablish_internal(): destroys the half without looking at
\* what refers to it, and recreates the CHILD_SA if restart says so.
Destroy(s, k, restart) ==
    LET destroyed == [s EXCEPT !.half[k] = NoHalf, !.linger = @ \ {k},
                               !.retry = @ \ {k}]
    IN  IF restart THEN Queue(destroyed, CreateTask) ELSE destroyed

CloseAction(p) == p \in Restart

\* child_delete_destroy_rekeyed(): normally a job destroys the SA later on.
DestroyRekeyed(s, k) ==
    LET deleted == SetState(RemoveOutbound(s, k), k, "DELETED")
    IN  IF Linger THEN [deleted EXCEPT !.linger = @ \cup {k}]
                  ELSE Destroy(deleted, k, FALSE)

MutConcludeRekeying(s, old, new) == RemoveOutbound(s, old)

\* child_rekey_conclude_rekeying()
ConcludeRekeying(s, old, new) == RemoveOutbound(InstallOutbound(s, new), old)

\* conclude_rekeying() of child_delete.c
Conclude(s, old) ==
    LET new == s.half[old].link
    IN  ConcludeRekeying(Unlink(Unlink(s, old), new), old, new)

\* schedule_delayed_rekey()
ScheduleDelayedRekey(s, k) ==
    [SetState(s, k, "INSTALLED") EXCEPT !.retry = @ \cup {k}]

-----------------------------------------------------------------------------
(* Building requests.  A step of initiate() takes the active task, or the   *)
(* first queued one of the most urgent type, and builds its request; a task *)
(* may also end without one, and initiate() then starts over.               *)

Done(s) == [s EXCEPT !.active = NoTask]

Send(s, message) == [s EXCEPT !.out = message]

DeleteMsg(sas) == [type |-> "DELETE", sas |-> sas]

\* child_delete.c build_i(); a rekey task uses it as a subtask.
BuildDelete(s, k, expired) ==
    LET other == s.half[k].link
        linked ==
            IF other = None THEN s
            ELSE IF s.half[k].state = "REKEYED"
                 THEN Conclude(SetState(s, k, "DELETED"), k)
                 ELSE Conclude(s, other)
        orig == linked.half[k].state
        sent == Send([SetState(linked, k, "DELETING") EXCEPT
                        !.active.entries =
                            << [sa |-> k, orig |-> orig, collision |-> "NONE"] >>],
                     DeleteMsg(<< k >>))
    IN  IF ~Exists(s, k) THEN Done(s)
        ELSE IF orig = "DELETED" THEN Done(Destroy(linked, k, FALSE))
        ELSE IF expired THEN Queue(sent, CreateTask) ELSE sent

\* child_rekey.c build_i()
BuildRekey(s, p, fails) ==
    LET task == s.active
        k    == task.sa
        fit  == IF task.new = None THEN "INSTALLED" ELSE "REKEYING"
        new  == IF task.new = None THEN s.next ELSE task.new
    IN  IF s.half[k].state # fit THEN Done(s)
        ELSE IF fails THEN Done(ScheduleDelayedRekey(s, k))
        ELSE Send([SetState(s, k, "REKEYING") EXCEPT
                     !.active.new = new,
                     !.next = IF task.new = None THEN @ + 1 ELSE @],
                  [type |-> "REKEY", old |-> k, new |-> new])

\* child_create.c build_i() with check_for_duplicate(), and build_i_delete()
BuildCreate(s) ==
    LET first == s.active.new = None
        new == IF first THEN s.next ELSE s.active.new
    IN  IF s.active.stage = "DELETE_FAILED"
        THEN Done(Send(s, DeleteMsg(<< new >>)))
        ELSE IF \E k \in Sa : s.half[k].state = "INSTALLED"
        THEN Done(s)
        ELSE Send([s EXCEPT !.active.new = new,
                            !.next = IF first THEN @ + 1 ELSE @],
                  [type |-> "CREATE", new |-> new])

\* The build functions of a rekey task that has to clean up.
BuildCleanup(s, p) ==
    LET old == s.active.sa
        new == s.active.new
    IN  CASE s.active.stage = "DELETE_REPLACEMENT" ->
               Done(Send(s, DeleteMsg(<< new >>)))
          [] s.active.stage = "DELETE_OLD_DESTROY" ->
               Done(Destroy(Send(s, DeleteMsg(<< old >>)), old, CloseAction(p)))
          [] s.active.stage = "DELETE_BOTH_RECREATE" ->
               Done(Destroy(Send(s, DeleteMsg(<< old, new >>)), old, TRUE))
          [] s.active.stage = "DELETE_REPLACEMENT_RECREATE" ->
               Done(Destroy(Send(s, DeleteMsg(<< new >>)), old, TRUE))

Build(s, p, fails) ==
    CASE s.active.type = "DELETE" ->
           BuildDelete(s, s.active.sa, s.active.expired)
      [] s.active.type = "CREATE" -> BuildCreate(s)
      [] s.active.type = "REKEY" /\ s.active.stage = "CREATE" ->
           BuildRekey(s, p, fails)
      [] s.active.type = "REKEY" /\ s.active.stage = "DELETE" ->
           BuildDelete(s, s.active.victim, FALSE)
      [] OTHER -> BuildCleanup(s, p)

\* activate_task(): deletes before creates before rekeyings, each type in the
\* order in which its tasks were queued.
Urgency == [DELETE |-> 1, CREATE |-> 2, REKEY |-> 3]

NextTask(queue) ==
    CHOOSE n \in DOMAIN queue : \A m \in DOMAIN queue :
        \/ Urgency[queue[n].type] < Urgency[queue[m].type]
        \/ Urgency[queue[n].type] = Urgency[queue[m].type] /\ n <= m

InitiateStep(s, p, fails) ==
    IF s.out # NoMsg \/ (s.active = NoTask /\ s.queue = << >>) THEN s
    ELSE IF s.active # NoTask THEN Build(s, p, fails)
    ELSE LET n == NextTask(s.queue)
         IN  Build([s EXCEPT !.active = s.queue[n],
                             !.queue = RemoveAt(@, n)], p, fails)

MutInitiate(s, p, fails) == InitiateStep(s, p, fails)

\* initiate(): until a request is out or nothing is left to do.  Every
\* iteration but the last ends a task, and ending one queues none.
Initiate(s, p, fails) ==
    LET rounds == Len(s.queue) + 2
        after[n \in 0..rounds] ==
            IF n = 0 THEN s ELSE InitiateStep(after[n - 1], p, fails)
    IN  after[rounds]

-----------------------------------------------------------------------------
(* Deletes: what a peer does with the CHILD_SAs of a DELETE.                *)

\* child_rekey.c handle_delete(): how the delete of k concerns the active
\* rekey task, which takes note of it until its own response is there.
Collision(s, k) ==
    IF s.active.type # "REKEY" \/ s.active.stage = "DELETE" THEN "NONE"
    ELSE IF ~Exists(s, k) THEN "UNKNOWN"
    ELSE IF k = s.active.sa THEN "OLD"
    ELSE IF k = s.active.collision.sa THEN "PEER"
    ELSE "NONE"

MutHandleDelete(s, k) == IF Collision(s, k) = "OLD" THEN Done(s) ELSE s

HandleDelete(s, k) ==
    CASE Collision(s, k) = "UNKNOWN" -> [s EXCEPT !.active.gone = @ \cup {k}]
      [] Collision(s, k) = "OLD"  -> [s EXCEPT !.active.flags = @ \cup {"OLD_SA_DELETED"}]
      [] Collision(s, k) = "PEER" -> [s EXCEPT !.active.flags = @ \cup {"OTHER_DELETED"}]
      [] OTHER -> s

\* process_payloads() for one SPI; acc is the peer and the entries collected.
ProcessSpi(acc, k) ==
    LET s == HandleDelete(acc.s, k)
        orig == s.half[k].state
    IN  IF orig \in {"NONE", "DELETED", "DELETING"}
        THEN [acc EXCEPT !.s = s]
        ELSE [s |-> SetState(s, k, "DELETING"),
              entries |-> Append(acc.entries,
                  [sa |-> k, orig |-> orig, collision |-> Collision(acc.s, k)])]

\* process_payloads() for all SPIs
ProcessSpis(s, sas) ==
    LET after[n \in 0..Len(sas)] ==
            IF n = 0 THEN [s |-> s, entries |-> << >>]
            ELSE ProcessSpi(after[n - 1], sas[n])
    IN  after[Len(sas)]

\* keep_while_rekeying()
Keep(entry) ==
    \/ entry.collision = "OLD" /\ entry.orig = "REKEYING"
    \/ entry.collision = "PEER"

\* A peer that deletes its own replacement: the old SA is on its own again.
KeepEntry(s, entry) ==
    LET k == entry.sa
        other == s.half[k].link
        unlinked == Unlink(Unlink(s, k), other)
    IN  IF other = None \/ entry.collision # "PEER" THEN s
        ELSE IF unlinked.half[other].state = "REKEYED"
        THEN SetState(unlinked, other, "REKEYING")
        ELSE unlinked

\* The delete of an SA that was rekeyed: switch to its replacement.
DeleteRekeyed(s, entry) ==
    LET k == entry.sa
        switched == IF s.half[k].link # None THEN Conclude(s, k)
                                             ELSE RemoveOutbound(s, k)
    IN  IF entry.collision = "OLD" THEN switched ELSE DestroyRekeyed(switched, k)

\* The delete of any other SA.
DeleteRegular(s, p, entry, initiator) ==
    LET k == entry.sa
        other == s.half[k].link
        switched == IF other # None /\ entry.orig = "INSTALLED"
                    THEN Conclude(s, other) ELSE s
    IN  Destroy(switched, k,
                ~initiator /\ entry.orig = "INSTALLED" /\ CloseAction(p))

\* destroy_and_reestablish()
DestroyEntry(s, p, entry, initiator) ==
    IF Keep(entry) THEN KeepEntry(s, entry)
    ELSE LET deleted == SetState(s, entry.sa, "DELETED")
         IN  IF entry.orig = "REKEYED" THEN DeleteRekeyed(deleted, entry)
             ELSE DeleteRegular(deleted, p, entry, initiator)

DestroyEntries(s, p, entries, initiator) ==
    LET after[n \in 0..Len(entries)] ==
            IF n = 0 THEN s
            ELSE DestroyEntry(after[n - 1], p, entries[n], initiator)
    IN  after[Len(entries)]

-----------------------------------------------------------------------------
(* Requests: what the responder does with them and what it answers.         *)

\* A handler's result: the state of the responder and its response.
Answer(s, response) == [s |-> s, response |-> response]

\* child_delete.c process_r() and build_r()
ServeDelete(s, p, sas) ==
    LET found == ProcessSpis(s, sas)
    IN  Answer(DestroyEntries(found.s, p, found.entries, FALSE),
               [type |-> "DELETED"])

\* child_create.c build_r(), for a CHILD_SA that rekeys none.  TEMPORARY_FAILURE
\* is the answer of an IKE_SA that is rekeyed or deleted, which this one is not.
ServeCreate(s, new, fault) ==
    IF fault \in {"refuse", "install_r"} THEN Answer(s, [type |-> "FAILED"])
    ELSE IF fault = "invalid_ke" THEN Answer(s, [type |-> "INVALID_KE_PAYLOAD"])
    ELSE Answer([s EXCEPT !.half[new] =
                    [state |-> "INSTALLED", out |-> "INSTALLED", link |-> None]],
                [type |-> "CREATED", nonce |-> 0])

\* collide(), called when the passive task of a rekeying is finished.  The task
\* is adopted only if it installed its CHILD_SA, and destroyed otherwise.
Collide(s, old, new, nonce, fault) ==
    IF s.active.type # "REKEY" \/ fault \in {"refuse", "invalid_ke"} THEN s
    ELSE IF s.active.sa # old THEN s
    ELSE IF fault = "install_r"
    THEN [s EXCEPT !.active.collision =
            [sa |-> new, nonce |-> nonce, freed |-> TRUE]]
    ELSE IF s.active.collision # NoCollision THEN s
    ELSE [s EXCEPT !.active.collision =
                      [sa |-> new, nonce |-> nonce, freed |-> FALSE],
                   !.active.flags = @ \cup {"PASSIVE_INSTALLED"}]

MutRefusal(s, old) ==
    IF s.half[old].state \in {"NONE", "DELETED"} THEN "CHILD_SA_NOT_FOUND" ELSE "NONE"

\* find_child() and the early returns of build_r()
Refusal(s, old) ==
    IF s.half[old].state \in {"NONE", "DELETED"} THEN "CHILD_SA_NOT_FOUND"
    ELSE IF s.half[old].state = "DELETING" THEN "TEMPORARY_FAILURE"
    ELSE "NONE"

MutReplace(s, old, new) ==
    [s EXCEPT !.half[old].state = "REKEYED", !.half[old].link = new,
              !.half[new] = [state |-> "INSTALLED", out |-> "INSTALLED", link |-> old]]

\* build_r() once child_create installed the new SA, and only registered its
\* outbound half
Replace(s, old, new) ==
    [s EXCEPT !.half[old].state = "REKEYED", !.half[old].link = new,
              !.half[new] = [state |-> "INSTALLED", out |-> "REGISTERED", link |-> old]]

\* child_rekey.c process_r() and build_r()
ServeRekey(s, old, new, nonce, fault) ==
    IF Refusal(s, old) # "NONE" THEN Answer(s, [type |-> Refusal(s, old)])
    ELSE IF fault \in {"none", "build"}
    THEN Answer(Collide(Replace(s, old, new), old, new, nonce, fault),
                [type |-> "CREATED", nonce |-> nonce])
    ELSE Answer(Collide(s, old, new, nonce, fault),
                [type |-> IF fault = "invalid_ke" THEN "INVALID_KE_PAYLOAD"
                                                  ELSE "FAILED"])

Serve(s, p, request, nonce, fault) ==
    CASE request.type = "DELETE" -> ServeDelete(s, p, request.sas)
      [] request.type = "CREATE" -> ServeCreate(s, request.new, fault)
      [] request.type = "REKEY" ->
           ServeRekey(s, request.old, request.new, nonce, fault)

-----------------------------------------------------------------------------
(* Responses to a rekey request.                                            *)

Flag(s, flag) == flag \in s.active.flags

Collided(s) == s.active.collision # NoCollision

MutReplacementDeleted(s) == FALSE

\* is_our_replacement_deleted()
ReplacementDeleted(s) == s.active.new \in s.active.gone

\* lost_collision(); reading a destroyed task may give either answer.
Lost(s, nonce, garbage) ==
    /\ Collided(s)
    /\ IF s.active.collision.freed THEN garbage
       ELSE nonce < s.active.collision.nonce

Stage(s, stage) == [s EXCEPT !.active.stage = stage]

\* ignore_child_sa_not_found() and what process_i() does otherwise
ChildSaNotFound(s, p) ==
    LET old == s.active.sa
    IN  Done(IF ~Flag(s, "OLD_SA_DELETED") THEN Destroy(s, old, TRUE)
             ELSE IF ~Collided(s) THEN Destroy(s, old, CloseAction(p))
             ELSE IF ~Flag(s, "OTHER_DELETED") THEN DestroyRekeyed(s, old)
             ELSE Destroy(DestroyRekeyed(s, old), s.active.collision.sa,
                          CloseAction(p)))

\* ignore_child_sa_failure()
Ignorable(s) ==
    \/ Flag(s, "PASSIVE_INSTALLED") /\ ~Flag(s, "OTHER_DELETED")
    \/ Flag(s, "OLD_SA_DELETED")

IgnoreFailure(s, p) ==
    LET old == s.active.sa
    IN  IF Flag(s, "PASSIVE_INSTALLED") /\ ~Flag(s, "OTHER_DELETED")
        THEN IF Flag(s, "OLD_SA_DELETED") THEN DestroyRekeyed(s, old) ELSE s
        ELSE Destroy(s, old, CloseAction(p))

MutRekeyFailed(s, p) == Done(IgnoreFailure(s, p))

RekeyFailed(s, p) ==
    Done(IF Ignorable(s) THEN IgnoreFailure(s, p)
         ELSE ScheduleDelayedRekey(s, s.active.sa))

\* INVALID_KE_PAYLOAD: child_create retries once with the other method.
RetryRekey(s, p) ==
    IF s.active.retry THEN RekeyFailed(s, p)
    ELSE IF Ignorable(s) THEN Done(IgnoreFailure(s, p))
    ELSE [s EXCEPT !.active.retry = TRUE]

\* handle_local_failure()
LocalFailure(s, p, lost) ==
    LET old == s.active.sa
    IN  IF lost
        THEN Stage(IF Flag(s, "OLD_SA_DELETED") THEN DestroyRekeyed(s, old)
                                                ELSE s, "DELETE_REPLACEMENT")
        ELSE IF ReplacementDeleted(s)
        THEN IF Flag(s, "OLD_SA_DELETED")
             THEN Done(Destroy(s, old, CloseAction(p)))
             ELSE Stage(s, "DELETE_OLD_DESTROY")
        ELSE Stage(s, IF Flag(s, "OLD_SA_DELETED")
                      THEN "DELETE_REPLACEMENT_RECREATE"
                      ELSE "DELETE_BOTH_RECREATE")

\* handle_collision() when we lost: the peer's SA, if it is installed, wins.
LoseCollision(s) ==
    LET old == s.active.sa
    IN  IF ~Flag(s, "PASSIVE_INSTALLED") THEN s
        ELSE IF Flag(s, "OLD_SA_DELETED") THEN DestroyRekeyed(s, old)
        ELSE IF Flag(s, "OTHER_DELETED") THEN SetState(s, old, "REKEYED")
        ELSE s

\* handle_collision() when we won: the peer's SA, if there is one, is redundant.
WinCollision(s) ==
    LET old == s.active.sa
        redundant == s.active.collision.sa
        alone == [s EXCEPT !.active.collision = NoCollision]
    IN  IF ~Collided(s) \/ ~Flag(s, "PASSIVE_INSTALLED") THEN alone
        ELSE IF Flag(s, "OTHER_DELETED") THEN DestroyRekeyed(alone, redundant)
        ELSE RemoveOutbound(SetState(Unlink(Unlink(alone, old), redundant),
                                     redundant, "REKEYED"), redundant)

\* The SA that is gone although it should have replaced the old one, if any.
DeletedWinner(s, lost) ==
    IF lost THEN IF Flag(s, "PASSIVE_INSTALLED") /\ Flag(s, "OTHER_DELETED")
                 THEN s.active.collision.sa ELSE None
    ELSE IF ReplacementDeleted(s)
            /\ (~Collided(s) \/ Flag(s, "PASSIVE_INSTALLED"))
         THEN s.active.new ELSE None

\* The old or redundant SA is deleted next, by the subtask child_delete.
DeleteNext(s, victim) ==
    LET rekeyed == SetState(s, victim, "REKEYED")
        silent == IF rekeyed.half[victim].out # "INSTALLED"
                  THEN RemoveOutbound(rekeyed, victim) ELSE rekeyed
    IN  [silent EXCEPT !.active.stage = "DELETE", !.active.victim = victim]

\* process_i() once the new CHILD_SA is installed
RekeyDone(s, p, lost) ==
    LET old == s.active.sa
        new == s.active.new
        installed == [s EXCEPT !.half[new] = [state |-> "INSTALLED",
                                              out |-> "REGISTERED", link |-> None]]
        resolved == IF lost THEN LoseCollision(installed)
                            ELSE WinCollision(installed)
        winner == DeletedWinner(s, lost)
        switched == IF winner # None THEN Destroy(resolved, winner, CloseAction(p))
                    ELSE IF lost THEN resolved
                    ELSE ConcludeRekeying(resolved, old, new)
    IN  IF ~lost /\ Flag(s, "OLD_SA_DELETED") THEN Done(DestroyRekeyed(switched, old))
        ELSE DeleteNext(switched, IF lost THEN new ELSE old)

\* child_rekey.c process_i(); no peer of the model sends NO_ADDITIONAL_SAS.
RekeyResponse(s, p, response, fault, garbage) ==
    CASE response.type = "CHILD_SA_NOT_FOUND" -> ChildSaNotFound(s, p)
      [] response.type \in {"TEMPORARY_FAILURE", "FAILED"} -> RekeyFailed(s, p)
      [] response.type = "INVALID_KE_PAYLOAD" -> RetryRekey(s, p)
      [] response.type = "CREATED" ->
           LET lost == Lost(s, response.nonce, garbage)
           IN  IF fault = "install_i" THEN LocalFailure(s, p, lost)
               ELSE RekeyDone(s, p, lost)

\* child_create.c process_i(), for a CHILD_SA that rekeys none: it tries again with
\* the key exchange method the peer asks for, but only once.
CreateResponse(s, response, fault) ==
    IF response.type = "INVALID_KE_PAYLOAD" /\ ~s.active.retry
    THEN [s EXCEPT !.active.retry = TRUE]
    ELSE IF response.type # "CREATED" THEN Done(s)
    ELSE IF fault = "install_i" THEN Stage(s, "DELETE_FAILED")
    ELSE Done([s EXCEPT !.half[s.active.new] =
                  [state |-> "INSTALLED", out |-> "INSTALLED", link |-> None]])

\* process_response() of the task manager for the active task
Process(s, p, response, fault, garbage) ==
    CASE s.active.type = "NONE" -> s
      [] s.active.type = "CREATE" -> CreateResponse(s, response, fault)
      [] s.active.type = "REKEY" /\ s.active.stage = "CREATE" ->
           RekeyResponse(s, p, response, fault, garbage)
      [] OTHER -> Done(DestroyEntries(s, p, s.active.entries, TRUE))

-----------------------------------------------------------------------------
Init ==
    /\ peer = [p \in Peer |->
         [half |-> [k \in Sa |-> IF k = Initial
                    THEN [state |-> "INSTALLED", out |-> "INSTALLED", link |-> None]
                    ELSE NoHalf],
          active |-> NoTask, queue |-> << >>, out |-> NoMsg,
          linger |-> {}, retry |-> {}, events |-> 0,
          next |-> IF p = "i" THEN 2 ELSE MaxOwn + 2]]
    /\ resp = [p \in Peer |-> NoMsg]
    /\ faults = 0
    /\ causes = {}

\* Both peers are, or were until one of them gave way, rekeying the SA k.
Colliding(k) ==
    \E p \in Peer :
        /\ peer[p].active.type = "REKEY"
        /\ peer[p].active.sa = k
        /\ \/ Collided(peer[p])
           \/ peer[Other(p)].active.type = "REKEY" /\ peer[Other(p)].active.sa = k

\* No peer still waits for the response that tells it of the new CHILD_SA k, or
\* has k as the outcome of a collision that its own request may not survive.
Known(k) ==
    \A q \in Peer :
        LET task == peer[q].active
        IN  /\ task.type = "CREATE" => task.new # k
            /\ task.type = "REKEY" /\ task.stage = "CREATE" /\ task.collision.sa = k
                  => resp[q].type = "CREATED"

\* No peer still works on the exchange that created k.
Settled(k) ==
    Known(k) /\ \A q \in Peer :
        LET s == peer[q]
        IN  /\ s.half[k].link = None
            /\ s.active.type = "REKEY" => k \notin {s.active.new, s.active.collision.sa}

\* The failures that may happen in a handler.
Failures(which) ==
    {"none"} \cup {fault \in Faults \cap which : faults < MaxFaults}

\* A peer finishes a handler: it initiates what it can.
Finish(p, s, fault) ==
    /\ peer' = [peer EXCEPT ![p] = Initiate(s, p, fault = "build")]
    /\ faults' = IF fault = "none" THEN faults ELSE faults + 1

\* A job queues a task.
Job(p, s, task) ==
    /\ \E fault \in Failures({"build"}) : Finish(p, Queue(s, task), fault)
    /\ UNCHANGED resp

Event(p, kind, task) ==
    /\ kind \in Events[p]
    /\ peer[p].events < MaxEvents[p]
    /\ Job(p, [peer[p] EXCEPT !.events = @ + 1], task)

\* rekey_child_sa_job: soft lifetime reached or asked for by a user
Rekey(p, k) ==
    /\ Exists(peer[p], k)
    /\ Event(p, "rekey", RekeyTask(k))
    /\ causes' = causes \cup {c \in {"early rekey"} : ~Settled(k)}

\* delete_child_sa_job and the controller: asked for by a user
Delete(p, k) ==
    /\ Exists(peer[p], k)
    /\ Event(p, "delete", DeleteTask(k, FALSE))
    /\ causes' = causes \cup {"delete"} \cup {c \in {"early delete"} : ~Known(k)}

\* delete_child_sa_job: hard lifetime reached
Expire(p, k) ==
    /\ Exists(peer[p], k)
    /\ Event(p, "expire", DeleteTask(k, TRUE))
    /\ causes' = causes \cup {"expire"} \cup {c \in {"early rekey"} : ~Settled(k)}

\* The job that destroys a rekeyed CHILD_SA after delete_rekeyed_delay, or at
\* the end of its lifetime if that comes first
DestroyJob(p, k) ==
    /\ k \in peer[p].linger
    /\ Job(p, [peer[p] EXCEPT !.linger = @ \ {k}], DeleteTask(k, FALSE))
    /\ UNCHANGED causes

\* The job that tries a failed rekeying again
RetryJob(p, k) ==
    /\ k \in peer[p].retry
    /\ peer[p].events < MaxEvents[p]
    /\ Job(p, [peer[p] EXCEPT !.retry = @ \ {k}, !.events = @ + 1], RekeyTask(k))
    /\ UNCHANGED causes

\* Nonces only matter for comparing an exchange of one peer with one of the
\* other: those of "r" lie between the low and the high ones of "i".
Nonces(initiator) == IF initiator = "i" THEN {1, 3} ELSE {2}

\* The failure of a handler for a rekeying of the SA k, or for another exchange,
\* that may leave the peers without a CHILD_SA, for good or for a while.
Note(type, k, fault) ==
    causes' = causes
        \cup {c \in {"create failure"} :
                type = "CREATE" /\ fault \in {"refuse", "install_r", "install_i"}}
        \cup {c \in {"local failure"} : type # "CREATE" /\ fault = "install_i"}
        \cup {c \in {"failed collision"} :
                fault \in {"install_r", "install_i"} /\ Colliding(k)}

ReceiveRequest(p) ==
    LET q == Other(p)
        request == peer[q].out
        old == IF request.type = "REKEY" THEN request.old ELSE None
    IN  /\ request # NoMsg
        /\ resp[q] = NoMsg
        /\ \E nonce \in Nonces(q),
              fault \in Failures({"build", "refuse", "install_r", "invalid_ke"}) :
             LET answer == Serve(peer[p], p, request, nonce, fault)
             IN  /\ Finish(p, answer.s, fault)
                 /\ resp' = [resp EXCEPT ![q] = answer.response]
                 /\ Note(request.type, old, fault)

ReceiveResponse(p) ==
    LET s == [peer[p] EXCEPT !.out = NoMsg]
        old == IF s.active.type = "REKEY" THEN s.active.sa ELSE None
    IN  /\ resp[p] # NoMsg
        /\ \E fault \in Failures({"build", "install_i"}), garbage \in BOOLEAN :
             /\ Finish(p, Process(s, p, resp[p], fault, garbage), fault)
             /\ Note(s.active.type, old,
                     IF resp[p].type = "INVALID_KE_PAYLOAD" /\ s.active.retry
                     THEN "refuse" ELSE fault)
        /\ resp' = [resp EXCEPT ![p] = NoMsg]

Next ==
    \E p \in Peer :
        \/ ReceiveRequest(p)
        \/ ReceiveResponse(p)
        \/ \E k \in Sa :
              \/ Rekey(p, k)
              \/ Delete(p, k)
              \/ Expire(p, k)
              \/ DestroyJob(p, k)
              \/ RetryJob(p, k)

Spec == Init /\ [][Next]_vars

\* There is a message to receive or a job to run.
Pending == \E p \in Peer : peer[p].out # NoMsg \/ peer[p].linger # {}

\* A step that is no new job or request of a user.
NoEvent == \A p \in Peer : peer'[p].events = peer[p].events

\* Weak fairness of the messages, as they are retransmitted until they are
\* answered, and of the jobs scheduled to destroy rekeyed SAs.
FairSpec == Spec /\ ([]<>~Pending \/ []<><<NoEvent>>_vars)

-----------------------------------------------------------------------------
(* Properties.                                                              *)

Idle(p) == peer[p].active = NoTask /\ peer[p].queue = << >> /\ peer[p].out = NoMsg

\* No exchange is under way and no task waits for one.
Quiet == \A p \in Peer : Idle(p) /\ resp[p] = NoMsg

\* The CHILD_SAs that carry traffic in both directions, as p sees it.
Up(p) == {k \in Sa : peer[p].half[k].state = "INSTALLED"
                     /\ peer[p].half[k].out = "INSTALLED"}

HalfType == [state : ChildState, out : OutboundState, link : Sa \cup {None}]

EntryType == [sa : Sa, orig : ChildState, collision : {"NONE", "OLD", "PEER"}]

TaskOK(task) ==
    \/ task = NoTask
    \/ /\ task.type = "DELETE"
       /\ task.sa \in Sa /\ task.expired \in BOOLEAN
       /\ task.entries \in Seq(EntryType)
    \/ /\ task.type = "CREATE"
       /\ task.stage \in {"CREATE", "DELETE_FAILED"}
       /\ task.new \in Sa \cup {None} /\ task.retry \in BOOLEAN
    \/ /\ task.type = "REKEY"
       /\ task.sa \in Sa /\ task.new \in Sa \cup {None}
       /\ task.flags \subseteq {"OLD_SA_DELETED", "OTHER_DELETED", "PASSIVE_INSTALLED"}
       /\ task.gone \subseteq Sa
       /\ task.entries \in Seq(EntryType)

\* Every half, task and job of a peer is well formed, no more CHILD_SAs are
\* created than the bound provides for, and the jobs that child_delete.c and
\* child_rekey.c schedule for an SA find it in the state they were scheduled
\* for or in a later one.
TypeOK ==
    /\ \A p \in Peer :
         LET s == peer[p]
         IN  /\ s.half \in [Sa -> HalfType]
             /\ TaskOK(s.active) /\ \A n \in DOMAIN s.queue : TaskOK(s.queue[n])
             /\ \A k \in s.linger : s.half[k].state = "DELETED"
             /\ \A k \in s.retry : Exists(s, k)
             /\ s.next \in Own(p) \cup {k + 1 : k \in Own(p)}
    /\ faults \in 0..MaxFaults
    /\ causes \subseteq {"delete", "expire", "create failure", "local failure",
                      "early delete", "early rekey", "failed collision"}

\* The request a peer has outstanding is the one of its active task, which only
\* an answer ends; without a request there is no task left to initiate.
Awaits(s) ==
    CASE s.out.type = "NONE" -> s.active = NoTask /\ s.queue = << >>
      [] s.out.type = "REKEY" ->
           /\ s.active.type = "REKEY" /\ s.active.stage = "CREATE"
           /\ s.active.sa = s.out.old /\ s.active.new = s.out.new
      [] s.out.type = "CREATE" ->
           /\ s.active.type = "CREATE" /\ s.active.stage = "CREATE"
           /\ s.active.new = s.out.new
      [] s.out.type = "DELETE" ->
           \/ s.active = NoTask
           \/ /\ \/ s.active.type = "DELETE"
                 \/ s.active.type = "REKEY" /\ s.active.stage = "DELETE"
              /\ s.out.sas = [n \in DOMAIN s.active.entries |-> s.active.entries[n].sa]

\* The answers to a request
Answers ==
    [NONE |-> {},
     REKEY |-> {"CREATED", "CHILD_SA_NOT_FOUND", "TEMPORARY_FAILURE", "FAILED",
                "INVALID_KE_PAYLOAD"},
     CREATE |-> {"CREATED", "FAILED", "INVALID_KE_PAYLOAD"},
     DELETE |-> {"DELETED"}]

\* Whatever a peer learns from the requests of the other one while it waits for a
\* response, the response finds the task that built the request, about the same
\* CHILD_SAs, and no other; no task is left in a queue that nobody initiates.
ExchangesMatch ==
    \A p \in Peer :
        /\ Awaits(peer[p])
        /\ resp[p].type \in {"NONE"} \cup Answers[peer[p].out.type]

\* When all exchanges are done, both peers use the same CHILD_SAs: a collision
\* has one winner that both agree on (handle_collision()), and a delete that
\* overtakes the response to a rekeying is not forgotten
\* (is_our_replacement_deleted()).  The code lets them disagree after a job for an
\* SA that a peer does not know of yet, and if an SA cannot be installed during a
\* collision.
SasAgree ==
    Quiet /\ causes \cap {"early delete", "early rekey", "failed collision"} = {}
        => Up("i") = Up("r")

\* When all exchanges are done, a peer keeps no CHILD_SA but the ones it uses and
\* rekeyed ones that a job will destroy: of one kept for the sake of a concurrent
\* rekeying (keep_while_rekeying()) "the rekey task is responsible for destroying
\* the CHILD_SA".
NoLeftovers ==
    Quiet => \A p \in Peer : \A k \in Sa :
        \/ ~Exists(peer[p], k)
        \/ k \in Up(p)
        \/ peer[p].half[k].state = "DELETED" /\ k \in peer[p].linger

\* collide() keeps a passive task whose CHILD_SA is not installed: "we do reference
\* the task to check its state later", so that task has to be there later.
CollisionTaskExists ==
    \A p \in Peer :
        peer[p].active.type = "REKEY" => ~peer[p].active.collision.freed

\* set_rekey_sa() "links the two SAs bidirectionally", and an SA that is destroyed
\* is unlinked before: no CHILD_SA refers to one that does not refer to it.
LinksAreMutual ==
    \A p \in Peer : \A k \in Sa :
        LET other == peer[p].half[k].link
        IN  other # None => peer[p].half[other].link = k

\* Rekeyings, collisions and failures to rekey never cost the peers their
\* CHILD_SA: it is gone only if a user deleted it or it could not be recreated.
NotLost ==
    Quiet /\ causes \subseteq {"expire", "local failure"}
        => \A p \in Peer : Up(p) # {}

\* Rekeyings, alone or colliding, do not multiply the CHILD_SA: the redundant
\* one of a collision is deleted and nothing is recreated that was replaced.
NoDuplicate ==
    Quiet /\ causes = {} => \A p \in Peer : Cardinality(Up(p)) <= 1

\* While an SA is being rekeyed, every peer can send at any time: it has an
\* outbound SA that the other peer still has the inbound SA for.
NoGap ==
    causes = {} => \A p \in Peer : \E k \in Sa :
        peer[p].half[k].out = "INSTALLED" /\ Exists(peer[Other(p)], k)

\* No peer sends over an SA before the other one has installed it, or after the
\* other one has destroyed it: register_outbound() delays the outbound SA of a
\* responder, and delete_rekeyed_delay the end of an inbound SA.
PeerReceives ==
    causes = {} => \A p \in Peer : \A k \in Sa :
        peer[p].half[k].out = "INSTALLED" => Exists(peer[Other(p)], k)

\* Rekeyings, deletes, their collisions, retries and the CHILD_SAs recreated
\* after them come to an end: with no more jobs all exchanges are eventually
\* done, no task is left in a queue and every rekeyed SA is destroyed.
Settles == <>[](Quiet /\ \A p \in Peer : peer[p].linger = {})
=============================================================================
