----------------------------- MODULE TaskManager -----------------------------
(***************************************************************************)
(* The IKEv2 exchange engine of charon (task_manager_v2.c) at both ends of *)
(* one established IKE_SA.  Peer "i" is the original initiator of the      *)
(* IKE_SA, peer "r" the original responder; each of them queues tasks,     *)
(* runs one exchange at a time as initiator (window size 1) and serves the *)
(* exchanges of the other one.  The UDP path between them loses,           *)
(* duplicates, delays and reorders packets.                                *)
(*                                                                         *)
(* The handlers of one peer are atomic: an IKE_SA is checked out of the    *)
(* IKE_SA manager while a job works on it.                                 *)
(***************************************************************************)
EXTENDS Naturals, Sequences, FiniteSets

CONSTANTS
    Tries,       \* retransmit_tries: retransmissions before giving up
    AuthMids,    \* message IDs used up by IKE_SA_INIT and IKE_AUTH
    MaxTasks,    \* bound: tasks queued on the IKE_SA of a peer, by its jobs and
                 \* users and as retries of refused ones
    Offered,     \* [Peer -> SUBSET TaskType]: what those jobs and users ask for
    Bodies,      \* the kinds of request bodies the peers build
    FragCount,   \* [ExchangeType -> fragments its messages are split into]
    Mobike       \* was the MOBIKE extension negotiated?

Peer == {"i", "r"}

Other(p) == IF p = "i" THEN "r" ELSE "i"

\* The task types of an established IKE_SA, in the order initiate() tries them.
Priority == << "MOBIKE", "IKE_DELETE", "CHILD_DELETE", "CHILD_CREATE", "DPD" >>

TaskType == {"MOBIKE", "IKE_DELETE", "CHILD_DELETE", "CHILD_CREATE", "DPD"}

Rank(type) == CHOOSE n \in 1..5 : Priority[n] = type

ExchangeType == {"INFORMATIONAL", "CREATE_CHILD_SA", "IKE_AUTH"}

\* A request body is valid, contains an unknown payload marked critical, does
\* not parse, or (for a CHILD_DELETE) names a CHILD_SA that is gone, in which
\* case no request is built at all.
BodyKind == {"valid", "critical", "syntax", "gone"}

ResultKind == {"ok", "invalid_ke", "temporary_failure", "critical", "syntax"}

ASSUME ConstantAssumption ==
    /\ Tries \in Nat
    /\ AuthMids \in Nat \ {0, 1}
    /\ MaxTasks \in Nat
    /\ Offered \in [Peer -> SUBSET TaskType]
    /\ Bodies \subseteq BodyKind
    /\ FragCount \in [ExchangeType -> Nat \ {0}]
    /\ Mobike \in BOOLEAN

-----------------------------------------------------------------------------
VARIABLES
    state,        \* IKE_SA state of each peer
    initiating,   \* exchange each peer is handling as initiator
    responding,   \* exchange each peer is handling as responder
    queued,       \* queued_tasks: the set of tasks, ordered by their id
    delayed,      \* ids of queued tasks whose delay has not passed
    wakeups,      \* ids of delayed tasks whose initiate_tasks job did not run
    active,       \* active_tasks: the task of the exchange, or NoTask
    nextId,       \* id of the task queued next (array_insert at ARRAY_TAIL)
    jobs,         \* message IDs with a scheduled retransmit job
    route,        \* does the peer have a path to the other one?
    net,          \* every packet sent so far (may be received any number of times)
    cause,        \* why the IKE_SA was destroyed
    sent,         \* history: tasks whose exchange a peer started
    served,       \* history: requests a peer processed, with its answer
    done          \* history: exchanges a peer completed, with the answer it saw

sa   == << state, initiating, responding, queued, delayed, wakeups, active,
           nextId, jobs, cause >>
hist == << sent, served, done >>
vars == << sa, route, net, hist >>

\* A task, as queued and as carried by its request.
Task == [id : Nat, type : TaskType \cup {"IKE_AUTH"}, body : BodyKind,
         retry : BOOLEAN]

NoTask == [id |-> 0, type |-> "NONE"]

\* The last exchange of the authentication, completed before the model starts.
AuthTask == [id |-> 0, type |-> "IKE_AUTH", body |-> "valid", retry |-> FALSE]

ExchangeOf(t) ==
    CASE t.type = "CHILD_CREATE" -> "CREATE_CHILD_SA"
      [] t.type = "IKE_AUTH" -> "IKE_AUTH"
      [] OTHER -> "INFORMATIONAL"

\* A packet: a message, or one fragment of it.  The message ID space of peer
\* "from" is used for its requests and for the responses to the other peer.
Packets(p, isRequest, mid, t, res, n) ==
    { [from |-> p, request |-> isRequest, mid |-> mid, exchange |-> ExchangeOf(t),
       task |-> t, res |-> res, num |-> k, total |-> n] : k \in 1..n }

Request(p, mid, t) == Packets(p, TRUE, mid, t, "none", FragCount[ExchangeOf(t)])

Response(p, mid, t, res) ==
    Packets(p, FALSE, mid, t, res, FragCount[ExchangeOf(t)])

\* send_notify_response() answers with a single packet.
NotifyResponse(p, mid, t, res) == Packets(p, FALSE, mid, t, res, 1)

\* SHA-1 of a packet: it distinguishes the packets of a peer.
Hash(m) == [from |-> m.from, request |-> m.request, mid |-> m.mid, num |-> m.num]

NoHash == [from |-> "none", request |-> FALSE, mid |-> 0, num |-> 0]

\* The first message ID the model follows in the requests of peer p: the last
\* IKE_AUTH of the original initiator, 0 for the original responder.
Base(p) == IF p = "i" THEN AuthMids - 1 ELSE 0

AuthRequest  == Request("i", AuthMids - 1, AuthTask)
AuthResponse == Response("r", AuthMids - 1, AuthTask, "ok")
AuthHash     == [from |-> "i", request |-> TRUE, mid |-> AuthMids - 1, num |-> 1]

-----------------------------------------------------------------------------
Init ==
    /\ state = [p \in Peer |-> "ESTABLISHED"]
    /\ initiating = [p \in Peer |->
          [mid |-> IF p = "i" THEN AuthMids ELSE 0, type |-> "UNDEFINED",
           retransmitted |-> 0, deferred |-> FALSE, packets |-> {}, defrag |-> {}]]
    /\ responding = [p \in Peer |->
          IF p = "r"
          THEN [mid |-> AuthMids, hash |-> AuthHash, prev_hash |-> AuthHash,
                packets |-> AuthResponse, defrag |-> {}]
          ELSE [mid |-> 0, hash |-> NoHash, prev_hash |-> NoHash,
                packets |-> {}, defrag |-> {}]]
    /\ queued = [p \in Peer |-> {}]
    /\ delayed = [p \in Peer |-> {}]
    /\ wakeups = [p \in Peer |-> {}]
    /\ active = [p \in Peer |-> NoTask]
    /\ nextId = [p \in Peer |-> 1]
    /\ jobs = [p \in Peer |-> {}]
    /\ route = [p \in Peer |-> TRUE]
    /\ net = AuthRequest \cup AuthResponse
    /\ cause = [p \in Peer |-> "none"]
    /\ sent = [p \in Peer |-> IF p = "i" THEN << AuthTask >> ELSE << >>]
    /\ served = [p \in Peer |->
          IF p = "r" THEN << [task |-> AuthTask, res |-> "ok"] >> ELSE << >>]
    /\ done = [p \in Peer |->
          IF p = "i" THEN << [task |-> AuthTask, res |-> "ok"] >> ELSE << >>]

Exists(p) == state[p] # "DESTROYED"

\* DESTROY_ME: the job checks the IKE_SA in and destroys it, which flushes all
\* tasks.  Jobs left in the scheduler do not find the IKE_SA anymore.
Destroy(p, why) ==
    /\ state' = [state EXCEPT ![p] = "DESTROYED"]
    /\ cause' = [cause EXCEPT ![p] = why]
    /\ queued' = [queued EXCEPT ![p] = {}]
    /\ delayed' = [delayed EXCEPT ![p] = {}]
    /\ wakeups' = [wakeups EXCEPT ![p] = {}]
    /\ active' = [active EXCEPT ![p] = NoTask]
    /\ jobs' = [jobs EXCEPT ![p] = {}]
    /\ UNCHANGED << initiating, nextId >>

-----------------------------------------------------------------------------
(* Initiating exchanges.                                                    *)

\* Does sending the packets of task t find a path?  Only a MOBIKE task looks
\* for one, all other packets are handed to the socket regardless.
CanTransmit(p, t) == t.type = "MOBIKE" => route[p]

\* Mutants of Transmit: the deferral is not noted, no retransmission is scheduled.
TransmitLosesDeferral(p, e, t, rest) ==
    /\ initiating' = [initiating EXCEPT ![p] = [e EXCEPT !.retransmitted = @ + 1]]
    /\ jobs' = [jobs EXCEPT ![p] = IF CanTransmit(p, t) THEN rest \cup {e.mid} ELSE rest]
    /\ net' = IF CanTransmit(p, t) THEN net \cup e.packets ELSE net

TransmitOnce(p, e, t, rest) ==
    /\ initiating' = [initiating EXCEPT ![p] = [e EXCEPT !.retransmitted = @ + 1]]
    /\ jobs' = [jobs EXCEPT ![p] = rest]
    /\ net' = net \cup e.packets

\* retransmit(): send the packets of exchange e for task t, and schedule the
\* next retransmission, or defer the exchange.  "rest" are the peer's other
\* retransmit jobs.
Transmit(p, e, t, rest) ==
    IF CanTransmit(p, t)
    THEN /\ initiating' = [initiating EXCEPT ![p] =
                              [e EXCEPT !.retransmitted = @ + 1]]
         /\ jobs' = [jobs EXCEPT ![p] = rest \cup {e.mid}]
         /\ net' = net \cup e.packets
    ELSE /\ initiating' = [initiating EXCEPT ![p] = [e EXCEPT !.deferred = TRUE]]
         /\ jobs' = [jobs EXCEPT ![p] = rest]
         /\ UNCHANGED net

Precedes(t, u) ==
    \/ Rank(t.type) < Rank(u.type)
    \/ t.type = u.type /\ t.id < u.id

\* A mutant of Activatable: initiate() does not know one of the types.
ActivatableButDeletes(p, q, d) ==
    IF state[p] = "ESTABLISHED"
    THEN {t \in q : t.id \notin d /\ t.type # "CHILD_DELETE"} ELSE {}

\* The tasks initiate() may activate: in any state but IKE_ESTABLISHED none of
\* the modelled ones (IKE_DELETING is entered with the delete as active task).
Activatable(p, q, d) ==
    IF state[p] = "ESTABLISHED" THEN {t \in q : t.id \notin d} ELSE {}

\* The tasks initiate() may start an exchange for when none is in progress: the
\* active one if it needs another exchange, all it can activate otherwise.
Startable(p, a, q, d) ==
    IF a # NoTask
    THEN {t \in {a} : t.type \in {"CHILD_CREATE", "MOBIKE"}}
    ELSE {t \in Activatable(p, q, d) : t.body # "gone"}

\* Activation follows the order of the types, and the queue within a type.
IsFirst(t, S) == \A u \in S \ {t} : Precedes(t, u)

\* Deletes of CHILD_SAs that are gone are activated, and dropped again when
\* build() turns the exchange into EXCHANGE_TYPE_UNDEFINED; then initiate()
\* starts over.  Only those before the started tasks C get that far.
Aborted(p, a, q, d, C) ==
    IF a # NoTask THEN {}
    ELSE {t \in Activatable(p, q, d) :
             t.body = "gone" /\ \A c \in C : Precedes(t, c)}

\* Start the exchange of task c.
Start(p, e, c) ==
    /\ Transmit(p, [e EXCEPT !.type = ExchangeOf(c), !.retransmitted = 0,
                             !.deferred = FALSE, !.packets = Request(p, e.mid, c)],
                c, jobs[p])
    /\ active' = [active EXCEPT ![p] = c]
    /\ sent' = [sent EXCEPT ![p] = Append(@, c)]
    /\ state' = IF c.type = "IKE_DELETE" THEN [state EXCEPT ![p] = "DELETING"]
                ELSE state

\* initiate(): e, a, q and d are the peer's initiating exchange, active task,
\* queued tasks and delayed ids at the time of the call.
Initiate(p, e, a, q, d) ==
    LET S == Startable(p, a, q, d) IN
    \/ /\ e.type # "UNDEFINED"                    \* exchange in progress
       /\ queued' = [queued EXCEPT ![p] = q]
       /\ active' = [active EXCEPT ![p] = a]
       /\ UNCHANGED << state, sent >>
       /\ IF e.deferred
          THEN Transmit(p, [e EXCEPT !.deferred = FALSE, !.retransmitted = 0],
                        a, jobs[p])
          ELSE /\ initiating' = [initiating EXCEPT ![p] = e]
               /\ UNCHANGED << jobs, net >>
    \/ /\ e.type = "UNDEFINED"                    \* nothing to initiate
       /\ S = {}
       /\ queued' = [queued EXCEPT ![p] = q \ Aborted(p, a, q, d, {})]
       /\ initiating' = [initiating EXCEPT ![p] = e]
       /\ active' = [active EXCEPT ![p] = a]
       /\ UNCHANGED << state, jobs, net, sent >>
    \/ /\ e.type = "UNDEFINED"
       /\ \E c \in S :
             /\ IsFirst(c, S)
             /\ queued' = [queued EXCEPT ![p] = q \ ({c} \cup Aborted(p, a, q, d, {c}))]
             /\ Start(p, e, c)

\* initiate() does not return SUCCESS: retransmit() had to defer the exchange.
InitiateFails(p, e, a, q, d) ==
    IF e.type # "UNDEFINED"
    THEN e.deferred /\ ~CanTransmit(p, a)
    ELSE LET S == Startable(p, a, q, d)
         IN  \E c \in S : IsFirst(c, S) /\ ~CanTransmit(p, c)

-----------------------------------------------------------------------------
(* What jobs and users ask of an IKE_SA: queue a task and initiate it.      *)

QueueAndInitiate(p, type, body) ==
    LET t == [id |-> nextId[p], type |-> type, body |-> body, retry |-> FALSE]
        pending == type = "MOBIKE" /\ \E u \in queued[p] : u.type = "MOBIKE"
    IN  /\ type \in Offered[p]
        /\ nextId[p] <= MaxTasks
        /\ Initiate(p, initiating[p], active[p],
                    IF pending THEN queued[p] ELSE queued[p] \cup {t}, delayed[p])
        /\ nextId' = [nextId EXCEPT ![p] = @ + 1]
        /\ UNCHANGED << responding, delayed, wakeups, cause, route, served, done >>

\* initiate(child_cfg): bring up a CHILD_SA, for an acquire of the kernel.
InitiateChild(p, body) ==
    /\ Exists(p)
    /\ body # "gone"
    /\ QueueAndInitiate(p, "CHILD_CREATE", body)

\* The same for a user: the controller destroys the IKE_SA unless initiate()
\* succeeds.
ControllerInitiate(p, body) ==
    LET t == [id |-> nextId[p], type |-> "CHILD_CREATE", body |-> body,
              retry |-> FALSE]
    IN
    IF InitiateFails(p, initiating[p], active[p], queued[p] \cup {t}, delayed[p])
    THEN /\ Exists(p)
         /\ "CHILD_CREATE" \in Offered[p]
         /\ nextId[p] <= MaxTasks
         /\ Destroy(p, "not_deferred")
         /\ UNCHANGED << responding, route, net, hist >>
    ELSE InitiateChild(p, body)

DeleteChildSa(p, body) ==
    /\ Exists(p)
    /\ QueueAndInitiate(p, "CHILD_DELETE", body)

\* send_dpd(): a MOBIKE task serves as DPD on the side of the original
\* initiator if the extension is in use.
SendDpd(p) ==
    /\ Exists(p)
    /\ active[p] = NoTask
    /\ QueueAndInitiate(p, IF Mobike /\ p = "i" THEN "MOBIKE" ELSE "DPD", "valid")

\* roam() on an event that leaves the IKE_SA with a path to the peer.
Roam(p) ==
    /\ state[p] = "ESTABLISHED"
    /\ Mobike
    /\ route[p]
    /\ QueueAndInitiate(p, "MOBIKE", "valid")

\* delete() of an IKE_SA that is not being deleted yet.
DeleteIkeSa(p) ==
    /\ state[p] = "ESTABLISHED"
    /\ QueueAndInitiate(p, "IKE_DELETE", "valid")

\* delete() with force, or of an IKE_SA being deleted already: it is destroyed
\* without waiting for the peer, but a DELETE (or the deferred exchange) is sent
\* on the way out if it can be initiated.
ForceDelete(p) ==
    LET t == [id |-> nextId[p], type |-> "IKE_DELETE", body |-> "valid",
              retry |-> FALSE]
        e == initiating[p]
        S == Startable(p, active[p], queued[p] \cup {t}, delayed[p])
        starts == state[p] = "ESTABLISHED" /\ e.type = "UNDEFINED"
        resumes == state[p] = "ESTABLISHED" /\ e.type # "UNDEFINED" /\ e.deferred
    IN  /\ Exists(p)
        /\ "IKE_DELETE" \in Offered[p]
        /\ Destroy(p, "forced")
        /\ \/ /\ starts
              /\ \E c \in S :
                    /\ IsFirst(c, S)
                    /\ net' = IF CanTransmit(p, c) THEN net \cup Request(p, e.mid, c)
                              ELSE net
                    /\ sent' = [sent EXCEPT ![p] = Append(@, c)]
           \/ /\ ~starts
              /\ net' = IF resumes /\ CanTransmit(p, active[p])
                        THEN net \cup e.packets ELSE net
              /\ UNCHANGED sent
        /\ UNCHANGED << responding, route, served, done >>

-----------------------------------------------------------------------------
(* Jobs of the scheduler.                                                   *)

\* A mutant of GivesUp: one try too many.
GivesUpLate(e) == e.retransmitted > Tries + 1

\* Have all the retransmissions of exchange e been sent?
GivesUp(e) == e.retransmitted > Tries

\* The retransmit job for message ID mid runs.
RetransmitJob(p, mid) ==
    LET e == initiating[p]
        rest == jobs[p] \ {mid}
    IN
    /\ Exists(p)
    /\ mid \in jobs[p]
    /\ \/ /\ mid # e.mid \/ e.packets = {}
          /\ jobs' = [jobs EXCEPT ![p] = rest]
          /\ UNCHANGED << state, initiating, queued, delayed, wakeups, active,
                          nextId, cause, net >>
       \/ /\ mid = e.mid /\ e.packets # {}
          /\ GivesUp(e)
          /\ Destroy(p, "timeout")
          /\ UNCHANGED net
       \/ /\ mid = e.mid /\ e.packets # {}
          /\ ~GivesUp(e)
          /\ Transmit(p, e, active[p], rest)
          /\ UNCHANGED << state, queued, delayed, wakeups, active, nextId, cause >>
    /\ UNCHANGED << responding, route, hist >>

\* The time a queued task was delayed by has passed.
DelayPasses(p, t) ==
    /\ t \in queued[p]
    /\ t.id \in delayed[p]
    /\ delayed' = [delayed EXCEPT ![p] = @ \ {t.id}]
    /\ UNCHANGED << state, initiating, responding, queued, wakeups, active,
                    nextId, jobs, cause, route, net, hist >>

\* The initiate_tasks job scheduled for the delayed task with this id runs.
InitiateTasksJob(p, id) ==
    /\ Exists(p)
    /\ id \in wakeups[p] \ delayed[p]
    /\ wakeups' = [wakeups EXCEPT ![p] = @ \ {id}]
    /\ Initiate(p, initiating[p], active[p], queued[p], delayed[p])
    /\ UNCHANGED << responding, delayed, nextId, cause, route, served, done >>

\* The peer's path to the other one appears or disappears.
RouteChange(p) ==
    /\ Mobike
    /\ route' = [route EXCEPT ![p] = ~@]
    /\ UNCHANGED << sa, net, hist >>

-----------------------------------------------------------------------------
(* Requests of the other peer.                                              *)

\* The answers build_response() may give to a valid request.
Results(p, t) ==
    CASE t.type # "CHILD_CREATE" -> {"ok"}
      [] state[p] = "DELETING" -> {"temporary_failure"}
      [] OTHER -> {"ok", "invalid_ke"}

\* A mutant of Answered: the response is not kept.
AnsweredNotKept(r, answer, h) ==
    [r EXCEPT !.hash = h, !.mid = @ + 1, !.prev_hash = h]

\* The responding exchange r after a request with hash h was answered: the
\* response is kept for retransmissions and the next request is expected.
Answered(r, answer, h) ==
    [r EXCEPT !.packets = answer, !.hash = h, !.mid = @ + 1, !.prev_hash = h]

\* parse_message() and process_request() of a complete request for task t.
\* "h" is responding.hash at this point, "r" the exchange with its message
\* collected.
ProcessRequest(p, t, h, r) ==
    \/ /\ t.body = "critical"
       /\ responding' = [responding EXCEPT ![p] = [r EXCEPT !.mid = @ + 1]]
       /\ net' = net \cup NotifyResponse(p, r.mid, t, "critical")
       /\ served' = [served EXCEPT ![p] = Append(@, [task |-> t, res |-> "critical"])]
       /\ UNCHANGED << state, initiating, queued, delayed, wakeups, active,
                       nextId, jobs, cause >>
    \/ /\ t.body = "syntax"
       /\ responding' = [responding EXCEPT ![p] = [r EXCEPT !.mid = @ + 1]]
       /\ net' = net \cup NotifyResponse(p, r.mid, t, "syntax")
       /\ served' = [served EXCEPT ![p] = Append(@, [task |-> t, res |-> "syntax"])]
       /\ Destroy(p, "syntax")
    \/ /\ t.body = "valid"
       /\ \E res \in Results(p, t) :
             LET answer == Response(p, r.mid, t, res) IN
             /\ net' = net \cup answer
             /\ served' = [served EXCEPT ![p] = Append(@, [task |-> t, res |-> res])]
             /\ IF t.type = "IKE_DELETE"
                THEN /\ Destroy(p, "delete_received")
                     /\ responding' = [responding EXCEPT ![p] =
                                          [r EXCEPT !.packets = answer, !.hash = h]]
                ELSE /\ responding' = [responding EXCEPT ![p] = Answered(r, answer, h)]
                     /\ UNCHANGED << state, initiating, queued, delayed, wakeups,
                                     active, nextId, jobs, cause >>

\* A mutant of ExpectedRequest: earlier requests are accepted, too.
AnyEarlierRequest(r, m) == m.mid <= r.mid

\* Is m a request with the message ID the peer expects?
ExpectedRequest(r, m) == m.mid = r.mid

\* is_retransmit(): is m the request the cached response answers?
IsRetransmit(r, m) ==
    /\ m.mid + 1 = r.mid
    /\ r.packets # {}
    /\ Hash(m) = r.prev_hash

\* process_message() of a request packet.
HandleRequest(p, m) ==
    LET r == responding[p] IN
    /\ Exists(p)
    /\ m.from # p /\ m.request
    /\ UNCHANGED << route, sent, done >>
    /\ \/ /\ IsRetransmit(r, m)
          /\ net' = net \cup r.packets
          /\ UNCHANGED << sa, served >>
       \/ /\ ExpectedRequest(r, m)               \* and not a fragment
          /\ m.total = 1
          /\ ProcessRequest(p, m.task, Hash(m), r)
       \/ /\ ExpectedRequest(r, m)               \* but only a fragment
          /\ m.total > 1
          /\ \A f \in r.defrag : f.mid = m.mid
          /\ LET h == IF m.num = 1 THEN Hash(m) ELSE r.hash
                 got == r.defrag \cup {m}
             IN  IF Cardinality(got) = m.total
                 THEN ProcessRequest(p, m.task, h, [r EXCEPT !.hash = h, !.defrag = {}])
                 ELSE /\ responding' = [responding EXCEPT ![p] =
                                           [r EXCEPT !.hash = h, !.defrag = got]]
                      /\ UNCHANGED << state, initiating, queued, delayed, wakeups,
                                      active, nextId, jobs, cause, net, served >>

-----------------------------------------------------------------------------
(* Responses of the other peer.                                             *)

\* What process() of the active task t returns for an answer, as the tasks the
\* peer is left with: "more" if t needs another exchange.
Outcomes(t, res) ==
    CASE t.type = "CHILD_CREATE" /\ res = "invalid_ke" /\ ~t.retry -> {"more"}
      [] t.type = "CHILD_CREATE" /\ res = "temporary_failure" -> {"requeue"}
      [] t.type = "MOBIKE" /\ res = "ok" /\ ~t.retry -> {"more", "done"}
      [] t.type = "IKE_DELETE" -> {"destroy"}
      [] OTHER -> {"done"}

\* process_response() of a complete response m, e is the initiating exchange
\* with its defragmentation helper reset.
ProcessResponse(p, m, e) ==
    LET t == active[p]
        next == [e EXCEPT !.mid = @ + 1, !.type = "UNDEFINED", !.packets = {}]
        retry == [id |-> nextId[p], type |-> "CHILD_CREATE", body |-> t.body,
                  retry |-> FALSE]
        Continue(a, q, d, w, n) ==
            \* process_message() destroys the IKE_SA unless initiate() succeeds
            IF InitiateFails(p, next, a, q, d)
            THEN /\ Destroy(p, "not_deferred")
                 /\ UNCHANGED << net, sent >>
            ELSE /\ Initiate(p, next, a, q, d)
                 /\ delayed' = [delayed EXCEPT ![p] = d]
                 /\ wakeups' = [wakeups EXCEPT ![p] = w]
                 /\ nextId' = [nextId EXCEPT ![p] = n]
                 /\ UNCHANGED cause
    IN
    \/ /\ m.exchange # e.type
       /\ Destroy(p, "mismatch")
       /\ UNCHANGED << net, sent, done >>
    \/ /\ m.exchange = e.type
       /\ m.res = "syntax"
       /\ Destroy(p, "syntax")
       /\ done' = [done EXCEPT ![p] = Append(@, [task |-> t, res |-> m.res])]
       /\ UNCHANGED << net, sent >>
    \/ /\ m.exchange = e.type
       /\ m.res # "syntax"
       /\ done' = [done EXCEPT ![p] = Append(@, [task |-> t, res |-> m.res])]
       /\ \E out \in Outcomes(t, m.res) :
          \/ /\ out = "destroy"
             /\ Destroy(p, "delete_done")
             /\ UNCHANGED << net, sent >>
          \/ /\ out = "more"
             /\ Continue([t EXCEPT !.retry = TRUE], queued[p], delayed[p],
                         wakeups[p], nextId[p])
          \/ /\ out = "done"
             /\ Continue(NoTask, queued[p], delayed[p], wakeups[p], nextId[p])
          \/ /\ out = "requeue"
             /\ nextId[p] <= MaxTasks             \* bound: else as good as lost
             /\ Continue(NoTask, queued[p] \cup {retry}, delayed[p] \cup {retry.id},
                         wakeups[p] \cup {retry.id}, nextId[p] + 1)

\* A mutant of ExpectedResponse: the responses of earlier exchanges match, too.
AnyEarlierResponse(e, m) == m.mid <= e.mid

\* Is m a response for the message ID of the peer's exchange?
ExpectedResponse(e, m) == m.mid = e.mid

\* process_message() of a response packet.
HandleResponse(p, m) ==
    LET e == initiating[p]
        got == e.defrag \cup {m}
        \* handle_fragment() hashes whatever is no fragment, or the first one
        hash == IF m.total = 1 \/ m.num = 1 THEN Hash(m) ELSE responding[p].hash
    IN
    /\ Exists(p)
    /\ m.from # p /\ ~m.request
    /\ ExpectedResponse(e, m)
    /\ responding' = [responding EXCEPT ![p].hash = hash]
    /\ UNCHANGED << route, served >>
    /\ m.total > 1 => \A f \in e.defrag : f.mid = m.mid
    /\ IF m.total = 1 \/ Cardinality(got) = m.total
       THEN ProcessResponse(p, m, IF m.total = 1 THEN e ELSE [e EXCEPT !.defrag = {}])
       ELSE /\ initiating' = [initiating EXCEPT ![p].defrag = got]
            /\ UNCHANGED << state, queued, delayed, wakeups, active, nextId, jobs,
                            cause, net, sent, done >>

-----------------------------------------------------------------------------
Next ==
    \E p \in Peer :
       \/ \E body \in Bodies :
             \/ InitiateChild(p, body)
             \/ ControllerInitiate(p, body)
             \/ DeleteChildSa(p, body)
       \/ SendDpd(p)
       \/ Roam(p)
       \/ DeleteIkeSa(p)
       \/ ForceDelete(p)
       \/ \E mid \in jobs[p] : RetransmitJob(p, mid)
       \/ \E t \in queued[p] : DelayPasses(p, t)
       \/ \E id \in wakeups[p] : InitiateTasksJob(p, id)
       \/ RouteChange(p)
       \/ \E m \in net : HandleRequest(p, m) \/ HandleResponse(p, m)

Spec == Init /\ [][Next]_vars

\* The scheduler and the processor run every job that is due; nothing is assumed
\* about the network.
Fairness ==
    \A p \in Peer :
       /\ WF_vars(\E mid \in jobs[p] : RetransmitJob(p, mid))
       /\ WF_vars(\E t \in queued[p] : DelayPasses(p, t))
       /\ WF_vars(\E id \in wakeups[p] : InitiateTasksJob(p, id))

FairSpec == Spec /\ Fairness

-----------------------------------------------------------------------------
(* Properties.                                                              *)

Packet == [from : Peer, request : BOOLEAN, mid : Nat, exchange : ExchangeType,
           task : Task, res : ResultKind \cup {"none"}, num : Nat, total : Nat]

HashValue == [from : Peer \cup {"none"}, request : BOOLEAN, mid : Nat, num : Nat]

LogEntry == [task : Task, res : ResultKind]

InitiatingExchange ==
    [mid : Nat, type : ExchangeType \cup {"UNDEFINED"},
     retransmitted : 0..(Tries + 1), deferred : BOOLEAN,
     packets : SUBSET Packet, defrag : SUBSET Packet]

RespondingExchange ==
    [mid : Nat, hash : HashValue, prev_hash : HashValue,
     packets : SUBSET Packet, defrag : SUBSET Packet]

Causes == {"none", "forced", "timeout", "syntax", "mismatch", "delete_received",
           "delete_done", "not_deferred"}

\* The variables have the types of the fields of private_task_manager_t; the
\* retransmission counter never passes the configured tries.
TypeOK ==
    /\ state \in [Peer -> {"ESTABLISHED", "DELETING", "DESTROYED"}]
    /\ initiating \in [Peer -> InitiatingExchange]
    /\ responding \in [Peer -> RespondingExchange]
    /\ queued \in [Peer -> SUBSET Task]
    /\ delayed \in [Peer -> SUBSET Nat]
    /\ wakeups \in [Peer -> SUBSET Nat]
    /\ active \in [Peer -> Task \cup {NoTask}]
    /\ nextId \in [Peer -> Nat]
    /\ jobs \in [Peer -> SUBSET Nat]
    /\ route \in [Peer -> BOOLEAN]
    /\ net \in SUBSET Packet
    /\ cause \in [Peer -> Causes]
    /\ sent \in [Peer -> Seq(Task)]
    /\ served \in [Peer -> Seq(LogEntry)]
    /\ done \in [Peer -> Seq(LogEntry)]

IsPrefix(s, t) == Len(s) <= Len(t) /\ \A k \in 1..Len(s) : s[k] = t[k]

\* The inductive strengthening of the four properties that follow, for the
\* exchanges peer p initiates: the histories, the message IDs of the two ends,
\* and the packets in the network and in the retransmission buffers agree.
ExchangesAgreeAt(p) ==
    LET q == Other(p)
        n == Len(sent[p])
        v == Len(served[q])
        d == Len(done[p])
    IN
    /\ d <= v /\ v <= n /\ n <= d + 1
    /\ \A k \in 1..v : served[q][k].task = sent[p][k]
    /\ \A k \in 1..d : done[p][k] = served[q][k]
    /\ Exists(q) => responding[q].mid = Base(p) + v
    /\ Exists(p) => initiating[p].mid = Base(p) + d
    /\ Exists(p) /\ n = d =>
          /\ active[p] = NoTask
          /\ initiating[p].type = "UNDEFINED"
          /\ initiating[p].packets = {}
    /\ Exists(p) /\ n = d + 1 =>
          /\ active[p] = sent[p][n]
          /\ initiating[p].type = ExchangeOf(sent[p][n])
          /\ initiating[p].packets = Request(p, Base(p) + d, sent[p][n])
    /\ \A m \in net :
          m.from = p /\ m.request =>
             /\ m.mid >= Base(p) /\ m.mid < Base(p) + n
             /\ m.task = sent[p][m.mid - Base(p) + 1]
    /\ \A m \in net :
          m.from = q /\ ~m.request =>
             /\ m.mid >= Base(p) /\ m.mid < Base(p) + v
             /\ m.task = served[q][m.mid - Base(p) + 1].task
             /\ m.res = served[q][m.mid - Base(p) + 1].res
             /\ m.exchange = ExchangeOf(m.task)
    /\ responding[q].packets \subseteq net

ExchangesAgree == \A p \in Peer : ExchangesAgreeAt(p)

\* Every exchange a peer completed is one the other peer served: the same task
\* under the same message ID with the same answer, in the order of the message
\* IDs, none twice and none skipped, whatever the network does to the packets
\* (window of one exchange, process_message).
CompletedWereServed == \A p \in Peer : IsPrefix(done[p], served[Other(p)])

\* A peer serves exactly the requests the other one started, each once and in
\* order: retransmitted and reassembled requests never reach the tasks again.
ServedWereSent ==
    \A p \in Peer :
       IsPrefix([k \in 1..Len(served[p]) |-> served[p][k].task], sent[Other(p)])

\* The message IDs of the two ends are in step: a peer expects the request its
\* partner has in the air, or the one after it.
MessageIdsInStep ==
    \A p \in Peer :
       Exists(p) /\ Exists(Other(p)) =>
          responding[Other(p)].mid \in {initiating[p].mid, initiating[p].mid + 1}

\* A response is only retransmitted for the request it answers: when
\* is_retransmit() recognises a request, the cached packets carry its message ID
\* and answer its task.
CachedResponseAnswers ==
    \A p \in Peer : \A m \in net :
       Exists(p) /\ m.from # p /\ m.request /\ IsRetransmit(responding[p], m) =>
          \A a \in responding[p].packets : a.mid = m.mid /\ a.task = m.task

\* Both ends agree about a delete: an IKE_SA is torn down by a completed delete
\* only after the peer destroyed its end, and by a received one only if the peer
\* is deleting it.
DeletesAgree ==
    \A p \in Peer :
       /\ cause[p] = "delete_done" => ~Exists(Other(p))
       /\ cause[p] = "delete_received" => state[Other(p)] # "ESTABLISHED"

\* No task is forgotten: with no exchange in progress, a task that may run has
\* an initiate_tasks job scheduled for it.
NoForgottenTask ==
    \A p \in Peer :
       state[p] = "ESTABLISHED" /\ active[p] = NoTask =>
          \A t \in queued[p] : t.id \in wakeups[p]

\* An exchange in progress is always driven: a retransmit job for its message
\* ID is scheduled, unless it was deferred for lack of a path.
ExchangeIsDriven ==
    \A p \in Peer :
       Exists(p) /\ active[p] # NoTask =>
          \/ initiating[p].deferred
          \/ initiating[p].mid \in jobs[p]

\* A deferred exchange keeps its IKE_SA: "MOBIKE update deferred" in
\* retransmit() means that it is initiated again once there is a path.
DeferralKeepsIkeSa == \A p \in Peer : cause[p] # "not_deferred"

\* responding.prev_hash is the "Hash of the previously received message, or its
\* first fragment", which is what recognises a retransmission of the request the
\* cached packets answer.
PrevHashIsOfRequest ==
    \A p \in Peer :
       Exists(p) =>
          \A a \in responding[p].packets :
             responding[p].prev_hash =
                [from |-> Other(p), request |-> TRUE, mid |-> a.mid, num |-> 1]

\* responding.packets are the "Packet(s) for retransmissions (mid-1)".
PacketsAreOfPreviousMid ==
    \A p \in Peer :
       Exists(p) => \A a \in responding[p].packets : a.mid + 1 = responding[p].mid

\* An IKE_SA that is being deleted is gone eventually, even if the peer never
\* answers or deletes it at the same time: retransmissions are bounded.
DeleteEnds == \A p \in Peer : state[p] = "DELETING" ~> state[p] = "DESTROYED"

\* The peer has no task left, or its exchange is deferred until roam() ends that.
NoTaskLeft(p) ==
    \/ queued[p] = {} /\ active[p] = NoTask
    \/ initiating[p].deferred

\* Every task leaves the IKE_SA eventually, also one that waits for an exchange of
\* another task or for the time of a retry (initiate(), queue_task_delayed()): its
\* exchange ends or the IKE_SA is destroyed.
TasksEnd == \A p \in Peer : []<>NoTaskLeft(p)

\* The two task managers implement the serial exactly-once channel.
Channel == INSTANCE ExchangeChannel
              WITH sent <- sent, served <- served, done <- done

ChannelSpec == Channel!Spec

=============================================================================
