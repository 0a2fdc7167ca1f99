-------------------------- MODULE TaskManagerProofs --------------------------
(* Proofs about TaskManager, for every value of its constants.              *)
EXTENDS TaskManager, FiniteSetTheorems, TLAPS

\* The exchange type of a task is one of the modelled ones.
LEMMA ExchangeOfType ==
    ASSUME NEW t PROVE ExchangeOf(t) \in ExchangeType
  BY DEF ExchangeOf, ExchangeType

\* The packets of a message are packets.
LEMMA PacketsType ==
    ASSUME NEW p \in Peer, NEW b \in BOOLEAN, NEW mid \in Nat, NEW t \in Task,
           NEW res \in ResultKind \cup {"none"}, NEW n \in Nat
    PROVE  Packets(p, b, mid, t, res, n) \in SUBSET Packet
  <1> SUFFICES ASSUME NEW k \in 1..n
               PROVE  [from |-> p, request |-> b, mid |-> mid,
                       exchange |-> ExchangeOf(t), task |-> t, res |-> res,
                       num |-> k, total |-> n] \in Packet
    BY DEF Packets
  <1>1. ExchangeOf(t) \in ExchangeType BY ExchangeOfType
  <1>2. k \in Nat OBVIOUS
  <1> QED BY <1>1, <1>2, Zenon DEF Packet

\* generate_message() of a request yields packets.
LEMMA RequestType ==
    ASSUME NEW p \in Peer, NEW mid \in Nat, NEW t \in Task
    PROVE  Request(p, mid, t) \in SUBSET Packet
  <1>1. FragCount[ExchangeOf(t)] \in Nat
    BY ExchangeOfType, ConstantAssumption
  <1> QED BY <1>1, PacketsType DEF Request

\* generate_message() of a response, and send_notify_response(), yield packets.
LEMMA ResponseType ==
    ASSUME NEW p \in Peer, NEW mid \in Nat, NEW t \in Task, NEW res \in ResultKind
    PROVE  /\ Response(p, mid, t, res) \in SUBSET Packet
           /\ NotifyResponse(p, mid, t, res) \in SUBSET Packet
  <1>1. FragCount[ExchangeOf(t)] \in Nat
    BY ExchangeOfType, ConstantAssumption
  <1> QED BY <1>1, PacketsType DEF Response, NotifyResponse

\* hash_message() yields a hash.
LEMMA HashType ==
    ASSUME NEW m \in Packet PROVE Hash(m) \in HashValue
  BY DEF Hash, HashValue, Packet

\* The state after the authentication has the right types.
LEMMA InitType == Init => TypeOK
  <1> SUFFICES ASSUME Init PROVE TypeOK OBVIOUS
  <1>1. AuthTask \in Task BY DEF AuthTask, Task, BodyKind
  <1>2. AuthMids \in Nat /\ AuthMids - 1 \in Nat BY ConstantAssumption
  <1>3. AuthRequest \in SUBSET Packet
    BY <1>1, <1>2, RequestType DEF AuthRequest, Peer
  <1>4. AuthResponse \in SUBSET Packet
    BY <1>1, <1>2, ResponseType DEF AuthResponse, Peer, ResultKind
  <1>5. AuthHash \in HashValue /\ NoHash \in HashValue
    BY <1>2 DEF AuthHash, NoHash, HashValue, Peer
  <1>6. initiating \in [Peer -> InitiatingExchange]
    <2> SUFFICES ASSUME NEW p \in Peer
                 PROVE  [mid |-> IF p = "i" THEN AuthMids ELSE 0,
                         type |-> "UNDEFINED", retransmitted |-> 0,
                         deferred |-> FALSE, packets |-> {}, defrag |-> {}]
                           \in InitiatingExchange
      BY DEF Init
    <2>1. 0 \in 0..(Tries + 1) BY ConstantAssumption
    <2> QED BY <1>2, <2>1 DEF InitiatingExchange
  <1>7. responding \in [Peer -> RespondingExchange]
    BY <1>2, <1>4, <1>5 DEF Init, RespondingExchange
  <1>8. /\ sent \in [Peer -> Seq(Task)]
        /\ served \in [Peer -> Seq(LogEntry)]
        /\ done \in [Peer -> Seq(LogEntry)]
    <2>1. << AuthTask >> \in Seq(Task) /\ << >> \in Seq(Task) BY <1>1
    <2>2. [task |-> AuthTask, res |-> "ok"] \in LogEntry
      BY <1>1 DEF LogEntry, ResultKind
    <2>3. /\ << [task |-> AuthTask, res |-> "ok"] >> \in Seq(LogEntry)
          /\ << >> \in Seq(LogEntry)
      BY <2>2
    <2> QED BY <2>1, <2>3 DEF Init
  <1> QED BY <1>3, <1>4, <1>6, <1>7, <1>8 DEF Init, TypeOK, Causes

\* retransmit() keeps the types of what it changes.
LEMMA TransmitType ==
    ASSUME TypeOK, NEW p \in Peer, NEW e \in InitiatingExchange,
           e.retransmitted <= Tries, NEW t, NEW rest \in SUBSET Nat,
           Transmit(p, e, t, rest)
    PROVE  /\ initiating' \in [Peer -> InitiatingExchange]
           /\ jobs' \in [Peer -> SUBSET Nat]
           /\ net' \in SUBSET Packet
  <1> DEFINE f == [e EXCEPT !.deferred = TRUE]
             g == [e EXCEPT !.retransmitted = @ + 1]
  <1>1. e.mid \in Nat /\ e.packets \in SUBSET Packet BY DEF InitiatingExchange
  <1>2. f \in InitiatingExchange BY DEF InitiatingExchange
  <1>3. g \in InitiatingExchange
    <2>1. e.retransmitted + 1 \in 0..(Tries + 1)
      BY ConstantAssumption DEF InitiatingExchange
    <2> QED BY <2>1 DEF InitiatingExchange
  <1> HIDE DEF f, g
  <1>4. \/ initiating' = [initiating EXCEPT ![p] = g]
        \/ initiating' = [initiating EXCEPT ![p] = f]
    BY DEF Transmit, f, g
  <1>5. \/ /\ jobs' = [jobs EXCEPT ![p] = rest \cup {e.mid}]
           /\ net' = net \cup e.packets
        \/ jobs' = [jobs EXCEPT ![p] = rest] /\ net' = net
    BY DEF Transmit
  <1>6. initiating' \in [Peer -> InitiatingExchange]
    BY <1>2, <1>3, <1>4 DEF TypeOK
  <1>7. jobs' \in [Peer -> SUBSET Nat]
    <2>1. rest \cup {e.mid} \in SUBSET Nat BY <1>1
    <2> QED BY <2>1, <1>5 DEF TypeOK
  <1>8. net' \in SUBSET Packet BY <1>1, <1>5 DEF TypeOK
  <1> QED BY <1>6, <1>7, <1>8

\* Destroying an IKE_SA keeps the types of what it changes.
LEMMA DestroyType ==
    ASSUME TypeOK, NEW p \in Peer, NEW why \in Causes, Destroy(p, why)
    PROVE  /\ state' \in [Peer -> {"ESTABLISHED", "DELETING", "DESTROYED"}]
           /\ initiating' \in [Peer -> InitiatingExchange]
           /\ queued' \in [Peer -> SUBSET Task]
           /\ delayed' \in [Peer -> SUBSET Nat]
           /\ wakeups' \in [Peer -> SUBSET Nat]
           /\ active' \in [Peer -> Task \cup {NoTask}]
           /\ nextId' \in [Peer -> Nat]
           /\ jobs' \in [Peer -> SUBSET Nat]
           /\ cause' \in [Peer -> Causes]
  BY DEF Destroy, TypeOK

\* initiate() starts only tasks.
LEMMA StartableType ==
    ASSUME NEW p, NEW a \in Task \cup {NoTask}, NEW q \in SUBSET Task, NEW d
    PROVE  Startable(p, a, q, d) \in SUBSET Task
  BY DEF Startable, Activatable

\* initiate() keeps the types of what it changes.
LEMMA InitiateType ==
    ASSUME TypeOK, NEW p \in Peer, NEW e \in InitiatingExchange,
           NEW a \in Task \cup {NoTask}, NEW q \in SUBSET Task, NEW d,
           Initiate(p, e, a, q, d)
    PROVE  /\ state' \in [Peer -> {"ESTABLISHED", "DELETING", "DESTROYED"}]
           /\ initiating' \in [Peer -> InitiatingExchange]
           /\ queued' \in [Peer -> SUBSET Task]
           /\ active' \in [Peer -> Task \cup {NoTask}]
           /\ jobs' \in [Peer -> SUBSET Nat]
           /\ net' \in SUBSET Packet
           /\ sent' \in [Peer -> Seq(Task)]
  <1> DEFINE S == Startable(p, a, q, d)
  <1>1. S \in SUBSET Task BY StartableType
  <1>2. jobs[p] \in SUBSET Nat BY DEF TypeOK
  <1>3. 0 \in 0..(Tries + 1) /\ 0 <= Tries BY ConstantAssumption
  <1>a. CASE /\ e.type # "UNDEFINED"
             /\ queued' = [queued EXCEPT ![p] = q]
             /\ active' = [active EXCEPT ![p] = a]
             /\ UNCHANGED << state, sent >>
             /\ IF e.deferred
                THEN Transmit(p, [e EXCEPT !.deferred = FALSE, !.retransmitted = 0],
                              a, jobs[p])
                ELSE /\ initiating' = [initiating EXCEPT ![p] = e]
                     /\ UNCHANGED << jobs, net >>
    <2> DEFINE f == [e EXCEPT !.deferred = FALSE, !.retransmitted = 0]
    <2>1. f \in InitiatingExchange /\ f.retransmitted = 0
      BY <1>3 DEF InitiatingExchange
    <2>2. /\ initiating' \in [Peer -> InitiatingExchange]
          /\ jobs' \in [Peer -> SUBSET Nat]
          /\ net' \in SUBSET Packet
      <3>1. CASE e.deferred
        <4> HIDE DEF f
        <4>1. Transmit(p, f, a, jobs[p]) BY <1>a, <3>1 DEF f
        <4> QED BY <4>1, <1>2, <1>3, <2>1, TransmitType
      <3>2. CASE ~e.deferred BY <1>a, <3>2 DEF TypeOK
      <3> QED BY <3>1, <3>2
    <2> QED BY <1>a, <2>2 DEF TypeOK
  <1>b. CASE /\ e.type = "UNDEFINED"
             /\ S = {}
             /\ queued' = [queued EXCEPT ![p] = q \ Aborted(p, a, q, d, {})]
             /\ initiating' = [initiating EXCEPT ![p] = e]
             /\ active' = [active EXCEPT ![p] = a]
             /\ UNCHANGED << state, jobs, net, sent >>
    BY <1>b DEF TypeOK
  <1>c. CASE /\ e.type = "UNDEFINED"
             /\ \E c \in S :
                   /\ IsFirst(c, S)
                   /\ queued' = [queued EXCEPT ![p] =
                                    q \ ({c} \cup Aborted(p, a, q, d, {c}))]
                   /\ Start(p, e, c)
    <2>1. PICK c \in S : /\ queued' = [queued EXCEPT ![p] =
                                    q \ ({c} \cup Aborted(p, a, q, d, {c}))]
                         /\ Start(p, e, c)
      BY <1>c
    <2>2. c \in Task BY <1>1
    <2> DEFINE f == [e EXCEPT !.type = ExchangeOf(c), !.retransmitted = 0,
                              !.deferred = FALSE, !.packets = Request(p, e.mid, c)]
    <2>3. e.mid \in Nat BY DEF InitiatingExchange
    <2>4. f \in InitiatingExchange /\ f.retransmitted = 0
      BY <1>3, <2>2, <2>3, RequestType, ExchangeOfType DEF InitiatingExchange
    <2>5. /\ initiating' \in [Peer -> InitiatingExchange]
          /\ jobs' \in [Peer -> SUBSET Nat]
          /\ net' \in SUBSET Packet
      <3> HIDE DEF f
      <3>1. Transmit(p, f, c, jobs[p]) BY <2>1 DEF f, Start
      <3> QED BY <3>1, <1>2, <1>3, <2>4, TransmitType
    <2>6. /\ active' = [active EXCEPT ![p] = c]
          /\ sent' = [sent EXCEPT ![p] = Append(@, c)]
          /\ \/ state' = [state EXCEPT ![p] = "DELETING"]
             \/ state' = state
      BY <2>1 DEF Start
    <2>7. sent[p] \in Seq(Task) BY DEF TypeOK
    <2>8. Append(sent[p], c) \in Seq(Task) BY <2>2, <2>7
    <2> QED BY <2>1, <2>2, <2>5, <2>6, <2>8 DEF TypeOK
  <1> HIDE DEF S
  <1> QED BY <1>a, <1>b, <1>c DEF Initiate, S

-----------------------------------------------------------------------------
\* There are two peers, each the partner of the other.
LEMMA PeerFacts ==
    ASSUME NEW p \in Peer
    PROVE  /\ Other(p) \in Peer /\ Other(p) # p /\ Other(Other(p)) = p
           /\ \A x \in Peer : x = p \/ x = Other(p)
           /\ Base(p) \in Nat
  BY ConstantAssumption DEF Peer, Other, Base

\* What the packets of a message carry.
LEMMA RequestFields ==
    ASSUME NEW p, NEW mid, NEW t, NEW m \in Request(p, mid, t)
    PROVE  m.from = p /\ m.request = TRUE /\ m.mid = mid /\ m.task = t
  BY DEF Request, Packets

\* What the packets of a response carry.
LEMMA ResponseFields ==
    ASSUME NEW p, NEW mid, NEW t, NEW res,
           NEW m \in Response(p, mid, t, res) \cup NotifyResponse(p, mid, t, res)
    PROVE  /\ m.from = p /\ m.request = FALSE /\ m.mid = mid /\ m.task = t
           /\ m.res = res /\ m.exchange = ExchangeOf(t)
  BY DEF Response, NotifyResponse, Packets

\* A step that leaves the exchanges initiated by x alone.
LEMMA Frame ==
    ASSUME NEW x \in Peer, NEW y, y = Other(x), ExchangesAgreeAt(x),
           sent'[x] = sent[x], done'[x] = done[x], served'[y] = served[y],
           Exists(x)' => /\ Exists(x)
                         /\ initiating'[x].mid = initiating[x].mid
                         /\ initiating'[x].type = initiating[x].type
                         /\ initiating'[x].packets = initiating[x].packets
                         /\ active'[x] = active[x],
           Exists(y)' => Exists(y) /\ responding'[y].mid = responding[y].mid,
           responding'[y].packets = responding[y].packets,
           net \subseteq net',
           \A m \in net' : \/ m \in net
                           \/ ~(m.from = x /\ m.request) /\ ~(m.from = y /\ ~m.request)
    PROVE  ExchangesAgreeAt(x)'
  BY DEF ExchangesAgreeAt

\* What retransmit() does to the exchange, and that it sends nothing but its packets.
LEMMA TransmitEffect ==
    ASSUME NEW p \in Peer, NEW e \in InitiatingExchange, NEW t, NEW rest,
           Transmit(p, e, t, rest)
    PROVE  /\ \E f : /\ initiating' = [initiating EXCEPT ![p] = f]
                     /\ f.mid = e.mid /\ f.type = e.type /\ f.packets = e.packets
           /\ net' = net \/ net' = net \cup e.packets
  <1> DEFINE f == [e EXCEPT !.deferred = TRUE]
             g == [e EXCEPT !.retransmitted = @ + 1]
  <1>1. /\ f.mid = e.mid /\ f.type = e.type /\ f.packets = e.packets
        /\ g.mid = e.mid /\ g.type = e.type /\ g.packets = e.packets
    BY DEF InitiatingExchange
  <1> HIDE DEF f, g
  <1>2. \/ initiating' = [initiating EXCEPT ![p] = g]
        \/ initiating' = [initiating EXCEPT ![p] = f]
    BY DEF Transmit, f, g
  <1>3. net' = net \/ net' = net \cup e.packets BY DEF Transmit
  <1> QED BY <1>1, <1>2, <1>3

\* initiate() either leaves the exchange e and the active task a as they are ...
KeepsExchange(p, e, a) ==
    /\ sent' = sent
    /\ state' = state
    /\ active' = [active EXCEPT ![p] = a]
    /\ \E f : /\ initiating' = [initiating EXCEPT ![p] = f]
              /\ f.mid = e.mid /\ f.type = e.type /\ f.packets = e.packets
    /\ net' = net \/ (e.type # "UNDEFINED" /\ net' = net \cup e.packets)

\* ... or starts the exchange of task c.
StartsExchange(p, e, c) ==
    /\ sent' = [sent EXCEPT ![p] = Append(@, c)]
    /\ active' = [active EXCEPT ![p] = c]
    /\ state' = [state EXCEPT ![p] = "DELETING"] \/ state' = state
    /\ net' = net \/ net' = net \cup Request(p, e.mid, c)
    /\ \E f : /\ initiating' = [initiating EXCEPT ![p] = f]
              /\ f.mid = e.mid /\ f.type = ExchangeOf(c)
              /\ f.packets = Request(p, e.mid, c)

\* The three ways initiate() can end: an exchange was in progress, nothing
\* was to be initiated, or an exchange is started.
LEMMA InitiateEffect ==
    ASSUME TypeOK, NEW p \in Peer, NEW e \in InitiatingExchange,
           NEW a \in Task \cup {NoTask}, NEW q \in SUBSET Task, NEW d,
           Initiate(p, e, a, q, d)
    PROVE  \/ /\ KeepsExchange(p, e, a)
              /\ e.type = "UNDEFINED" => Startable(p, a, q, d) = {}
           \/ /\ e.type = "UNDEFINED"
              /\ \E c \in Startable(p, a, q, d) : StartsExchange(p, e, c)
  <1> DEFINE S == Startable(p, a, q, d)
  <1>0. 0 \in 0..(Tries + 1) BY ConstantAssumption
  <1>a. CASE /\ e.type # "UNDEFINED"
             /\ active' = [active EXCEPT ![p] = a]
             /\ UNCHANGED << state, sent >>
             /\ IF e.deferred
                THEN Transmit(p, [e EXCEPT !.deferred = FALSE, !.retransmitted = 0],
                              a, jobs[p])
                ELSE /\ initiating' = [initiating EXCEPT ![p] = e]
                     /\ UNCHANGED << jobs, net >>
    <2> DEFINE g == [e EXCEPT !.deferred = FALSE, !.retransmitted = 0]
    <2>1. /\ g \in InitiatingExchange
          /\ g.mid = e.mid /\ g.type = e.type /\ g.packets = e.packets
      BY <1>0 DEF InitiatingExchange
    <2>2. CASE e.deferred
      <3> HIDE DEF g
      <3>1. Transmit(p, g, a, jobs[p]) BY <1>a, <2>2 DEF g
      <3>2. /\ \E f : /\ initiating' = [initiating EXCEPT ![p] = f]
                      /\ f.mid = g.mid /\ f.type = g.type /\ f.packets = g.packets
            /\ net' = net \/ net' = net \cup g.packets
        BY <3>1, <2>1, TransmitEffect
      <3> QED BY <3>2, <2>1, <1>a DEF KeepsExchange
    <2>3. CASE ~e.deferred
      <3>1. initiating' = [initiating EXCEPT ![p] = e] /\ net' = net BY <1>a, <2>3
      <3> QED BY <3>1, <1>a DEF KeepsExchange
    <2> QED BY <2>2, <2>3
  <1>b. CASE /\ e.type = "UNDEFINED"
             /\ S = {}
             /\ initiating' = [initiating EXCEPT ![p] = e]
             /\ active' = [active EXCEPT ![p] = a]
             /\ UNCHANGED << state, jobs, net, sent >>
    BY <1>b DEF KeepsExchange
  <1>c. CASE /\ e.type = "UNDEFINED"
             /\ \E c \in S : Start(p, e, c)
    <2>1. PICK c \in S : Start(p, e, c) BY <1>c
    <2>2. c \in Task BY StartableType
    <2> DEFINE g == [e EXCEPT !.type = ExchangeOf(c), !.retransmitted = 0,
                              !.deferred = FALSE, !.packets = Request(p, e.mid, c)]
    <2>3. e.mid \in Nat BY DEF InitiatingExchange
    <2>4. /\ g \in InitiatingExchange
          /\ g.mid = e.mid /\ g.type = ExchangeOf(c)
          /\ g.packets = Request(p, e.mid, c)
      BY <1>0, <2>2, <2>3, RequestType, ExchangeOfType DEF InitiatingExchange
    <2> HIDE DEF g, S
    <2>5. Transmit(p, g, c, jobs[p]) BY <2>1 DEF g, Start
    <2>6. /\ \E f : /\ initiating' = [initiating EXCEPT ![p] = f]
                    /\ f.mid = g.mid /\ f.type = g.type /\ f.packets = g.packets
          /\ net' = net \/ net' = net \cup g.packets
      BY <2>4, <2>5, TransmitEffect
    <2>7. /\ active' = [active EXCEPT ![p] = c]
          /\ sent' = [sent EXCEPT ![p] = Append(@, c)]
          /\ \/ state' = [state EXCEPT ![p] = "DELETING"]
             \/ state' = state
      BY <2>1 DEF Start
    <2>8. StartsExchange(p, e, c) BY <2>4, <2>6, <2>7 DEF StartsExchange
    <2> QED BY <1>c, <2>8 DEF S
  <1> HIDE DEF S
  <1> QED BY <1>a, <1>b, <1>c DEF Initiate, S

\* There is no number between another one and its successor.
LEMMA BetweenSuccessors ==
    ASSUME NEW n \in Nat, NEW D \in Nat, n >= D, n <= D + 1
    PROVE  n = D \/ n = D + 1
  OBVIOUS

\* initiate() keeps the exchanges of its peer in agreement if they agree when
\* it is called: D exchanges are completed, e and a describe the next one.
LEMMA InitiateAgrees ==
    ASSUME TypeOK, NEW p \in Peer, NEW e \in InitiatingExchange,
           NEW a \in Task \cup {NoTask}, NEW q \in SUBSET Task, NEW d,
           Initiate(p, e, a, q, d),
           ExchangesAgreeAt(p), Exists(p),
           NEW D \in Nat, D = Len(done'[p]), D >= Len(done[p]),
           D <= Len(served[Other(p)]), Len(sent[p]) <= D + 1,
           \A k \in 1..D : done'[p][k] = served[Other(p)][k],
           e.mid = Base(p) + D,
           Len(sent[p]) = D => /\ e.type = "UNDEFINED" /\ e.packets = {}
                               /\ a = NoTask \/ Startable(p, a, q, d) # {},
           Len(sent[p]) = D + 1 => /\ a = sent[p][D + 1]
                                   /\ e.type = ExchangeOf(a)
                                   /\ e.packets = Request(p, Base(p) + D, a),
           served' = served, responding'[Other(p)] = responding[Other(p)]
    PROVE  ExchangesAgreeAt(p)'
  <1> DEFINE o == Other(p)
             n == Len(sent[p])
  <1>1. o \in Peer /\ o # p /\ Base(p) \in Nat BY PeerFacts
  <1>2. sent[p] \in Seq(Task) /\ served[o] \in Seq(LogEntry) BY <1>1 DEF TypeOK
  <1>3. n \in Nat /\ n >= D /\ n <= D + 1 /\ Len(served[o]) \in Nat
    BY <1>2 DEF ExchangesAgreeAt
  <1>a. n = D \/ n = D + 1
    <2> HIDE DEF n
    <2> QED BY <1>3, BetweenSuccessors
  <1>b. n = D => e.type = "UNDEFINED" OBVIOUS
  <1>c. n = D + 1 => e.type # "UNDEFINED"
    BY ExchangeOfType DEF ExchangeType
  <1>d. \A m \in e.packets :
           /\ n = D + 1
           /\ m.from = p /\ m.request = TRUE /\ m.mid = Base(p) + D
           /\ m.task = sent[p][D + 1]
    <2> SUFFICES ASSUME NEW m \in e.packets
                 PROVE  /\ n = D + 1
                        /\ m.from = p /\ m.request = TRUE /\ m.mid = Base(p) + D
                        /\ m.task = sent[p][D + 1]
      OBVIOUS
    <2>1. n = D + 1 BY <1>a
    <2>2. m \in Request(p, Base(p) + D, sent[p][D + 1]) BY <2>1
    <2> QED BY <2>1, <2>2 DEF Request, Packets
  <1>4. CASE /\ KeepsExchange(p, e, a)
             /\ e.type = "UNDEFINED" => Startable(p, a, q, d) = {}
    <2>1. /\ initiating'[p].mid = e.mid /\ initiating'[p].type = e.type
          /\ initiating'[p].packets = e.packets
          /\ active'[p] = a
      BY <1>4 DEF TypeOK, KeepsExchange
    <2>2. \A m \in net' : m \in net \/ (m \in e.packets /\ e.type # "UNDEFINED")
      BY <1>4 DEF KeepsExchange
    <2>3. \A m \in net' : m.from = p /\ m.request =>
             /\ m.mid >= Base(p) /\ m.mid < Base(p) + n
             /\ m.task = sent[p][m.mid - Base(p) + 1]
      <3> SUFFICES ASSUME NEW m \in net', m.from = p, m.request
                   PROVE  /\ m.mid >= Base(p) /\ m.mid < Base(p) + n
                          /\ m.task = sent[p][m.mid - Base(p) + 1]
        OBVIOUS
      <3>1. CASE m \in net BY <3>1 DEF ExchangesAgreeAt
      <3>2. CASE m \in e.packets /\ e.type # "UNDEFINED"
        <4>1. n = D + 1 /\ m.mid = Base(p) + D /\ m.task = sent[p][D + 1]
          BY <3>2, <1>d
        <4> QED BY <4>1, <1>1
      <3> QED BY <3>1, <3>2, <2>2
    <2>4. \A m \in net' : m.from = o /\ ~m.request => m \in net
      BY <2>2, <1>1, <1>d
    <2>5. n = D => a = NoTask BY <1>4
    <2>6. net \subseteq net' /\ sent' = sent /\ state' = state
      BY <1>4 DEF KeepsExchange
    <2> QED BY <1>1, <1>2, <1>3, <2>1, <2>3, <2>4, <2>5, <2>6
            DEF ExchangesAgreeAt, Exists
  <1>5. CASE /\ e.type = "UNDEFINED"
             /\ \E c \in Startable(p, a, q, d) : StartsExchange(p, e, c)
    <2>1. PICK c \in Startable(p, a, q, d) : StartsExchange(p, e, c) BY <1>5
    <2>2. c \in Task BY StartableType
    <2>3. n = D BY <1>a, <1>c, <1>5
    <2>4. /\ sent'[p] = Append(sent[p], c)
          /\ active'[p] = c
          /\ initiating'[p].mid = e.mid /\ initiating'[p].type = ExchangeOf(c)
          /\ initiating'[p].packets = Request(p, Base(p) + D, c)
      BY <2>1 DEF TypeOK, StartsExchange
    <2>5. /\ Len(sent'[p]) = n + 1 /\ sent'[p][n + 1] = c
          /\ \A k \in 1..n : sent'[p][k] = sent[p][k]
      BY <2>2, <2>4, <1>2
    <2>6. \A m \in net' : m \in net \/ m \in Request(p, Base(p) + D, c)
      BY <2>1 DEF StartsExchange
    <2>7. \A m \in net' : m.from = p /\ m.request =>
             /\ m.mid >= Base(p) /\ m.mid < Base(p) + n + 1
             /\ m.task = sent'[p][m.mid - Base(p) + 1]
      <3> SUFFICES ASSUME NEW m \in net', m.from = p, m.request
                   PROVE  /\ m.mid >= Base(p) /\ m.mid < Base(p) + n + 1
                          /\ m.task = sent'[p][m.mid - Base(p) + 1]
        OBVIOUS
      <3>1. CASE m \in net
        <4>1. /\ m.mid >= Base(p) /\ m.mid < Base(p) + n
              /\ m.task = sent[p][m.mid - Base(p) + 1]
          BY <3>1 DEF ExchangesAgreeAt
        <4>2. m.mid \in Nat BY <3>1 DEF TypeOK, Packet
        <4>3. m.mid - Base(p) + 1 \in 1..n BY <4>1, <4>2, <1>1, <1>3
        <4>4. m.task = sent'[p][m.mid - Base(p) + 1] BY <4>1, <4>3, <2>5
        <4>5. m.mid < Base(p) + n + 1 BY <4>1, <4>2, <1>1, <1>3
        <4> QED BY <4>1, <4>4, <4>5
      <3>2. CASE m \in Request(p, Base(p) + D, c)
        <4>1. m.mid = Base(p) + D /\ m.task = c BY <3>2 DEF Request, Packets
        <4>2. m.mid - Base(p) + 1 = n + 1 BY <4>1, <2>3, <1>1, <1>3
        <4>3. m.mid >= Base(p) /\ m.mid < Base(p) + n + 1
          BY <4>1, <2>3, <1>1, <1>3
        <4> QED BY <4>1, <4>2, <4>3, <2>5
      <3> QED BY <3>1, <3>2, <2>6
    <2>8. \A m \in net' : m.from = o /\ ~m.request => m \in net
      BY <2>6, <1>1, RequestFields
    <2>9. net \subseteq net' BY <2>1 DEF StartsExchange
    <2>10. Exists(o)' => Exists(o) BY <2>1, <1>1 DEF Exists, TypeOK, StartsExchange
    <2>11. /\ Len(done'[p]) = n /\ Len(served'[o]) = n
           /\ \A k \in 1..n : served'[o][k].task = sent'[p][k]
      BY <1>3, <2>3, <2>5 DEF ExchangesAgreeAt
    <2>12. \A m \in net' : m.from = o /\ ~m.request =>
             /\ m.mid >= Base(p) /\ m.mid < Base(p) + Len(served'[o])
             /\ m.task = served'[o][m.mid - Base(p) + 1].task
             /\ m.res = served'[o][m.mid - Base(p) + 1].res
             /\ m.exchange = ExchangeOf(m.task)
      BY <2>8 DEF ExchangesAgreeAt
    <2>13. \A m \in net' : m.from = p /\ m.request =>
             /\ m.mid >= Base(p) /\ m.mid < Base(p) + Len(sent'[p])
             /\ m.task = sent'[p][m.mid - Base(p) + 1]
      <3>1. Base(p) + n + 1 = Base(p) + Len(sent'[p]) BY <1>1, <1>3, <2>5
      <3> QED BY <2>7, <3>1
    <2>14. Exists(o)' => responding'[o].mid = Base(p) + Len(served'[o])
      BY <2>10 DEF ExchangesAgreeAt
    <2>15. /\ initiating'[p].mid = Base(p) + Len(done'[p])
           /\ active'[p] = sent'[p][Len(sent'[p])]
           /\ initiating'[p].type = ExchangeOf(sent'[p][Len(sent'[p])])
           /\ initiating'[p].packets =
                 Request(p, Base(p) + Len(done'[p]), sent'[p][Len(sent'[p])])
      BY <2>3, <2>4, <2>5
    <2>16. responding'[o].packets \subseteq net'
      BY <2>9 DEF ExchangesAgreeAt
    <2>17. \A k \in 1..Len(done'[p]) : done'[p][k] = served'[o][k]
      OBVIOUS
    <2>18. /\ Len(done'[p]) <= Len(served'[o])
           /\ Len(served'[o]) <= Len(sent'[p])
           /\ Len(sent'[p]) <= Len(done'[p]) + 1
           /\ Len(sent'[p]) # Len(done'[p])
      BY <1>3, <2>3, <2>5, <2>11
    <2>19. \A k \in 1..Len(served'[o]) : served'[o][k].task = sent'[p][k]
      BY <2>11
    <2> QED BY <2>12, <2>13, <2>14, <2>15, <2>16, <2>17, <2>18, <2>19
            DEF ExchangesAgreeAt
  <1> HIDE DEF o, n
  <1> QED BY <1>4, <1>5, InitiateEffect

\* What initiate() leaves alone: the other peer, and all packets but requests.
LEMMA InitiateElsewhere ==
    ASSUME TypeOK, NEW p \in Peer, NEW e \in InitiatingExchange,
           NEW a \in Task \cup {NoTask}, NEW q \in SUBSET Task, NEW d,
           Initiate(p, e, a, q, d),
           \A m \in e.packets : m.from = p /\ m.request = TRUE
    PROVE  LET o == Other(p) IN
           /\ sent'[o] = sent[o] /\ state'[o] = state[o] /\ active'[o] = active[o]
           /\ initiating'[o] = initiating[o]
           /\ state'[p] = "DESTROYED" => state[p] = "DESTROYED"
           /\ net \subseteq net'
           /\ \A m \in net' : m \in net \/ (m.from = p /\ m.request = TRUE)
  <1> DEFINE o == Other(p)
  <1>1. o \in Peer /\ o # p BY PeerFacts
  <1>2. CASE KeepsExchange(p, e, a)
    BY <1>1, <1>2 DEF KeepsExchange, TypeOK
  <1>3. CASE \E c \in Startable(p, a, q, d) : StartsExchange(p, e, c)
    <2>1. PICK c \in Startable(p, a, q, d) : StartsExchange(p, e, c) BY <1>3
    <2>2. \A m \in Request(p, e.mid, c) : m.from = p /\ m.request = TRUE
      BY DEF Request, Packets
    <2> QED BY <1>1, <2>1, <2>2 DEF StartsExchange, TypeOK
  <1> HIDE DEF o
  <1> QED BY <1>2, <1>3, InitiateEffect DEF o

\* The packets of the exchange in progress are those of its request.
LEMMA InitiatingPackets ==
    ASSUME TypeOK, NEW p \in Peer, ExchangesAgreeAt(p), Exists(p)
    PROVE  \A m \in initiating[p].packets :
              /\ m.from = p /\ m.request = TRUE
              /\ Len(sent[p]) = Len(done[p]) + 1
              /\ m.mid = Base(p) + Len(done[p])
              /\ m.task = sent[p][Len(sent[p])]
  <1> DEFINE n == Len(sent[p])
             d == Len(done[p])
             v == Len(served[Other(p)])
  <1>1. n \in Nat /\ d \in Nat /\ v \in Nat BY PeerFacts DEF TypeOK
  <1>2. n = d \/ n = d + 1 BY <1>1 DEF ExchangesAgreeAt
  <1>3. CASE n = d BY <1>3 DEF ExchangesAgreeAt
  <1>4. CASE n = d + 1
    <2>1. initiating[p].packets = Request(p, Base(p) + d, sent[p][n])
      BY <1>4 DEF ExchangesAgreeAt
    <2> QED BY <1>4, <2>1 DEF Request, Packets
  <1> QED BY <1>2, <1>3, <1>4

\* A call of initiate() on the exchange and the active task of a peer keeps the
\* exchanges of both peers in agreement, whatever is queued.
LEMMA InitiateNow ==
    ASSUME TypeOK, ExchangesAgree, NEW p \in Peer, Exists(p),
           NEW q \in SUBSET Task, NEW d,
           Initiate(p, initiating[p], active[p], q, d),
           responding' = responding, served' = served, done' = done
    PROVE  ExchangesAgree'
  <1> DEFINE o == Other(p)
             e == initiating[p]
             D == Len(done[p])
  <1>1. /\ o \in Peer /\ o # p /\ Other(o) = p /\ Base(p) \in Nat
        /\ \A x \in Peer : x = p \/ x = o
    BY PeerFacts
  <1>2. e \in InitiatingExchange /\ active[p] \in Task \cup {NoTask} BY DEF TypeOK
  <1>3. ExchangesAgreeAt(p) /\ ExchangesAgreeAt(o) BY <1>1 DEF ExchangesAgree
  <1>4. D \in Nat /\ Len(sent[p]) \in Nat /\ Len(served[o]) \in Nat
    BY <1>1 DEF TypeOK
  <1>5. \A m \in e.packets : m.from = p /\ m.request = TRUE
    BY <1>3, InitiatingPackets
  <1>6. ExchangesAgreeAt(p)'
    <2>1. /\ D <= Len(served[o]) /\ Len(sent[p]) <= D + 1
          /\ \A k \in 1..D : done'[p][k] = served[o][k]
          /\ e.mid = Base(p) + D
          /\ Len(sent[p]) = D => /\ e.type = "UNDEFINED" /\ e.packets = {}
                                 /\ active[p] = NoTask
          /\ Len(sent[p]) = D + 1 =>
                /\ active[p] = sent[p][D + 1]
                /\ e.type = ExchangeOf(active[p])
                /\ e.packets = Request(p, Base(p) + D, active[p])
      BY <1>3 DEF ExchangesAgreeAt
    <2>2. D = Len(done'[p]) /\ D >= Len(done[p]) BY <1>4
    <2> HIDE DEF e, D
    <2> QED BY <1>2, <1>3, <1>4, <2>1, <2>2, InitiateAgrees DEF e
  <1>7. ExchangesAgreeAt(o)'
    <2>1. /\ sent'[o] = sent[o] /\ state'[o] = state[o] /\ active'[o] = active[o]
          /\ initiating'[o] = initiating[o]
          /\ state'[p] = "DESTROYED" => state[p] = "DESTROYED"
          /\ net \subseteq net'
          /\ \A m \in net' : m \in net \/ (m.from = p /\ m.request = TRUE)
      BY <1>2, <1>5, InitiateElsewhere
    <2> QED BY <1>1, <1>3, <2>1, Frame DEF Exists
  <1> QED BY <1>1, <1>6, <1>7 DEF ExchangesAgree

\* The exchanges of a peer that is destroyed stay in agreement, with D of them
\* completed.
LEMMA DestroyAgrees ==
    ASSUME TypeOK, NEW p \in Peer, NEW o, o = Other(p), ExchangesAgreeAt(p),
           ~Exists(p)', Exists(o)' => Exists(o),
           sent'[p] = sent[p], served'[o] = served[o],
           responding'[o] = responding[o],
           NEW D \in Nat, D = Len(done'[p]), D >= Len(done[p]),
           D <= Len(served[o]),
           \A k \in 1..D : done'[p][k] = served[o][k],
           net \subseteq net',
           \A m \in net' : m \in net \/ m \in initiating[p].packets,
           Exists(p)
    PROVE  ExchangesAgreeAt(p)'
  <1> DEFINE n == Len(sent[p])
             d == Len(done[p])
             v == Len(served[o])
  <1>1. n \in Nat /\ d \in Nat /\ v \in Nat /\ Base(p) \in Nat /\ o # p
    BY PeerFacts DEF TypeOK
  <1>2. d <= v /\ v <= n /\ n <= d + 1 BY DEF ExchangesAgreeAt
  <1>3. \A m \in initiating[p].packets :
           /\ m.from = p /\ m.request = TRUE
           /\ n = d + 1 /\ m.mid = Base(p) + d /\ m.task = sent[p][n]
    BY InitiatingPackets
  <1>4. \A m \in net' : m.from = p /\ m.request =>
           /\ m.mid >= Base(p) /\ m.mid < Base(p) + n
           /\ m.task = sent[p][m.mid - Base(p) + 1]
    <2> SUFFICES ASSUME NEW m \in net', m.from = p, m.request
                 PROVE  /\ m.mid >= Base(p) /\ m.mid < Base(p) + n
                        /\ m.task = sent[p][m.mid - Base(p) + 1]
      OBVIOUS
    <2>1. CASE m \in net BY <2>1 DEF ExchangesAgreeAt
    <2>2. CASE m \in initiating[p].packets
      <3>1. n = d + 1 /\ m.mid = Base(p) + d /\ m.task = sent[p][n]
        BY <2>2, <1>3
      <3>2. m.mid - Base(p) + 1 = n BY <3>1, <1>1
      <3> QED BY <3>1, <3>2, <1>1
    <2> QED BY <2>1, <2>2
  <1>5. \A m \in net' : m.from = o /\ ~m.request => m \in net BY <1>1, <1>3
  <1>6. D <= v /\ v <= n /\ n <= D + 1 BY <1>1, <1>2
  <1> QED BY <1>4, <1>5, <1>6 DEF ExchangesAgreeAt

-----------------------------------------------------------------------------
(* One lemma per action: it preserves the type invariant and the agreement. *)

\* Queueing a task and initiating it keeps the exchanges in agreement.
LEMMA QueueAndInitiateStep ==
    ASSUME TypeOK, ExchangesAgree, NEW p \in Peer, Exists(p),
           NEW type \in TaskType, NEW body \in BodyKind,
           QueueAndInitiate(p, type, body)
    PROVE  TypeOK' /\ ExchangesAgree'
  <1> DEFINE t == [id |-> nextId[p], type |-> type, body |-> body, retry |-> FALSE]
  <1>1. nextId[p] \in Nat /\ queued[p] \in SUBSET Task BY DEF TypeOK
  <1>2. t \in Task BY <1>1 DEF Task
  <1>3. /\ initiating[p] \in InitiatingExchange
        /\ active[p] \in Task \cup {NoTask}
    BY DEF TypeOK
  <1> HIDE DEF t
  <1>4. PICK q \in {queued[p], queued[p] \cup {t}} :
           Initiate(p, initiating[p], active[p], q, delayed[p])
    BY DEF QueueAndInitiate, t
  <1>5. q \in SUBSET Task BY <1>1, <1>2
  <1>6. /\ nextId' = [nextId EXCEPT ![p] = @ + 1]
        /\ UNCHANGED << responding, delayed, wakeups, cause, route, served, done >>
    BY DEF QueueAndInitiate
  <1>7. nextId' \in [Peer -> Nat] BY <1>1, <1>6 DEF TypeOK
  <1>8. TypeOK'
    <2>1. /\ state' \in [Peer -> {"ESTABLISHED", "DELETING", "DESTROYED"}]
          /\ initiating' \in [Peer -> InitiatingExchange]
          /\ queued' \in [Peer -> SUBSET Task]
          /\ active' \in [Peer -> Task \cup {NoTask}]
          /\ jobs' \in [Peer -> SUBSET Nat]
          /\ net' \in SUBSET Packet
          /\ sent' \in [Peer -> Seq(Task)]
      BY <1>3, <1>4, <1>5, InitiateType
    <2> QED BY <2>1, <1>6, <1>7 DEF TypeOK
  <1> QED BY <1>4, <1>5, <1>6, <1>8, InitiateNow

\* The initiate_tasks job keeps the exchanges in agreement.
LEMMA InitiateTasksJobStep ==
    ASSUME TypeOK, ExchangesAgree, NEW p \in Peer, NEW id, InitiateTasksJob(p, id)
    PROVE  TypeOK' /\ ExchangesAgree'
  <1>1. /\ initiating[p] \in InitiatingExchange
        /\ active[p] \in Task \cup {NoTask}
        /\ queued[p] \in SUBSET Task
    BY DEF TypeOK
  <1>2. /\ Initiate(p, initiating[p], active[p], queued[p], delayed[p])
        /\ wakeups' = [wakeups EXCEPT ![p] = @ \ {id}]
        /\ UNCHANGED << responding, delayed, nextId, cause, route, served, done >>
        /\ Exists(p)
    BY DEF InitiateTasksJob
  <1>3. wakeups' \in [Peer -> SUBSET Nat] BY <1>2 DEF TypeOK
  <1>4. TypeOK'
    <2>1. /\ state' \in [Peer -> {"ESTABLISHED", "DELETING", "DESTROYED"}]
          /\ initiating' \in [Peer -> InitiatingExchange]
          /\ queued' \in [Peer -> SUBSET Task]
          /\ active' \in [Peer -> Task \cup {NoTask}]
          /\ jobs' \in [Peer -> SUBSET Nat]
          /\ net' \in SUBSET Packet
          /\ sent' \in [Peer -> Seq(Task)]
      BY <1>1, <1>2, InitiateType
    <2> QED BY <2>1, <1>2, <1>3 DEF TypeOK
  <1> QED BY <1>1, <1>2, <1>4, InitiateNow

\* A forced delete keeps the exchanges in agreement.
LEMMA ForceDeleteStep ==
    ASSUME TypeOK, ExchangesAgree, NEW p \in Peer, ForceDelete(p)
    PROVE  TypeOK' /\ ExchangesAgree'
  <1> DEFINE t == [id |-> nextId[p], type |-> "IKE_DELETE", body |-> "valid",
                   retry |-> FALSE]
             e == initiating[p]
             o == Other(p)
             S == Startable(p, active[p], queued[p] \cup {t}, delayed[p])
             n == Len(sent[p])
             D == Len(done[p])
  <1>1. /\ o \in Peer /\ o # p /\ Other(o) = p /\ Base(p) \in Nat
        /\ \A x \in Peer : x = p \/ x = o
    BY PeerFacts
  <1>2. t \in Task BY DEF TypeOK, Task, TaskType, BodyKind
  <1>3. S \in SUBSET Task
    <2> HIDE DEF t
    <2>1. active[p] \in Task \cup {NoTask} /\ queued[p] \cup {t} \in SUBSET Task
      BY <1>2 DEF TypeOK
    <2> QED BY <2>1, StartableType
  <1>4. e \in InitiatingExchange /\ e.mid \in Nat /\ e.packets \in SUBSET Packet
    BY DEF TypeOK, InitiatingExchange
  <1>5. ExchangesAgreeAt(p) /\ ExchangesAgreeAt(o) BY <1>1 DEF ExchangesAgree
  <1>6. n \in Nat /\ D \in Nat /\ Len(served[o]) \in Nat /\ sent[p] \in Seq(Task)
    BY <1>1 DEF TypeOK
  <1>7. Exists(p) /\ Destroy(p, "forced") BY DEF ForceDelete
  <1>8. UNCHANGED << responding, route, served, done >> BY DEF ForceDelete
  <1>9. /\ state'[p] = "DESTROYED" /\ state'[o] = state[o] /\ active'[o] = active[o]
        /\ initiating' = initiating
    BY <1>1, <1>7 DEF Destroy, TypeOK
  <1>10. \A m \in e.packets : m.from = p /\ m.request = TRUE
    BY <1>5, <1>7, InitiatingPackets
  <1>11. "forced" \in Causes BY DEF Causes
  <1> HIDE DEF t, S
  <1>a. CASE /\ e.type = "UNDEFINED"
             /\ \E c \in S : /\ net' = net \/ net' = net \cup Request(p, e.mid, c)
                             /\ sent' = [sent EXCEPT ![p] = Append(@, c)]
    <2>1. PICK c \in S : /\ net' = net \/ net' = net \cup Request(p, e.mid, c)
                         /\ sent' = [sent EXCEPT ![p] = Append(@, c)]
      BY <1>a
    <2>2. c \in Task /\ Request(p, e.mid, c) \in SUBSET Packet
      BY <1>3, <1>4, RequestType
    <2>3. sent' \in [Peer -> Seq(Task)] /\ sent'[p] = Append(sent[p], c)
      <3>1. Append(sent[p], c) \in Seq(Task) BY <1>6, <2>2
      <3> QED BY <2>1, <3>1 DEF TypeOK
    <2>4. net' \in SUBSET Packet BY <2>1, <2>2 DEF TypeOK
    <2>5. TypeOK' BY <1>7, <1>8, <1>11, <2>3, <2>4, DestroyType DEF TypeOK
    <2>6. n = D
      <3>1. n = D + 1 => e.type # "UNDEFINED"
        BY <1>5, <1>7, ExchangeOfType DEF ExchangesAgreeAt, ExchangeType
      <3>2. n = D \/ n = D + 1 BY <1>5, <1>6 DEF ExchangesAgreeAt
      <3> QED BY <3>1, <3>2, <1>a
    <2>7. e.mid = Base(p) + D BY <1>5, <1>7 DEF ExchangesAgreeAt
    <2>8. /\ Len(sent'[p]) = n + 1 /\ sent'[p][n + 1] = c
          /\ \A k \in 1..n : sent'[p][k] = sent[p][k]
      BY <2>2, <2>3, <1>6
    <2>9. \A m \in Request(p, e.mid, c) :
             m.from = p /\ m.request = TRUE /\ m.mid = e.mid /\ m.task = c
      BY DEF Request, Packets
    <2>10. \A m \in net' : m.from = p /\ m.request =>
             /\ m.mid >= Base(p) /\ m.mid < Base(p) + (n + 1)
             /\ m.task = sent'[p][m.mid - Base(p) + 1]
      <3> SUFFICES ASSUME NEW m \in net', m.from = p, m.request
                   PROVE  /\ m.mid >= Base(p) /\ m.mid < Base(p) + (n + 1)
                          /\ m.task = sent'[p][m.mid - Base(p) + 1]
        OBVIOUS
      <3>1. CASE m \in net
        <4>1. /\ m.mid >= Base(p) /\ m.mid < Base(p) + n
              /\ m.task = sent[p][m.mid - Base(p) + 1]
          BY <3>1, <1>5 DEF ExchangesAgreeAt
        <4>2. m.mid \in Nat BY <3>1 DEF TypeOK, Packet
        <4>3. m.mid - Base(p) + 1 \in 1..n BY <4>1, <4>2, <1>1, <1>6
        <4> QED BY <4>1, <4>2, <4>3, <2>8, <1>1, <1>6, SMTT(30)
      <3>2. CASE m \in Request(p, e.mid, c)
        <4>1. m.mid = Base(p) + n /\ m.task = c BY <3>2, <2>6, <2>7, <2>9
        <4>2. m.mid - Base(p) + 1 = n + 1 BY <4>1, <1>1, <1>6
        <4> QED BY <4>1, <4>2, <2>8, <1>1, <1>6, SMTT(30)
      <3> QED BY <3>1, <3>2, <2>1
    <2>11. \A m \in net' : m.from = o /\ ~m.request => m \in net
      BY <2>1, <2>9, <1>1
    <2>12. net \subseteq net' BY <2>1
    <2>13. ExchangesAgreeAt(p)'
      <3>1. Len(served[o]) = n /\ Len(done'[p]) = n
        BY <1>5, <1>6, <1>8, <2>6 DEF ExchangesAgreeAt
      <3>2. \A k \in 1..n : served'[o][k].task = sent'[p][k]
        BY <1>5, <1>8, <2>8, <3>1 DEF ExchangesAgreeAt
      <3>3. ~Exists(p)' /\ (Exists(o)' => Exists(o)) BY <1>9 DEF Exists
      <3>4. \A m \in net' : m.from = o /\ ~m.request =>
               /\ m.mid >= Base(p) /\ m.mid < Base(p) + Len(served'[o])
               /\ m.task = served'[o][m.mid - Base(p) + 1].task
               /\ m.res = served'[o][m.mid - Base(p) + 1].res
               /\ m.exchange = ExchangeOf(m.task)
        BY <1>5, <1>8, <2>11 DEF ExchangesAgreeAt
      <3>5. /\ Exists(o)' => responding'[o].mid = Base(p) + Len(served'[o])
            /\ responding'[o].packets \subseteq net'
            /\ \A k \in 1..Len(done'[p]) : done'[p][k] = served'[o][k]
        BY <1>5, <1>8, <2>12, <3>3 DEF ExchangesAgreeAt
      <3>6. \A m \in net' : m.from = p /\ m.request =>
             /\ m.mid >= Base(p) /\ m.mid < Base(p) + Len(sent'[p])
             /\ m.task = sent'[p][m.mid - Base(p) + 1]
        BY <2>8, <2>10
      <3>7. /\ Len(done'[p]) <= Len(served'[o]) /\ Len(served'[o]) <= Len(sent'[p])
            /\ Len(sent'[p]) <= Len(done'[p]) + 1
            /\ \A k \in 1..Len(served'[o]) : served'[o][k].task = sent'[p][k]
        BY <3>1, <3>2, <1>6, <1>8, <2>8
      <3> QED BY <3>3, <3>4, <3>5, <3>6, <3>7 DEF ExchangesAgreeAt
    <2>14. ExchangesAgreeAt(o)'
      <3>1. sent'[o] = sent[o] BY <2>1, <1>1 DEF TypeOK
      <3>2. \A m \in net' : m \in net \/ (m.from = p /\ m.request = TRUE)
        BY <2>1, <2>9
      <3> QED BY <1>1, <1>5, <1>7, <1>8, <1>9, <2>12, <3>1, <3>2, Frame DEF Exists
    <2> QED BY <1>1, <2>5, <2>13, <2>14 DEF ExchangesAgree
  <1>b. CASE (net' = net \/ net' = net \cup e.packets) /\ sent' = sent
    <2>1. TypeOK' BY <1>b, <1>4, <1>7, <1>8, <1>11, DestroyType DEF TypeOK
    <2>2. ExchangesAgreeAt(p)'
      <3>1. D <= Len(served[o]) /\ \A k \in 1..D : done'[p][k] = served[o][k]
        BY <1>5, <1>8 DEF ExchangesAgreeAt
      <3>2. D = Len(done'[p]) /\ D >= Len(done[p]) BY <1>6, <1>8
      <3>3. ~Exists(p)' /\ (Exists(o)' => Exists(o)) BY <1>9 DEF Exists
      <3> HIDE DEF D
      <3> QED BY <1>b, <1>5, <1>6, <1>7, <1>8, <3>1, <3>2, <3>3, DestroyAgrees
    <2>3. ExchangesAgreeAt(o)'
      <3>1. \A m \in net' : m \in net \/ (m.from = p /\ m.request = TRUE)
        BY <1>b, <1>10
      <3>2. net \subseteq net' /\ sent'[o] = sent[o] BY <1>b
      <3> QED BY <1>1, <1>5, <1>7, <1>8, <1>9, <3>1, <3>2, Frame DEF Exists
    <2> QED BY <1>1, <2>1, <2>2, <2>3 DEF ExchangesAgree
  <1> QED BY <1>a, <1>b DEF ForceDelete, t, S

\* A step that changes nothing the agreement is about.
LEMMA AgreeFrame ==
    ASSUME ExchangesAgree, TypeOK, sent' = sent, done' = done, served' = served,
           state' = state, active' = active, net' = net,
           \A p \in Peer : /\ responding'[p].mid = responding[p].mid
                           /\ responding'[p].packets = responding[p].packets
                           /\ initiating'[p].mid = initiating[p].mid
                           /\ initiating'[p].type = initiating[p].type
                           /\ initiating'[p].packets = initiating[p].packets
    PROVE  ExchangesAgree'
  <1> SUFFICES ASSUME NEW p \in Peer PROVE ExchangesAgreeAt(p)'
    BY DEF ExchangesAgree
  <1>1. ExchangesAgreeAt(p) BY DEF ExchangesAgree
  <1>2. Other(p) \in Peer BY PeerFacts
  <1> QED BY <1>1, <1>2, Frame DEF Exists

\* A step that only destroys an IKE_SA.
LEMMA DestroyedStep ==
    ASSUME TypeOK, ExchangesAgree, NEW p \in Peer, Exists(p),
           NEW why \in Causes, Destroy(p, why),
           UNCHANGED << responding, route, net, sent, served, done >>
    PROVE  TypeOK' /\ ExchangesAgree'
  <1> DEFINE o == Other(p)
             D == Len(done[p])
  <1>1. /\ o \in Peer /\ o # p /\ Other(o) = p
        /\ \A x \in Peer : x = p \/ x = o
    BY PeerFacts
  <1>2. ExchangesAgreeAt(p) /\ ExchangesAgreeAt(o) BY <1>1 DEF ExchangesAgree
  <1>3. D \in Nat BY DEF TypeOK
  <1>4. TypeOK' BY DestroyType DEF TypeOK
  <1>5. /\ state'[p] = "DESTROYED" /\ state'[o] = state[o]
        /\ active'[o] = active[o] /\ initiating' = initiating
    BY <1>1 DEF Destroy, TypeOK
  <1>6. ExchangesAgreeAt(p)'
    <2>1. D <= Len(served[o]) /\ \A k \in 1..D : done'[p][k] = served[o][k]
      BY <1>2 DEF ExchangesAgreeAt
    <2>2. D = Len(done'[p]) /\ D >= Len(done[p]) BY <1>3
    <2>3. ~Exists(p)' /\ (Exists(o)' => Exists(o)) BY <1>5 DEF Exists
    <2> HIDE DEF D
    <2> QED BY <1>2, <1>3, <2>1, <2>2, <2>3, DestroyAgrees
  <1>7. ExchangesAgreeAt(o)' BY <1>1, <1>2, <1>5, Frame DEF Exists
  <1> QED BY <1>1, <1>4, <1>6, <1>7 DEF ExchangesAgree

\* The retransmit job keeps the exchanges in agreement.
LEMMA RetransmitJobStep ==
    ASSUME TypeOK, ExchangesAgree, NEW p \in Peer, NEW mid, RetransmitJob(p, mid)
    PROVE  TypeOK' /\ ExchangesAgree'
  <1> DEFINE e == initiating[p]
             o == Other(p)
             rest == jobs[p] \ {mid}
             D == Len(done[p])
  <1>1. /\ o \in Peer /\ o # p /\ Other(o) = p /\ Base(p) \in Nat
        /\ \A x \in Peer : x = p \/ x = o
    BY PeerFacts
  <1>2. e \in InitiatingExchange /\ rest \in SUBSET Nat BY DEF TypeOK
  <1>3. ExchangesAgreeAt(p) /\ ExchangesAgreeAt(o) BY <1>1 DEF ExchangesAgree
  <1>4. D \in Nat BY DEF TypeOK
  <1>5. Exists(p) /\ UNCHANGED << responding, route, sent, served, done >>
    BY DEF RetransmitJob, hist
  <1>a. CASE /\ jobs' = [jobs EXCEPT ![p] = rest]
             /\ UNCHANGED << state, initiating, queued, delayed, wakeups, active,
                             nextId, cause, net >>
    <2>1. TypeOK' BY <1>a, <1>2, <1>5 DEF TypeOK
    <2> QED BY <1>a, <1>5, <2>1, AgreeFrame
  <1>b. CASE Destroy(p, "timeout") /\ UNCHANGED net
    <2>1. "timeout" \in Causes BY DEF Causes
    <2> QED BY <1>b, <1>5, <2>1, DestroyedStep
  <1>c. CASE /\ ~GivesUp(e)
             /\ Transmit(p, e, active[p], rest)
             /\ UNCHANGED << state, queued, delayed, wakeups, active, nextId, cause >>
    <2>1. TypeOK'
      <3>1. /\ initiating' \in [Peer -> InitiatingExchange]
            /\ jobs' \in [Peer -> SUBSET Nat]
            /\ net' \in SUBSET Packet
        <4>1. e.retransmitted <= Tries
          BY <1>c, <1>2, ConstantAssumption DEF GivesUp, InitiatingExchange
        <4> HIDE DEF e, rest
        <4> QED BY <1>c, <1>2, <4>1, TransmitType
      <3> QED BY <3>1, <1>c, <1>5 DEF TypeOK
    <2>2. /\ \E f : /\ initiating' = [initiating EXCEPT ![p] = f]
                    /\ f.mid = e.mid /\ f.type = e.type /\ f.packets = e.packets
          /\ net' = net \/ net' = net \cup e.packets
      <3> HIDE DEF e, rest
      <3> QED BY <1>c, <1>2, TransmitEffect
    <2>3. /\ initiating'[p].mid = e.mid /\ initiating'[p].type = e.type
          /\ initiating'[p].packets = e.packets
          /\ initiating'[o] = initiating[o]
      BY <2>2, <1>1 DEF TypeOK
    <2>4. \A m \in e.packets :
             /\ m.from = p /\ m.request = TRUE
             /\ Len(sent[p]) = D + 1 /\ m.mid = Base(p) + D
             /\ m.task = sent[p][Len(sent[p])]
      BY <1>3, <1>5, InitiatingPackets
    <2>5. ExchangesAgreeAt(p)'
      <3>1. \A m \in net' : m.from = p /\ m.request =>
               /\ m.mid >= Base(p) /\ m.mid < Base(p) + Len(sent[p])
               /\ m.task = sent[p][m.mid - Base(p) + 1]
        <4> SUFFICES ASSUME NEW m \in net', m.from = p, m.request
                     PROVE  /\ m.mid >= Base(p) /\ m.mid < Base(p) + Len(sent[p])
                            /\ m.task = sent[p][m.mid - Base(p) + 1]
          OBVIOUS
        <4>1. CASE m \in net BY <4>1, <1>3 DEF ExchangesAgreeAt
        <4>2. CASE m \in e.packets
          <5>1. /\ Len(sent[p]) = D + 1 /\ m.mid = Base(p) + D
                /\ m.task = sent[p][Len(sent[p])]
            BY <4>2, <2>4
          <5>2. m.mid - Base(p) + 1 = Len(sent[p]) BY <5>1, <1>1, <1>4
          <5> QED BY <5>1, <5>2, <1>1, <1>4
        <4> QED BY <4>1, <4>2, <2>2
      <3>2. \A m \in net' : m.from = o /\ ~m.request => m \in net
        BY <2>2, <2>4, <1>1
      <3>3. net \subseteq net' BY <2>2
      <3> QED BY <1>c, <1>3, <1>5, <2>3, <3>1, <3>2, <3>3
              DEF ExchangesAgreeAt, Exists
    <2>6. ExchangesAgreeAt(o)'
      <3>1. /\ \A m \in net' : m \in net \/ (m.from = p /\ m.request = TRUE)
            /\ net \subseteq net'
        BY <2>2, <2>4
      <3> QED BY <1>c, <1>1, <1>3, <1>5, <2>3, <3>1, Frame DEF Exists
    <2> QED BY <1>1, <2>1, <2>5, <2>6 DEF ExchangesAgree
  <1> QED BY <1>a, <1>b, <1>c DEF RetransmitJob

\* The end of a delay keeps the exchanges in agreement.
LEMMA DelayPassesStep ==
    ASSUME TypeOK, ExchangesAgree, NEW p \in Peer, NEW t, DelayPasses(p, t)
    PROVE  TypeOK' /\ ExchangesAgree'
  <1>1. TypeOK' BY DEF TypeOK, DelayPasses, hist
  <1>2. ExchangesAgree' BY AgreeFrame DEF DelayPasses, hist
  <1> QED BY <1>1, <1>2

\* A change of the path keeps the exchanges in agreement.
LEMMA RouteChangeStep ==
    ASSUME TypeOK, ExchangesAgree, NEW p \in Peer, RouteChange(p)
    PROVE  TypeOK' /\ ExchangesAgree'
  <1>1. route' \in [Peer -> BOOLEAN] BY DEF RouteChange, TypeOK
  <1>2. TypeOK' BY <1>1 DEF TypeOK, RouteChange, sa, hist
  <1>3. ExchangesAgree' BY AgreeFrame DEF RouteChange, sa, hist
  <1> QED BY <1>2, <1>3

\* Serving a request for task t: an answer res goes out in the packets R under
\* the message ID of the exchange r, and the responder moves on or is destroyed.
Serves(p, t, r, res, R) ==
    /\ R \in SUBSET Packet
    /\ \A m \in R : /\ m.from = p /\ m.request = FALSE /\ m.mid = r.mid
                    /\ m.task = t /\ m.res = res /\ m.exchange = ExchangeOf(t)
    /\ net' = net \cup R
    /\ served' = [served EXCEPT ![p] = Append(@, [task |-> t, res |-> res])]
    /\ \E f \in RespondingExchange :
          /\ responding' = [responding EXCEPT ![p] = f]
          /\ f.packets = r.packets \/ f.packets = R
          /\ f.mid = r.mid + 1 \/ state'[p] = "DESTROYED"
    /\ \/ UNCHANGED << state, initiating, queued, delayed, wakeups, active,
                       nextId, jobs, cause >>
       \/ \E why \in Causes : Destroy(p, why)

\* What process_request() does: one more request is served, its answer is sent.
LEMMA ProcessRequestEffect ==
    ASSUME TypeOK, NEW p \in Peer, NEW t \in Task, NEW h \in HashValue,
           NEW r \in RespondingExchange, ProcessRequest(p, t, h, r)
    PROVE  \E res \in ResultKind, R \in SUBSET Packet : Serves(p, t, r, res, R)
  <1>1. r.mid \in Nat BY DEF RespondingExchange
  <1> DEFINE f == [r EXCEPT !.mid = @ + 1]
  <1>2. f \in RespondingExchange /\ f.mid = r.mid + 1 /\ f.packets = r.packets
    BY DEF RespondingExchange
  <1>3. "critical" \in ResultKind /\ "syntax" \in ResultKind /\ "ok" \in ResultKind
    BY DEF ResultKind
  <1> HIDE DEF f
  <1>a. CASE /\ responding' = [responding EXCEPT ![p] = f]
             /\ net' = net \cup NotifyResponse(p, r.mid, t, "critical")
             /\ served' = [served EXCEPT ![p] =
                              Append(@, [task |-> t, res |-> "critical"])]
             /\ UNCHANGED << state, initiating, queued, delayed, wakeups, active,
                             nextId, jobs, cause >>
    <2> DEFINE R == NotifyResponse(p, r.mid, t, "critical")
    <2>1. R \in SUBSET Packet BY <1>1, <1>3, ResponseType
    <2>2. \A m \in R : /\ m.from = p /\ m.request = FALSE /\ m.mid = r.mid
                      /\ m.task = t /\ m.res = "critical"
                      /\ m.exchange = ExchangeOf(t)
      BY DEF NotifyResponse, Packets
    <2> HIDE DEF R
    <2>3. Serves(p, t, r, "critical", R) BY <1>a, <1>2, <2>1, <2>2 DEF Serves, R
    <2> QED BY <1>3, <2>1, <2>3
  <1>b. CASE /\ responding' = [responding EXCEPT ![p] = f]
             /\ net' = net \cup NotifyResponse(p, r.mid, t, "syntax")
             /\ served' = [served EXCEPT ![p] =
                              Append(@, [task |-> t, res |-> "syntax"])]
             /\ Destroy(p, "syntax")
    <2> DEFINE R == NotifyResponse(p, r.mid, t, "syntax")
    <2>1. R \in SUBSET Packet BY <1>1, <1>3, ResponseType
    <2>2. \A m \in R : /\ m.from = p /\ m.request = FALSE /\ m.mid = r.mid
                      /\ m.task = t /\ m.res = "syntax"
                      /\ m.exchange = ExchangeOf(t)
      BY DEF NotifyResponse, Packets
    <2>3. "syntax" \in Causes BY DEF Causes
    <2> HIDE DEF R
    <2>4. Serves(p, t, r, "syntax", R) BY <1>b, <1>2, <2>1, <2>2, <2>3 DEF Serves, R
    <2> QED BY <1>3, <2>1, <2>4
  <1>c. CASE \E res \in Results(p, t) :
             LET answer == Response(p, r.mid, t, res) IN
             /\ net' = net \cup answer
             /\ served' = [served EXCEPT ![p] = Append(@, [task |-> t, res |-> res])]
             /\ IF t.type = "IKE_DELETE"
                THEN /\ Destroy(p, "delete_received")
                     /\ responding' = [responding EXCEPT ![p] =
                                          [r EXCEPT !.packets = answer, !.hash = h]]
                ELSE /\ responding' = [responding EXCEPT ![p] = Answered(r, answer, h)]
                     /\ UNCHANGED << state, initiating, queued, delayed, wakeups,
                                     active, nextId, jobs, cause >>
    <2>1. PICK res \in Results(p, t) :
             LET answer == Response(p, r.mid, t, res) IN
             /\ net' = net \cup answer
             /\ served' = [served EXCEPT ![p] = Append(@, [task |-> t, res |-> res])]
             /\ IF t.type = "IKE_DELETE"
                THEN /\ Destroy(p, "delete_received")
                     /\ responding' = [responding EXCEPT ![p] =
                                          [r EXCEPT !.packets = answer, !.hash = h]]
                ELSE /\ responding' = [responding EXCEPT ![p] = Answered(r, answer, h)]
                     /\ UNCHANGED << state, initiating, queued, delayed, wakeups,
                                     active, nextId, jobs, cause >>
      BY <1>c
    <2>2. res \in ResultKind BY DEF Results, ResultKind
    <2> DEFINE R == Response(p, r.mid, t, res)
               g == [r EXCEPT !.packets = R, !.hash = h]
               k == Answered(r, R, h)
    <2>3. R \in SUBSET Packet BY <1>1, <2>2, ResponseType
    <2>4. \A m \in R : /\ m.from = p /\ m.request = FALSE /\ m.mid = r.mid
                      /\ m.task = t /\ m.res = res /\ m.exchange = ExchangeOf(t)
      BY DEF Response, Packets
    <2>5. net' = net \cup R BY <2>1
    <2> HIDE DEF R
    <2>6. g \in RespondingExchange /\ g.packets = R
      BY <2>3 DEF RespondingExchange
    <2>7. k \in RespondingExchange /\ k.packets = R /\ k.mid = r.mid + 1
      <3>1. r.mid + 1 \in Nat BY <1>1
      <3>2. k.packets = R /\ k.mid = r.mid + 1 /\ k.hash = h /\ k.prev_hash = h
        BY DEF RespondingExchange, Answered
      <3> QED BY <2>3, <3>1, <3>2 DEF RespondingExchange, Answered
    <2> HIDE DEF g, k
    <2>8. CASE t.type = "IKE_DELETE"
      <3>1. /\ Destroy(p, "delete_received")
            /\ responding' = [responding EXCEPT ![p] = g]
        BY <2>1, <2>8 DEF g, R
      <3>2. state'[p] = "DESTROYED" BY <3>1 DEF Destroy, TypeOK
      <3>3. "delete_received" \in Causes BY DEF Causes
      <3>4. Serves(p, t, r, res, R)
        BY <2>1, <2>3, <2>4, <2>5, <2>6, <3>1, <3>2, <3>3 DEF Serves
      <3> QED BY <2>2, <2>3, <3>4
    <2>9. CASE t.type # "IKE_DELETE"
      <3>1. /\ responding' = [responding EXCEPT ![p] = k]
            /\ UNCHANGED << state, initiating, queued, delayed, wakeups, active,
                            nextId, jobs, cause >>
        BY <2>1, <2>9 DEF k, R
      <3>2. Serves(p, t, r, res, R)
        BY <2>1, <2>3, <2>4, <2>5, <2>7, <3>1 DEF Serves
      <3> QED BY <2>2, <2>3, <3>2
    <2> QED BY <2>8, <2>9
  <1> QED BY <1>a, <1>b, <1>c DEF ProcessRequest, f

\* Serving the request the peer expects keeps the exchanges in agreement.
LEMMA ServesStep ==
    ASSUME TypeOK, ExchangesAgree, NEW p \in Peer, Exists(p),
           NEW m \in net, m.from # p, m.request, m.mid = responding[p].mid,
           NEW r \in RespondingExchange, r.mid = responding[p].mid,
           r.packets = responding[p].packets,
           NEW res \in ResultKind, NEW R \in SUBSET Packet,
           Serves(p, m.task, r, res, R),
           UNCHANGED << route, sent, done >>
    PROVE  TypeOK' /\ ExchangesAgree'
  <1> DEFINE o == Other(p)
             t == m.task
             v == Len(served[p])
             n == Len(sent[o])
             d == Len(done[o])
             entry == [task |-> t, res |-> res]
  <1>1. /\ o \in Peer /\ o # p /\ Other(o) = p /\ Base(o) \in Nat
        /\ \A x \in Peer : x = p \/ x = o
    BY PeerFacts
  <1>2. ExchangesAgreeAt(p) /\ ExchangesAgreeAt(o) BY <1>1 DEF ExchangesAgree
  <1>3. m \in Packet BY DEF TypeOK
  <1>4. m.from = o /\ t \in Task /\ m.mid \in Nat BY <1>1, <1>3 DEF Packet
  <1>5. v \in Nat /\ n \in Nat /\ d \in Nat /\ served[p] \in Seq(LogEntry)
    BY <1>1 DEF TypeOK
  <1>6. m.mid = Base(o) + v BY <1>1, <1>2 DEF ExchangesAgreeAt
  <1>7. m.mid < Base(o) + n /\ t = sent[o][m.mid - Base(o) + 1]
    BY <1>2, <1>4 DEF ExchangesAgreeAt
  <1>8. d <= v /\ v <= n /\ n <= d + 1 BY <1>1, <1>2 DEF ExchangesAgreeAt
  <1>9. v = d /\ n = d + 1 /\ m.mid - Base(o) + 1 = v + 1
    <2> HIDE DEF v, n, d
    <2>1. v < n BY <1>1, <1>5, <1>6, <1>7
    <2>2. v = d /\ n = d + 1 BY <1>5, <1>8, <2>1
    <2> QED BY <2>2, <1>1, <1>5, <1>6
  <1>10. entry \in LogEntry /\ entry.task = t /\ entry.res = res
    BY <1>4 DEF LogEntry
  <1> HIDE DEF entry
  <1>11. /\ net' = net \cup R
         /\ served' = [served EXCEPT ![p] = Append(@, entry)]
         /\ \A x \in R : /\ x.from = p /\ x.request = FALSE /\ x.mid = r.mid
                         /\ x.task = t /\ x.res = res /\ x.exchange = ExchangeOf(t)
    BY DEF Serves, entry
  <1>12. Append(served[p], entry) \in Seq(LogEntry) BY <1>5, <1>10
  <1>13. /\ served' \in [Peer -> Seq(LogEntry)]
         /\ served'[p] = Append(served[p], entry) /\ served'[o] = served[o]
    BY <1>1, <1>11, <1>12 DEF TypeOK
  <1>14. /\ Len(served'[p]) = v + 1 /\ served'[p][v + 1] = entry
         /\ \A k \in 1..v : served'[p][k] = served[p][k]
    BY <1>5, <1>10, <1>13
  <1>15. PICK f \in RespondingExchange :
            /\ responding' = [responding EXCEPT ![p] = f]
            /\ f.packets = r.packets \/ f.packets = R
            /\ f.mid = r.mid + 1 \/ state'[p] = "DESTROYED"
    BY DEF Serves
  <1>16. /\ responding' \in [Peer -> RespondingExchange]
         /\ responding'[p] = f /\ responding'[o] = responding[o]
    BY <1>1, <1>15 DEF TypeOK
  <1>17. \/ UNCHANGED << state, initiating, queued, delayed, wakeups, active,
                         nextId, jobs, cause >>
         \/ \E why \in Causes : Destroy(p, why)
    BY DEF Serves
  <1>18. net' \in SUBSET Packet BY <1>11 DEF TypeOK
  <1>19. TypeOK'
    <2>1. CASE UNCHANGED << state, initiating, queued, delayed, wakeups, active,
                            nextId, jobs, cause >>
      BY <2>1, <1>13, <1>16, <1>18 DEF TypeOK
    <2>2. CASE \E why \in Causes : Destroy(p, why)
      BY <2>2, <1>13, <1>16, <1>18, DestroyType DEF TypeOK
    <2> QED BY <2>1, <2>2, <1>17
  <1>20. /\ state'[o] = state[o] /\ active'[o] = active[o]
         /\ initiating' = initiating
         /\ state'[p] = "DESTROYED" \/ (state'[p] = state[p] /\ active'[p] = active[p])
    BY <1>1, <1>17 DEF Destroy, TypeOK
  <1>21. ExchangesAgreeAt(p)'
    <2>1. /\ sent'[p] = sent[p] /\ done'[p] = done[p] /\ served'[o] = served[o]
          /\ ExchangesAgreeAt(p)
      BY <1>2, <1>13
    <2>2. Exists(p)' => /\ Exists(p)
                        /\ initiating'[p].mid = initiating[p].mid
                        /\ initiating'[p].type = initiating[p].type
                        /\ initiating'[p].packets = initiating[p].packets
                        /\ active'[p] = active[p]
      BY <1>20 DEF Exists
    <2>3. /\ Exists(o)' => Exists(o) /\ responding'[o].mid = responding[o].mid
          /\ responding'[o].packets = responding[o].packets
      BY <1>16, <1>20 DEF Exists
    <2>4. /\ net \subseteq net'
          /\ \A x \in net' : \/ x \in net
                             \/ ~(x.from = p /\ x.request) /\ ~(x.from = o /\ ~x.request)
      BY <1>1, <1>11
    <2> QED BY <2>1, <2>2, <2>3, <2>4, Frame
  <1>22. ExchangesAgreeAt(o)'
    <2>1. \A x \in net' : x.from = p /\ ~x.request =>
             /\ x.mid >= Base(o) /\ x.mid < Base(o) + (v + 1)
             /\ x.task = served'[p][x.mid - Base(o) + 1].task
             /\ x.res = served'[p][x.mid - Base(o) + 1].res
             /\ x.exchange = ExchangeOf(x.task)
      <3> SUFFICES ASSUME NEW x \in net', x.from = p, ~x.request
                   PROVE  /\ x.mid >= Base(o) /\ x.mid < Base(o) + (v + 1)
                          /\ x.task = served'[p][x.mid - Base(o) + 1].task
                          /\ x.res = served'[p][x.mid - Base(o) + 1].res
                          /\ x.exchange = ExchangeOf(x.task)
        OBVIOUS
      <3>1. CASE x \in net
        <4>1. /\ x.mid >= Base(o) /\ x.mid < Base(o) + v
              /\ x.task = served[p][x.mid - Base(o) + 1].task
              /\ x.res = served[p][x.mid - Base(o) + 1].res
              /\ x.exchange = ExchangeOf(x.task)
          BY <3>1, <1>1, <1>2 DEF ExchangesAgreeAt
        <4>2. x.mid \in Nat BY <3>1 DEF TypeOK, Packet
        <4>3. x.mid - Base(o) + 1 \in 1..v BY <4>1, <4>2, <1>1, <1>5
        <4>4. served'[p][x.mid - Base(o) + 1] = served[p][x.mid - Base(o) + 1]
          BY <4>3, <1>14
        <4>5. x.mid < Base(o) + (v + 1) BY <4>1, <4>2, <1>1, <1>5
        <4> QED BY <4>1, <4>4, <4>5
      <3>2. CASE x \in R
        <4>1. /\ x.mid = Base(o) + v /\ x.task = t /\ x.res = res
              /\ x.exchange = ExchangeOf(t)
          BY <3>2, <1>6, <1>11
        <4>2. x.mid - Base(o) + 1 = v + 1 BY <4>1, <1>1, <1>5
        <4>3. x.mid >= Base(o) /\ x.mid < Base(o) + (v + 1) BY <4>1, <1>1, <1>5
        <4>4. served'[p][x.mid - Base(o) + 1] = entry BY <4>2, <1>14
        <4> QED BY <4>1, <4>3, <4>4, <1>10
      <3> QED BY <3>1, <3>2, <1>11
    <2>2. \A x \in net' : x.from = o /\ x.request => x \in net BY <1>1, <1>11
    <2>3. responding'[p].packets \subseteq net'
      <3>1. responding[p].packets \subseteq net BY <1>1, <1>2 DEF ExchangesAgreeAt
      <3> QED BY <3>1, <1>11, <1>15, <1>16
    <2>4. Exists(p)' => responding'[p].mid = Base(o) + (v + 1)
      <3>1. Exists(p)' => responding'[p].mid = m.mid + 1
        BY <1>15, <1>16 DEF Exists
      <3> QED BY <3>1, <1>1, <1>5, <1>6
    <2>5. \A k \in 1..(v + 1) : served'[p][k].task = sent'[o][k]
      <3>1. \A k \in 1..v : served[p][k].task = sent[o][k]
        BY <1>1, <1>2 DEF ExchangesAgreeAt
      <3>2. served'[p][v + 1].task = sent[o][v + 1] BY <1>7, <1>9, <1>10, <1>14
      <3>3. \A k \in 1..(v + 1) : k \in 1..v \/ k = v + 1 BY <1>5
      <3> QED BY <3>1, <3>2, <3>3, <1>14
    <2>6. \A k \in 1..d : done'[o][k] = served'[p][k]
      BY <1>1, <1>2, <1>9, <1>14 DEF ExchangesAgreeAt
    <2>7. d <= v + 1 /\ v + 1 <= n /\ n <= d + 1 BY <1>5, <1>9
    <2>8. \A x \in net' : x.from = o /\ x.request =>
             /\ x.mid >= Base(o) /\ x.mid < Base(o) + n
             /\ x.task = sent[o][x.mid - Base(o) + 1]
      BY <2>2, <1>2 DEF ExchangesAgreeAt
    <2>9. Exists(o)' =>
             /\ initiating'[o].mid = Base(o) + d
             /\ n = d => /\ active'[o] = NoTask
                         /\ initiating'[o].type = "UNDEFINED"
                         /\ initiating'[o].packets = {}
             /\ n = d + 1 =>
                   /\ active'[o] = sent[o][n]
                   /\ initiating'[o].type = ExchangeOf(sent[o][n])
                   /\ initiating'[o].packets = Request(o, Base(o) + d, sent[o][n])
      BY <1>2, <1>20 DEF ExchangesAgreeAt, Exists
    <2> QED BY <1>1, <1>14, <2>1, <2>3, <2>4, <2>5, <2>6, <2>7, <2>8, <2>9
            DEF ExchangesAgreeAt
  <1> QED BY <1>1, <1>19, <1>21, <1>22 DEF ExchangesAgree

\* A received request keeps the exchanges in agreement.
LEMMA HandleRequestStep ==
    ASSUME TypeOK, ExchangesAgree, NEW p \in Peer, NEW m \in net, HandleRequest(p, m)
    PROVE  TypeOK' /\ ExchangesAgree'
  <1> DEFINE r == responding[p]
  <1>1. r \in RespondingExchange /\ m \in Packet BY DEF TypeOK
  <1>2. Hash(m) \in HashValue /\ m.task \in Task BY <1>1, HashType DEF Packet
  <1>3. /\ Exists(p) /\ m.from # p /\ m.request
        /\ UNCHANGED << route, sent, done >>
    BY DEF HandleRequest
  <1>a. CASE net' = net \cup r.packets /\ UNCHANGED << sa, served >>
    <2>1. Other(p) \in Peer /\ Other(Other(p)) = p BY PeerFacts
    <2>2. r.packets \subseteq net BY <2>1 DEF ExchangesAgree, ExchangesAgreeAt
    <2>3. net' = net BY <1>a, <2>2
    <2>4. TypeOK' BY <1>a, <1>3, <2>3 DEF TypeOK, sa
    <2> QED BY <1>a, <1>3, <2>3, <2>4, AgreeFrame DEF sa
  <1>b. CASE m.mid = r.mid /\ ProcessRequest(p, m.task, Hash(m), r)
    <2>1. PICK res \in ResultKind, R \in SUBSET Packet : Serves(p, m.task, r, res, R)
      BY <1>b, <1>1, <1>2, ProcessRequestEffect
    <2> QED BY <1>b, <1>1, <1>3, <2>1, ServesStep
  <1>c. CASE /\ m.mid = r.mid
             /\ LET h == IF m.num = 1 THEN Hash(m) ELSE r.hash
                    got == r.defrag \cup {m}
                IN  IF Cardinality(got) = m.total
                    THEN ProcessRequest(p, m.task, h, [r EXCEPT !.hash = h, !.defrag = {}])
                    ELSE /\ responding' = [responding EXCEPT ![p] =
                                              [r EXCEPT !.hash = h, !.defrag = got]]
                         /\ UNCHANGED << state, initiating, queued, delayed, wakeups,
                                         active, nextId, jobs, cause, net, served >>
    <2> DEFINE h == IF m.num = 1 THEN Hash(m) ELSE r.hash
               got == r.defrag \cup {m}
               f == [r EXCEPT !.hash = h, !.defrag = {}]
               g == [r EXCEPT !.hash = h, !.defrag = got]
    <2>1. h \in HashValue /\ got \in SUBSET Packet BY <1>1, <1>2 DEF RespondingExchange
    <2> HIDE DEF h, got
    <2>2. f \in RespondingExchange /\ f.mid = r.mid /\ f.packets = r.packets
      BY <1>1, <2>1 DEF RespondingExchange
    <2>3. g \in RespondingExchange /\ g.mid = r.mid /\ g.packets = r.packets
      BY <1>1, <2>1 DEF RespondingExchange
    <2> HIDE DEF f, g
    <2>4. CASE ProcessRequest(p, m.task, h, f)
      <3>1. PICK res \in ResultKind, R \in SUBSET Packet :
               Serves(p, m.task, f, res, R)
        BY <2>1, <2>2, <2>4, <1>2, ProcessRequestEffect
      <3> QED BY <1>c, <1>3, <2>2, <3>1, ServesStep
    <2>5. CASE /\ responding' = [responding EXCEPT ![p] = g]
               /\ UNCHANGED << state, initiating, queued, delayed, wakeups,
                               active, nextId, jobs, cause, net, served >>
      <3>1. TypeOK' BY <2>3, <2>5, <1>3 DEF TypeOK
      <3>2. \A x \in Peer : /\ responding'[x].mid = responding[x].mid
                            /\ responding'[x].packets = responding[x].packets
        BY <2>3, <2>5 DEF TypeOK
      <3> QED BY <2>5, <1>3, <3>1, <3>2, AgreeFrame
    <2> QED BY <1>c, <2>4, <2>5 DEF h, got, f, g
  <1> QED BY <1>a, <1>b, <1>c DEF HandleRequest, ExpectedRequest

\* What process_response() does to an exchange whose type matches: the answer is
\* recorded, and the IKE_SA is destroyed or goes on with initiate() for the next
\* message ID.
LEMMA ProcessResponseEffect ==
    ASSUME TypeOK, NEW p \in Peer, NEW m \in Packet, NEW e \in InitiatingExchange,
           active[p] \in Task, m.exchange = e.type, ProcessResponse(p, m, e)
    PROVE  /\ done' = [done EXCEPT ![p] =
                          Append(@, [task |-> active[p], res |-> m.res])]
           /\ \/ \E why \in Causes : Destroy(p, why) /\ UNCHANGED << net, sent >>
              \/ \E a \in Task \cup {NoTask}, q \in SUBSET Task, d \in SUBSET Nat :
                    /\ Initiate(p, [e EXCEPT !.mid = @ + 1, !.type = "UNDEFINED",
                                             !.packets = {}], a, q, d)
                    /\ a = NoTask \/ Startable(p, a, q, d) # {}
                    /\ delayed' \in [Peer -> SUBSET Nat]
                    /\ wakeups' \in [Peer -> SUBSET Nat]
                    /\ nextId' \in [Peer -> Nat]
                    /\ UNCHANGED cause
  <1> DEFINE t == active[p]
             next == [e EXCEPT !.mid = @ + 1, !.type = "UNDEFINED", !.packets = {}]
             retry == [id |-> nextId[p], type |-> "CHILD_CREATE", body |-> t.body,
                       retry |-> FALSE]
             again == [t EXCEPT !.retry = TRUE]
             Continue(a, q, d, w, n) ==
                IF InitiateFails(p, next, a, q, d)
                THEN /\ Destroy(p, "not_deferred")
                     /\ UNCHANGED << net, sent >>
                ELSE /\ Initiate(p, next, a, q, d)
                     /\ delayed' = [delayed EXCEPT ![p] = d]
                     /\ wakeups' = [wakeups EXCEPT ![p] = w]
                     /\ nextId' = [nextId EXCEPT ![p] = n]
                     /\ UNCHANGED cause
             Goal(a, q, d) ==
                /\ Initiate(p, next, a, q, d)
                /\ a = NoTask \/ Startable(p, a, q, d) # {}
                /\ delayed' \in [Peer -> SUBSET Nat]
                /\ wakeups' \in [Peer -> SUBSET Nat]
                /\ nextId' \in [Peer -> Nat]
                /\ UNCHANGED cause
             Ends == \E why \in Causes : Destroy(p, why) /\ UNCHANGED << net, sent >>
  <1>1. /\ queued[p] \in SUBSET Task /\ delayed[p] \in SUBSET Nat
        /\ wakeups[p] \in SUBSET Nat /\ nextId[p] \in Nat
    BY DEF TypeOK
  <1>2. retry \in Task /\ retry.id = nextId[p] BY <1>1 DEF Task, TaskType
  <1>3. again \in Task /\ again.type = t.type BY DEF Task
  <1>4. again # NoTask
    BY <1>3 DEF NoTask, Task, TaskType
  <1>5. {"syntax", "delete_done", "not_deferred"} \subseteq Causes BY DEF Causes
  <1>6. ASSUME NEW a \in Task \cup {NoTask}, NEW q \in SUBSET Task,
               NEW d \in SUBSET Nat, NEW w \in SUBSET Nat, NEW n \in Nat,
               a = NoTask \/ Startable(p, a, q, d) # {}, Continue(a, q, d, w, n)
        PROVE  \/ Ends
               \/ \E aa \in Task \cup {NoTask}, qq \in SUBSET Task,
                     dd \in SUBSET Nat : Goal(aa, qq, dd)
    <2> HIDE DEF next
    <2>1. CASE InitiateFails(p, next, a, q, d) BY <1>5, <1>6, <2>1
    <2>2. CASE ~InitiateFails(p, next, a, q, d)
      <3>1. /\ Initiate(p, next, a, q, d)
            /\ delayed' = [delayed EXCEPT ![p] = d]
            /\ wakeups' = [wakeups EXCEPT ![p] = w]
            /\ nextId' = [nextId EXCEPT ![p] = n]
            /\ UNCHANGED cause
        BY <1>6, <2>2
      <3>2. /\ delayed' \in [Peer -> SUBSET Nat]
            /\ wakeups' \in [Peer -> SUBSET Nat]
            /\ nextId' \in [Peer -> Nat]
        BY <3>1 DEF TypeOK
      <3>3. Goal(a, q, d) BY <1>6, <3>1, <3>2
      <3> QED BY <3>3
    <2> QED BY <2>1, <2>2
  <1>7. /\ done' = [done EXCEPT ![p] = Append(@, [task |-> t, res |-> m.res])]
        /\ \/ m.res = "syntax" /\ Destroy(p, "syntax") /\ UNCHANGED << net, sent >>
           \/ \E out \in Outcomes(t, m.res) :
              \/ /\ out = "destroy"
                 /\ Destroy(p, "delete_done")
                 /\ UNCHANGED << net, sent >>
              \/ /\ out = "more"
                 /\ Continue(again, queued[p], delayed[p], wakeups[p], nextId[p])
              \/ /\ out = "done"
                 /\ Continue(NoTask, queued[p], delayed[p], wakeups[p], nextId[p])
              \/ /\ out = "requeue"
                 /\ Continue(NoTask, queued[p] \cup {retry}, delayed[p] \cup {retry.id},
                             wakeups[p] \cup {retry.id}, nextId[p] + 1)
    BY DEF ProcessResponse
  <1> HIDE DEF next, retry, again, Continue
  <1>a. CASE m.res = "syntax" /\ Destroy(p, "syntax") /\ UNCHANGED << net, sent >>
    BY <1>a, <1>5, <1>7
  <1>b. CASE Destroy(p, "delete_done") /\ UNCHANGED << net, sent >>
    BY <1>b, <1>5, <1>7
  <1>c. CASE /\ "more" \in Outcomes(t, m.res)
             /\ Continue(again, queued[p], delayed[p], wakeups[p], nextId[p])
    <2>1. t.type \in {"CHILD_CREATE", "MOBIKE"} BY <1>c DEF Outcomes
    <2>2. Startable(p, again, queued[p], delayed[p]) # {}
      BY <2>1, <1>3, <1>4 DEF Startable
    <2> HIDE DEF Goal, Ends
    <2>3. \/ Ends
          \/ \E aa \in Task \cup {NoTask}, qq \in SUBSET Task, dd \in SUBSET Nat :
                Goal(aa, qq, dd)
      BY <1>c, <1>1, <1>3, <1>6, <2>2
    <2> QED BY <1>7, <2>3 DEF Goal, Ends, next
  <1>d. CASE Continue(NoTask, queued[p], delayed[p], wakeups[p], nextId[p])
    <2> HIDE DEF Goal, Ends
    <2>1. \/ Ends
          \/ \E aa \in Task \cup {NoTask}, qq \in SUBSET Task, dd \in SUBSET Nat :
                Goal(aa, qq, dd)
      BY <1>d, <1>1, <1>6
    <2> QED BY <1>7, <2>1 DEF Goal, Ends, next
  <1>e. CASE Continue(NoTask, queued[p] \cup {retry}, delayed[p] \cup {retry.id},
                      wakeups[p] \cup {retry.id}, nextId[p] + 1)
    <2>0. /\ queued[p] \cup {retry} \in SUBSET Task
          /\ delayed[p] \cup {retry.id} \in SUBSET Nat
          /\ wakeups[p] \cup {retry.id} \in SUBSET Nat
          /\ nextId[p] + 1 \in Nat
      BY <1>1, <1>2
    <2> HIDE DEF Goal, Ends
    <2>1. \/ Ends
          \/ \E aa \in Task \cup {NoTask}, qq \in SUBSET Task, dd \in SUBSET Nat :
                Goal(aa, qq, dd)
      BY <1>e, <1>6, <2>0
    <2> QED BY <1>7, <2>1 DEF Goal, Ends, next
  <1> QED BY <1>7, <1>a, <1>b, <1>c, <1>d, <1>e

\* A response that carries the message ID of the exchange in progress answers
\* the very request of that exchange.
LEMMA ResponseMatches ==
    ASSUME TypeOK, ExchangesAgree, NEW p \in Peer, Exists(p), NEW m \in net,
           m.from # p, ~m.request, m.mid = initiating[p].mid
    PROVE  LET o == Other(p)
               d == Len(done[p])
           IN  /\ Len(sent[p]) = d + 1 /\ Len(served[o]) = d + 1
               /\ active[p] \in Task /\ m.exchange = initiating[p].type
               /\ [task |-> active[p], res |-> m.res] = served[o][d + 1]
               /\ m.res \in ResultKind
  <1> DEFINE o == Other(p)
             d == Len(done[p])
             n == Len(sent[p])
             v == Len(served[o])
  <1>1. o \in Peer /\ Base(p) \in Nat /\ \A x \in Peer : x = p \/ x = o BY PeerFacts
  <1>2. d \in Nat /\ n \in Nat /\ v \in Nat /\ served[o] \in Seq(LogEntry)
    BY <1>1 DEF TypeOK
  <1>3. ExchangesAgreeAt(p) BY DEF ExchangesAgree
  <1>4. m \in Packet /\ m.from = o /\ m.mid \in Nat BY <1>1 DEF TypeOK, Packet
  <1>5. /\ m.mid = Base(p) + d /\ m.mid < Base(p) + v
        /\ d <= v /\ v <= n /\ n <= d + 1
        /\ m.task = served[o][m.mid - Base(p) + 1].task
        /\ m.res = served[o][m.mid - Base(p) + 1].res
        /\ m.exchange = ExchangeOf(m.task)
    BY <1>3, <1>4 DEF ExchangesAgreeAt
  <1>6. v = d + 1 /\ n = d + 1 /\ m.mid - Base(p) + 1 = d + 1
    BY <1>1, <1>2, <1>5
  <1>7. served[o][d + 1] \in LogEntry BY <1>2, <1>6
  <1>8. /\ active[p] = sent[p][n] /\ initiating[p].type = ExchangeOf(sent[p][n])
        /\ served[o][d + 1].task = sent[p][d + 1]
    BY <1>2, <1>3, <1>6 DEF ExchangesAgreeAt
  <1>9. active[p] = served[o][d + 1].task /\ m.res = served[o][d + 1].res
    BY <1>5, <1>6, <1>8
  <1>10. m.exchange = initiating[p].type BY <1>5, <1>6, <1>8
  <1> QED BY <1>6, <1>7, <1>9, <1>10 DEF LogEntry

\* A received response keeps the exchanges in agreement.
LEMMA HandleResponseStep ==
    ASSUME TypeOK, ExchangesAgree, NEW p \in Peer, NEW m \in net, HandleResponse(p, m)
    PROVE  TypeOK' /\ ExchangesAgree'
  <1> DEFINE o == Other(p)
             e == initiating[p]
             got == e.defrag \cup {m}
             hash == IF m.total = 1 \/ m.num = 1 THEN Hash(m) ELSE responding[p].hash
             d == Len(done[p])
             D == d + 1
  <1>1. /\ o \in Peer /\ o # p /\ Other(o) = p /\ Base(p) \in Nat
        /\ \A x \in Peer : x = p \/ x = o
    BY PeerFacts
  <1>2. e \in InitiatingExchange /\ m \in Packet BY DEF TypeOK
  <1>3. /\ Exists(p) /\ m.from # p /\ ~m.request /\ m.mid = e.mid
        /\ UNCHANGED << route, served >>
        /\ responding' = [responding EXCEPT ![p].hash = hash]
    BY DEF HandleResponse, ExpectedResponse
  <1>4. hash \in HashValue BY <1>2, HashType DEF TypeOK, RespondingExchange
  <1> HIDE DEF hash
  <1>5. responding' \in [Peer -> RespondingExchange]
    <2> DEFINE rr == [responding[p] EXCEPT !.hash = hash]
    <2>0. responding[p] \in RespondingExchange BY DEF TypeOK
    <2>1. rr \in RespondingExchange BY <1>4, <2>0 DEF RespondingExchange
    <2>2. responding' = [responding EXCEPT ![p] = rr] BY <1>3 DEF TypeOK
    <2> HIDE DEF rr
    <2> QED BY <2>1, <2>2 DEF TypeOK
  <1>6. /\ responding'[o] = responding[o]
        /\ responding'[p].mid = responding[p].mid
        /\ responding'[p].packets = responding[p].packets
    BY <1>1, <1>3 DEF TypeOK, RespondingExchange
  <1>7. ExchangesAgreeAt(p) /\ ExchangesAgreeAt(o) BY <1>1 DEF ExchangesAgree
  <1>8. /\ Len(sent[p]) = d + 1 /\ Len(served[o]) = d + 1
        /\ active[p] \in Task /\ m.exchange = e.type
        /\ [task |-> active[p], res |-> m.res] = served[o][d + 1]
        /\ m.res \in ResultKind
    BY <1>3, ResponseMatches
  <1>9. d \in Nat /\ D \in Nat /\ done[p] \in Seq(LogEntry) BY DEF TypeOK
  <1>a. CASE /\ initiating' = [initiating EXCEPT ![p].defrag = got]
             /\ UNCHANGED << state, queued, delayed, wakeups, active, nextId, jobs,
                             cause, net, sent, done >>
    <2>1. got \in SUBSET Packet BY <1>2 DEF InitiatingExchange
    <2> HIDE DEF got
    <2>2. initiating' \in [Peer -> InitiatingExchange]
      <3> DEFINE f == [e EXCEPT !.defrag = got]
      <3>1. f \in InitiatingExchange BY <1>2, <2>1 DEF InitiatingExchange
      <3>2. initiating' = [initiating EXCEPT ![p] = f] BY <1>a DEF TypeOK
      <3> HIDE DEF f
      <3> QED BY <3>1, <3>2 DEF TypeOK
    <2>3. TypeOK' BY <1>a, <1>3, <1>5, <2>2 DEF TypeOK
    <2>4. \A x \in Peer : /\ initiating'[x].mid = initiating[x].mid
                          /\ initiating'[x].type = initiating[x].type
                          /\ initiating'[x].packets = initiating[x].packets
      BY <1>a DEF TypeOK, InitiatingExchange
    <2> QED BY <1>a, <1>1, <1>3, <1>6, <2>3, <2>4, AgreeFrame
  <1>b. CASE \E ee \in {e, [e EXCEPT !.defrag = {}]} : ProcessResponse(p, m, ee)
    <2>1. PICK ee \in {e, [e EXCEPT !.defrag = {}]} : ProcessResponse(p, m, ee)
      BY <1>b
    <2>2. ee \in InitiatingExchange /\ ee.type = e.type /\ ee.mid = e.mid
      BY <1>2, <2>1 DEF InitiatingExchange
    <2> DEFINE next == [ee EXCEPT !.mid = @ + 1, !.type = "UNDEFINED", !.packets = {}]
    <2>3. /\ next \in InitiatingExchange /\ next.mid = e.mid + 1
          /\ next.type = "UNDEFINED" /\ next.packets = {}
      <3>1. ee.mid + 1 \in Nat BY <2>2 DEF InitiatingExchange
      <3>2. {} \in SUBSET Packet OBVIOUS
      <3> QED BY <2>2, <3>1, <3>2 DEF InitiatingExchange
    <2> HIDE DEF next
    <2>4. /\ done' = [done EXCEPT ![p] =
                          Append(@, [task |-> active[p], res |-> m.res])]
          /\ \/ \E why \in Causes : Destroy(p, why) /\ UNCHANGED << net, sent >>
             \/ \E a \in Task \cup {NoTask}, q \in SUBSET Task, dl \in SUBSET Nat :
                    /\ Initiate(p, next, a, q, dl)
                    /\ a = NoTask \/ Startable(p, a, q, dl) # {}
                    /\ delayed' \in [Peer -> SUBSET Nat]
                    /\ wakeups' \in [Peer -> SUBSET Nat]
                    /\ nextId' \in [Peer -> Nat]
                    /\ UNCHANGED cause
      BY <1>2, <1>8, <2>1, <2>2, ProcessResponseEffect DEF next
    <2> DEFINE entry == [task |-> active[p], res |-> m.res]
    <2>5. entry \in LogEntry /\ entry = served[o][D] BY <1>8 DEF LogEntry
    <2> HIDE DEF entry
    <2>6. /\ done'[p] = Append(done[p], entry) /\ done'[o] = done[o]
          /\ done' \in [Peer -> Seq(LogEntry)]
      <3>1. Append(done[p], entry) \in Seq(LogEntry) BY <1>9, <2>5
      <3> QED BY <1>1, <2>4, <3>1 DEF TypeOK, entry
    <2>7. /\ Len(done'[p]) = D /\ done'[p][D] = entry
          /\ \A k \in 1..d : done'[p][k] = done[p][k]
      BY <1>9, <2>5, <2>6
    <2>8. \A k \in 1..D : done'[p][k] = served[o][k]
      <3>1. \A k \in 1..D : k \in 1..d \/ k = D BY <1>9
      <3>2. \A k \in 1..d : done[p][k] = served[o][k] BY <1>7 DEF ExchangesAgreeAt
      <3> QED BY <2>5, <2>7, <3>1, <3>2
    <2>9. /\ D = Len(done'[p]) /\ D >= Len(done[p]) /\ D <= Len(served[o])
          /\ Len(sent[p]) = D /\ Len(sent[p]) # D + 1 /\ Len(sent[p]) <= D + 1
      BY <1>8, <1>9, <2>7
    <2>10. CASE \E why \in Causes : Destroy(p, why) /\ UNCHANGED << net, sent >>
      <3>1. PICK why \in Causes : Destroy(p, why) /\ UNCHANGED << net, sent >>
        BY <2>10
      <3>2. TypeOK' BY <1>3, <1>5, <2>6, <3>1, DestroyType DEF TypeOK
      <3>3. /\ state'[p] = "DESTROYED" /\ state'[o] = state[o]
            /\ active'[o] = active[o] /\ initiating' = initiating
        BY <1>1, <3>1 DEF Destroy, TypeOK
      <3>4. ExchangesAgreeAt(p)'
        <4>1. ~Exists(p)' /\ (Exists(o)' => Exists(o)) BY <3>3 DEF Exists
        <4> HIDE DEF D
        <4> QED BY <1>3, <1>6, <1>7, <1>9, <2>8, <2>9, <3>1, <4>1, DestroyAgrees
      <3>5. ExchangesAgreeAt(o)'
        BY <1>1, <1>3, <1>6, <1>7, <2>6, <3>1, <3>3, Frame DEF Exists
      <3> QED BY <1>1, <3>2, <3>4, <3>5 DEF ExchangesAgree
    <2>11. CASE \E a \in Task \cup {NoTask}, q \in SUBSET Task, dl \in SUBSET Nat :
                    /\ Initiate(p, next, a, q, dl)
                    /\ a = NoTask \/ Startable(p, a, q, dl) # {}
                    /\ delayed' \in [Peer -> SUBSET Nat]
                    /\ wakeups' \in [Peer -> SUBSET Nat]
                    /\ nextId' \in [Peer -> Nat]
                    /\ UNCHANGED cause
      <3>1. PICK a \in Task \cup {NoTask}, q \in SUBSET Task, dl \in SUBSET Nat :
                    /\ Initiate(p, next, a, q, dl)
                    /\ a = NoTask \/ Startable(p, a, q, dl) # {}
                    /\ delayed' \in [Peer -> SUBSET Nat]
                    /\ wakeups' \in [Peer -> SUBSET Nat]
                    /\ nextId' \in [Peer -> Nat]
                    /\ UNCHANGED cause
        BY <2>11
      <3>2. TypeOK'
        <4>1. /\ state' \in [Peer -> {"ESTABLISHED", "DELETING", "DESTROYED"}]
              /\ initiating' \in [Peer -> InitiatingExchange]
              /\ queued' \in [Peer -> SUBSET Task]
              /\ active' \in [Peer -> Task \cup {NoTask}]
              /\ jobs' \in [Peer -> SUBSET Nat]
              /\ net' \in SUBSET Packet
              /\ sent' \in [Peer -> Seq(Task)]
          BY <2>3, <3>1, InitiateType
        <4> QED BY <1>3, <1>5, <2>6, <3>1, <4>1 DEF TypeOK
      <3>3. ExchangesAgreeAt(p)'
        <4>1. next.mid = Base(p) + D
          <5>1. e.mid = Base(p) + d BY <1>3, <1>7 DEF ExchangesAgreeAt
          <5> QED BY <5>1, <1>1, <1>9, <2>3
        <4> HIDE DEF D
        <4> QED BY <1>3, <1>6, <1>7, <1>9, <2>3, <2>8, <2>9, <3>1, <4>1,
                   InitiateAgrees
      <3>4. ExchangesAgreeAt(o)'
        <4>1. /\ sent'[o] = sent[o] /\ state'[o] = state[o]
              /\ active'[o] = active[o] /\ initiating'[o] = initiating[o]
              /\ state'[p] = "DESTROYED" => state[p] = "DESTROYED"
              /\ net \subseteq net'
              /\ \A x \in net' : x \in net \/ (x.from = p /\ x.request = TRUE)
          BY <2>3, <3>1, InitiateElsewhere
        <4>2. /\ done'[o] = done[o] /\ served'[p] = served[p] BY <1>3, <2>6
        <4>3. Exists(o)' => /\ Exists(o)
                            /\ initiating'[o].mid = initiating[o].mid
                            /\ initiating'[o].type = initiating[o].type
                            /\ initiating'[o].packets = initiating[o].packets
                            /\ active'[o] = active[o]
          BY <4>1 DEF Exists
        <4>4. Exists(p)' => Exists(p) /\ responding'[p].mid = responding[p].mid
          BY <1>3, <1>6
        <4>5. \A x \in net' : \/ x \in net
                              \/ ~(x.from = o /\ x.request) /\ ~(x.from = p /\ ~x.request)
          BY <1>1, <4>1
        <4> QED BY <1>1, <1>6, <1>7, <4>1, <4>2, <4>3, <4>4, <4>5, Frame
      <3> QED BY <1>1, <3>2, <3>3, <3>4 DEF ExchangesAgree
    <2> QED BY <2>4, <2>10, <2>11
  <1> QED BY <1>a, <1>b DEF HandleResponse, hash

-----------------------------------------------------------------------------
\* The exchanges agree after the authentication.
LEMMA InitAgrees == Init => ExchangesAgree
  <1> SUFFICES ASSUME Init, NEW p \in Peer PROVE ExchangesAgreeAt(p)
    BY DEF ExchangesAgree
  <1>1. AuthMids \in Nat /\ AuthMids - 1 \in Nat BY ConstantAssumption
  <1>2. \A m \in AuthRequest :
           /\ m.from = "i" /\ m.request = TRUE /\ m.mid = AuthMids - 1
           /\ m.task = AuthTask
    BY DEF AuthRequest, Request, Packets
  <1>3. \A m \in AuthResponse :
           /\ m.from = "r" /\ m.request = FALSE /\ m.mid = AuthMids - 1
           /\ m.task = AuthTask /\ m.res = "ok" /\ m.exchange = ExchangeOf(AuthTask)
    BY DEF AuthResponse, Response, Packets
  <1>4. net = AuthRequest \cup AuthResponse BY DEF Init
  <1> HIDE DEF AuthRequest, AuthResponse
  <1>5. CASE p = "i"
    <2>1. /\ sent[p] = << AuthTask >> /\ Other(p) = "r"
          /\ served["r"] = << [task |-> AuthTask, res |-> "ok"] >>
          /\ done[p] = << [task |-> AuthTask, res |-> "ok"] >>
          /\ Base(p) = AuthMids - 1
      BY <1>5 DEF Init, Other, Base, Peer
    <2>2. /\ responding["r"].mid = AuthMids /\ responding["r"].packets = AuthResponse
          /\ initiating[p].mid = AuthMids /\ initiating[p].type = "UNDEFINED"
          /\ initiating[p].packets = {} /\ active[p] = NoTask
      BY <1>5 DEF Init, Peer
    <2>3. Len(sent[p]) = 1 /\ Len(served["r"]) = 1 /\ Len(done[p]) = 1 BY <2>1
    <2>4. \A m \in net : m.from = p /\ m.request =>
             /\ m.mid >= Base(p) /\ m.mid < Base(p) + 1
             /\ m.task = sent[p][m.mid - Base(p) + 1]
      BY <1>1, <1>2, <1>3, <1>4, <1>5, <2>1
    <2>5. \A m \in net : m.from = "r" /\ ~m.request =>
             /\ m.mid >= Base(p) /\ m.mid < Base(p) + 1
             /\ m.task = served["r"][m.mid - Base(p) + 1].task
             /\ m.res = served["r"][m.mid - Base(p) + 1].res
             /\ m.exchange = ExchangeOf(m.task)
      BY <1>1, <1>2, <1>3, <1>4, <2>1
    <2>6. \A k \in 1..1 : /\ served["r"][k].task = sent[p][k]
                          /\ done[p][k] = served["r"][k]
      BY <2>1
    <2>7. AuthMids = Base(p) + 1 BY <1>1, <2>1
    <2> QED BY <1>4, <2>1, <2>2, <2>3, <2>4, <2>5, <2>6, <2>7 DEF ExchangesAgreeAt
  <1>6. CASE p = "r"
    <2>1. /\ sent[p] = << >> /\ Other(p) = "i" /\ served["i"] = << >>
          /\ done[p] = << >> /\ Base(p) = 0
      BY <1>6 DEF Init, Other, Base, Peer
    <2>2. /\ responding["i"].mid = 0 /\ responding["i"].packets = {}
          /\ initiating[p].mid = 0 /\ initiating[p].type = "UNDEFINED"
          /\ initiating[p].packets = {} /\ active[p] = NoTask
      BY <1>6 DEF Init, Peer
    <2>3. Len(sent[p]) = 0 /\ Len(served["i"]) = 0 /\ Len(done[p]) = 0 BY <2>1
    <2>4. \A m \in net : ~(m.from = p /\ m.request) /\ ~(m.from = "i" /\ ~m.request)
      BY <1>2, <1>3, <1>4, <1>6
    <2> QED BY <2>1, <2>2, <2>3, <2>4 DEF ExchangesAgreeAt
  <1> QED BY <1>5, <1>6 DEF Peer

\* Every step keeps the types and the agreement of the exchanges.
LEMMA NextStep ==
    ASSUME TypeOK, ExchangesAgree, [Next]_vars
    PROVE  TypeOK' /\ ExchangesAgree'
  <1>a. CASE UNCHANGED vars
    <2>1. TypeOK' BY <1>a DEF TypeOK, vars, sa, hist
    <2> QED BY <1>a, <2>1, AgreeFrame DEF vars, sa, hist
  <1>b. CASE Next
    <2>1. PICK p \in Peer :
             \/ \E body \in Bodies :
                   \/ InitiateChild(p, body)
                   \/ ControllerInitiate(p, body)
                   \/ DeleteChildSa(p, body)
             \/ SendDpd(p)
             \/ Roam(p)
             \/ DeleteIkeSa(p)
             \/ ForceDelete(p)
             \/ \E mid \in jobs[p] : RetransmitJob(p, mid)
             \/ \E t \in queued[p] : DelayPasses(p, t)
             \/ \E id \in wakeups[p] : InitiateTasksJob(p, id)
             \/ RouteChange(p)
             \/ \E m \in net : HandleRequest(p, m) \/ HandleResponse(p, m)
      BY <1>b DEF Next
    <2>0. CASE \E body \in Bodies : ControllerInitiate(p, body) /\ ~InitiateChild(p, body)
      <3>1. /\ Destroy(p, "not_deferred") /\ Exists(p)
            /\ UNCHANGED << responding, route, net, sent, served, done >>
        BY <2>0 DEF ControllerInitiate, hist
      <3>2. "not_deferred" \in Causes BY DEF Causes
      <3> QED BY <3>1, <3>2, DestroyedStep
    <2>2. CASE \E body \in Bodies : InitiateChild(p, body) \/ DeleteChildSa(p, body)
      <3>1. PICK body \in Bodies : InitiateChild(p, body) \/ DeleteChildSa(p, body)
        BY <2>2
      <3>2. body \in BodyKind BY ConstantAssumption
      <3>3. Exists(p) /\ \E type \in TaskType : QueueAndInitiate(p, type, body)
        BY <3>1 DEF InitiateChild, DeleteChildSa, TaskType
      <3> QED BY <3>2, <3>3, QueueAndInitiateStep
    <2>3. CASE SendDpd(p) \/ Roam(p) \/ DeleteIkeSa(p)
      <3>1. Exists(p) /\ \E type \in TaskType : QueueAndInitiate(p, type, "valid")
        BY <2>3 DEF SendDpd, Roam, DeleteIkeSa, Exists, TaskType
      <3>2. "valid" \in BodyKind BY DEF BodyKind
      <3> QED BY <3>1, <3>2, QueueAndInitiateStep
    <2> QED BY <2>0, <2>1, <2>2, <2>3, ForceDeleteStep, RetransmitJobStep, DelayPassesStep,
               InitiateTasksJobStep, RouteChangeStep, HandleRequestStep,
               HandleResponseStep
  <1> QED BY <1>a, <1>b

\* Every reachable state of the two task managers is type correct, and their
\* histories, message IDs and packets agree, for any number of tasks, tries and
\* fragments and whatever the network does (process_message, initiate).
THEOREM AgreementCorrect == Spec => [](TypeOK /\ ExchangesAgree)
  <1>1. Init => TypeOK /\ ExchangesAgree BY InitType, InitAgrees
  <1>2. TypeOK /\ ExchangesAgree /\ [Next]_vars => (TypeOK /\ ExchangesAgree)'
    BY NextStep
  <1> QED BY <1>1, <1>2, PTL DEF Spec

\* The fields of private_task_manager_t keep their types; in particular the
\* retransmission counter of retransmit() never passes the configured tries.
THEOREM TypeCorrect == Spec => []TypeOK
  BY AgreementCorrect, PTL

\* Every exchange a peer completed is one the other served, with the same answer
\* and in the same order (process_message's check of the message IDs).
THEOREM Completion == Spec => []CompletedWereServed
  <1>1. TypeOK /\ ExchangesAgree => CompletedWereServed
    BY DEF ExchangesAgree, ExchangesAgreeAt, CompletedWereServed, IsPrefix
  <1> QED BY <1>1, AgreementCorrect, PTL

\* A peer serves exactly the requests the other one started, each of them once:
\* retransmissions and fragments never make process_request() run a second time.
THEOREM ExactlyOnce == Spec => []ServedWereSent
  <1>1. ASSUME TypeOK, ExchangesAgree, NEW p \in Peer
        PROVE  IsPrefix([k \in 1..Len(served[p]) |-> served[p][k].task],
                        sent[Other(p)])
    <2>1. Other(p) \in Peer /\ Other(Other(p)) = p BY PeerFacts
    <2>2. ExchangesAgreeAt(Other(p)) BY <1>1, <2>1 DEF ExchangesAgree
    <2>3. /\ Len(served[p]) <= Len(sent[Other(p)])
          /\ \A k \in 1..Len(served[p]) : served[p][k].task = sent[Other(p)][k]
      BY <2>1, <2>2 DEF ExchangesAgreeAt
    <2>4. Len(served[p]) \in Nat BY <1>1 DEF TypeOK
    <2> DEFINE s == [k \in 1..Len(served[p]) |-> served[p][k].task]
    <2>5. Len(s) = Len(served[p]) BY <2>4
    <2>6. \A k \in 1..Len(served[p]) : s[k] = served[p][k].task OBVIOUS
    <2> HIDE DEF s
    <2>7. IsPrefix(s, sent[Other(p)]) BY <2>3, <2>5, <2>6 DEF IsPrefix
    <2> QED BY <2>7 DEF s
  <1>2. TypeOK /\ ExchangesAgree => ServedWereSent BY <1>1 DEF ServedWereSent
  <1> QED BY <1>2, AgreementCorrect, PTL

\* The request a peer expects next is the one its partner has in progress or the
\* one after it (initiating.mid and responding.mid of the two ends).
THEOREM MessageIds == Spec => []MessageIdsInStep
  <1>1. ASSUME TypeOK, ExchangesAgree, NEW p \in Peer, Exists(p), Exists(Other(p))
        PROVE  responding[Other(p)].mid \in {initiating[p].mid, initiating[p].mid + 1}
    <2> DEFINE d == Len(done[p])
               v == Len(served[Other(p)])
    <2>1. d \in Nat /\ v \in Nat /\ Len(sent[p]) \in Nat /\ Base(p) \in Nat
      BY <1>1, PeerFacts DEF TypeOK
    <2>2. ExchangesAgreeAt(p) BY <1>1 DEF ExchangesAgree
    <2>3. /\ d <= v /\ v <= Len(sent[p]) /\ Len(sent[p]) <= d + 1
          /\ responding[Other(p)].mid = Base(p) + v
          /\ initiating[p].mid = Base(p) + d
      BY <1>1, <2>2 DEF ExchangesAgreeAt
    <2>4. v = d \/ v = d + 1 BY <2>1, <2>3
    <2> QED BY <2>1, <2>3, <2>4
  <1>2. TypeOK /\ ExchangesAgree => MessageIdsInStep BY <1>1 DEF MessageIdsInStep
  <1> QED BY <1>2, AgreementCorrect, PTL
-----------------------------------------------------------------------------
(* The refinement of the serial exactly-once channel.                       *)

\* A history is left alone, or grows by one entry at peer p.
Extends(h, g, p) == g = h \/ \E x : g = [h EXCEPT ![p] = Append(@, x)]

\* What one step does to the histories: it starts at most one exchange, or serves
\* one request, or completes an exchange and may start the next one.
HistoryStep(p) ==
    /\ Extends(sent, sent', p)
    /\ \/ served' = served /\ done' = done
       \/ Extends(served, served', p) /\ sent' = sent /\ done' = done
       \/ Extends(done, done', p) /\ served' = served

\* initiate() starts at most one exchange.
LEMMA InitiateHistory ==
    ASSUME NEW p, NEW e, NEW a, NEW q, NEW d, Initiate(p, e, a, q, d)
    PROVE  Extends(sent, sent', p)
  BY DEF Initiate, Start, Extends

\* process_response() completes one exchange and starts at most one.
LEMMA ProcessResponseHistory ==
    ASSUME NEW p, NEW m, NEW e, ProcessResponse(p, m, e)
    PROVE  Extends(sent, sent', p) /\ Extends(done, done', p)
  <1> DEFINE next == [e EXCEPT !.mid = @ + 1, !.type = "UNDEFINED", !.packets = {}]
             entry == [task |-> active[p], res |-> m.res]
  <1>1. \/ UNCHANGED << sent, done >>
        \/ /\ done' = [done EXCEPT ![p] = Append(@, entry)]
           /\ \/ UNCHANGED sent
              \/ \E a, q, d : Initiate(p, next, a, q, d)
    BY DEF ProcessResponse
  <1> HIDE DEF next, entry
  <1>2. Extends(done, done', p) BY <1>1 DEF Extends
  <1>3. Extends(sent, sent', p) BY <1>1, InitiateHistory DEF Extends
  <1> QED BY <1>2, <1>3

\* process_request() serves one request.
LEMMA ProcessRequestHistory ==
    ASSUME NEW p, NEW t, NEW h, NEW r, ProcessRequest(p, t, h, r)
    PROVE  Extends(served, served', p)
  BY DEF ProcessRequest, Extends

\* Every step of a peer is one of the history.
LEMMA NextHistory ==
    ASSUME Next PROVE \E p \in Peer : HistoryStep(p)
  <1>1. PICK p \in Peer :
           \/ \E body \in Bodies :
                 \/ InitiateChild(p, body)
                 \/ ControllerInitiate(p, body)
                 \/ DeleteChildSa(p, body)
           \/ SendDpd(p)
           \/ Roam(p)
           \/ DeleteIkeSa(p)
           \/ ForceDelete(p)
           \/ \E mid \in jobs[p] : RetransmitJob(p, mid)
           \/ \E t \in queued[p] : DelayPasses(p, t)
           \/ \E id \in wakeups[p] : InitiateTasksJob(p, id)
           \/ RouteChange(p)
           \/ \E m \in net : HandleRequest(p, m) \/ HandleResponse(p, m)
    BY DEF Next
  <1>a. ASSUME NEW type, NEW body, QueueAndInitiate(p, type, body)
        PROVE  HistoryStep(p)
    <2>1. /\ \E e, x, q, d : Initiate(p, e, x, q, d)
          /\ served' = served /\ done' = done
      BY <1>a DEF QueueAndInitiate
    <2> QED BY <2>1, InitiateHistory DEF HistoryStep
  <1>2. CASE \E body \in Bodies :
                InitiateChild(p, body) \/ ControllerInitiate(p, body) \/ DeleteChildSa(p, body)
    <2>1. PICK body \in Bodies :
             InitiateChild(p, body) \/ ControllerInitiate(p, body) \/ DeleteChildSa(p, body)
      BY <1>2
    <2>2. \/ \E type : QueueAndInitiate(p, type, body)
          \/ UNCHANGED << sent, served, done >>
      BY <2>1 DEF InitiateChild, ControllerInitiate, DeleteChildSa, hist
    <2> QED BY <2>2, <1>a DEF HistoryStep, Extends
  <1>3. CASE SendDpd(p) \/ Roam(p) \/ DeleteIkeSa(p)
    <2>1. \E type : QueueAndInitiate(p, type, "valid")
      BY <1>3 DEF SendDpd, Roam, DeleteIkeSa
    <2> QED BY <2>1, <1>a
  <1>4. CASE ForceDelete(p)
    BY <1>4 DEF ForceDelete, HistoryStep, Extends
  <1>5. CASE \E id \in wakeups[p] : InitiateTasksJob(p, id)
    <2>1. /\ Initiate(p, initiating[p], active[p], queued[p], delayed[p])
          /\ served' = served /\ done' = done
      BY <1>5 DEF InitiateTasksJob
    <2> QED BY <2>1, InitiateHistory DEF HistoryStep
  <1>6. CASE \/ \E mid \in jobs[p] : RetransmitJob(p, mid)
             \/ \E t \in queued[p] : DelayPasses(p, t)
             \/ RouteChange(p)
    BY <1>6 DEF RetransmitJob, DelayPasses, RouteChange, hist, HistoryStep, Extends
  <1>7. CASE \E m \in net : HandleRequest(p, m)
    <2>1. /\ sent' = sent /\ done' = done
          /\ served' = served \/ \E t, h, r : ProcessRequest(p, t, h, r)
      BY <1>7 DEF HandleRequest
    <2> QED BY <2>1, ProcessRequestHistory DEF HistoryStep, Extends
  <1>8. CASE \E m \in net : HandleResponse(p, m)
    <2>1. /\ served' = served
          /\ \/ UNCHANGED << sent, done >>
             \/ \E m, e : ProcessResponse(p, m, e)
      BY <1>8 DEF HandleResponse
    <2> QED BY <2>1, ProcessResponseHistory DEF HistoryStep, Extends
  <1> QED BY <1>1, <1>2, <1>3, <1>4, <1>5, <1>6, <1>7, <1>8

\* A history that grows does so by one entry, and only at its peer.
LEMMA Grown ==
    ASSUME NEW S, NEW h \in [Peer -> Seq(S)], NEW g \in [Peer -> Seq(S)],
           NEW p \in Peer, Extends(h, g, p), g # h
    PROVE  /\ Channel!Grows(h[p], g[p])
           /\ Channel!OnlyAt(h, g, p)
           /\ Len(h[p]) \in Nat /\ Len(g[p]) = Len(h[p]) + 1
  <1>1. PICK x : g = [h EXCEPT ![p] = Append(@, x)] BY DEF Extends
  <1>2. g[p] = Append(h[p], x) /\ \A y \in Peer \ {p} : g[y] = h[y] BY <1>1
  <1>3. h[p] \in Seq(S) /\ g[p] \in Seq(S) OBVIOUS
  <1>4. /\ Len(g[p]) = Len(h[p]) + 1
        /\ \A k \in 1..Len(h[p]) : g[p][k] = h[p][k]
    BY <1>2, <1>3
  <1>5. Channel!Ends = Peer BY DEF Channel!Ends, Peer
  <1> QED BY <1>2, <1>3, <1>4, <1>5 DEF Channel!Grows, Channel!OnlyAt

\* A step between two states in agreement is a step of the channel.
LEMMA ChannelStep ==
    ASSUME TypeOK, ExchangesAgree, TypeOK', ExchangesAgree',
           NEW p \in Peer, HistoryStep(p)
    PROVE  Channel!Next \/ UNCHANGED << sent, served, done >>
  <1> DEFINE o == Other(p)
  <1>1. o \in Peer /\ Other(o) = p /\ Channel!Partner(p) = o
    BY PeerFacts DEF Channel!Partner, Other
  <1>2. p \in Channel!Ends BY DEF Channel!Ends, Peer
  <1>3. /\ sent \in [Peer -> Seq(Task)] /\ sent' \in [Peer -> Seq(Task)]
        /\ served \in [Peer -> Seq(LogEntry)] /\ served' \in [Peer -> Seq(LogEntry)]
        /\ done \in [Peer -> Seq(LogEntry)] /\ done' \in [Peer -> Seq(LogEntry)]
    BY DEF TypeOK
  <1>4. /\ ExchangesAgreeAt(p) /\ ExchangesAgreeAt(o)
        /\ ExchangesAgreeAt(p)' /\ ExchangesAgreeAt(o)'
    BY <1>1 DEF ExchangesAgree
  <1>5. /\ Len(sent[p]) \in Nat /\ Len(sent[o]) \in Nat /\ Len(done[p]) \in Nat
        /\ Len(served[p]) \in Nat /\ Len(served[o]) \in Nat
    BY <1>1, <1>3
  <1>6. Extends(sent, sent', p) BY DEF HistoryStep
  <1>a. CASE served' = served /\ done' = done
    <2>1. CASE sent' = sent BY <1>a, <2>1
    <2>2. CASE sent' # sent
      <3>1. /\ Channel!Grows(sent[p], sent'[p]) /\ Channel!OnlyAt(sent, sent', p)
            /\ Len(sent'[p]) = Len(sent[p]) + 1
        BY <1>3, <1>6, <2>2, Grown
      <3>2. Len(done[p]) <= Len(sent[p]) /\ Len(sent'[p]) <= Len(done[p]) + 1
        BY <1>a, <1>4, <1>5 DEF ExchangesAgreeAt
      <3>3. Len(sent[p]) = Len(done[p]) BY <1>5, <3>1, <3>2
      <3>4. Channel!Submit(p)
        BY <1>a, <3>1, <3>3 DEF Channel!Submit, Channel!Issue
      <3> QED BY <1>2, <3>4 DEF Channel!Next
    <2> QED BY <2>1, <2>2
  <1>b. CASE Extends(served, served', p) /\ served' # served /\ sent' = sent /\ done' = done
    <2>1. /\ Channel!Grows(served[p], served'[p])
          /\ Channel!OnlyAt(served, served', p)
          /\ Len(served'[p]) = Len(served[p]) + 1
      BY <1>b, <1>3, Grown
    <2>2. /\ Len(served'[p]) <= Len(sent[o])
          /\ \A k \in 1..Len(served'[p]) : served'[p][k].task = sent[o][k]
      BY <1>b, <1>1, <1>4 DEF ExchangesAgreeAt
    <2>3. Len(served[p]) + 1 \in 1..Len(served'[p]) BY <1>5, <2>1
    <2>4. /\ Len(served[p]) + 1 <= Len(sent[o])
          /\ served'[p][Len(served[p]) + 1].task = sent[o][Len(served[p]) + 1]
      BY <2>1, <2>2, <2>3
    <2>5. Channel!Serve(p) BY <1>b, <1>1, <2>1, <2>4 DEF Channel!Serve
    <2> QED BY <1>2, <2>5 DEF Channel!Next
  <1>c. CASE Extends(done, done', p) /\ done' # done /\ served' = served
    <2>1. /\ Channel!Grows(done[p], done'[p])
          /\ Channel!OnlyAt(done, done', p)
          /\ Len(done'[p]) = Len(done[p]) + 1
      BY <1>c, <1>3, Grown
    <2>2. /\ Len(done'[p]) <= Len(served[o])
          /\ \A k \in 1..Len(done'[p]) : done'[p][k] = served[o][k]
          /\ Len(served[o]) <= Len(sent[p])
          /\ Len(sent'[p]) <= Len(done'[p]) + 1
      BY <1>c, <1>4 DEF ExchangesAgreeAt
    <2>3. Len(done[p]) + 1 \in 1..Len(done'[p]) BY <1>5, <2>1
    <2>4. /\ Len(done[p]) + 1 <= Len(served[o])
          /\ done'[p][Len(done[p]) + 1] = served[o][Len(done[p]) + 1]
      BY <2>1, <2>2, <2>3
    <2>5. sent' = sent \/ Channel!Issue(p, Len(done[p]) + 1)
      <3>1. CASE sent' # sent
        <4>1. /\ Channel!Grows(sent[p], sent'[p]) /\ Channel!OnlyAt(sent, sent', p)
              /\ Len(sent'[p]) = Len(sent[p]) + 1
          BY <1>3, <1>6, <3>1, Grown
        <4>2. Len(sent[p]) = Len(done[p]) + 1 BY <1>5, <2>1, <2>2, <4>1
        <4> QED BY <4>1, <4>2 DEF Channel!Issue
      <3> QED BY <3>1
    <2>6. Channel!Complete(p) BY <1>c, <1>1, <2>1, <2>4, <2>5 DEF Channel!Complete
    <2> QED BY <1>2, <2>6 DEF Channel!Next
  <1> QED BY <1>a, <1>b, <1>c DEF HistoryStep

\* The two task managers implement the serial exactly-once channel, over a network
\* that loses, duplicates and reorders what they send: every step of theirs
\* submits, serves or completes an exchange, or leaves the histories alone.
THEOREM Refinement == Spec => ChannelSpec
  <1>1. ASSUME Init PROVE Channel!Init
    <2> SUFFICES ASSUME NEW p \in Peer
                 PROVE  /\ done[p] = served[Other(p)]
                        /\ Len(sent[p]) = Len(done[p])
                        /\ \A k \in 1..Len(sent[p]) : sent[p][k] = done[p][k].task
      BY DEF Channel!Init, Channel!Ends, Channel!Partner, Peer, Other
    <2>1. CASE p = "i" BY <1>1, <2>1 DEF Init, Peer, Other
    <2>2. CASE p = "r" BY <1>1, <2>2 DEF Init, Peer, Other
    <2> QED BY <2>1, <2>2 DEF Peer
  <1>2. ASSUME TypeOK, ExchangesAgree, TypeOK', ExchangesAgree', [Next]_vars
        PROVE  [Channel!Next]_<< sent, served, done >>
    <2>1. CASE UNCHANGED vars BY <2>1 DEF vars, hist
    <2>2. CASE Next BY <1>2, <2>2, NextHistory, ChannelStep
    <2> QED BY <1>2, <2>1, <2>2
  <1> QED BY <1>1, <1>2, AgreementCorrect, PTL DEF Spec, ChannelSpec, Channel!Spec

-----------------------------------------------------------------------------
(* What keeps the exchanges going: wakeups and retransmit jobs.             *)

\* The inductive strengthening of NoForgottenTask and ExchangeIsDriven: a task
\* that is delayed has an initiate_tasks job that has not run yet.
KeptGoing ==
    /\ \A p \in Peer : delayed[p] \subseteq wakeups[p]
    /\ NoForgottenTask
    /\ ExchangeIsDriven

\* What KeptGoing says about one peer, for the values a step leaves it with.
GoesOn(st, e, q, d, w, a, j) ==
    /\ d \subseteq w
    /\ st = "ESTABLISHED" /\ a = NoTask => \A t \in q : t.id \in w
    /\ st # "DESTROYED" /\ a # NoTask => e.deferred \/ e.mid \in j

\* A step that leaves the other peer alone keeps things going there.
LEMMA GoesOnElsewhere ==
    ASSUME KeptGoing, NEW p \in Peer, NEW o \in Peer,
           \A x \in Peer : x = p \/ x = o,
           state'[o] = state[o], queued'[o] = queued[o], delayed'[o] = delayed[o],
           wakeups'[o] = wakeups[o], active'[o] = active[o], jobs'[o] = jobs[o],
           initiating'[o].deferred = initiating[o].deferred,
           initiating'[o].mid = initiating[o].mid,
           GoesOn(state'[p], initiating'[p], queued'[p], delayed'[p],
                  wakeups'[p], active'[p], jobs'[p])
    PROVE  KeptGoing'
  <1>1. delayed[o] \subseteq wakeups[o] BY DEF KeptGoing
  <1>2. state[o] = "ESTABLISHED" /\ active[o] = NoTask =>
           \A t \in queued[o] : t.id \in wakeups[o]
    BY DEF KeptGoing, NoForgottenTask
  <1>3. state[o] # "DESTROYED" /\ active[o] # NoTask =>
           initiating[o].deferred \/ initiating[o].mid \in jobs[o]
    BY DEF KeptGoing, ExchangeIsDriven, Exists
  <1>4. GoesOn(state'[o], initiating'[o], queued'[o], delayed'[o],
               wakeups'[o], active'[o], jobs'[o])
    BY <1>1, <1>2, <1>3 DEF GoesOn
  <1>5. \A x \in Peer : GoesOn(state'[x], initiating'[x], queued'[x], delayed'[x],
                               wakeups'[x], active'[x], jobs'[x])
    BY <1>4
  <1> QED BY <1>5 DEF GoesOn, KeptGoing, NoForgottenTask, ExchangeIsDriven, Exists

\* A destroyed IKE_SA has nothing to keep going.
LEMMA DestroyedGoesOn ==
    ASSUME TypeOK, KeptGoing, NEW p \in Peer, NEW why, Destroy(p, why)
    PROVE  KeptGoing'
  <1>1. PICK o \in Peer : o = Other(p) BY PeerFacts
  <1>2. o # p /\ \A x \in Peer : x = p \/ x = o BY <1>1, PeerFacts
  <1>3. /\ state'[p] = "DESTROYED" /\ delayed'[p] = {} /\ initiating' = initiating
        /\ state'[o] = state[o] /\ queued'[o] = queued[o] /\ delayed'[o] = delayed[o]
        /\ wakeups'[o] = wakeups[o] /\ active'[o] = active[o] /\ jobs'[o] = jobs[o]
    BY <1>2 DEF Destroy, TypeOK
  <1>4. GoesOn(state'[p], initiating'[p], queued'[p], delayed'[p],
               wakeups'[p], active'[p], jobs'[p])
    BY <1>3 DEF GoesOn
  <1> QED BY <1>2, <1>3, <1>4, GoesOnElsewhere

\* retransmit() leaves the exchange deferred or with a job for its message ID.
LEMMA TransmitDrives ==
    ASSUME TypeOK, NEW p \in Peer, NEW e \in InitiatingExchange, NEW t, NEW rest,
           Transmit(p, e, t, rest)
    PROVE  /\ initiating'[p].deferred \/ initiating'[p].mid \in jobs'[p]
           /\ \A x \in Peer \ {p} : initiating'[x] = initiating[x] /\ jobs'[x] = jobs[x]
  <1> DEFINE f == [e EXCEPT !.deferred = TRUE]
             g == [e EXCEPT !.retransmitted = @ + 1]
  <1>1. f.deferred /\ g.mid = e.mid BY DEF InitiatingExchange
  <1> HIDE DEF f, g
  <1>2. \/ initiating' = [initiating EXCEPT ![p] = g] /\ jobs' = [jobs EXCEPT ![p] = rest \cup {e.mid}]
        \/ initiating' = [initiating EXCEPT ![p] = f] /\ jobs' = [jobs EXCEPT ![p] = rest]
    BY DEF Transmit, f, g
  <1>3. \A x \in Peer \ {p} : initiating'[x] = initiating[x] /\ jobs'[x] = jobs[x]
    BY <1>2 DEF TypeOK
  <1>4. initiating'[p].deferred \/ initiating'[p].mid \in jobs'[p]
    BY <1>1, <1>2 DEF TypeOK
  <1> QED BY <1>3, <1>4

\* initiate() keeps its peer going if the exchange it is called for is driven.
LEMMA InitiateGoesOn ==
    ASSUME TypeOK, NEW p \in Peer, NEW e \in InitiatingExchange,
           NEW a \in Task \cup {NoTask}, NEW q \in SUBSET Task, NEW d, NEW w,
           d \subseteq w, Initiate(p, e, a, q, d),
           e.type = "UNDEFINED" => a = NoTask \/ Startable(p, a, q, d) # {},
           e.type # "UNDEFINED" => a # NoTask /\ (e.deferred \/ e.mid \in jobs[p])
    PROVE  /\ GoesOn(state'[p], initiating'[p], queued'[p], d, w, active'[p], jobs'[p])
           /\ \A x \in Peer \ {p} :
                 /\ state'[x] = state[x] /\ queued'[x] = queued[x]
                 /\ active'[x] = active[x] /\ jobs'[x] = jobs[x]
                 /\ initiating'[x] = initiating[x]
  <1> DEFINE S == Startable(p, a, q, d)
  <1>0. 0 \in 0..(Tries + 1) BY ConstantAssumption
  <1>a. CASE /\ e.type # "UNDEFINED"
             /\ queued' = [queued EXCEPT ![p] = q]
             /\ active' = [active EXCEPT ![p] = a]
             /\ UNCHANGED << state, sent >>
             /\ IF e.deferred
                THEN Transmit(p, [e EXCEPT !.deferred = FALSE, !.retransmitted = 0],
                              a, jobs[p])
                ELSE /\ initiating' = [initiating EXCEPT ![p] = e]
                     /\ UNCHANGED << jobs, net >>
    <2> DEFINE f == [e EXCEPT !.deferred = FALSE, !.retransmitted = 0]
    <2>1. f \in InitiatingExchange BY <1>0 DEF InitiatingExchange
    <2>2. /\ initiating'[p].deferred \/ initiating'[p].mid \in jobs'[p]
          /\ \A x \in Peer \ {p} : initiating'[x] = initiating[x] /\ jobs'[x] = jobs[x]
      <3>1. CASE e.deferred
        <4> HIDE DEF f
        <4>1. Transmit(p, f, a, jobs[p]) BY <1>a, <3>1 DEF f
        <4> QED BY <4>1, <2>1, TransmitDrives
      <3>2. CASE ~e.deferred BY <1>a, <3>2 DEF TypeOK
      <3> QED BY <3>1, <3>2
    <2>3. /\ active'[p] = a /\ a # NoTask
          /\ \A x \in Peer \ {p} : /\ state'[x] = state[x] /\ queued'[x] = queued[x]
                                   /\ active'[x] = active[x]
      BY <1>a DEF TypeOK
    <2> QED BY <2>2, <2>3 DEF GoesOn
  <1>b. CASE /\ e.type = "UNDEFINED"
             /\ S = {}
             /\ queued' = [queued EXCEPT ![p] = q \ Aborted(p, a, q, d, {})]
             /\ initiating' = [initiating EXCEPT ![p] = e]
             /\ active' = [active EXCEPT ![p] = a]
             /\ UNCHANGED << state, jobs, net, sent >>
    <2>1. a = NoTask BY <1>b
    <2>2. /\ active'[p] = a /\ queued'[p] = q \ Aborted(p, a, q, d, {})
          /\ state'[p] = state[p]
          /\ \A x \in Peer \ {p} :
                 /\ state'[x] = state[x] /\ queued'[x] = queued[x]
                 /\ active'[x] = active[x] /\ jobs'[x] = jobs[x]
                 /\ initiating'[x] = initiating[x]
      BY <1>b DEF TypeOK
    <2>3. ASSUME state[p] = "ESTABLISHED", NEW t \in q \ Aborted(p, a, q, d, {})
          PROVE  t.id \in d
      BY <1>b, <2>1, <2>3 DEF Startable, Aborted, Activatable
    <2> QED BY <2>1, <2>2, <2>3 DEF GoesOn
  <1>c. CASE /\ e.type = "UNDEFINED"
             /\ \E c \in S :
                   /\ IsFirst(c, S)
                   /\ queued' = [queued EXCEPT ![p] =
                                    q \ ({c} \cup Aborted(p, a, q, d, {c}))]
                   /\ Start(p, e, c)
    <2>1. PICK c \in S : /\ queued' = [queued EXCEPT ![p] =
                                    q \ ({c} \cup Aborted(p, a, q, d, {c}))]
                         /\ Start(p, e, c)
      BY <1>c
    <2>2. c \in Task BY StartableType
    <2>3. c # NoTask BY <2>2 DEF NoTask, Task, TaskType
    <2> DEFINE f == [e EXCEPT !.type = ExchangeOf(c), !.retransmitted = 0,
                              !.deferred = FALSE, !.packets = Request(p, e.mid, c)]
    <2>4. e.mid \in Nat BY DEF InitiatingExchange
    <2>5. f \in InitiatingExchange
      BY <1>0, <2>2, <2>4, RequestType, ExchangeOfType DEF InitiatingExchange
    <2>6. /\ initiating'[p].deferred \/ initiating'[p].mid \in jobs'[p]
          /\ \A x \in Peer \ {p} : initiating'[x] = initiating[x] /\ jobs'[x] = jobs[x]
      <3> HIDE DEF f
      <3>1. Transmit(p, f, c, jobs[p]) BY <2>1 DEF f, Start
      <3> QED BY <3>1, <2>5, TransmitDrives
    <2>7. /\ active'[p] = c
          /\ \A x \in Peer \ {p} : /\ state'[x] = state[x] /\ queued'[x] = queued[x]
                                   /\ active'[x] = active[x]
      BY <2>1 DEF Start, TypeOK
    <2> QED BY <2>3, <2>6, <2>7 DEF GoesOn
  <1> HIDE DEF S
  <1> QED BY <1>a, <1>b, <1>c DEF Initiate, S

\* The exchange in progress is the one of the active task, and its packets are
\* kept for retransmissions.
LEMMA InProgress ==
    ASSUME TypeOK, ExchangesAgree, NEW p \in Peer, Exists(p)
    PROVE  /\ active[p] = NoTask <=> initiating[p].type = "UNDEFINED"
           /\ active[p] # NoTask => initiating[p].packets # {}
  <1> DEFINE n == Len(sent[p])
             d == Len(done[p])
             t == sent[p][n]
  <1>1. ExchangesAgreeAt(p) BY DEF ExchangesAgree
  <1>2. n \in Nat /\ d \in Nat /\ Len(served[Other(p)]) \in Nat /\ sent[p] \in Seq(Task)
    BY PeerFacts DEF TypeOK
  <1>3. n = d \/ n = d + 1 BY <1>1, <1>2 DEF ExchangesAgreeAt
  <1>4. CASE n = d BY <1>1, <1>4 DEF ExchangesAgreeAt
  <1>5. CASE n = d + 1
    <2>1. /\ active[p] = t /\ initiating[p].type = ExchangeOf(t)
          /\ initiating[p].packets = Request(p, Base(p) + d, t)
      BY <1>1, <1>5 DEF ExchangesAgreeAt
    <2>2. t \in Task BY <1>2, <1>5
    <2>3. t # NoTask BY <2>2 DEF NoTask, Task, TaskType
    <2>4. initiating[p].type # "UNDEFINED" BY <2>1, ExchangeOfType DEF ExchangeType
    <2>5. 1 \in 1..FragCount[ExchangeOf(t)]
      BY ExchangeOfType, ConstantAssumption
    <2>6. Request(p, Base(p) + d, t) # {} BY <2>5 DEF Request, Packets
    <2> QED BY <2>1, <2>3, <2>4, <2>6
  <1> QED BY <1>3, <1>4, <1>5

\* initiate() called on the exchange and the active task of a peer keeps it going.
LEMMA InitiateNowGoesOn ==
    ASSUME TypeOK, ExchangesAgree, KeptGoing, NEW p \in Peer, Exists(p),
           NEW q \in SUBSET Task, Initiate(p, initiating[p], active[p], q, delayed[p]),
           delayed' = delayed, delayed[p] \subseteq wakeups'[p],
           \A x \in Peer \ {p} : wakeups'[x] = wakeups[x]
    PROVE  KeptGoing'
  <1>1. PICK o \in Peer : o = Other(p) BY PeerFacts
  <1>2. o # p /\ \A x \in Peer : x = p \/ x = o BY <1>1, PeerFacts
  <1>3. /\ initiating[p] \in InitiatingExchange /\ active[p] \in Task \cup {NoTask}
    BY DEF TypeOK
  <1>4. /\ initiating[p].type = "UNDEFINED" => active[p] = NoTask
        /\ initiating[p].type # "UNDEFINED" => active[p] # NoTask
    BY InProgress
  <1>5. active[p] # NoTask => initiating[p].deferred \/ initiating[p].mid \in jobs[p]
    BY DEF KeptGoing, ExchangeIsDriven
  <1>6. PICK e \in InitiatingExchange : e = initiating[p] BY <1>3
  <1>7. PICK a \in Task \cup {NoTask} : a = active[p] BY <1>3
  <1>8. PICK w : w = wakeups'[p] OBVIOUS
  <1>9. PICK d : d = delayed[p] OBVIOUS
  <1>10. /\ Initiate(p, e, a, q, d) /\ d \subseteq w
         /\ e.type = "UNDEFINED" => a = NoTask \/ Startable(p, a, q, d) # {}
         /\ e.type # "UNDEFINED" => a # NoTask /\ (e.deferred \/ e.mid \in jobs[p])
    BY <1>4, <1>5, <1>6, <1>7, <1>8, <1>9
  <1>11. /\ GoesOn(state'[p], initiating'[p], queued'[p], d, w, active'[p], jobs'[p])
         /\ \A x \in Peer \ {p} :
                 /\ state'[x] = state[x] /\ queued'[x] = queued[x]
                 /\ active'[x] = active[x] /\ jobs'[x] = jobs[x]
                 /\ initiating'[x] = initiating[x]
    BY <1>10, InitiateGoesOn
  <1>12. GoesOn(state'[p], initiating'[p], queued'[p], delayed'[p], wakeups'[p],
                active'[p], jobs'[p])
    BY <1>8, <1>9, <1>11
  <1> QED BY <1>2, <1>11, <1>12, GoesOnElsewhere

\* process_response() keeps the peer going: the exchange that ended is driven no
\* more, the next one is, and a task queued again gets an initiate_tasks job.
LEMMA ProcessResponseGoesOn ==
    ASSUME TypeOK, KeptGoing, NEW p \in Peer, NEW m, NEW e \in InitiatingExchange,
           active[p] \in Task, ProcessResponse(p, m, e)
    PROVE  KeptGoing'
  <1> DEFINE t == active[p]
             next == [e EXCEPT !.mid = @ + 1, !.type = "UNDEFINED", !.packets = {}]
             retry == [id |-> nextId[p], type |-> "CHILD_CREATE", body |-> t.body,
                       retry |-> FALSE]
             again == [t EXCEPT !.retry = TRUE]
             Continues(a, q, d, w) ==
                /\ Initiate(p, next, a, q, d)
                /\ delayed' = [delayed EXCEPT ![p] = d]
                /\ wakeups' = [wakeups EXCEPT ![p] = w]
  <1>1. PICK o \in Peer : o = Other(p) BY PeerFacts
  <1>2. o # p /\ \A x \in Peer : x = p \/ x = o BY <1>1, PeerFacts
  <1>3. /\ queued[p] \in SUBSET Task /\ delayed[p] \in SUBSET Nat
        /\ wakeups[p] \in SUBSET Nat /\ nextId[p] \in Nat
        /\ delayed[p] \subseteq wakeups[p]
    BY DEF TypeOK, KeptGoing
  <1>4. next \in InitiatingExchange /\ next.type = "UNDEFINED"
    <2>1. e.mid + 1 \in Nat BY DEF InitiatingExchange
    <2>2. {} \in SUBSET Packet OBVIOUS
    <2> QED BY <2>1, <2>2 DEF InitiatingExchange
  <1>5. retry \in Task /\ retry.id = nextId[p] BY <1>3 DEF Task, TaskType
  <1>6. again \in Task /\ again.type = t.type BY DEF Task
  <1>7. again # NoTask BY <1>6 DEF NoTask, Task, TaskType
  <1> HIDE DEF next, retry, again
  <1>8. ASSUME NEW a \in Task \cup {NoTask}, NEW q \in SUBSET Task, NEW d, NEW w,
               d \subseteq w, a = NoTask \/ Startable(p, a, q, d) # {},
               Continues(a, q, d, w)
        PROVE  KeptGoing'
    <2>1. /\ GoesOn(state'[p], initiating'[p], queued'[p], d, w, active'[p], jobs'[p])
          /\ \A x \in Peer \ {p} :
                 /\ state'[x] = state[x] /\ queued'[x] = queued[x]
                 /\ active'[x] = active[x] /\ jobs'[x] = jobs[x]
                 /\ initiating'[x] = initiating[x]
      BY <1>4, <1>8, InitiateGoesOn
    <2>2. /\ delayed'[p] = d /\ delayed'[o] = delayed[o]
          /\ wakeups'[p] = w /\ wakeups'[o] = wakeups[o]
      BY <1>2, <1>8 DEF TypeOK
    <2> QED BY <1>2, <2>1, <2>2, GoesOnElsewhere
  <1>9. \/ \E why : Destroy(p, why)
        \/ \E out \in Outcomes(t, m.res) :
              \/ /\ out = "more"
                 /\ Continues(again, queued[p], delayed[p], wakeups[p])
              \/ /\ out = "done"
                 /\ Continues(NoTask, queued[p], delayed[p], wakeups[p])
              \/ /\ out = "requeue"
                 /\ Continues(NoTask, queued[p] \cup {retry}, delayed[p] \cup {retry.id},
                              wakeups[p] \cup {retry.id})
    BY DEF ProcessResponse, next, retry, again
  <1> HIDE DEF Continues
  <1>a. CASE \E why : Destroy(p, why) BY <1>a, DestroyedGoesOn
  <1>b. CASE /\ "more" \in Outcomes(t, m.res)
             /\ Continues(again, queued[p], delayed[p], wakeups[p])
    <2>1. t.type \in {"CHILD_CREATE", "MOBIKE"} BY <1>b DEF Outcomes
    <2>2. Startable(p, again, queued[p], delayed[p]) # {}
      BY <2>1, <1>6, <1>7 DEF Startable
    <2> QED BY <1>b, <1>3, <1>6, <1>8, <2>2
  <1>c. CASE Continues(NoTask, queued[p], delayed[p], wakeups[p])
    BY <1>c, <1>3, <1>8
  <1>d. CASE Continues(NoTask, queued[p] \cup {retry}, delayed[p] \cup {retry.id},
                       wakeups[p] \cup {retry.id})
    <2>1. PICK q \in SUBSET Task : q = queued[p] \cup {retry} BY <1>3, <1>5
    <2>2. PICK d : d = delayed[p] \cup {retry.id} OBVIOUS
    <2>3. PICK w : w = wakeups[p] \cup {retry.id} OBVIOUS
    <2>4. d \subseteq w BY <1>3, <2>2, <2>3
    <2>5. Continues(NoTask, q, d, w) BY <1>d, <2>1, <2>2, <2>3
    <2> QED BY <1>8, <2>4, <2>5
  <1> QED BY <1>9, <1>a, <1>b, <1>c, <1>d

\* A retransmit job drops itself when it is too late, or drives the exchange on.
LEMMA RetransmitJobGoesOn ==
    ASSUME TypeOK, ExchangesAgree, KeptGoing, NEW p \in Peer, NEW mid,
           RetransmitJob(p, mid)
    PROVE  KeptGoing'
  <1> DEFINE e == initiating[p]
             rest == jobs[p] \ {mid}
  <1>1. PICK o \in Peer : o = Other(p) BY PeerFacts
  <1>2. o # p /\ \A x \in Peer : x = p \/ x = o BY <1>1, PeerFacts
  <1>3. Exists(p) /\ e \in InitiatingExchange BY DEF RetransmitJob, TypeOK
  <1>4. GoesOn(state[p], e, queued[p], delayed[p], wakeups[p], active[p], jobs[p])
    BY DEF KeptGoing, NoForgottenTask, ExchangeIsDriven, GoesOn, Exists
  <1>a. CASE /\ mid # e.mid \/ e.packets = {}
             /\ jobs' = [jobs EXCEPT ![p] = rest]
             /\ UNCHANGED << state, initiating, queued, delayed, wakeups, active,
                             nextId, cause, net >>
    <2>1. jobs'[p] = rest /\ jobs'[o] = jobs[o] BY <1>a, <1>2 DEF TypeOK
    <2>2. active[p] # NoTask => mid # e.mid BY <1>a, <1>3, InProgress
    <2>3. GoesOn(state'[p], initiating'[p], queued'[p], delayed'[p], wakeups'[p],
                 active'[p], jobs'[p])
      BY <1>a, <1>4, <2>1, <2>2 DEF GoesOn
    <2> QED BY <1>a, <1>2, <2>1, <2>3, GoesOnElsewhere
  <1>b. CASE Destroy(p, "timeout") BY <1>b, DestroyedGoesOn
  <1>c. CASE /\ Transmit(p, e, active[p], rest)
             /\ UNCHANGED << state, queued, delayed, wakeups, active, nextId, cause >>
    <2>1. /\ initiating'[p].deferred \/ initiating'[p].mid \in jobs'[p]
          /\ \A x \in Peer \ {p} : initiating'[x] = initiating[x] /\ jobs'[x] = jobs[x]
      <3> HIDE DEF e, rest
      <3> QED BY <1>c, <1>3, TransmitDrives
    <2>2. GoesOn(state'[p], initiating'[p], queued'[p], delayed'[p], wakeups'[p],
                 active'[p], jobs'[p])
      BY <1>c, <1>4, <2>1 DEF GoesOn
    <2> QED BY <1>c, <1>2, <2>1, <2>2, GoesOnElsewhere
  <1> QED BY <1>a, <1>b, <1>c DEF RetransmitJob

\* A step that touches none of it keeps things going.
LEMMA GoesOnFrame ==
    ASSUME KeptGoing,
           UNCHANGED << state, queued, delayed, wakeups, active, jobs >>,
           \A x \in Peer : /\ initiating'[x].deferred = initiating[x].deferred
                           /\ initiating'[x].mid = initiating[x].mid
    PROVE  KeptGoing'
  BY DEF KeptGoing, NoForgottenTask, ExchangeIsDriven, Exists

\* Every step keeps things going.
LEMMA NextGoesOn ==
    ASSUME TypeOK, ExchangesAgree, KeptGoing, [Next]_vars
    PROVE  KeptGoing'
  <1>a. CASE UNCHANGED vars BY <1>a, GoesOnFrame DEF vars, sa
  <1>b. CASE Next
    <2>1. PICK p \in Peer :
             \/ \E body \in Bodies :
                   \/ InitiateChild(p, body)
                   \/ ControllerInitiate(p, body)
                   \/ DeleteChildSa(p, body)
             \/ SendDpd(p)
             \/ Roam(p)
             \/ DeleteIkeSa(p)
             \/ ForceDelete(p)
             \/ \E mid \in jobs[p] : RetransmitJob(p, mid)
             \/ \E t \in queued[p] : DelayPasses(p, t)
             \/ \E id \in wakeups[p] : InitiateTasksJob(p, id)
             \/ RouteChange(p)
             \/ \E m \in net : HandleRequest(p, m) \/ HandleResponse(p, m)
      BY <1>b DEF Next
    <2>2. delayed[p] \subseteq wakeups[p] BY DEF KeptGoing
    <2>3. ASSUME NEW type \in TaskType, NEW body \in BodyKind, Exists(p),
                 QueueAndInitiate(p, type, body)
          PROVE  KeptGoing'
      <3> DEFINE t == [id |-> nextId[p], type |-> type, body |-> body, retry |-> FALSE]
      <3>1. nextId[p] \in Nat /\ queued[p] \in SUBSET Task BY DEF TypeOK
      <3>2. t \in Task BY <3>1 DEF Task
      <3> HIDE DEF t
      <3>3. PICK q \in {queued[p], queued[p] \cup {t}} :
               Initiate(p, initiating[p], active[p], q, delayed[p])
        BY <2>3 DEF QueueAndInitiate, t
      <3>4. q \in SUBSET Task BY <3>1, <3>2
      <3>5. delayed' = delayed /\ wakeups' = wakeups BY <2>3 DEF QueueAndInitiate
      <3> QED BY <2>2, <2>3, <3>3, <3>4, <3>5, InitiateNowGoesOn
    <2>4. CASE \E body \in Bodies : ControllerInitiate(p, body) /\ ~InitiateChild(p, body)
      <3>1. Destroy(p, "not_deferred") BY <2>4 DEF ControllerInitiate
      <3> QED BY <3>1, DestroyedGoesOn
    <2>5. CASE \E body \in Bodies : InitiateChild(p, body) \/ DeleteChildSa(p, body)
      <3>1. PICK body \in Bodies : InitiateChild(p, body) \/ DeleteChildSa(p, body)
        BY <2>5
      <3>2. body \in BodyKind BY ConstantAssumption
      <3>3. Exists(p) /\ \E type \in TaskType : QueueAndInitiate(p, type, body)
        BY <3>1 DEF InitiateChild, DeleteChildSa, TaskType
      <3> QED BY <2>3, <3>2, <3>3
    <2>6. CASE SendDpd(p) \/ Roam(p) \/ DeleteIkeSa(p)
      <3>1. Exists(p) /\ \E type \in TaskType : QueueAndInitiate(p, type, "valid")
        BY <2>6 DEF SendDpd, Roam, DeleteIkeSa, Exists, TaskType
      <3>2. "valid" \in BodyKind BY DEF BodyKind
      <3> QED BY <2>3, <3>1, <3>2
    <2>7. CASE ForceDelete(p)
      <3>1. Destroy(p, "forced") BY <2>7 DEF ForceDelete
      <3> QED BY <3>1, DestroyedGoesOn
    <2>8. CASE \E t \in queued[p] : DelayPasses(p, t)
      <3>1. PICK t \in queued[p] : DelayPasses(p, t) BY <2>8
      <3>2. /\ \A x \in Peer : delayed'[x] \subseteq delayed[x]
            /\ UNCHANGED << state, initiating, queued, wakeups, active, jobs >>
        BY <3>1 DEF DelayPasses, TypeOK
      <3> QED BY <3>2 DEF KeptGoing, NoForgottenTask, ExchangeIsDriven, Exists
    <2>9. CASE \E id \in wakeups[p] : InitiateTasksJob(p, id)
      <3>1. PICK id \in wakeups[p] : InitiateTasksJob(p, id) BY <2>9
      <3>2. /\ Exists(p) /\ id \notin delayed[p] /\ delayed' = delayed
            /\ wakeups' = [wakeups EXCEPT ![p] = @ \ {id}]
            /\ Initiate(p, initiating[p], active[p], queued[p], delayed[p])
        BY <3>1 DEF InitiateTasksJob
      <3>3. /\ delayed[p] \subseteq wakeups'[p]
            /\ \A x \in Peer \ {p} : wakeups'[x] = wakeups[x]
            /\ queued[p] \in SUBSET Task
        BY <2>2, <3>2 DEF TypeOK
      <3> QED BY <3>2, <3>3, InitiateNowGoesOn
    <2>10. CASE RouteChange(p) BY <2>10, GoesOnFrame DEF RouteChange, sa
    <2>11. CASE \E m \in net : HandleRequest(p, m)
      <3>1. \/ UNCHANGED << state, initiating, queued, delayed, wakeups, active, jobs >>
            \/ \E why : Destroy(p, why)
        <4>1. \/ UNCHANGED << state, initiating, queued, delayed, wakeups, active, jobs >>
              \/ \E t, h, r : ProcessRequest(p, t, h, r)
          BY <2>11 DEF HandleRequest, sa
        <4>2. ASSUME NEW t, NEW h, NEW r, ProcessRequest(p, t, h, r)
              PROVE  \/ UNCHANGED << state, initiating, queued, delayed, wakeups,
                                     active, jobs >>
                     \/ \E why : Destroy(p, why)
          BY <4>2, Zenon DEF ProcessRequest
        <4> QED BY <4>1, <4>2
      <3> QED BY <3>1, GoesOnFrame, DestroyedGoesOn
    <2>12. CASE \E m \in net : HandleResponse(p, m)
      <3>1. PICK m \in net : HandleResponse(p, m) BY <2>12
      <3>2. initiating[p] \in InitiatingExchange BY DEF TypeOK
      <3>3. Exists(p) /\ m.from # p /\ ~m.request /\ m.mid = initiating[p].mid
        BY <3>1 DEF HandleResponse, ExpectedResponse
      <3>4. active[p] \in Task BY <3>3, ResponseMatches
      <3>5. CASE \E e \in {initiating[p], [initiating[p] EXCEPT !.defrag = {}]} :
                    ProcessResponse(p, m, e)
        <4>1. PICK e \in {initiating[p], [initiating[p] EXCEPT !.defrag = {}]} :
                 ProcessResponse(p, m, e)
          BY <3>5
        <4>2. e \in InitiatingExchange BY <3>2 DEF InitiatingExchange
        <4> QED BY <3>4, <4>1, <4>2, ProcessResponseGoesOn
      <3>6. CASE /\ initiating' = [initiating EXCEPT ![p].defrag = initiating[p].defrag \cup {m}]
                 /\ UNCHANGED << state, queued, delayed, wakeups, active, jobs >>
        <4>1. \A x \in Peer : /\ initiating'[x].deferred = initiating[x].deferred
                              /\ initiating'[x].mid = initiating[x].mid
          BY <3>6 DEF TypeOK, InitiatingExchange
        <4> QED BY <3>6, <4>1, GoesOnFrame
      <3> QED BY <3>1, <3>5, <3>6 DEF HandleResponse
    <2> QED BY <2>1, <2>4, <2>5, <2>6, <2>7, <2>8, <2>9, <2>10, <2>11, <2>12,
               RetransmitJobGoesOn
  <1> QED BY <1>a, <1>b

\* Tasks have their jobs and exchanges are driven, in every reachable state.
THEOREM KeepsGoing == Spec => []KeptGoing
  <1>1. Init => KeptGoing
    BY DEF Init, KeptGoing, NoForgottenTask, ExchangeIsDriven
  <1>2. TypeOK /\ ExchangesAgree /\ KeptGoing /\ [Next]_vars => KeptGoing'
    BY NextGoesOn
  <1> QED BY <1>1, <1>2, AgreementCorrect, PTL DEF Spec

\* With no exchange in progress, every queued task has an initiate_tasks job
\* scheduled for it (queue_task_delayed, and initiate() which activates all others).
THEOREM TasksKept == Spec => []NoForgottenTask
  <1>1. KeptGoing => NoForgottenTask BY DEF KeptGoing
  <1> QED BY <1>1, KeepsGoing, PTL

\* An exchange in progress has a retransmit job for its message ID or is marked
\* deferred, however the jobs of earlier exchanges run (retransmit).
THEOREM ExchangesDriven == Spec => []ExchangeIsDriven
  <1>1. KeptGoing => ExchangeIsDriven BY DEF KeptGoing
  <1> QED BY <1>1, KeepsGoing, PTL

-----------------------------------------------------------------------------
(* Deletes of the IKE_SA.                                                   *)

\* A delete of the IKE_SA always has a valid body.
IsSound(t) == t.type = "IKE_DELETE" => t.body = "valid"

\* The inductive strengthening of DeletesAgree: the deletes that are queued or
\* sent are valid, who sent one is no longer established, and who served one has
\* destroyed the IKE_SA.
DeletesInOrder ==
    /\ \A p \in Peer : \A t \in queued[p] : IsSound(t)
    /\ \A p \in Peer : \A k \in 1..Len(sent[p]) :
          /\ IsSound(sent[p][k])
          /\ sent[p][k].type = "IKE_DELETE" => state[p] # "ESTABLISHED"
    /\ \A p \in Peer : \A k \in 1..Len(served[p]) :
          served[p][k].task.type = "IKE_DELETE" => state[p] = "DESTROYED"
    /\ DeletesAgree

\* A cause a step may note for peer p, given the state of the other one.
MayEndWith(p, why) ==
    /\ why = "delete_done" => state[Other(p)] = "DESTROYED"
    /\ why = "delete_received" => state[Other(p)] # "ESTABLISHED"

\* What a step of peer p does about deletes: no state is left again, what is
\* queued or sent is sound, a delete is not sent nor served without consequence.
DeleteStep(p) ==
    /\ \A x \in Peer : /\ state[x] # "ESTABLISHED" => state'[x] # "ESTABLISHED"
                       /\ state[x] = "DESTROYED" => state'[x] = "DESTROYED"
    /\ \A x \in Peer : \A t \in queued'[x] : IsSound(t)
    /\ \/ sent' = sent
       \/ \E c \in Task : /\ sent' = [sent EXCEPT ![p] = Append(@, c)]
                          /\ IsSound(c)
                          /\ c.type = "IKE_DELETE" => state'[p] # "ESTABLISHED"
    /\ \/ served' = served
       \/ \E s \in LogEntry :
             /\ served' = [served EXCEPT ![p] = Append(@, s)]
             /\ s.task.type = "IKE_DELETE" => state'[p] = "DESTROYED"
    /\ \A x \in Peer : cause'[x] = cause[x] \/ (x = p /\ MayEndWith(p, cause'[p]))

\* What holds of the entries of a sequence and of a new one holds of all.
LEMMA AppendAll ==
    ASSUME NEW S, NEW s \in Seq(S), NEW c \in S
    PROVE  \A k \in 1..Len(Append(s, c)) :
              \/ k \in 1..Len(s) /\ Append(s, c)[k] = s[k]
              \/ Append(s, c)[k] = c
  OBVIOUS

\* Such a step keeps the deletes in order.
LEMMA DeletesStayInOrder ==
    ASSUME TypeOK, DeletesInOrder, NEW p \in Peer, DeleteStep(p)
    PROVE  DeletesInOrder'
  <1>1. \A x \in Peer : /\ state[x] # "ESTABLISHED" => state'[x] # "ESTABLISHED"
                        /\ state[x] = "DESTROYED" => state'[x] = "DESTROYED"
    BY DEF DeleteStep
  <1>2. \A x \in Peer : \A t \in queued'[x] : IsSound(t) BY DEF DeleteStep
  <1>3. ASSUME NEW x \in Peer, NEW k \in 1..Len(sent'[x])
        PROVE  /\ IsSound(sent'[x][k])
               /\ sent'[x][k].type = "IKE_DELETE" => state'[x] # "ESTABLISHED"
    <2>1. ASSUME k \in 1..Len(sent[x]), sent'[x][k] = sent[x][k]
          PROVE  /\ IsSound(sent'[x][k])
                 /\ sent'[x][k].type = "IKE_DELETE" => state'[x] # "ESTABLISHED"
      BY <1>1, <2>1 DEF DeletesInOrder
    <2>2. CASE sent' = sent BY <1>3, <2>1, <2>2
    <2>3. CASE sent' # sent
      <3>1. PICK c \in Task : /\ sent' = [sent EXCEPT ![p] = Append(@, c)]
                              /\ IsSound(c)
                              /\ c.type = "IKE_DELETE" => state'[p] # "ESTABLISHED"
        BY <2>3 DEF DeleteStep
      <3>2. CASE x # p
        <4>1. sent'[x] = sent[x] BY <3>1, <3>2 DEF TypeOK
        <4> QED BY <1>3, <2>1, <4>1
      <3>3. CASE x = p
        <4>1. sent'[p] = Append(sent[p], c) /\ sent[p] \in Seq(Task)
          BY <3>1 DEF TypeOK
        <4>2. \/ k \in 1..Len(sent[p]) /\ sent'[p][k] = sent[p][k]
              \/ sent'[p][k] = c
          BY <1>3, <3>3, <4>1, AppendAll
        <4> QED BY <2>1, <3>1, <3>3, <4>2
      <3> QED BY <3>2, <3>3
    <2> QED BY <2>2, <2>3
  <1>4. ASSUME NEW x \in Peer, NEW k \in 1..Len(served'[x]),
               served'[x][k].task.type = "IKE_DELETE"
        PROVE  state'[x] = "DESTROYED"
    <2>1. ASSUME k \in 1..Len(served[x]), served'[x][k] = served[x][k]
          PROVE  state'[x] = "DESTROYED"
      BY <1>1, <1>4, <2>1 DEF DeletesInOrder
    <2>2. CASE served' = served BY <1>4, <2>1, <2>2
    <2>3. CASE served' # served
      <3>1. PICK s \in LogEntry :
               /\ served' = [served EXCEPT ![p] = Append(@, s)]
               /\ s.task.type = "IKE_DELETE" => state'[p] = "DESTROYED"
        BY <2>3 DEF DeleteStep
      <3>2. CASE x # p
        <4>1. served'[x] = served[x] BY <3>1, <3>2 DEF TypeOK
        <4> QED BY <1>4, <2>1, <4>1
      <3>3. CASE x = p
        <4>1. served'[p] = Append(served[p], s) /\ served[p] \in Seq(LogEntry)
          BY <3>1 DEF TypeOK
        <4>2. \/ k \in 1..Len(served[p]) /\ served'[p][k] = served[p][k]
              \/ served'[p][k] = s
          BY <1>4, <3>3, <4>1, AppendAll
        <4> QED BY <1>4, <2>1, <3>1, <3>3, <4>2
      <3> QED BY <3>2, <3>3
    <2> QED BY <2>2, <2>3
  <1>5. DeletesAgree'
    <2> SUFFICES ASSUME NEW x \in Peer
                 PROVE  /\ cause'[x] = "delete_done" => ~Exists(Other(x))'
                        /\ cause'[x] = "delete_received" => state'[Other(x)] # "ESTABLISHED"
      BY DEF DeletesAgree
    <2>1. Other(x) \in Peer BY PeerFacts
    <2>2. CASE cause'[x] = cause[x]
      BY <1>1, <2>1, <2>2 DEF DeletesInOrder, DeletesAgree, Exists
    <2>3. CASE x = p /\ MayEndWith(p, cause'[p])
      BY <1>1, <2>1, <2>3 DEF MayEndWith, Exists
    <2> QED BY <2>2, <2>3 DEF DeleteStep
  <1> QED BY <1>2, <1>3, <1>4, <1>5 DEF DeletesInOrder

\* A step that changes none of it.
LEMMA DeleteFrame ==
    ASSUME DeletesInOrder, NEW p \in Peer,
           UNCHANGED << state, queued, sent, served, cause >>
    PROVE  DeleteStep(p)
  BY DEF DeleteStep, DeletesInOrder

\* initiate() sends a delete only as it leaves IKE_ESTABLISHED.
LEMMA InitiateDeletes ==
    ASSUME TypeOK, DeletesInOrder, NEW p \in Peer, Exists(p),
           NEW e, NEW a \in Task \cup {NoTask}, NEW q \in SUBSET Task, NEW d,
           Initiate(p, e, a, q, d), \A t \in q : IsSound(t),
           served' = served, cause' = cause
    PROVE  DeleteStep(p)
  <1> DEFINE S == Startable(p, a, q, d)
  <1>1. \/ state' = state /\ sent' = sent
        \/ \E c \in S : /\ sent' = [sent EXCEPT ![p] = Append(@, c)]
                        /\ state' = IF c.type = "IKE_DELETE"
                                    THEN [state EXCEPT ![p] = "DELETING"] ELSE state
    BY DEF Initiate, Start
  <1>2. \E qq : queued' = [queued EXCEPT ![p] = qq] /\ qq \subseteq q
    <2>1. \E A : queued' = [queued EXCEPT ![p] = q \ A] \/ queued' = [queued EXCEPT ![p] = q]
      BY DEF Initiate
    <2> QED BY <2>1
  <1>3. \A x \in Peer : \A t \in queued'[x] : IsSound(t)
    BY <1>2 DEF TypeOK, DeletesInOrder
  <1>4. \A c \in S : c \in Task /\ IsSound(c)
    <2>1. S \in SUBSET Task BY StartableType
    <2>2. \A c \in S : c \in q \/ c.type # "IKE_DELETE" BY DEF Startable, Activatable
    <2> QED BY <2>1, <2>2 DEF IsSound
  <1> HIDE DEF S
  <1>5. CASE state' = state /\ sent' = sent
    BY <1>3, <1>5 DEF DeleteStep
  <1>6. CASE \E c \in S : /\ sent' = [sent EXCEPT ![p] = Append(@, c)]
                          /\ state' = IF c.type = "IKE_DELETE"
                                      THEN [state EXCEPT ![p] = "DELETING"] ELSE state
    <2>1. PICK c \in S : /\ sent' = [sent EXCEPT ![p] = Append(@, c)]
                         /\ state' = IF c.type = "IKE_DELETE"
                                     THEN [state EXCEPT ![p] = "DELETING"] ELSE state
      BY <1>6
    <2>2. c \in Task /\ IsSound(c) BY <1>4
    <2>3. /\ \A x \in Peer : /\ state[x] # "ESTABLISHED" => state'[x] # "ESTABLISHED"
                             /\ state[x] = "DESTROYED" => state'[x] = "DESTROYED"
          /\ c.type = "IKE_DELETE" => state'[p] # "ESTABLISHED"
      BY <2>1 DEF TypeOK, Exists
    <2> QED BY <1>3, <2>1, <2>2, <2>3 DEF DeleteStep
  <1> QED BY <1>1, <1>5, <1>6

\* Destroying an IKE_SA keeps the deletes in order if it was for a good reason.
LEMMA DestroyDeletes ==
    ASSUME TypeOK, DeletesInOrder, NEW p \in Peer, NEW why, Destroy(p, why),
           MayEndWith(p, why),
           \/ sent' = sent
           \/ \E c \in Task : sent' = [sent EXCEPT ![p] = Append(@, c)] /\ IsSound(c),
           \/ served' = served
           \/ \E s \in LogEntry : served' = [served EXCEPT ![p] = Append(@, s)]
    PROVE  DeleteStep(p)
  <1>1. /\ state'[p] = "DESTROYED" /\ cause'[p] = why /\ queued'[p] = {}
        /\ \A x \in Peer \ {p} : /\ state'[x] = state[x] /\ cause'[x] = cause[x]
                                 /\ queued'[x] = queued[x]
    BY DEF Destroy, TypeOK
  <1>2. \A x \in Peer : \A t \in queued'[x] : IsSound(t) BY <1>1 DEF DeletesInOrder
  <1> QED BY <1>1, <1>2 DEF DeleteStep

\* A request in the network is one its sender started.
LEMMA RequestWasSent ==
    ASSUME TypeOK, ExchangesAgree, NEW p \in Peer, NEW m \in net, m.from # p, m.request
    PROVE  \E k \in 1..Len(sent[Other(p)]) : m.task = sent[Other(p)][k]
  <1>1. PICK o \in Peer : o = Other(p) BY PeerFacts
  <1>2. o # p /\ Base(o) \in Nat /\ \A x \in Peer : x = p \/ x = o BY <1>1, PeerFacts
  <1>3. m.from = o /\ m.mid \in Nat BY <1>2 DEF TypeOK, Packet
  <1>4. ExchangesAgreeAt(o) /\ Len(sent[o]) \in Nat BY DEF ExchangesAgree, TypeOK
  <1>5. /\ m.mid >= Base(o) /\ m.mid < Base(o) + Len(sent[o])
        /\ m.task = sent[o][m.mid - Base(o) + 1]
    BY <1>3, <1>4 DEF ExchangesAgreeAt
  <1>6. m.mid - Base(o) + 1 \in 1..Len(sent[o]) BY <1>2, <1>3, <1>4, <1>5
  <1> QED BY <1>1, <1>5, <1>6

\* process_request() destroys the IKE_SA when it serves a delete.
LEMMA ProcessRequestDeletes ==
    ASSUME TypeOK, DeletesInOrder, NEW p \in Peer, NEW t \in Task, NEW h, NEW r,
           IsSound(t),
           t.type = "IKE_DELETE" => state[Other(p)] # "ESTABLISHED",
           ProcessRequest(p, t, h, r), sent' = sent
    PROVE  DeleteStep(p)
  <1>1. ASSUME NEW res \in ResultKind,
               served' = [served EXCEPT ![p] = Append(@, [task |-> t, res |-> res])]
        PROVE  /\ [task |-> t, res |-> res] \in LogEntry
               /\ \E s \in LogEntry : /\ served' = [served EXCEPT ![p] = Append(@, s)]
                                      /\ s.task = t
    <2>1. [task |-> t, res |-> res] \in LogEntry BY DEF LogEntry
    <2> QED BY <1>1, <2>1
  <1>2. "critical" \in ResultKind /\ "syntax" \in ResultKind BY DEF ResultKind
  <1>a. CASE /\ t.body = "critical"
             /\ served' = [served EXCEPT ![p] = Append(@, [task |-> t, res |-> "critical"])]
             /\ UNCHANGED << state, queued, cause >>
    <2>1. t.type # "IKE_DELETE" BY <1>a DEF IsSound
    <2>2. \E s \in LogEntry : /\ served' = [served EXCEPT ![p] = Append(@, s)]
                              /\ s.task = t
      BY <1>a, <1>1, <1>2
    <2> QED BY <1>a, <2>1, <2>2 DEF DeleteStep, DeletesInOrder
  <1>b. CASE /\ served' = [served EXCEPT ![p] = Append(@, [task |-> t, res |-> "syntax"])]
             /\ Destroy(p, "syntax")
    <2>1. \E s \in LogEntry : served' = [served EXCEPT ![p] = Append(@, s)]
      BY <1>b, <1>1, <1>2
    <2>2. MayEndWith(p, "syntax") BY DEF MayEndWith
    <2> QED BY <1>b, <2>1, <2>2, DestroyDeletes
  <1>c. CASE \E res \in Results(p, t) :
             /\ served' = [served EXCEPT ![p] = Append(@, [task |-> t, res |-> res])]
             /\ IF t.type = "IKE_DELETE" THEN Destroy(p, "delete_received")
                ELSE UNCHANGED << state, queued, cause >>
    <2>1. PICK res \in Results(p, t) :
             /\ served' = [served EXCEPT ![p] = Append(@, [task |-> t, res |-> res])]
             /\ IF t.type = "IKE_DELETE" THEN Destroy(p, "delete_received")
                ELSE UNCHANGED << state, queued, cause >>
      BY <1>c
    <2>2. res \in ResultKind BY DEF Results, ResultKind
    <2>3. \E s \in LogEntry : served' = [served EXCEPT ![p] = Append(@, s)] /\ s.task = t
      BY <1>1, <2>1, <2>2
    <2>4. CASE t.type = "IKE_DELETE"
      <3>1. Destroy(p, "delete_received") BY <2>1, <2>4
      <3>2. MayEndWith(p, "delete_received") BY <2>4 DEF MayEndWith
      <3> QED BY <2>3, <3>1, <3>2, DestroyDeletes
    <2>5. CASE t.type # "IKE_DELETE"
      <3>1. UNCHANGED << state, queued, cause >> BY <2>1, <2>5
      <3> QED BY <2>3, <2>5, <3>1 DEF DeleteStep, DeletesInOrder
    <2> QED BY <2>4, <2>5
  <1> QED BY <1>a, <1>b, <1>c DEF ProcessRequest

\* process_response() ends with "delete_done" only for the answer to a delete.
LEMMA ProcessResponseDeletes ==
    ASSUME TypeOK, DeletesInOrder, NEW p \in Peer, Exists(p), NEW m, NEW e,
           active[p] \in Task, IsSound(active[p]),
           active[p].type = "IKE_DELETE" => state[Other(p)] = "DESTROYED",
           ProcessResponse(p, m, e), served' = served
    PROVE  DeleteStep(p)
  <1> DEFINE t == active[p]
             next == [e EXCEPT !.mid = @ + 1, !.type = "UNDEFINED", !.packets = {}]
             retry == [id |-> nextId[p], type |-> "CHILD_CREATE", body |-> t.body,
                       retry |-> FALSE]
             again == [t EXCEPT !.retry = TRUE]
             Ends == \E why : /\ Destroy(p, why) /\ UNCHANGED sent
                              /\ why \in {"mismatch", "syntax", "not_deferred"}
             Continues(a, q) == Ends \/ \E d : Initiate(p, next, a, q, d) /\ UNCHANGED cause
  <1>1. queued[p] \in SUBSET Task /\ nextId[p] \in Nat BY DEF TypeOK
  <1>2. retry \in Task /\ IsSound(retry) BY <1>1 DEF Task, TaskType, IsSound
  <1>3. again \in Task BY DEF Task
  <1>4. \A x \in queued[p] : IsSound(x) BY DEF DeletesInOrder
  <1>5. \/ Ends
        \/ \E out \in Outcomes(t, m.res) :
              \/ out = "destroy" /\ Destroy(p, "delete_done") /\ UNCHANGED sent
              \/ Continues(again, queued[p])
              \/ Continues(NoTask, queued[p])
              \/ Continues(NoTask, queued[p] \cup {retry})
    BY DEF ProcessResponse
  <1> HIDE DEF next, retry, again
  <1>6. ASSUME NEW a \in Task \cup {NoTask}, NEW q \in SUBSET Task,
               \A x \in q : IsSound(x), Continues(a, q)
        PROVE  Ends \/ DeleteStep(p)
    <2>1. CASE Ends BY <2>1
    <2>2. CASE \E d : Initiate(p, next, a, q, d) /\ UNCHANGED cause
      BY <1>6, <2>2, InitiateDeletes
    <2> QED BY <1>6, <2>1, <2>2
  <1>7. ASSUME Ends PROVE DeleteStep(p)
    <2>1. PICK why : /\ Destroy(p, why) /\ UNCHANGED sent
                     /\ why \in {"mismatch", "syntax", "not_deferred"}
      BY <1>7
    <2>2. MayEndWith(p, why) BY <2>1 DEF MayEndWith
    <2> QED BY <2>1, <2>2, DestroyDeletes
  <1> HIDE DEF Ends, Continues
  <1>a. CASE "destroy" \in Outcomes(t, m.res) /\ Destroy(p, "delete_done") /\ UNCHANGED sent
    <2>1. t.type = "IKE_DELETE" BY <1>a DEF Outcomes
    <2>2. MayEndWith(p, "delete_done") BY <2>1 DEF MayEndWith
    <2> QED BY <1>a, <2>2, DestroyDeletes
  <1>b. CASE Continues(again, queued[p]) BY <1>b, <1>1, <1>3, <1>4, <1>6, <1>7
  <1>c. CASE Continues(NoTask, queued[p]) BY <1>c, <1>1, <1>4, <1>6, <1>7
  <1>d. CASE Continues(NoTask, queued[p] \cup {retry})
    <2>1. /\ queued[p] \cup {retry} \in SUBSET Task
          /\ \A x \in queued[p] \cup {retry} : IsSound(x)
      BY <1>1, <1>2, <1>4
    <2> QED BY <1>d, <2>1, <1>6, <1>7
  <1> QED BY <1>5, <1>7, <1>a, <1>b, <1>c, <1>d

\* A forced delete sends a sound task, if any.
LEMMA ForceDeleteDeletes ==
    ASSUME TypeOK, DeletesInOrder, NEW p \in Peer, ForceDelete(p)
    PROVE  DeleteStep(p)
  <1> DEFINE t == [id |-> nextId[p], type |-> "IKE_DELETE", body |-> "valid",
                   retry |-> FALSE]
             S == Startable(p, active[p], queued[p] \cup {t}, delayed[p])
  <1>1. t \in Task /\ IsSound(t) BY DEF TypeOK, Task, TaskType, BodyKind, IsSound
  <1> HIDE DEF t
  <1>2. \A c \in S : c \in Task /\ IsSound(c)
    <2>1. active[p] \in Task \cup {NoTask} /\ queued[p] \cup {t} \in SUBSET Task
      BY <1>1 DEF TypeOK
    <2>2. S \in SUBSET Task BY <2>1, StartableType
    <2>3. \A c \in S : c \in queued[p] \/ c = t \/ c.type # "IKE_DELETE"
      BY DEF Startable, Activatable
    <2>4. \A c \in queued[p] : IsSound(c) BY DEF DeletesInOrder
    <2> QED BY <1>1, <2>2, <2>3, <2>4 DEF IsSound
  <1> HIDE DEF S
  <1>3. /\ Destroy(p, "forced") /\ served' = served
        /\ sent' = sent \/ \E c \in S : sent' = [sent EXCEPT ![p] = Append(@, c)]
    BY DEF ForceDelete, S, t
  <1>4. \/ sent' = sent
        \/ \E c \in Task : sent' = [sent EXCEPT ![p] = Append(@, c)] /\ IsSound(c)
    BY <1>2, <1>3
  <1>5. MayEndWith(p, "forced") BY DEF MayEndWith
  <1> QED BY <1>3, <1>4, <1>5, DestroyDeletes

\* Every step keeps the deletes in order.
LEMMA NextDeletes ==
    ASSUME TypeOK, ExchangesAgree, DeletesInOrder, [Next]_vars
    PROVE  DeletesInOrder'
  <1>a. CASE UNCHANGED vars
    <2>1. \E p \in Peer : DeleteStep(p) BY <1>a, DeleteFrame DEF vars, sa, hist, Peer
    <2> QED BY <2>1, DeletesStayInOrder
  <1>b. CASE Next
    <2>1. PICK p \in Peer :
             \/ \E body \in Bodies :
                   \/ InitiateChild(p, body)
                   \/ ControllerInitiate(p, body)
                   \/ DeleteChildSa(p, body)
             \/ SendDpd(p)
             \/ Roam(p)
             \/ DeleteIkeSa(p)
             \/ ForceDelete(p)
             \/ \E mid \in jobs[p] : RetransmitJob(p, mid)
             \/ \E t \in queued[p] : DelayPasses(p, t)
             \/ \E id \in wakeups[p] : InitiateTasksJob(p, id)
             \/ RouteChange(p)
             \/ \E m \in net : HandleRequest(p, m) \/ HandleResponse(p, m)
      BY <1>b DEF Next
    <2>2. /\ initiating[p] \in InitiatingExchange /\ active[p] \in Task \cup {NoTask}
          /\ queued[p] \in SUBSET Task /\ nextId[p] \in Nat
          /\ \A t \in queued[p] : IsSound(t)
      BY DEF TypeOK, DeletesInOrder
    <2>3. ASSUME NEW type \in TaskType, NEW body \in BodyKind, Exists(p),
                 type = "IKE_DELETE" => body = "valid",
                 QueueAndInitiate(p, type, body)
          PROVE  DeleteStep(p)
      <3> DEFINE t == [id |-> nextId[p], type |-> type, body |-> body, retry |-> FALSE]
      <3>1. t \in Task /\ IsSound(t) BY <2>2, <2>3 DEF Task, IsSound
      <3> HIDE DEF t
      <3>2. PICK q \in {queued[p], queued[p] \cup {t}} :
               Initiate(p, initiating[p], active[p], q, delayed[p])
        BY <2>3 DEF QueueAndInitiate, t
      <3>3. q \in SUBSET Task /\ \A x \in q : IsSound(x) BY <2>2, <3>1
      <3>4. served' = served /\ cause' = cause BY <2>3 DEF QueueAndInitiate
      <3> QED BY <2>2, <2>3, <3>2, <3>3, <3>4, InitiateDeletes
    <2>4. CASE \E body \in Bodies : ControllerInitiate(p, body) /\ ~InitiateChild(p, body)
      <3>1. Destroy(p, "not_deferred") /\ sent' = sent /\ served' = served
        BY <2>4 DEF ControllerInitiate, hist
      <3>2. MayEndWith(p, "not_deferred") BY DEF MayEndWith
      <3>3. DeleteStep(p) BY <3>1, <3>2, DestroyDeletes
      <3> QED BY <3>3, DeletesStayInOrder
    <2>5. CASE \E body \in Bodies : InitiateChild(p, body) \/ DeleteChildSa(p, body)
      <3>1. PICK body \in Bodies : InitiateChild(p, body) \/ DeleteChildSa(p, body)
        BY <2>5
      <3>2. body \in BodyKind BY ConstantAssumption
      <3>3. Exists(p) /\ \E type \in TaskType : /\ QueueAndInitiate(p, type, body)
                                                /\ type # "IKE_DELETE"
        BY <3>1 DEF InitiateChild, DeleteChildSa, TaskType
      <3>4. DeleteStep(p) BY <2>3, <3>2, <3>3
      <3> QED BY <3>4, DeletesStayInOrder
    <2>6. CASE SendDpd(p) \/ Roam(p) \/ DeleteIkeSa(p)
      <3>1. Exists(p) /\ \E type \in TaskType : QueueAndInitiate(p, type, "valid")
        BY <2>6 DEF SendDpd, Roam, DeleteIkeSa, Exists, TaskType
      <3>2. "valid" \in BodyKind BY DEF BodyKind
      <3>3. DeleteStep(p) BY <2>3, <3>1, <3>2
      <3> QED BY <3>3, DeletesStayInOrder
    <2>7. CASE ForceDelete(p) BY <2>7, ForceDeleteDeletes, DeletesStayInOrder
    <2>8. CASE \E mid \in jobs[p] : RetransmitJob(p, mid)
      <3>1. /\ sent' = sent /\ served' = served
            /\ UNCHANGED << state, queued, cause >> \/ Destroy(p, "timeout")
        BY <2>8 DEF RetransmitJob, hist
      <3>2. MayEndWith(p, "timeout") BY DEF MayEndWith
      <3>3. DeleteStep(p) BY <3>1, <3>2, DeleteFrame, DestroyDeletes
      <3> QED BY <3>3, DeletesStayInOrder
    <2>9. CASE RouteChange(p) \/ \E t \in queued[p] : DelayPasses(p, t)
      <3>1. DeleteStep(p) BY <2>9, DeleteFrame DEF DelayPasses, RouteChange, sa, hist
      <3> QED BY <3>1, DeletesStayInOrder
    <2>10. CASE \E id \in wakeups[p] : InitiateTasksJob(p, id)
      <3>1. /\ Exists(p) /\ served' = served /\ cause' = cause
            /\ Initiate(p, initiating[p], active[p], queued[p], delayed[p])
        BY <2>10 DEF InitiateTasksJob
      <3>2. DeleteStep(p) BY <2>2, <3>1, InitiateDeletes
      <3> QED BY <3>2, DeletesStayInOrder
    <2>11. CASE \E m \in net : HandleRequest(p, m)
      <3>1. PICK m \in net : HandleRequest(p, m) BY <2>11
      <3>2. m.from # p /\ m.request /\ sent' = sent BY <3>1 DEF HandleRequest
      <3>3. PICK k \in 1..Len(sent[Other(p)]) : m.task = sent[Other(p)][k]
        BY <3>2, RequestWasSent
      <3>4. m.task \in Task BY DEF TypeOK, Packet
      <3>5. /\ IsSound(m.task)
            /\ m.task.type = "IKE_DELETE" => state[Other(p)] # "ESTABLISHED"
        BY <3>3, PeerFacts DEF DeletesInOrder
      <3>6. \/ UNCHANGED << state, queued, cause, served >>
            \/ \E h, r : ProcessRequest(p, m.task, h, r)
        BY <3>1 DEF HandleRequest, sa
      <3>7. DeleteStep(p)
        BY <3>2, <3>4, <3>5, <3>6, DeleteFrame, ProcessRequestDeletes
      <3> QED BY <3>7, DeletesStayInOrder
    <2>12. CASE \E m \in net : HandleResponse(p, m)
      <3>1. PICK m \in net : HandleResponse(p, m) BY <2>12
      <3>2. /\ Exists(p) /\ m.from # p /\ ~m.request /\ m.mid = initiating[p].mid
            /\ served' = served
        BY <3>1 DEF HandleResponse, ExpectedResponse
      <3>3. PICK o \in Peer : o = Other(p) BY PeerFacts
      <3>4. PICK k : k = Len(done[p]) + 1 OBVIOUS
      <3>5. /\ active[p] \in Task /\ Len(sent[p]) = k /\ Len(served[o]) = k
            /\ [task |-> active[p], res |-> m.res] = served[o][k]
        BY <3>2, <3>3, <3>4, ResponseMatches
      <3>6. k \in 1..Len(sent[p]) /\ k \in 1..Len(served[o])
        BY <3>4, <3>5 DEF TypeOK
      <3>7. active[p] = served[o][k].task /\ active[p] = sent[p][k]
        <4>1. ExchangesAgreeAt(p) BY DEF ExchangesAgree
        <4>2. served[o][k].task = sent[p][k] BY <3>3, <3>5, <3>6, <4>1 DEF ExchangesAgreeAt
        <4>3. active[p] = served[o][k].task BY <3>5
        <4> QED BY <4>2, <4>3
      <3>8. /\ IsSound(active[p])
            /\ active[p].type = "IKE_DELETE" => state[Other(p)] = "DESTROYED"
        BY <3>3, <3>6, <3>7 DEF DeletesInOrder
      <3>9. \/ UNCHANGED << state, queued, cause, sent >>
            \/ \E e : ProcessResponse(p, m, e)
        BY <3>1 DEF HandleResponse
      <3>10. DeleteStep(p)
        BY <3>2, <3>5, <3>8, <3>9, DeleteFrame, ProcessResponseDeletes
      <3> QED BY <3>10, DeletesStayInOrder
    <2> QED BY <2>1, <2>4, <2>5, <2>6, <2>7, <2>8, <2>9, <2>10, <2>11, <2>12
  <1> QED BY <1>a, <1>b

\* Both ends agree about deletes in every reachable state: an IKE_SA is torn down
\* by a completed delete only after the peer destroyed its end, and by a received
\* one only if the peer is deleting it (ike_delete.c, and process_message's check
\* of what is answered).
THEOREM DeletesCorrect == Spec => []DeletesAgree
  <1>1. Init => DeletesInOrder
    <2> SUFFICES ASSUME Init PROVE DeletesInOrder OBVIOUS
    <2>1. \A p \in Peer : /\ queued[p] = {} /\ cause[p] = "none"
                          /\ \A k \in 1..Len(sent[p]) : sent[p][k] = AuthTask
                          /\ \A k \in 1..Len(served[p]) : served[p][k].task = AuthTask
      BY DEF Init, Peer
    <2>2. AuthTask.type # "IKE_DELETE" BY DEF AuthTask
    <2> HIDE DEF AuthTask
    <2> QED BY <2>1, <2>2 DEF DeletesInOrder, DeletesAgree, IsSound
  <1>2. TypeOK /\ ExchangesAgree /\ DeletesInOrder /\ [Next]_vars => DeletesInOrder'
    BY NextDeletes
  <1>3. DeletesInOrder => DeletesAgree BY DEF DeletesInOrder
  <1> QED BY <1>1, <1>2, <1>3, AgreementCorrect, PTL DEF Spec

-----------------------------------------------------------------------------
(* The cached response.                                                     *)

\* What the responding exchange r of peer p remembers: the request the hash of
\* the answered message recognises is the one the cached packets answer, and the
\* hash of the message being reassembled is that of its first fragment, once that
\* has arrived, unless a response has overwritten it.
Remembers(p, r) ==
    /\ \A a \in r.packets : a.from = p /\ a.request = FALSE
    /\ r.prev_hash.request => \A a \in r.packets : a.mid = r.prev_hash.mid
    /\ \A f \in r.defrag : f \in net /\ f.from = Other(p) /\ f.request /\ f.mid <= r.mid
    /\ \A f \in r.defrag :
          f.num = 1 /\ f.mid = r.mid /\ r.hash.request => r.hash.mid = r.mid

\* A request in the network is a fragment of the message for its task.
IsFragment(m) == m.request => m \in Request(m.from, m.mid, m.task)

\* The inductive strengthening of CachedResponseAnswers.
CachesAgree ==
    /\ \A m \in net : IsFragment(m)
    /\ \A p \in Peer : Exists(p) => Remembers(p, responding[p])

\* A message with as many fragments as it was split into has the first one.
LEMMA FirstFragment ==
    ASSUME NEW o, NEW mid, NEW t \in Task, NEW G \in SUBSET Request(o, mid, t),
           Cardinality(G) = FragCount[ExchangeOf(t)]
    PROVE  \E f \in G : f.num = 1
  <1> DEFINE n == FragCount[ExchangeOf(t)]
             num == [f \in G |-> f.num]
  <1>1. n \in Nat /\ n >= 1 BY ExchangeOfType, ConstantAssumption
  <1> HIDE DEF n
  <1>2. \A f \in G : \E k \in 1..n :
           f = [from |-> o, request |-> TRUE, mid |-> mid, exchange |-> ExchangeOf(t),
                task |-> t, res |-> "none", num |-> k, total |-> n]
    BY DEF Request, Packets, n
  <1>3. ASSUME NEW f \in G, NEW g \in G, f.num = g.num PROVE f = g
    <2> DEFINE Rec(k) == [from |-> o, request |-> TRUE, mid |-> mid,
                          exchange |-> ExchangeOf(t), task |-> t, res |-> "none",
                          num |-> k, total |-> n]
    <2>1. PICK k \in 1..n : f = Rec(k) BY <1>2
    <2>2. PICK l \in 1..n : g = Rec(l) BY <1>2
    <2>3. f.num = k /\ g.num = l BY <2>1, <2>2
    <2> HIDE DEF Rec
    <2> QED BY <1>3, <2>1, <2>2, <2>3
  <1>4. \A f \in G : f.num \in 1..n BY <1>2
  <1> SUFFICES ASSUME \A f \in G : f.num # 1 PROVE FALSE OBVIOUS
  <1>5. \A f \in G : f.num \in 2..n BY <1>1, <1>4
  <1>6. num \in [G -> 2..n] BY <1>5
  <1>7. num \in Injection(G, 2..n) BY <1>3, <1>6 DEF Injection, IsInjective
  <1>8. IsFiniteSet(2..n) /\ Cardinality(2..n) = IF 2 > n THEN 0 ELSE n - 2 + 1
    BY <1>1, FS_Interval
  <1>9. Cardinality(G) <= Cardinality(2..n)
    <2> HIDE DEF num
    <2> QED BY <1>7, <1>8, FS_Injection
  <1>10. Cardinality(2..n) < n BY <1>1, <1>8
  <1> QED BY <1>1, <1>8, <1>9, <1>10 DEF n

\* A step that sends requests, and leaves the responding exchanges alone.
LEMMA CachesFrame ==
    ASSUME CachesAgree, responding' = responding, net \subseteq net',
           \A x \in Peer : Exists(x)' => Exists(x),
           \A m \in net' : m \in net \/ IsFragment(m)
    PROVE  CachesAgree'
  <1>1. \A m \in net' : IsFragment(m) BY DEF CachesAgree
  <1>2. \A x \in Peer : Exists(x)' => Remembers(x, responding[x])' BY DEF CachesAgree, Remembers
  <1> QED BY <1>1, <1>2 DEF CachesAgree, IsFragment

\* Requests are fragments of the message for their task.
LEMMA RequestIsFragment ==
    ASSUME NEW p, NEW mid, NEW t, NEW m \in Request(p, mid, t)
    PROVE  IsFragment(m)
  <1>1. m.from = p /\ m.mid = mid /\ m.task = t BY DEF Request, Packets
  <1>2. m \in Request(m.from, m.mid, m.task) BY <1>1
  <1> QED BY <1>2 DEF IsFragment

\* The packets of the exchange in progress are fragments of its request.
LEMMA InitiatingIsFragment ==
    ASSUME TypeOK, NEW p \in Peer, ExchangesAgreeAt(p), Exists(p)
    PROVE  \A m \in initiating[p].packets : IsFragment(m)
  <1> DEFINE n == Len(sent[p])
             d == Len(done[p])
  <1>1. n \in Nat /\ d \in Nat /\ Len(served[Other(p)]) \in Nat BY PeerFacts DEF TypeOK
  <1>2. n = d \/ n = d + 1
    <2>1. d <= Len(served[Other(p)]) /\ Len(served[Other(p)]) <= n /\ n <= d + 1
      BY DEF ExchangesAgreeAt
    <2>2. d <= n BY <1>1, <2>1
    <2> HIDE DEF n, d
    <2> QED BY <1>1, <2>1, <2>2, BetweenSuccessors
  <1>3. CASE n = d BY <1>3 DEF ExchangesAgreeAt
  <1>4. CASE n = d + 1
    <2>1. initiating[p].packets = Request(p, Base(p) + d, sent[p][n])
      BY <1>4 DEF ExchangesAgreeAt
    <2> QED BY <2>1, RequestIsFragment
  <1> QED BY <1>2, <1>3, <1>4

\* initiate() sends nothing but requests.
LEMMA InitiateSends ==
    ASSUME TypeOK, NEW p \in Peer, NEW e \in InitiatingExchange,
           NEW a \in Task \cup {NoTask}, NEW q \in SUBSET Task, NEW d,
           Initiate(p, e, a, q, d), \A m \in e.packets : IsFragment(m), Exists(p)
    PROVE  /\ net \subseteq net'
           /\ \A m \in net' : m \in net \/ IsFragment(m)
           /\ \A x \in Peer : Exists(x)' => Exists(x)
  <1>1. CASE KeepsExchange(p, e, a) BY <1>1 DEF KeepsExchange, Exists
  <1>2. CASE \E c \in Startable(p, a, q, d) : StartsExchange(p, e, c)
    <2>1. PICK c \in Startable(p, a, q, d) : StartsExchange(p, e, c) BY <1>2
    <2>2. \A m \in Request(p, e.mid, c) : IsFragment(m) BY RequestIsFragment
    <2>3. \A x \in Peer : Exists(x)' => Exists(x)
      BY <2>1 DEF StartsExchange, TypeOK, Exists
    <2> QED BY <2>1, <2>2, <2>3 DEF StartsExchange
  <1> QED BY <1>1, <1>2, InitiateEffect

\* Nothing exists again that was destroyed.
LEMMA DestroyedStays ==
    ASSUME TypeOK, NEW p \in Peer, NEW why, Destroy(p, why)
    PROVE  ~Exists(p)' /\ \A x \in Peer : Exists(x)' => Exists(x)
  BY DEF Destroy, TypeOK, Exists

\* A call of initiate() on the exchange of the peer keeps the caches.
LEMMA InitiateNowCaches ==
    ASSUME TypeOK, ExchangesAgree, CachesAgree, NEW p \in Peer, Exists(p),
           NEW q \in SUBSET Task, NEW d,
           Initiate(p, initiating[p], active[p], q, d), responding' = responding
    PROVE  CachesAgree'
  <1>1. initiating[p] \in InitiatingExchange /\ active[p] \in Task \cup {NoTask}
    BY DEF TypeOK
  <1>2. \A m \in initiating[p].packets : IsFragment(m)
    BY InitiatingIsFragment DEF ExchangesAgree
  <1>3. /\ net \subseteq net'
        /\ \A m \in net' : m \in net \/ IsFragment(m)
        /\ \A x \in Peer : Exists(x)' => Exists(x)
    BY <1>1, <1>2, InitiateSends
  <1> QED BY <1>3, CachesFrame

\* A step of a peer that leaves the other's responding exchange alone.
LEMMA CachesElsewhere ==
    ASSUME CachesAgree, NEW p \in Peer, net \subseteq net',
           \A x \in Peer \ {p} : responding'[x] = responding[x],
           \A x \in Peer : Exists(x)' => Exists(x),
           \A m \in net' : m \in net \/ IsFragment(m),
           Exists(p)' => Remembers(p, responding'[p])
    PROVE  CachesAgree'
  <1>1. \A m \in net' : IsFragment(m) BY DEF CachesAgree
  <1>2. ASSUME NEW x \in Peer, Exists(x)' PROVE Remembers(x, responding[x])'
    <2>1. CASE x # p BY <1>2, <2>1 DEF CachesAgree, Remembers
    <2>2. CASE x = p BY <1>2, <2>2 DEF Remembers
    <2> QED BY <2>1, <2>2
  <1> QED BY <1>1, <1>2 DEF CachesAgree, IsFragment

\* process_request() remembers the hash of the request it answers.
LEMMA ProcessRequestRemembers ==
    ASSUME TypeOK, NEW p \in Peer, NEW t \in Task, NEW h \in HashValue,
           NEW r \in RespondingExchange, ProcessRequest(p, t, h, r),
           \A a \in r.packets : a.from = p /\ a.request = FALSE,
           r.prev_hash.request => \A a \in r.packets : a.mid = r.prev_hash.mid,
           \A f \in r.defrag :
              f \in net /\ f.from = Other(p) /\ f.request /\ f.mid <= r.mid,
           h.request => h.mid = r.mid
    PROVE  Exists(p)' => Remembers(p, responding'[p])
  <1>1. r.mid \in Nat /\ \A f \in r.defrag : f.mid \in Nat
    BY DEF RespondingExchange, Packet
  <1>2. ASSUME NEW f \in r.defrag PROVE f.mid <= r.mid + 1 /\ f.mid # r.mid + 1
    <2>1. f.mid <= r.mid /\ f.mid \in Nat BY <1>1
    <2> QED BY <1>1, <2>1
  <1>a. CASE responding' = [responding EXCEPT ![p] = [r EXCEPT !.mid = @ + 1]]
    <2> DEFINE g == [r EXCEPT !.mid = @ + 1]
    <2>1. /\ g.mid = r.mid + 1 /\ g.prev_hash = r.prev_hash /\ g.packets = r.packets
          /\ g.defrag = r.defrag
      BY DEF RespondingExchange
    <2>2. responding'[p] = g BY <1>a DEF TypeOK
    <2> HIDE DEF g
    <2>3. Remembers(p, g) BY <1>2, <2>1 DEF Remembers
    <2> QED BY <2>2, <2>3
  <1>b. CASE \E why : Destroy(p, why) BY <1>b, DestroyedStays
  <1>c. CASE \E res : responding' = [responding EXCEPT ![p] =
                                        Answered(r, Response(p, r.mid, t, res), h)]
    <2>1. PICK res : responding' = [responding EXCEPT ![p] =
                                        Answered(r, Response(p, r.mid, t, res), h)]
      BY <1>c
    <2> DEFINE R == Response(p, r.mid, t, res)
               g == Answered(r, R, h)
    <2>2. \A a \in R : a.mid = r.mid /\ a.from = p /\ a.request = FALSE
      BY DEF Response, Packets
    <2> HIDE DEF R
    <2>3. /\ g.mid = r.mid + 1 /\ g.prev_hash = h /\ g.packets = R
          /\ g.defrag = r.defrag
      BY DEF RespondingExchange, Answered
    <2>4. responding'[p] = g BY <2>1 DEF TypeOK, R
    <2> HIDE DEF g
    <2>5. Remembers(p, g) BY <1>2, <2>2, <2>3 DEF Remembers
    <2> QED BY <2>4, <2>5
  <1> QED BY <1>a, <1>b, <1>c DEF ProcessRequest

\* What process_request() sends, and whom it leaves alone.
LEMMA ProcessRequestSends ==
    ASSUME TypeOK, NEW p \in Peer, NEW t \in Task, NEW h \in HashValue,
           NEW r \in RespondingExchange, ProcessRequest(p, t, h, r)
    PROVE  /\ net \subseteq net'
           /\ \A m \in net' : m \in net \/ IsFragment(m)
           /\ \A x \in Peer : Exists(x)' => Exists(x)
           /\ \A x \in Peer \ {p} : responding'[x] = responding[x]
  <1>1. PICK res \in ResultKind, R \in SUBSET Packet : Serves(p, t, r, res, R)
    BY ProcessRequestEffect
  <1>2. net' = net \cup R /\ \A m \in R : m.request = FALSE BY <1>1 DEF Serves
  <1>3. \A x \in Peer : Exists(x)' => Exists(x)
    BY <1>1, DestroyedStays DEF Serves, Exists
  <1>4. \A x \in Peer \ {p} : responding'[x] = responding[x]
    <2>1. \E f : responding' = [responding EXCEPT ![p] = f] BY <1>1 DEF Serves
    <2> QED BY <2>1 DEF TypeOK
  <1> QED BY <1>2, <1>3, <1>4 DEF IsFragment

\* A request, or a fragment of one, keeps the caches.
LEMMA HandleRequestCaches ==
    ASSUME TypeOK, ExchangesAgree, CachesAgree, NEW p \in Peer, NEW m \in net,
           HandleRequest(p, m)
    PROVE  CachesAgree'
  <1> DEFINE r == responding[p]
             h == IF m.num = 1 THEN Hash(m) ELSE r.hash
             got == r.defrag \cup {m}
  <1>1. PICK o \in Peer : o = Other(p) BY PeerFacts
  <1>2. /\ o # p /\ Other(o) = p /\ Base(o) \in Nat
        /\ \A x \in Peer : x = p \/ x = o
    BY <1>1, PeerFacts
  <1>3. r \in RespondingExchange /\ m \in Packet BY DEF TypeOK
  <1>4. Hash(m) \in HashValue /\ m.task \in Task /\ m.mid \in Nat /\ m.from \in Peer
    BY <1>3, HashType DEF Packet
  <1>5. Exists(p) /\ m.from = o /\ m.request BY <1>2, <1>4 DEF HandleRequest
  <1>6. Hash(m).mid = m.mid BY DEF Hash
  <1>7. Remembers(p, r) BY <1>5 DEF CachesAgree
  <1>8. /\ \A a \in r.packets : a.from = p /\ a.request = FALSE
        /\ r.prev_hash.request => \A a \in r.packets : a.mid = r.prev_hash.mid
        /\ \A f \in r.defrag : f \in net /\ f.from = Other(p) /\ f.request /\ f.mid <= r.mid
        /\ \A f \in r.defrag :
              f.num = 1 /\ f.mid = r.mid /\ r.hash.request => r.hash.mid = r.mid
    BY <1>7 DEF Remembers
  <1>a. CASE net' = net \cup r.packets /\ UNCHANGED << sa, served >>
    <2>1. r.packets \subseteq net BY <1>2 DEF ExchangesAgree, ExchangesAgreeAt
    <2>2. net' = net BY <1>a, <2>1
    <2> QED BY <1>a, <2>2, CachesFrame DEF sa, Exists
  <1>b. CASE m.mid = r.mid /\ ProcessRequest(p, m.task, Hash(m), r)
    <2>1. Exists(p)' => Remembers(p, responding'[p])
      <3> HIDE DEF r
      <3> QED BY <1>b, <1>3, <1>4, <1>6, <1>8, ProcessRequestRemembers
    <2>2. /\ net \subseteq net'
          /\ \A x \in net' : x \in net \/ IsFragment(x)
          /\ \A x \in Peer : Exists(x)' => Exists(x)
          /\ \A x \in Peer \ {p} : responding'[x] = responding[x]
      BY <1>b, <1>3, <1>4, ProcessRequestSends
    <2> QED BY <2>1, <2>2, CachesElsewhere
  <1>c. CASE /\ m.mid = r.mid
             /\ \A f \in r.defrag : f.mid = m.mid
             /\ Cardinality(got) = m.total
             /\ ProcessRequest(p, m.task, h, [r EXCEPT !.hash = h, !.defrag = {}])
    <2> DEFINE g == [r EXCEPT !.hash = h, !.defrag = {}]
    <2>1. h \in HashValue BY <1>3, <1>4 DEF RespondingExchange
    <2>2. h.request => h.mid = r.mid
      <3>1. CASE m.num = 1 BY <1>c, <1>6, <3>1
      <3>2. CASE m.num # 1
        <4> DEFINE t == m.task
        <4>1. \A f \in got : f \in net /\ f.from = o /\ f.request /\ f.mid = r.mid
          BY <1>1, <1>5, <1>8, <1>c
        <4>2. \A f \in got : f.task = t
          <5>1. ExchangesAgreeAt(o) BY DEF ExchangesAgree
          <5>2. \A f \in got : f.task = sent[o][f.mid - Base(o) + 1]
            BY <4>1, <5>1 DEF ExchangesAgreeAt
          <5>3. \A f \in got : f.mid = m.mid BY <1>c, <4>1
          <5> QED BY <5>2, <5>3
        <4>3. got \in SUBSET Request(o, r.mid, t)
          <5>1. \A f \in got : IsFragment(f) BY <4>1 DEF CachesAgree
          <5>2. \A f \in got : f \in Request(f.from, f.mid, f.task)
            BY <4>1, <5>1 DEF IsFragment
          <5> QED BY <4>1, <4>2, <5>2
        <4>4. m.total = FragCount[ExchangeOf(t)]
          <5>1. m \in Request(o, r.mid, t) BY <4>3
          <5> HIDE DEF t
          <5> QED BY <5>1 DEF Request, Packets
        <4>5. \E f \in got : f.num = 1
          <5>1. Cardinality(got) = FragCount[ExchangeOf(t)] BY <1>c, <4>4
          <5> HIDE DEF got, t
          <5> QED BY <4>3, <5>1, <1>4, FirstFragment DEF t
        <4>6. PICK f \in r.defrag : f.num = 1 BY <3>2, <4>5
        <4>7. f.mid = r.mid BY <1>c
        <4> QED BY <1>8, <3>2, <4>6, <4>7
      <3> QED BY <3>1, <3>2
    <2> HIDE DEF h
    <2>3. /\ g \in RespondingExchange /\ g.mid = r.mid /\ g.packets = r.packets
          /\ g.prev_hash = r.prev_hash /\ g.defrag = {}
      BY <1>3, <2>1 DEF RespondingExchange
    <2>4. ProcessRequest(p, m.task, h, g) BY <1>c
    <2> HIDE DEF g
    <2>5. Exists(p)' => Remembers(p, responding'[p])
      <3>1. /\ \A a \in g.packets : a.from = p /\ a.request = FALSE
            /\ g.prev_hash.request => \A a \in g.packets : a.mid = g.prev_hash.mid
        BY <1>8, <2>3
      <3>2. h.request => h.mid = g.mid BY <2>2, <2>3
      <3>3. \A f \in g.defrag :
               f \in net /\ f.from = Other(p) /\ f.request /\ f.mid <= g.mid
        BY <2>3
      <3> QED BY <1>4, <2>1, <2>3, <2>4, <3>1, <3>2, <3>3, ProcessRequestRemembers
    <2>6. /\ net \subseteq net'
          /\ \A x \in net' : x \in net \/ IsFragment(x)
          /\ \A x \in Peer : Exists(x)' => Exists(x)
          /\ \A x \in Peer \ {p} : responding'[x] = responding[x]
      BY <1>4, <2>1, <2>3, <2>4, ProcessRequestSends
    <2> QED BY <2>5, <2>6, CachesElsewhere
  <1>d. CASE /\ m.mid = r.mid
             /\ responding' = [responding EXCEPT ![p] =
                                  [r EXCEPT !.hash = h, !.defrag = got]]
             /\ UNCHANGED << state, net >>
    <2> DEFINE g == [r EXCEPT !.hash = h, !.defrag = got]
    <2>1. /\ g.mid = r.mid /\ g.packets = r.packets /\ g.hash = h
          /\ g.prev_hash = r.prev_hash /\ g.defrag = got
      BY <1>3 DEF RespondingExchange
    <2>2. responding'[p] = g /\ \A x \in Peer \ {p} : responding'[x] = responding[x]
      BY <1>d DEF TypeOK
    <2>3. \A f \in got : f \in net /\ f.from = Other(p) /\ f.request /\ f.mid <= r.mid
      <3>1. m.mid <= r.mid BY <1>d, <1>4
      <3> QED BY <1>1, <1>5, <1>8, <3>1
    <2>4. ASSUME NEW f \in got, f.num = 1, f.mid = r.mid, h.request
          PROVE  h.mid = r.mid
      <3>1. CASE m.num = 1 BY <1>d, <1>6, <3>1
      <3>2. CASE m.num # 1 BY <1>8, <2>4, <3>2
      <3> QED BY <3>1, <3>2
    <2> HIDE DEF g, h, got
    <2>5. Remembers(p, g) BY <1>8, <2>1, <2>3, <2>4 DEF Remembers
    <2> QED BY <1>d, <2>2, <2>5, CachesElsewhere DEF Exists
  <1> QED BY <1>a, <1>b, <1>c, <1>d DEF HandleRequest, ExpectedRequest

\* A response leaves the caches alone but for the hash of the message being
\* reassembled, which it may overwrite with its own.
LEMMA HandleResponseCaches ==
    ASSUME TypeOK, ExchangesAgree, CachesAgree, NEW p \in Peer, NEW m \in net,
           HandleResponse(p, m)
    PROVE  CachesAgree'
  <1> DEFINE r == responding[p]
             hash == IF m.total = 1 \/ m.num = 1 THEN Hash(m) ELSE r.hash
             g == [r EXCEPT !.hash = hash]
  <1>1. /\ Exists(p) /\ m.from # p /\ ~m.request /\ m.mid = initiating[p].mid
        /\ responding' = [responding EXCEPT ![p].hash = hash]
    BY DEF HandleResponse, ExpectedResponse
  <1>2. r \in RespondingExchange /\ initiating[p] \in InitiatingExchange /\ m \in Packet
    BY DEF TypeOK
  <1>3. hash.request => hash = r.hash BY <1>1 DEF Hash
  <1> HIDE DEF hash
  <1>4. /\ g.mid = r.mid /\ g.packets = r.packets /\ g.hash = hash
        /\ g.prev_hash = r.prev_hash /\ g.defrag = r.defrag
    BY <1>2 DEF RespondingExchange
  <1>5. responding'[p] = g /\ \A x \in Peer \ {p} : responding'[x] = responding[x]
    BY <1>1 DEF TypeOK
  <1> HIDE DEF g
  <1>6. Remembers(p, g)
    <2>1. Remembers(p, r) BY <1>1 DEF CachesAgree
    <2> QED BY <1>3, <1>4, <2>1 DEF Remembers
  <1>7. /\ net \subseteq net'
        /\ \A x \in net' : x \in net \/ IsFragment(x)
        /\ \A x \in Peer : Exists(x)' => Exists(x)
    <2>1. CASE \E ee \in {initiating[p], [initiating[p] EXCEPT !.defrag = {}]} :
                  ProcessResponse(p, m, ee)
      <3>1. PICK ee \in {initiating[p], [initiating[p] EXCEPT !.defrag = {}]} :
               ProcessResponse(p, m, ee)
        BY <2>1
      <3>2. ee \in InitiatingExchange /\ ee.type = initiating[p].type
        BY <1>2, <3>1 DEF InitiatingExchange
      <3> DEFINE next == [ee EXCEPT !.mid = @ + 1, !.type = "UNDEFINED", !.packets = {}]
      <3>3. next \in InitiatingExchange /\ next.packets = {}
        <4>1. ee.mid + 1 \in Nat BY <3>2 DEF InitiatingExchange
        <4>2. {} \in SUBSET Packet OBVIOUS
        <4> QED BY <3>2, <4>1, <4>2 DEF InitiatingExchange
      <3> HIDE DEF next
      <3>4. active[p] \in Task /\ m.exchange = initiating[p].type
        BY <1>1, ResponseMatches
      <3>5. \/ \E why \in Causes : Destroy(p, why) /\ UNCHANGED << net, sent >>
            \/ \E a \in Task \cup {NoTask}, q \in SUBSET Task, d \in SUBSET Nat :
                  Initiate(p, next, a, q, d)
        BY <1>2, <3>1, <3>2, <3>4, ProcessResponseEffect DEF next
      <3>6. CASE \E why \in Causes : Destroy(p, why) /\ UNCHANGED << net, sent >>
        BY <3>6, DestroyedStays
      <3>7. CASE \E a \in Task \cup {NoTask}, q \in SUBSET Task, d \in SUBSET Nat :
                    Initiate(p, next, a, q, d)
        BY <1>1, <3>3, <3>7, InitiateSends
      <3> QED BY <3>5, <3>6, <3>7
    <2>2. CASE UNCHANGED << state, net >> BY <2>2 DEF Exists
    <2> QED BY <2>1, <2>2 DEF HandleResponse
  <1> QED BY <1>5, <1>6, <1>7, CachesElsewhere

\* Every step keeps the caches.
LEMMA NextCaches ==
    ASSUME TypeOK, ExchangesAgree, CachesAgree, [Next]_vars
    PROVE  CachesAgree'
  <1>a. CASE UNCHANGED vars BY <1>a, CachesFrame DEF vars, sa, Exists
  <1>b. CASE Next
    <2>1. PICK p \in Peer :
             \/ \E body \in Bodies :
                   \/ InitiateChild(p, body)
                   \/ ControllerInitiate(p, body)
                   \/ DeleteChildSa(p, body)
             \/ SendDpd(p)
             \/ Roam(p)
             \/ DeleteIkeSa(p)
             \/ ForceDelete(p)
             \/ \E mid \in jobs[p] : RetransmitJob(p, mid)
             \/ \E t \in queued[p] : DelayPasses(p, t)
             \/ \E id \in wakeups[p] : InitiateTasksJob(p, id)
             \/ RouteChange(p)
             \/ \E m \in net : HandleRequest(p, m) \/ HandleResponse(p, m)
      BY <1>b DEF Next
    <2>2. queued[p] \in SUBSET Task /\ nextId[p] \in Nat BY DEF TypeOK
    <2>3. ASSUME NEW type \in TaskType, NEW body \in BodyKind, Exists(p),
                 QueueAndInitiate(p, type, body)
          PROVE  CachesAgree'
      <3> DEFINE t == [id |-> nextId[p], type |-> type, body |-> body, retry |-> FALSE]
      <3>1. t \in Task BY <2>2 DEF Task
      <3> HIDE DEF t
      <3>2. PICK q \in {queued[p], queued[p] \cup {t}} :
               Initiate(p, initiating[p], active[p], q, delayed[p])
        BY <2>3 DEF QueueAndInitiate, t
      <3>3. q \in SUBSET Task BY <2>2, <3>1
      <3>4. responding' = responding BY <2>3 DEF QueueAndInitiate
      <3> QED BY <2>3, <3>2, <3>3, <3>4, InitiateNowCaches
    <2>4. ASSUME NEW why, Destroy(p, why), net' = net, responding' = responding
          PROVE  CachesAgree'
      BY <2>4, DestroyedStays, CachesFrame
    <2>5. CASE \E body \in Bodies : ControllerInitiate(p, body) /\ ~InitiateChild(p, body)
      BY <2>4, <2>5 DEF ControllerInitiate
    <2>6. CASE \E body \in Bodies : InitiateChild(p, body) \/ DeleteChildSa(p, body)
      <3>1. PICK body \in Bodies : InitiateChild(p, body) \/ DeleteChildSa(p, body)
        BY <2>6
      <3>2. body \in BodyKind BY ConstantAssumption
      <3>3. Exists(p) /\ \E type \in TaskType : QueueAndInitiate(p, type, body)
        BY <3>1 DEF InitiateChild, DeleteChildSa, TaskType
      <3> QED BY <2>3, <3>2, <3>3
    <2>7. CASE SendDpd(p) \/ Roam(p) \/ DeleteIkeSa(p)
      <3>1. Exists(p) /\ \E type \in TaskType : QueueAndInitiate(p, type, "valid")
        BY <2>7 DEF SendDpd, Roam, DeleteIkeSa, Exists, TaskType
      <3>2. "valid" \in BodyKind BY DEF BodyKind
      <3> QED BY <2>3, <3>1, <3>2
    <2>8. CASE ForceDelete(p)
      <3>1. /\ Exists(p) /\ Destroy(p, "forced") /\ responding' = responding
            /\ \/ \E c : net' = net \cup Request(p, initiating[p].mid, c)
               \/ net' = net \cup initiating[p].packets
               \/ net' = net
        BY <2>8 DEF ForceDelete
      <3>2. \A m \in initiating[p].packets : IsFragment(m)
        BY <3>1, InitiatingIsFragment DEF ExchangesAgree
      <3>3. \A c : \A m \in Request(p, initiating[p].mid, c) : IsFragment(m)
        BY RequestIsFragment
      <3>4. net \subseteq net' /\ \A m \in net' : m \in net \/ IsFragment(m)
        BY <3>1, <3>2, <3>3
      <3> QED BY <3>1, <3>4, DestroyedStays, CachesFrame
    <2>9. CASE \E mid \in jobs[p] : RetransmitJob(p, mid)
      <3>1. PICK mid \in jobs[p] : RetransmitJob(p, mid) BY <2>9
      <3>2. /\ Exists(p) /\ responding' = responding
            /\ \/ UNCHANGED << state, net >>
               \/ Destroy(p, "timeout") /\ UNCHANGED net
               \/ /\ net' = net \/ net' = net \cup initiating[p].packets
                  /\ UNCHANGED state
        BY <3>1 DEF RetransmitJob, Transmit
      <3>3. \A m \in initiating[p].packets : IsFragment(m)
        BY <3>2, InitiatingIsFragment DEF ExchangesAgree
      <3>4. CASE Destroy(p, "timeout") /\ UNCHANGED net BY <2>4, <3>2, <3>4
      <3>5. CASE /\ net' = net \/ net' = net \cup initiating[p].packets
                 /\ UNCHANGED state
        BY <3>2, <3>3, <3>5, CachesFrame DEF Exists
      <3> QED BY <3>2, <3>4, <3>5
    <2>10. CASE RouteChange(p) \/ \E t \in queued[p] : DelayPasses(p, t)
      <3>1. UNCHANGED << state, responding, net >>
        BY <2>10 DEF RouteChange, DelayPasses, sa
      <3> QED BY <3>1, CachesFrame DEF Exists
    <2>11. CASE \E id \in wakeups[p] : InitiateTasksJob(p, id)
      BY <2>2, <2>11, InitiateNowCaches DEF InitiateTasksJob
    <2> QED BY <2>1, <2>5, <2>6, <2>7, <2>8, <2>9, <2>10, <2>11,
               HandleRequestCaches, HandleResponseCaches
  <1> QED BY <1>a, <1>b

\* The caches agree after the authentication.
LEMMA InitCaches == Init => CachesAgree
  <1> SUFFICES ASSUME Init PROVE CachesAgree OBVIOUS
  <1>1. \A m \in net : IsFragment(m)
    <2>1. \A m \in AuthRequest : IsFragment(m) BY RequestIsFragment DEF AuthRequest
    <2>2. \A m \in AuthResponse : m.request = FALSE
      BY DEF AuthResponse, Response, Packets
    <2>3. net = AuthRequest \cup AuthResponse BY DEF Init
    <2> QED BY <2>1, <2>2, <2>3 DEF IsFragment
  <1>2. \A a \in AuthResponse :
           a.mid = AuthMids - 1 /\ a.from = "r" /\ a.request = FALSE
    BY DEF AuthResponse, Response, Packets
  <1>3. AuthHash.mid = AuthMids - 1 /\ NoHash.request = FALSE BY DEF AuthHash, NoHash
  <1>4. /\ responding["r"].prev_hash = AuthHash
        /\ responding["r"].packets = AuthResponse /\ responding["r"].defrag = {}
        /\ responding["i"].prev_hash = NoHash
        /\ responding["i"].packets = {} /\ responding["i"].defrag = {}
    BY DEF Init, Peer
  <1>5. ASSUME NEW p \in Peer PROVE Remembers(p, responding[p])
    <2>1. CASE p = "i" BY <1>3, <1>4, <2>1 DEF Remembers
    <2>2. CASE p = "r" BY <1>2, <1>3, <1>4, <2>2 DEF Remembers
    <2> QED BY <2>1, <2>2 DEF Peer
  <1> QED BY <1>1, <1>5 DEF CachesAgree

\* A response is only retransmitted for the request it answers: when
\* is_retransmit() recognises a request, the cached packets carry its message ID
\* and answer its task, though a critical request moves the message ID on without
\* a new response, and responses overwrite the hash of a request being reassembled.
THEOREM CachedResponses == Spec => []CachedResponseAnswers
  <1>1. ASSUME TypeOK, ExchangesAgree, CachesAgree, NEW p \in Peer, NEW m \in net,
               Exists(p), m.from # p, m.request, IsRetransmit(responding[p], m),
               NEW a \in responding[p].packets
        PROVE  a.mid = m.mid /\ a.task = m.task
    <2>1. PICK o \in Peer : o = Other(p) BY PeerFacts
    <2>2. /\ o # p /\ Other(o) = p /\ Base(o) \in Nat
          /\ \A x \in Peer : x = p \/ x = o
      BY <2>1, PeerFacts
    <2>3. m.from = o /\ m.mid \in Nat BY <1>1, <2>2 DEF TypeOK, Packet
    <2>4. Remembers(p, responding[p]) BY <1>1 DEF CachesAgree
    <2>5. responding[p].prev_hash.request /\ responding[p].prev_hash.mid = m.mid
      BY <1>1 DEF IsRetransmit, Hash
    <2>6. a.mid = m.mid BY <1>1, <2>4, <2>5 DEF Remembers
    <2>7. ExchangesAgreeAt(o) BY <1>1 DEF ExchangesAgree
    <2>8. /\ m.mid >= Base(o) /\ m.mid + 1 = responding[p].mid
          /\ responding[p].mid = Base(o) + Len(served[p])
          /\ m.task = sent[o][m.mid - Base(o) + 1]
      BY <1>1, <2>2, <2>3, <2>7 DEF ExchangesAgreeAt, IsRetransmit
    <2>9. Len(served[p]) \in Nat BY <1>1 DEF TypeOK
    <2>10. m.mid - Base(o) + 1 \in 1..Len(served[p]) BY <2>2, <2>3, <2>8, <2>9
    <2>11. served[p][m.mid - Base(o) + 1].task = sent[o][m.mid - Base(o) + 1]
      BY <2>2, <2>7, <2>10 DEF ExchangesAgreeAt
    <2>12. a \in net BY <1>1, <2>2, <2>7 DEF ExchangesAgreeAt
    <2>13. a.from = p /\ ~a.request BY <1>1, <2>4 DEF Remembers
    <2>14. a.task = served[p][a.mid - Base(o) + 1].task
      BY <2>2, <2>7, <2>12, <2>13 DEF ExchangesAgreeAt
    <2> QED BY <2>6, <2>8, <2>11, <2>14
  <1>2. TypeOK /\ ExchangesAgree /\ CachesAgree => CachedResponseAnswers
    BY <1>1 DEF CachedResponseAnswers
  <1>3. TypeOK /\ ExchangesAgree /\ CachesAgree /\ [Next]_vars => CachesAgree'
    BY NextCaches
  <1> QED BY <1>2, <1>3, InitCaches, AgreementCorrect, PTL DEF Spec

=============================================================================
