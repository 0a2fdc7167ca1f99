----------------------------- MODULE AntiReplay -----------------------------
(***************************************************************************)
(* What an ESP association promises, without rings, indices or counters    *)
(* (src/src/libipsec/esp_context.h): the sender numbers every packet       *)
(* differently; the receiver remembers which numbers it has authenticated  *)
(* and refuses a number it has seen before or that lies WindowSize or more *)
(* behind a number it has seen.  A packet that fails authentication leaves *)
(* no trace.  EspContext implements this specification.                    *)
(***************************************************************************)
EXTENDS Integers

CONSTANTS WindowSize,   \* how far behind the newest number packets may lag
          Seqnos        \* the sequence numbers a packet may carry

VARIABLES sent,         \* the numbers of the packets the sender produced
          accepted,     \* the numbers the receiver has authenticated
          verdict       \* the number and status of the last packet received

abstractVars == <<sent, accepted, verdict>>

\* The receiver has not seen seqno, nor a number WindowSize or more ahead of it
Fresh(seqno) ==
    /\ seqno \in Seqnos \ {0}
    /\ seqno \notin accepted
    /\ \A t \in accepted : t - seqno < WindowSize

Init ==
    /\ sent = {}
    /\ accepted = {}
    /\ verdict = [seqno |-> 0, status |-> "NONE"]

\* The sender produces a packet under a number it has not used
Send ==
    /\ \E seqno \in Seqnos \ ({0} \cup sent) : sent' = sent \cup {seqno}
    /\ UNCHANGED <<accepted, verdict>>

\* An authentic packet arrives, in any order and possibly once more: it is
\* taken exactly if its number is fresh
Deliver ==
    /\ \E seqno \in sent :
         IF Fresh(seqno)
         THEN /\ accepted' = accepted \cup {seqno}
              /\ \E status \in {"SUCCESS", "PARSE_ERROR"} :
                   verdict' = [seqno |-> seqno, status |-> status]
         ELSE /\ verdict' = [seqno |-> seqno, status |-> "VERIFY_ERROR"]
              /\ UNCHANGED accepted
    /\ UNCHANGED sent

\* A packet arrives that is cut short or that does not authenticate
Refuse ==
    /\ \E seqno \in Seqnos :
         \E status \in {"PARSE_ERROR",
                        IF Fresh(seqno) THEN "FAILED" ELSE "VERIFY_ERROR"} :
           verdict' = [seqno |-> seqno, status |-> status]
    /\ UNCHANGED <<sent, accepted>>

Next == Send \/ Deliver \/ Refuse

Spec == Init /\ [][Next]_abstractVars
=============================================================================
