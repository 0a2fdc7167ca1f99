----------------------------- MODULE EspContext -----------------------------
(***************************************************************************)
(* The ESP contexts of libipsec (src/src/libipsec/esp_context.c) with the  *)
(* packet operations that drive them (src/src/libipsec/esp_packet.c): the  *)
(* outbound context of a sender, which numbers the packets, the inbound    *)
(* context of the receiver, whose anti-replay window is a ring of bits,    *)
(* and between them a network that loses, reorders, duplicates and damages *)
(* packets.                                                                *)
(*                                                                         *)
(* Sequence numbers, offsets and indices are unsigned: differences are     *)
(* taken modulo Modulus (2^32 in the code).  The payload of a packet is    *)
(* abstracted away; whether decryption, the length checks and the padding  *)
(* checks succeed is a choice.                                             *)
(***************************************************************************)
EXTENDS Integers, FiniteSets

CONSTANTS WindowSize,   \* ESP_DEFAULT_WINDOW_SIZE, 128
          Modulus       \* the number of values of uint32_t and u_int, 2^32

\* The ring arithmetic below is right only for a window whose size divides
\* the range of u_int.  (That it is a multiple of 8, as esp_context.c:28
\* asks, fits it to bytes and is not enough.)
ASSUME WindowAssumption ==
    /\ WindowSize \in Nat \ {0}
    /\ Modulus \in Nat
    /\ WindowSize < Modulus
    /\ \E k \in 1..Modulus : Modulus = k * WindowSize

VARIABLES last_out,     \* last_seqno of the sender's outbound context
          sent,         \* the numbers of the packets that were produced
          last_seqno,   \* last_seqno of the receiver's inbound context
          seqno_index,  \* the bit of last_seqno in the window
          window,       \* the ring of bits
          taken,        \* how often each number was authenticated
          verdict       \* the number and result of the last decrypt()

vars == <<last_out, sent, last_seqno, seqno_index, window, taken, verdict>>

Seqnos == 0..(Modulus - 1)
Slots == 0..(WindowSize - 1)
Status == {"NONE", "SUCCESS", "PARSE_ERROR", "VERIFY_ERROR", "FAILED"}

\* Unsigned subtraction
Minus(a, b) == (a - b) % Modulus

-----------------------------------------------------------------------------
(* The outbound context                                                    *)

\* next_seqno(): the numbers do not cycle
NextSeqno ==
    /\ last_out # Modulus - 1
    /\ last_out' = last_out + 1

\* encrypt(): a number is assigned first and is lost if the IV or the
\* encryption fails
Encrypt ==
    /\ NextSeqno
    /\ \/ sent' = sent \cup {last_out'}
       \/ sent' = sent
    /\ UNCHANGED <<last_seqno, seqno_index, window, taken, verdict>>

-----------------------------------------------------------------------------
(* The inbound context                                                     *)

\* The ring position of a number not newer than last_seqno
WindowIndex(seqno) ==
    Minus(seqno_index, Minus(last_seqno, seqno)) % WindowSize

\* check_window(): the number is not marked
CheckWindow(seqno) == ~window[WindowIndex(seqno)]

MutVerifySeqno(seqno) ==
    \/ seqno > last_seqno
    \/ /\ seqno > 0
       /\ seqno <= last_seqno
       /\ CheckWindow(seqno)

\* verify_seqno()
VerifySeqno(seqno) ==
    \/ seqno > last_seqno
    \/ /\ seqno > 0
       /\ seqno <= last_seqno
       /\ WindowSize > Minus(last_seqno, seqno)
       /\ CheckWindow(seqno)

\* The steps by which set_authenticated_seqno() moves the window
ShiftTo(seqno) ==
    IF Minus(seqno, last_seqno) < WindowSize
    THEN Minus(seqno, last_seqno) ELSE WindowSize

\* The bits the loop of set_authenticated_seqno() clears on its way
Cleared(seqno) == {(seqno_index + k) % WindowSize : k \in 1..ShiftTo(seqno)}

MutSetAuthenticatedSeqno(seqno) ==
    IF seqno > last_seqno
    THEN /\ seqno_index' = (seqno_index + ShiftTo(seqno)) % WindowSize
         /\ window' = [i \in Slots |-> \/ i = seqno_index'
                                       \/ window[i] /\ i \notin Cleared(seqno)]
         /\ last_seqno' = seqno
    ELSE UNCHANGED <<last_seqno, seqno_index, window>>

\* set_authenticated_seqno()
SetAuthenticatedSeqno(seqno) ==
    IF seqno > last_seqno
    THEN /\ seqno_index' = (seqno_index + ShiftTo(seqno)) % WindowSize
         /\ window' = [i \in Slots |-> \/ i = seqno_index'
                                       \/ window[i] /\ i \notin Cleared(seqno)]
         /\ last_seqno' = seqno
    ELSE /\ window' = [window EXCEPT ![WindowIndex(seqno)] = TRUE]
         /\ UNCHANGED <<last_seqno, seqno_index>>

-----------------------------------------------------------------------------
(* Receiving: decrypt()                                                    *)

Answer(seqno, status) == verdict' = [seqno |-> seqno, status |-> status]

\* An authentic packet, in any order, any number of times.  Its number is
\* marked before the padding is looked at, which may still fail.
DecryptAuthentic(seqno) ==
    IF VerifySeqno(seqno)
    THEN /\ SetAuthenticatedSeqno(seqno)
         /\ taken' = [taken EXCEPT ![seqno] = @ + 1]
         /\ \E status \in {"SUCCESS", "PARSE_ERROR"} : Answer(seqno, status)
         /\ UNCHANGED <<last_out, sent>>
    ELSE /\ Answer(seqno, "VERIFY_ERROR")
         /\ UNCHANGED <<last_out, sent, last_seqno, seqno_index, window, taken>>

\* A packet of impossible length, or one the AEAD refuses: any number
DecryptDamaged(seqno) ==
    /\ \/ Answer(seqno, "PARSE_ERROR")
       \/ VerifySeqno(seqno) /\ Answer(seqno, "FAILED")
       \/ ~VerifySeqno(seqno) /\ Answer(seqno, "VERIFY_ERROR")
    /\ UNCHANGED <<last_out, sent, last_seqno, seqno_index, window, taken>>

-----------------------------------------------------------------------------
\* esp_context_create() of both contexts
Init ==
    /\ last_out = 0
    /\ sent = {}
    /\ last_seqno = 0
    /\ seqno_index = 0
    /\ window = [i \in Slots |-> FALSE]
    /\ taken = [s \in Seqnos |-> 0]
    /\ verdict = [seqno |-> 0, status |-> "NONE"]

Next ==
    \/ Encrypt
    \/ \E seqno \in sent : DecryptAuthentic(seqno)
    \/ \E seqno \in Seqnos : DecryptDamaged(seqno)

Spec == Init /\ [][Next]_vars

-----------------------------------------------------------------------------
(* Properties                                                              *)

\* Every variable has its type; a packet never carries the number 0, which
\* would mean that the sender's counter cycled (esp_context.c:185).
TypeOK ==
    /\ last_out \in Seqnos
    /\ sent \subseteq 1..last_out
    /\ last_seqno \in Seqnos
    /\ seqno_index \in Slots
    /\ window \in [Slots -> BOOLEAN]
    /\ taken \in [Seqnos -> Nat]
    /\ verdict \in [seqno : Seqnos, status : Status]

\* The ring is the window: whatever jumps and late arrivals came before, the
\* bit of a number inside the window says whether that number has been
\* authenticated, and nothing newer than last_seqno has been
\* (esp_context.c:106, :147).
RingIsWindow ==
    /\ \A s \in Seqnos : s > last_seqno => taken[s] = 0
    /\ \A s \in 1..last_seqno :
         last_seqno - s < WindowSize =>
            (window[WindowIndex(s)] <=> taken[s] > 0)

\* No packet is taken twice, however often and in whatever order the network
\* delivers it (esp_context.c:115).
AtMostOnce == \A s \in Seqnos : taken[s] <= 1

\* What the receiver has authenticated so far
Accepted == {s \in Seqnos : taken[s] > 0}

Replay == INSTANCE AntiReplay WITH accepted <- Accepted

\* The contexts keep the promise of AntiReplay: decrypt() takes an authentic
\* packet exactly if its number is fresh, a damaged packet changes nothing,
\* and no number is used for two packets.
ImplementsAntiReplay == Replay!Spec
=============================================================================
