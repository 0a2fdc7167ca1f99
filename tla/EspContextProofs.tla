-------------------------- MODULE EspContextProofs --------------------------
(***************************************************************************)
(* Proofs about EspContext for every window size and every modulus that is *)
(* a multiple of it: type correctness, that the ring of bits is the window *)
(* of sequence numbers, that no packet is taken twice, and that the        *)
(* contexts implement AntiReplay.                                          *)
(***************************************************************************)
EXTENDS EspContext, TLAPS

-----------------------------------------------------------------------------
(* Modular arithmetic                                                      *)

\* A remainder lies below the divisor.
LEMMA ModRange ==
    ASSUME NEW w \in Nat \ {0}, NEW a \in Int
    PROVE  a % w \in 0..(w - 1)
  BY SMTT(20)

\* A number already below the divisor is its own remainder.
LEMMA ModSmall ==
    ASSUME NEW w \in Nat \ {0}, NEW a \in 0..(w - 1)
    PROVE  a % w = a
  BY SMTT(20)

\* One turn too far.
LEMMA ModOver ==
    ASSUME NEW w \in Nat \ {0}, NEW a \in w..(2 * w - 1)
    PROVE  a % w = a - w
  BY SMTT(20)

\* One turn too few.
LEMMA ModUnder ==
    ASSUME NEW w \in Nat \ {0}, NEW a \in (-w)..(-1)
    PROVE  a % w = a + w
  BY SMTT(20)

\* Whole turns do not change the position.
LEMMA ModTurns ==
    ASSUME NEW w \in Nat \ {0}, NEW q \in Nat, NEW r \in 0..(w - 1)
    PROVE  (q * w + r) % w = r
  BY SMTT(20)

\* Stepping back in the ring, computed in unsigned arithmetic as
\* check_window() does, ends at the slot one expects.
LEMMA StepBack ==
    ASSUME NEW i \in Slots, NEW off \in Slots
    PROVE  Minus(i, off) % WindowSize =
             IF off <= i THEN i - off ELSE i - off + WindowSize
  <1>1. /\ WindowSize \in Nat \ {0}
        /\ Modulus \in Nat \ {0}
        /\ WindowSize < Modulus
    BY WindowAssumption
  <1>2. i \in 0..(WindowSize - 1) /\ off \in 0..(WindowSize - 1)
    BY DEF Slots
  <1>3. CASE off <= i
    <2>1. i - off \in 0..(WindowSize - 1) /\ i - off \in 0..(Modulus - 1)
      BY <1>1, <1>2, <1>3
    <2>2. Minus(i, off) = i - off
      BY <1>1, <2>1, ModSmall DEF Minus
    <2>3. (i - off) % WindowSize = i - off
      BY <1>1, <2>1, ModSmall
    <2> QED
      BY <2>2, <2>3, <1>3
  <1>4. CASE ~(off <= i)
    <2>1. PICK k \in 1..Modulus : Modulus = k * WindowSize
      BY WindowAssumption
    <2>2. /\ i - off \in (-Modulus)..(-1)
          /\ i - off + WindowSize \in 0..(WindowSize - 1)
      BY <1>1, <1>2, <1>4
    <2>3. Minus(i, off) = i - off + Modulus
      BY <1>1, <2>2, ModUnder DEF Minus
    <2> DEFINE r == i - off + WindowSize
    <2>4. i - off + Modulus = (k - 1) * WindowSize + r
      <3>1. (k - 1) * WindowSize = k * WindowSize - WindowSize
        BY <1>1
      <3> QED
        BY <3>1, <2>1, <1>1, <1>2
    <2>5. k - 1 \in Nat
      OBVIOUS
    <2>6. ((k - 1) * WindowSize + r) % WindowSize = r
      <3> HIDE DEF r
      <3> QED
        BY <1>1, <2>2, <2>5, ModTurns DEF r
    <2> QED
      BY <2>3, <2>4, <2>6, <1>4
  <1> QED
    BY <1>3, <1>4

\* Stepping forward in the ring.
LEMMA StepForward ==
    ASSUME NEW i \in Slots, NEW k \in 0..WindowSize
    PROVE  (i + k) % WindowSize =
             IF i + k < WindowSize THEN i + k ELSE i + k - WindowSize
  <1>1. WindowSize \in Nat \ {0} /\ i \in 0..(WindowSize - 1)
    BY WindowAssumption DEF Slots
  <1>2. CASE i + k < WindowSize
    BY <1>1, <1>2, ModSmall
  <1>3. CASE ~(i + k < WindowSize)
    <2>1. PICK a : a = i + k
      OBVIOUS
    <2>2. a \in WindowSize..(2 * WindowSize - 1)
      BY <1>1, <1>3, <2>1
    <2>3. a % WindowSize = a - WindowSize
      BY <1>1, <2>2, ModOver
    <2> QED
      BY <1>1, <1>3, <2>1, <2>3
  <1> QED
    BY <1>2, <1>3

-----------------------------------------------------------------------------
(* Type correctness                                                        *)

\* Differences of ordered sequence numbers do not wrap.
LEMMA MinusOrdered ==
    ASSUME NEW a \in Seqnos, NEW b \in Seqnos, b <= a
    PROVE  Minus(a, b) = a - b
  <1>1. Modulus \in Nat \ {0}
    BY WindowAssumption
  <1>2. a - b \in 0..(Modulus - 1)
    BY <1>1 DEF Seqnos
  <1> QED
    BY <1>1, <1>2, ModSmall DEF Minus

\* A ring position is a slot.
LEMMA WindowIndexInSlots ==
    ASSUME NEW seqno \in Seqnos, TypeOK
    PROVE  WindowIndex(seqno) \in Slots
  <1>1. WindowSize \in Nat \ {0} /\ Modulus \in Nat \ {0}
    BY WindowAssumption
  <1>2. Minus(last_seqno, seqno) \in Int
    BY <1>1, ModRange DEF Minus, TypeOK, Seqnos
  <1>3. Minus(seqno_index, Minus(last_seqno, seqno)) \in Int
    BY <1>1, <1>2, ModRange DEF Minus, TypeOK, Slots
  <1> QED
    BY <1>1, <1>3, ModRange DEF WindowIndex, Slots

\* The window moves by at least one and at most WindowSize steps.
LEMMA ShiftRange ==
    ASSUME TypeOK, NEW seqno \in Seqnos, seqno > last_seqno
    PROVE  /\ ShiftTo(seqno) \in 1..WindowSize
           /\ ShiftTo(seqno) = IF seqno - last_seqno < WindowSize
                               THEN seqno - last_seqno ELSE WindowSize
  <1>1. WindowSize \in Nat \ {0}
    BY WindowAssumption
  <1>2. last_seqno \in Seqnos /\ last_seqno <= seqno
    BY DEF TypeOK, Seqnos
  <1>3. Minus(seqno, last_seqno) = seqno - last_seqno
    BY <1>2, MinusOrdered
  <1>4. seqno - last_seqno \in Nat \ {0}
    BY WindowAssumption DEF TypeOK, Seqnos
  <1> QED
    BY <1>1, <1>3, <1>4 DEF ShiftTo

\* Marking a number keeps the types of the inbound context.
LEMMA SetAuthenticatedType ==
    ASSUME TypeOK, NEW seqno \in Seqnos, SetAuthenticatedSeqno(seqno)
    PROVE  /\ last_seqno' \in Seqnos
           /\ seqno_index' \in Slots
           /\ window' \in [Slots -> BOOLEAN]
  <1>1. CASE seqno > last_seqno
    <2>1. ShiftTo(seqno) \in Int
      BY <1>1, ShiftRange, WindowAssumption
    <2>2. seqno_index + ShiftTo(seqno) \in Int
      BY <2>1, WindowAssumption DEF TypeOK, Slots
    <2>3. seqno_index' \in Slots
      BY <1>1, <2>2, ModRange, WindowAssumption
         DEF SetAuthenticatedSeqno, Slots
    <2>4. window' \in [Slots -> BOOLEAN]
      BY <1>1 DEF SetAuthenticatedSeqno, TypeOK
    <2> QED
      BY <1>1, <2>3, <2>4 DEF SetAuthenticatedSeqno
  <1>2. CASE ~(seqno > last_seqno)
    <2>1. WindowIndex(seqno) \in Slots
      BY WindowIndexInSlots
    <2> QED
      BY <1>2, <2>1 DEF SetAuthenticatedSeqno, TypeOK
  <1> QED
    BY <1>1, <1>2

\* Every step keeps the types.
LEMMA TypeStep ==
    ASSUME TypeOK, [Next]_vars
    PROVE  TypeOK'
  <1>0. Modulus \in Nat \ {0} /\ WindowSize \in Nat \ {0}
    BY WindowAssumption
  <1>1. CASE Encrypt
    <2>1. last_out' = last_out + 1 /\ last_out # Modulus - 1
      BY <1>1 DEF Encrypt, NextSeqno
    <2>2. last_out' \in Seqnos /\ 1..last_out \subseteq 1..(last_out')
      BY <1>0, <2>1 DEF TypeOK, Seqnos
    <2>3. sent' \subseteq 1..(last_out')
      <3>1. last_out' \in 1..(last_out')
        BY <2>1, <1>0 DEF TypeOK, Seqnos
      <3> QED
        BY <1>1, <2>2, <3>1 DEF Encrypt, TypeOK
    <2> QED
      BY <1>1, <2>2, <2>3 DEF Encrypt, TypeOK
  <1>2. ASSUME NEW seqno \in sent, DecryptAuthentic(seqno)
        PROVE  TypeOK'
    <2>1. seqno \in Seqnos
      BY <1>0 DEF TypeOK, Seqnos
    <2>2. CASE VerifySeqno(seqno)
      <3>1. /\ last_seqno' \in Seqnos
            /\ seqno_index' \in Slots
            /\ window' \in [Slots -> BOOLEAN]
        BY <1>2, <2>1, <2>2, SetAuthenticatedType DEF DecryptAuthentic
      <3>2. taken' \in [Seqnos -> Nat]
        BY <1>2, <2>1, <2>2 DEF DecryptAuthentic, TypeOK
      <3>3. verdict' \in [seqno : Seqnos, status : Status]
        BY <1>2, <2>1, <2>2 DEF DecryptAuthentic, Answer, Status
      <3>4. UNCHANGED <<last_out, sent>>
        BY <1>2, <2>2 DEF DecryptAuthentic
      <3> QED
        BY <3>1, <3>2, <3>3, <3>4 DEF TypeOK
    <2>3. CASE ~VerifySeqno(seqno)
      <3>1. verdict' \in [seqno : Seqnos, status : Status]
        BY <1>2, <2>1, <2>3 DEF DecryptAuthentic, Answer, Status
      <3>2. UNCHANGED <<last_out, sent, last_seqno, seqno_index, window, taken>>
        BY <1>2, <2>3 DEF DecryptAuthentic
      <3> QED
        BY <3>1, <3>2 DEF TypeOK
    <2> QED
      BY <2>2, <2>3
  <1>3. ASSUME NEW seqno \in Seqnos, DecryptDamaged(seqno)
        PROVE  TypeOK'
    <2>1. verdict' \in [seqno : Seqnos, status : Status]
      BY <1>3 DEF DecryptDamaged, Answer, Status
    <2>2. UNCHANGED <<last_out, sent, last_seqno, seqno_index, window, taken>>
      BY <1>3 DEF DecryptDamaged
    <2> QED
      BY <2>1, <2>2 DEF TypeOK
  <1>4. CASE UNCHANGED vars
    BY <1>4 DEF vars, TypeOK
  <1> QED
    BY <1>1, <1>2, <1>3, <1>4 DEF Next

\* The initial state has the types.
LEMMA TypeInit == Init => TypeOK
  BY WindowAssumption DEF Init, TypeOK, Seqnos, Slots, Status

\* Every variable of the two contexts keeps its type, and the sender never
\* produces a packet with the number 0 (esp_context.c:185).
THEOREM TypeCorrect == Spec => []TypeOK
  BY TypeInit, TypeStep, PTL DEF Spec

-----------------------------------------------------------------------------
(* The ring is the window                                                  *)

\* The slot off steps behind slot i.
Behind(i, off) == IF off <= i THEN i - off ELSE i - off + WindowSize

\* Stepping back by less than a turn ends at a slot, and at the same slot
\* only if no step is taken.
LEMMA BehindSlots ==
    ASSUME NEW i \in Slots, NEW off \in Slots
    PROVE  /\ Behind(i, off) \in Slots
           /\ Behind(i, off) = i <=> off = 0
  BY WindowAssumption DEF Behind, Slots

\* WindowIndex() of a number inside the window, for any index and any newest
\* number.
LEMMA IndexOf ==
    ASSUME NEW i \in Slots, NEW l \in Seqnos, NEW s \in 1..l,
           l - s < WindowSize
    PROVE  Minus(i, Minus(l, s)) % WindowSize = Behind(i, l - s)
  <1>1. s \in Seqnos /\ s <= l
    BY WindowAssumption DEF Seqnos
  <1>2. Minus(l, s) = l - s
    BY <1>1, MinusOrdered
  <1>3. l - s \in Slots
    BY WindowAssumption DEF Seqnos, Slots
  <1> QED
    BY <1>2, <1>3, StepBack DEF Behind

\* Taking a number newer than all others: the bits of the numbers still in
\* the window stay, those of the numbers skipped are clear.
LEMMA AdvanceKeepsRing ==
    ASSUME TypeOK, TypeOK', RingIsWindow, NEW seqno \in Seqnos,
           seqno > last_seqno, SetAuthenticatedSeqno(seqno),
           taken' = [taken EXCEPT ![seqno] = @ + 1]
    PROVE  RingIsWindow'
  <1> DEFINE sh == ShiftTo(seqno)
  <1>0. /\ WindowSize \in Nat \ {0}
        /\ Modulus \in Nat
        /\ last_seqno \in Seqnos
        /\ seqno_index \in Slots
        /\ taken \in [Seqnos -> Nat]
        /\ window \in [Slots -> BOOLEAN]
    BY WindowAssumption DEF TypeOK
  <1>1. /\ sh \in 1..WindowSize
        /\ sh = IF seqno - last_seqno < WindowSize
                THEN seqno - last_seqno ELSE WindowSize
    BY ShiftRange
  <1>2. /\ last_seqno' = seqno
        /\ seqno_index' = (seqno_index + sh) % WindowSize
        /\ window' = [i \in Slots |-> \/ i = seqno_index'
                                      \/ window[i] /\ i \notin Cleared(seqno)]
    BY DEF SetAuthenticatedSeqno
  <1>3. Cleared(seqno) = {(seqno_index + k) % WindowSize : k \in 1..sh}
    BY DEF Cleared
  <1> HIDE DEF sh
  <1>4. seqno_index' = IF seqno_index + sh < WindowSize THEN seqno_index + sh
                       ELSE seqno_index + sh - WindowSize
    BY <1>0, <1>1, <1>2, StepForward
  <1>5. seqno_index' \in Slots
    BY DEF TypeOK
  <1>6. \A t \in Seqnos : t > last_seqno => taken[t] = 0
    BY DEF RingIsWindow
  <1>7. \A s \in Seqnos : s > last_seqno' => taken'[s] = 0
    BY <1>0, <1>2, <1>6 DEF Seqnos
  <1>8. ASSUME NEW s \in 1..(last_seqno'), last_seqno' - s < WindowSize
        PROVE  window'[WindowIndex(s)'] <=> taken'[s] > 0
    <2>1. s \in Seqnos /\ s \in 1..seqno /\ seqno - s < WindowSize
      BY <1>0, <1>2, <1>8 DEF Seqnos
    <2>2. WindowIndex(s)' = Behind(seqno_index', seqno - s)
      <3>1. Minus(seqno_index', Minus(seqno, s)) % WindowSize
              = Behind(seqno_index', seqno - s)
        BY <1>5, <2>1, IndexOf
      <3> QED
        BY <1>2, <3>1 DEF WindowIndex, Minus
    <2>3. PICK p : p = Behind(seqno_index', seqno - s)
      OBVIOUS
    <2>4. /\ seqno - s \in Slots
          /\ p \in Slots
          /\ p = seqno_index' <=> seqno - s = 0
      <3>1. seqno - s \in Slots
        BY <1>0, <2>1 DEF Slots, Seqnos
      <3> QED
        BY <1>5, <2>3, <3>1, BehindSlots
    <2>5. window'[p] <=> (p = seqno_index' \/ (window[p] /\ p \notin Cleared(seqno)))
      BY <1>2, <2>4
    <2>6. CASE s = seqno
      <3>1. p = seqno_index'
        BY <2>4, <2>6 DEF Seqnos
      <3>2. taken'[s] > 0
        BY <1>0, <2>6
      <3> QED
        BY <2>2, <2>3, <2>5, <3>1, <3>2
    <2>7. CASE s # seqno /\ s > last_seqno
      <3>1. taken'[s] = 0
        BY <1>0, <1>6, <2>1, <2>7
      <3>2. p # seqno_index'
        BY <1>0, <2>1, <2>4, <2>7 DEF Seqnos
      <3>3. p \in Cleared(seqno)
        <4>1. PICK k \in 1..sh :
                p = IF seqno_index + k < WindowSize THEN seqno_index + k
                    ELSE seqno_index + k - WindowSize
          <5>1. PICK k : k = sh - (seqno - s)
            OBVIOUS
          <5>2. k \in 1..sh
            BY <1>0, <1>1, <2>1, <2>7, <5>1 DEF Seqnos
          <5>3. p = IF seqno_index + k < WindowSize THEN seqno_index + k
                    ELSE seqno_index + k - WindowSize
            BY <1>0, <1>1, <1>4, <2>1, <2>3, <5>1, <5>2
               DEF Behind, Slots, Seqnos
          <5> QED
            BY <5>2, <5>3
        <4>2. k \in 0..WindowSize
          BY <1>0, <1>1
        <4>3. p = (seqno_index + k) % WindowSize
          BY <1>0, <4>1, <4>2, StepForward
        <4> QED
          BY <1>3, <4>3
      <3> QED
        BY <2>2, <2>3, <2>5, <3>1, <3>2, <3>3
    <2>8. CASE s <= last_seqno
      <3>1. s \in 1..last_seqno /\ last_seqno - s < WindowSize
        BY <1>0, <2>1, <2>8 DEF Seqnos
      <3>2. sh = seqno - last_seqno
        BY <1>0, <1>1, <2>1, <2>8 DEF Seqnos
      <3>3. WindowIndex(s) = Behind(seqno_index, last_seqno - s)
        BY <1>0, <3>1, IndexOf DEF WindowIndex
      <3>4. p = Behind(seqno_index, last_seqno - s)
        BY <1>0, <1>1, <1>4, <2>1, <2>3, <3>1, <3>2 DEF Behind, Slots, Seqnos
      <3>5. window[p] <=> taken[s] > 0
        BY <3>1, <3>3, <3>4 DEF RingIsWindow
      <3>6. taken'[s] = taken[s]
        BY <1>0, <2>1, <2>8 DEF Seqnos
      <3>7. p # seqno_index'
        BY <1>0, <2>1, <2>4, <2>8 DEF Seqnos
      <3>8. p \notin Cleared(seqno)
        <4>1. SUFFICES ASSUME NEW k \in 1..sh,
                              p = (seqno_index + k) % WindowSize
                       PROVE  FALSE
          BY <1>3
        <4>2. k \in 0..WindowSize
          BY <1>0, <1>1
        <4>3. p = IF seqno_index + k < WindowSize THEN seqno_index + k
                  ELSE seqno_index + k - WindowSize
          BY <1>0, <4>1, <4>2, StepForward
        <4> QED
          BY <1>0, <1>1, <2>1, <3>1, <3>2, <3>4, <4>3 DEF Behind, Slots, Seqnos
      <3> QED
        BY <2>2, <2>3, <2>5, <3>5, <3>6, <3>7, <3>8
    <2> QED
      BY <1>0, <2>1, <2>6, <2>7, <2>8 DEF Seqnos
  <1> QED
    BY <1>7, <1>8 DEF RingIsWindow

\* Taking a late number marks its bit and no other.
LEMMA MarkKeepsRing ==
    ASSUME TypeOK, RingIsWindow, NEW seqno \in Seqnos \ {0},
           seqno <= last_seqno, last_seqno - seqno < WindowSize,
           SetAuthenticatedSeqno(seqno),
           taken' = [taken EXCEPT ![seqno] = @ + 1]
    PROVE  RingIsWindow'
  <1>0. /\ WindowSize \in Nat \ {0}
        /\ Modulus \in Nat
        /\ last_seqno \in Seqnos
        /\ seqno_index \in Slots
        /\ taken \in [Seqnos -> Nat]
        /\ window \in [Slots -> BOOLEAN]
        /\ seqno \in 1..last_seqno
    BY WindowAssumption DEF TypeOK, Seqnos
  <1>1. /\ last_seqno' = last_seqno
        /\ seqno_index' = seqno_index
        /\ window' = [window EXCEPT ![WindowIndex(seqno)] = TRUE]
    BY <1>0 DEF SetAuthenticatedSeqno, Seqnos
  <1>2. WindowIndex(seqno) = Behind(seqno_index, last_seqno - seqno)
    BY <1>0, IndexOf DEF WindowIndex
  <1>3. \A s \in Seqnos : s > last_seqno' => taken'[s] = 0
    BY <1>0, <1>1 DEF RingIsWindow, Seqnos
  <1>4. ASSUME NEW s \in 1..(last_seqno'), last_seqno' - s < WindowSize
        PROVE  window'[WindowIndex(s)'] <=> taken'[s] > 0
    <2>1. s \in 1..last_seqno /\ last_seqno - s < WindowSize /\ s \in Seqnos
      BY <1>0, <1>1, <1>4 DEF Seqnos
    <2>2. WindowIndex(s) = Behind(seqno_index, last_seqno - s)
      BY <1>0, <2>1, IndexOf DEF WindowIndex
    <2>3. WindowIndex(s)' = WindowIndex(s)
      BY <1>1 DEF WindowIndex, Minus
    <2>4. WindowIndex(s) \in Slots
      BY <2>1, WindowIndexInSlots
    <2>5. window[WindowIndex(s)] <=> taken[s] > 0
      BY <2>1 DEF RingIsWindow
    <2>6. CASE s = seqno
      <3>1. taken'[s] > 0
        BY <1>0, <2>6
      <3>2. window'[WindowIndex(s)]
        BY <1>0, <1>1, <2>4, <2>6
      <3> QED
        BY <2>3, <3>1, <3>2
    <2>7. CASE s # seqno
      <3>1. WindowIndex(s) # WindowIndex(seqno)
        BY <1>0, <1>2, <2>1, <2>2, <2>7 DEF Behind, Slots, Seqnos
      <3>2. window'[WindowIndex(s)] = window[WindowIndex(s)]
        BY <1>0, <1>1, <2>4, <3>1
      <3>3. taken'[s] = taken[s]
        BY <1>0, <2>1, <2>7
      <3> QED
        BY <2>3, <2>5, <3>2, <3>3
    <2> QED
      BY <2>6, <2>7
  <1> QED
    BY <1>3, <1>4 DEF RingIsWindow

\* A step that leaves the inbound context alone.
LEMMA IdleKeepsRing ==
    ASSUME RingIsWindow, UNCHANGED <<last_seqno, seqno_index, window, taken>>
    PROVE  RingIsWindow'
  BY DEF RingIsWindow, WindowIndex, Minus

\* A number that passes verify_seqno() is new or inside the window, and has
\* not been taken.
LEMMA VerifiedIsFresh ==
    ASSUME TypeOK, RingIsWindow, NEW seqno \in Seqnos
    PROVE  VerifySeqno(seqno) <=>
             /\ seqno # 0
             /\ taken[seqno] = 0
             /\ seqno > last_seqno \/ last_seqno - seqno < WindowSize
  <1>0. /\ WindowSize \in Nat \ {0}
        /\ Modulus \in Nat
        /\ last_seqno \in Seqnos
        /\ taken \in [Seqnos -> Nat]
        /\ taken[seqno] \in Nat
    BY WindowAssumption DEF TypeOK
  <1>1. CASE seqno > last_seqno
    <2>1. taken[seqno] = 0
      BY <1>1 DEF RingIsWindow
    <2> QED
      BY <1>0, <1>1, <2>1 DEF VerifySeqno, Seqnos
  <1>2. CASE seqno <= last_seqno /\ seqno # 0
    <2>1. Minus(last_seqno, seqno) = last_seqno - seqno
      BY <1>0, <1>2, MinusOrdered
    <2>2. CASE last_seqno - seqno < WindowSize
      <3>1. window[WindowIndex(seqno)] <=> taken[seqno] > 0
        BY <1>0, <1>2, <2>2 DEF RingIsWindow, Seqnos
      <3>2. VerifySeqno(seqno) <=> ~window[WindowIndex(seqno)]
        BY <1>0, <1>2, <2>1, <2>2 DEF VerifySeqno, CheckWindow, Seqnos
      <3> QED
        BY <1>0, <1>2, <2>2, <3>1, <3>2
    <2>3. CASE ~(last_seqno - seqno < WindowSize)
      BY <1>0, <1>2, <2>1, <2>3 DEF VerifySeqno, Seqnos
    <2> QED
      BY <2>2, <2>3
  <1>3. CASE seqno = 0
    BY <1>0, <1>3 DEF VerifySeqno, Seqnos
  <1> QED
    BY <1>0, <1>1, <1>2, <1>3 DEF Seqnos

\* Every step keeps the ring a faithful picture of the window.
LEMMA RingStep ==
    ASSUME TypeOK, TypeOK', RingIsWindow, [Next]_vars
    PROVE  RingIsWindow'
  <1>1. CASE Encrypt
    BY <1>1, IdleKeepsRing DEF Encrypt
  <1>2. ASSUME NEW seqno \in sent, DecryptAuthentic(seqno)
        PROVE  RingIsWindow'
    <2>1. seqno \in Seqnos \ {0}
      BY WindowAssumption DEF TypeOK, Seqnos
    <2>2. CASE ~VerifySeqno(seqno)
      BY <1>2, <2>2, IdleKeepsRing DEF DecryptAuthentic
    <2>3. CASE VerifySeqno(seqno)
      <3>1. /\ SetAuthenticatedSeqno(seqno)
            /\ taken' = [taken EXCEPT ![seqno] = @ + 1]
        BY <1>2, <2>3 DEF DecryptAuthentic
      <3>2. CASE seqno > last_seqno
        BY <2>1, <3>1, <3>2, AdvanceKeepsRing
      <3>3. CASE ~(seqno > last_seqno)
        <4>1. last_seqno \in Seqnos
          BY DEF TypeOK
        <4>2. seqno > last_seqno \/ last_seqno - seqno < WindowSize
          BY <2>1, <2>3, VerifiedIsFresh
        <4>3. seqno <= last_seqno /\ last_seqno - seqno < WindowSize
          BY <2>1, <3>3, <4>1, <4>2, WindowAssumption DEF Seqnos
        <4> QED
          BY <2>1, <3>1, <4>3, MarkKeepsRing
      <3> QED
        BY <3>2, <3>3
    <2> QED
      BY <2>2, <2>3
  <1>3. ASSUME NEW seqno \in Seqnos, DecryptDamaged(seqno)
        PROVE  RingIsWindow'
    BY <1>3, IdleKeepsRing DEF DecryptDamaged
  <1>4. CASE UNCHANGED vars
    BY <1>4, IdleKeepsRing DEF vars
  <1> QED
    BY <1>1, <1>2, <1>3, <1>4 DEF Next

\* In the initial state nothing has been taken.
LEMMA RingInit == Init => RingIsWindow
  BY WindowAssumption DEF Init, RingIsWindow, Seqnos

\* The ring of bits is the window of sequence numbers, whatever jumps and
\* late arrivals came before (esp_context.c:106, :147).
THEOREM RingCorrect == Spec => []RingIsWindow
  BY TypeInit, TypeStep, RingInit, RingStep, PTL DEF Spec

-----------------------------------------------------------------------------
(* No packet is taken twice                                                *)

\* Only a number that has not been taken is taken.
LEMMA OnceStep ==
    ASSUME TypeOK, RingIsWindow, AtMostOnce, [Next]_vars
    PROVE  AtMostOnce'
  <1>1. ASSUME NEW seqno \in sent, DecryptAuthentic(seqno)
        PROVE  AtMostOnce'
    <2>1. seqno \in Seqnos
      BY WindowAssumption DEF TypeOK, Seqnos
    <2>2. CASE VerifySeqno(seqno)
      <3>1. taken[seqno] = 0
        BY <2>1, <2>2, VerifiedIsFresh
      <3> QED
        BY <1>1, <2>1, <2>2, <3>1 DEF DecryptAuthentic, AtMostOnce, TypeOK
    <2>3. CASE ~VerifySeqno(seqno)
      BY <1>1, <2>3 DEF DecryptAuthentic, AtMostOnce
    <2> QED
      BY <2>2, <2>3
  <1>2. CASE UNCHANGED taken
    BY <1>2 DEF AtMostOnce
  <1> QED
    BY <1>1, <1>2 DEF Next, Encrypt, DecryptDamaged, vars

\* The receiver takes no packet twice, in whatever order and however often
\* the network delivers it (esp_context.c:115).
THEOREM TakenAtMostOnce == Spec => []AtMostOnce
  <1>1. Init => AtMostOnce
    BY DEF Init, AtMostOnce
  <1> QED
    BY <1>1, TypeInit, TypeStep, RingInit, RingStep, OnceStep, PTL DEF Spec

-----------------------------------------------------------------------------
(* The contexts implement AntiReplay                                       *)

\* The newest number, once there is one, has been taken.
TopIsTaken == last_seqno # 0 => taken[last_seqno] > 0

\* Every step keeps the newest number a taken one.
LEMMA TopStep ==
    ASSUME TypeOK, TopIsTaken, [Next]_vars
    PROVE  TopIsTaken'
  <1>1. ASSUME NEW seqno \in sent, DecryptAuthentic(seqno), VerifySeqno(seqno)
        PROVE  TopIsTaken'
    <2>1. /\ seqno \in Seqnos
          /\ last_seqno \in Seqnos
          /\ taken \in [Seqnos -> Nat]
      BY WindowAssumption DEF TypeOK, Seqnos
    <2>2. taken' = [taken EXCEPT ![seqno] = @ + 1]
      BY <1>1 DEF DecryptAuthentic
    <2>3. last_seqno' = seqno \/ last_seqno' = last_seqno
      BY <1>1 DEF DecryptAuthentic, SetAuthenticatedSeqno
    <2>4. \A t \in Seqnos : taken'[t] >= taken[t] /\ taken'[seqno] > 0
      BY <2>1, <2>2
    <2>5. taken' \in [Seqnos -> Nat]
      BY <2>1, <2>2
    <2>6. CASE last_seqno' = seqno
      BY <2>1, <2>4, <2>6 DEF TopIsTaken
    <2>7. CASE last_seqno' = last_seqno
      <3>1. taken[last_seqno] \in Nat /\ taken'[last_seqno] \in Nat
        BY <2>1, <2>5
      <3> QED
        BY <2>1, <2>4, <2>7, <3>1 DEF TopIsTaken
    <2> QED
      BY <2>3, <2>6, <2>7
  <1>2. CASE UNCHANGED <<last_seqno, taken>>
    BY <1>2 DEF TopIsTaken
  <1> QED
    BY <1>1, <1>2 DEF Next, Encrypt, DecryptAuthentic, DecryptDamaged, vars

\* Both specifications agree on which numbers are fresh.
LEMMA FreshAgrees ==
    ASSUME TypeOK, RingIsWindow, TopIsTaken, NEW seqno \in Seqnos
    PROVE  Replay!Fresh(seqno) <=> VerifySeqno(seqno)
  <1>0. /\ WindowSize \in Nat \ {0}
        /\ Modulus \in Nat
        /\ last_seqno \in Seqnos
        /\ taken \in [Seqnos -> Nat]
        /\ taken[seqno] \in Nat
    BY WindowAssumption DEF TypeOK
  <1>1. Replay!Fresh(seqno) <=>
          /\ seqno # 0
          /\ seqno \notin Accepted
          /\ \A t \in Accepted : t - seqno < WindowSize
    BY DEF Replay!Fresh
  <1>2. seqno \notin Accepted <=> taken[seqno] = 0
    BY <1>0 DEF Accepted
  <1>3. \A t \in Accepted : t \in Seqnos /\ t <= last_seqno
    BY <1>0 DEF Accepted, RingIsWindow, Seqnos
  <1>4. (\A t \in Accepted : t - seqno < WindowSize) <=>
          seqno > last_seqno \/ last_seqno - seqno < WindowSize
    <2>1. CASE last_seqno = 0
      BY <1>0, <1>3, <2>1 DEF Seqnos
    <2>2. CASE last_seqno # 0
      <3>1. last_seqno \in Accepted
        BY <1>0, <2>2 DEF TopIsTaken, Accepted
      <3>2. ASSUME \A t \in Accepted : t - seqno < WindowSize
            PROVE  last_seqno - seqno < WindowSize
        BY <3>1, <3>2
      <3>3. ASSUME seqno > last_seqno \/ last_seqno - seqno < WindowSize,
                   NEW t \in Accepted
            PROVE  t - seqno < WindowSize
        BY <1>0, <1>3, <3>3 DEF Seqnos
      <3> QED
        BY <3>2, <3>3
    <2> QED
      BY <2>1, <2>2
  <1> QED
    BY <1>1, <1>2, <1>4, VerifiedIsFresh

\* Taking a packet whose number was not taken adds that number.
LEMMA TakeAccepts ==
    ASSUME TypeOK, NEW seqno \in Seqnos,
           taken' = [taken EXCEPT ![seqno] = @ + 1]
    PROVE  Accepted' = Accepted \cup {seqno}
  <1>1. taken \in [Seqnos -> Nat]
    BY DEF TypeOK
  <1>2. \A s \in Seqnos : taken'[s] > 0 <=> (taken[s] > 0 \/ s = seqno)
    BY <1>1
  <1>3. Accepted' = {s \in Seqnos : taken'[s] > 0}
    BY DEF Accepted
  <1> QED
    BY <1>2, <1>3 DEF Accepted

\* Every step of the contexts is a step of AntiReplay or leaves it alone.
LEMMA ReplayStep ==
    ASSUME TypeOK, TypeOK', RingIsWindow, TopIsTaken, [Next]_vars
    PROVE  [Replay!Next]_(Replay!abstractVars)
  <1>0. Modulus \in Nat \ {0}
    BY WindowAssumption
  <1>1. CASE Encrypt
    <2>1. UNCHANGED <<Accepted, verdict>>
      BY <1>1 DEF Encrypt, Accepted
    <2>2. CASE sent' = sent
      BY <2>1, <2>2 DEF Replay!abstractVars
    <2>3. CASE sent' = sent \cup {last_out'}
      <3>1. last_out' \in Seqnos \ ({0} \cup sent)
        BY <1>0, <1>1 DEF Encrypt, NextSeqno, TypeOK, Seqnos
      <3>2. Replay!Send
        BY <2>1, <2>3, <3>1 DEF Replay!Send
      <3> QED
        BY <3>2 DEF Replay!Next
    <2> QED
      BY <1>1, <2>2, <2>3 DEF Encrypt
  <1>2. ASSUME NEW seqno \in sent, DecryptAuthentic(seqno)
        PROVE  Replay!Deliver
    <2>1. seqno \in Seqnos
      BY <1>0 DEF TypeOK, Seqnos
    <2>2. Replay!Fresh(seqno) <=> VerifySeqno(seqno)
      BY <2>1, FreshAgrees
    <2>3. CASE VerifySeqno(seqno)
      <3>1. Accepted' = Accepted \cup {seqno}
        BY <1>2, <2>1, <2>3, TakeAccepts DEF DecryptAuthentic
      <3>2. \E status \in {"SUCCESS", "PARSE_ERROR"} :
              verdict' = [seqno |-> seqno, status |-> status]
        BY <1>2, <2>3 DEF DecryptAuthentic, Answer
      <3>3. sent' = sent
        BY <1>2, <2>3 DEF DecryptAuthentic
      <3> QED
        BY <2>2, <2>3, <3>1, <3>2, <3>3 DEF Replay!Deliver
    <2>4. CASE ~VerifySeqno(seqno)
      <3>1. Accepted' = Accepted /\ sent' = sent
        BY <1>2, <2>4 DEF DecryptAuthentic, Accepted
      <3>2. verdict' = [seqno |-> seqno, status |-> "VERIFY_ERROR"]
        BY <1>2, <2>4 DEF DecryptAuthentic, Answer
      <3> QED
        BY <2>2, <2>4, <3>1, <3>2 DEF Replay!Deliver
    <2> QED
      BY <2>3, <2>4
  <1>3. ASSUME NEW seqno \in Seqnos, DecryptDamaged(seqno)
        PROVE  Replay!Refuse
    <2>1. Accepted' = Accepted /\ sent' = sent
      BY <1>3 DEF DecryptDamaged, Accepted
    <2>2. Replay!Fresh(seqno) <=> VerifySeqno(seqno)
      BY FreshAgrees
    <2>3. \E status \in {"PARSE_ERROR",
                         IF Replay!Fresh(seqno) THEN "FAILED"
                         ELSE "VERIFY_ERROR"} :
            verdict' = [seqno |-> seqno, status |-> status]
      BY <1>3, <2>2 DEF DecryptDamaged, Answer
    <2> QED
      BY <2>1, <2>3 DEF Replay!Refuse
  <1>4. CASE UNCHANGED vars
    <2>1. UNCHANGED <<sent, Accepted, verdict>>
      BY <1>4 DEF vars, Accepted
    <2> QED
      BY <2>1 DEF Replay!abstractVars
  <1> QED
    BY <1>1, <1>2, <1>3, <1>4 DEF Next, Replay!Next

\* Initially nothing has been sent or accepted.
LEMMA ReplayInit == Init => Replay!Init /\ TopIsTaken
  <1>1. Init => Accepted = {}
    BY DEF Init, Accepted
  <1> QED
    BY <1>1 DEF Init, Replay!Init, TopIsTaken

\* The contexts implement AntiReplay: decrypt() takes an authentic packet
\* exactly if its number is fresh, a damaged packet leaves no trace, and no
\* number is used for two packets (esp_packet.c:228, :296).
THEOREM ContextsImplementAntiReplay == Spec => ImplementsAntiReplay
  BY TypeInit, TypeStep, RingInit, RingStep, TopStep, ReplayInit, ReplayStep, PTL
     DEF Spec, ImplementsAntiReplay, Replay!Spec
=============================================================================
