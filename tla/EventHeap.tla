----------------------------- MODULE EventHeap -----------------------------
(***************************************************************************)
(* The binary heap in which the scheduler keeps its events                 *)
(* (src/src/libstrongswan/processing/scheduler.c:109-154, :220-256): a     *)
(* sequence of events with the children of position p at 2p and 2p + 1.    *)
(* Growing the array is left out, sequences have no capacity.  What a loop *)
(* does is given by the position to go to from each position, or the       *)
(* position itself if the loop ends there.                                 *)
(***************************************************************************)
EXTENDS Integers, Sequences

\* The positions a loop over 1..n gets to: the least set that has the one it
\* starts at and, with each position, the next one
Trail(n, start, next) ==
    {p \in 1..n : \A S \in SUBSET (1..n) :
       start \in S /\ (\A q \in S : next[q] \in S) => p \in S}

\* The loop moves the events it passes, each to the position it came from,
\* and puts the given one to the position where it ends
Settle(heap, n, start, event, next) ==
    LET trail == Trail(n, start, next)
    IN  [p \in 1..n |-> IF p \notin trail THEN heap[p]
                          ELSE IF next[p] = p THEN event ELSE heap[next[p]]]

MutInsert(heap, event) == Append(heap, event)

\* The event is put to the bottom of the heap and bubbles up past the events
\* that fire after it
Insert(heap, event) ==
    LET n == Len(heap) + 1
    IN  Settle(heap, n, n, event,
               [p \in 1..n |-> IF p > 1 /\ heap[p \div 2].time > event.time
                                 THEN p \div 2 ELSE p])

\* The child of p that fires first, in a heap of n events
Child(heap, n, p) ==
    IF 2 * p + 1 <= n /\ heap[2 * p + 1].time < heap[2 * p].time
      THEN 2 * p + 1 ELSE 2 * p

\* remove_event() moves the bottom event to the top and seeps it down, always
\* towards the child that fires first
RemoveFirst(heap) ==
    LET n == Len(heap) - 1
        top == heap[n + 1]
    IN  Settle(heap, n, 1, top,
               [p \in 1..n |-> IF 2 * p <= n /\ top.time > heap[Child(heap, n, p)].time
                                 THEN Child(heap, n, p) ELSE p])
=============================================================================
