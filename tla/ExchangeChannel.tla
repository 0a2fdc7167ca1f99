--------------------------- MODULE ExchangeChannel ---------------------------
(***************************************************************************)
(* What the IKEv2 task managers of two peers promise together: in each     *)
(* direction a serial, exactly-once exchange of requests and responses.    *)
(* A peer issues requests one at a time; its partner serves each of them   *)
(* once, in order; the peer completes an exchange with the very answer its *)
(* partner gave, before it issues the next one.                            *)
(***************************************************************************)
EXTENDS Naturals, Sequences

VARIABLES
    sent,      \* [peer -> the requests it issued]
    served,    \* [peer -> the requests of its partner it served, with answers]
    done       \* [peer -> its completed exchanges, with the answers it got]

Ends == {"i", "r"}

Partner(p) == IF p = "i" THEN "r" ELSE "i"

Grows(s, t) == Len(t) = Len(s) + 1 /\ \A k \in 1..Len(s) : t[k] = s[k]

OnlyAt(f, g, p) == \A q \in Ends \ {p} : g[q] = f[q]

\* All requests issued so far were served and completed.
Init ==
    \A p \in Ends :
       /\ done[p] = served[Partner(p)]
       /\ Len(sent[p]) = Len(done[p])
       /\ \A k \in 1..Len(sent[p]) : sent[p][k] = done[p][k].task

\* Issue a request once n exchanges, all that were started, are completed.
Issue(p, n) ==
    /\ Len(sent[p]) = n
    /\ Grows(sent[p], sent'[p])
    /\ OnlyAt(sent, sent', p)

Submit(p) == Issue(p, Len(done[p])) /\ UNCHANGED << served, done >>

Serve(p) ==
    LET n == Len(served[p]) + 1 IN
    /\ n <= Len(sent[Partner(p)])
    /\ Grows(served[p], served'[p])
    /\ served'[p][n].task = sent[Partner(p)][n]
    /\ OnlyAt(served, served', p)
    /\ UNCHANGED << sent, done >>

\* Complete an exchange, and possibly issue the next request right away.
Complete(p) ==
    LET n == Len(done[p]) + 1 IN
    /\ n <= Len(served[Partner(p)])
    /\ Grows(done[p], done'[p])
    /\ done'[p][n] = served[Partner(p)][n]
    /\ OnlyAt(done, done', p)
    /\ UNCHANGED served
    /\ UNCHANGED sent \/ Issue(p, n)

Next == \E p \in Ends : Submit(p) \/ Serve(p) \/ Complete(p)

Spec == Init /\ [][Next]_<< sent, served, done >>
=============================================================================
