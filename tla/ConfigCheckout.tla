--------------------------- MODULE ConfigCheckout ---------------------------
(***************************************************************************)
(* checkout_by_config() of the IKE_SA manager                              *)
(* (src/src/libcharon/sa/ike_sa_manager.c:1501-1628), the operation with   *)
(* which the controller and the trap manager get an IKE_SA to initiate     *)
(* with.  Threads that want the same config take turns, so that the second *)
(* one finds the IKE_SA the first one created.  config_checkouts keeps an  *)
(* entry for every config some thread is in here for; all threads wait on  *)
(* one condvar, and a thread that is done signals once, whatever configs   *)
(* the waiting threads want.                                               *)
(*                                                                         *)
(* The table of IKE_SAs is abstracted to their configs, who has them       *)
(* checked out, and whether they can be used.  What is done with an entry  *)
(* of the table while it is checked out is IkeSaManager's subject.         *)
(***************************************************************************)
EXTENDS Integers, FiniteSets

CONSTANTS Threads,      \* threads that check out by config
          Configs,      \* peer configs (with their IKE configs)
          SaIds,        \* IKE_SAs that may be created
          None,         \* no IKE_SA, no config, no thread
          MaxCalls      \* bound on the calls of each thread

ASSUME ConstantsAssumption ==
    /\ None \notin Threads \cup Configs \cup SaIds
    /\ IsFiniteSet(Threads)
    /\ MaxCalls \in Nat

VARIABLES table,        \* the IKE_SAs in the manager
          config,       \* of an IKE_SA: its peer config
          checked_out,  \* the thread that has it checked out
          usable,       \* it is neither deleting, rekeyed nor to be deleted
          created,      \* the IKE_SAs created so far
          config_checkouts,     \* the configs with an entry
          threads, working,     \* of an entry, as in the code
          pc, wants, has, todo, \* of a thread: where it is, its config, its
                                \* IKE_SA, the IKE_SAs it has yet to look at
          woken,        \* threads whose wait has been ended by a signal
          calls         \* of a thread: calls so far

saVars == <<table, config, checked_out, usable, created>>
entryVars == <<config_checkouts, threads, working>>
vars == <<saVars, entryVars, pc, wants, has, todo, woken, calls>>

Places == {"idle", "wait", "search", "done", "holds"}

Sleeping == {t \in Threads : pc[t] = "wait" /\ t \notin woken}

-----------------------------------------------------------------------------
MutTakeTurn(t, c) ==
    /\ pc' = [pc EXCEPT ![t] = "search"]
    /\ working' = [working EXCEPT ![c] = TRUE]
    /\ todo' = [todo EXCEPT ![t] = table]

\* The loop around wait(): t waits while another thread works on config c, or
\* starts to look through the table
TakeTurn(t, c) ==
    \/ /\ working[c]
       /\ pc' = [pc EXCEPT ![t] = "wait"]
       /\ UNCHANGED <<working, todo>>
    \/ /\ ~working[c]
       /\ pc' = [pc EXCEPT ![t] = "search"]
       /\ working' = [working EXCEPT ![c] = TRUE]
       /\ todo' = [todo EXCEPT ![t] = table]

\* The call: the entry of the config is found or made
CheckoutByConfig(t, c) ==
    /\ pc[t] = "idle"
    /\ calls[t] < MaxCalls
    /\ calls' = [calls EXCEPT ![t] = @ + 1]
    /\ wants' = [wants EXCEPT ![t] = c]
    /\ config_checkouts' = config_checkouts \cup {c}
    /\ threads' = [threads EXCEPT ![c] = @ + 1]
    /\ TakeTurn(t, c)
    /\ UNCHANGED <<saVars, has, woken>>

\* A waiting thread was signalled and has config_mutex again
WakeUp(t) ==
    /\ pc[t] = "wait" /\ t \in woken
    /\ woken' = woken \ {t}
    /\ TakeTurn(t, wants[t])
    /\ UNCHANGED <<saVars, config_checkouts, threads, wants, has, calls>>

\* One round of the enumeration.  wait_for_entry() blocks while the IKE_SA is
\* checked out, whatever its config; one that is gone is skipped.
Look(t, i) ==
    /\ pc[t] = "search"
    /\ i \in todo[t]
    /\ i \in table => checked_out[i] = None
    /\ todo' = [todo EXCEPT ![t] = @ \ {i}]
    /\ IF i \in table /\ usable[i] /\ config[i] = wants[t]
       THEN /\ checked_out' = [checked_out EXCEPT ![i] = t]
            /\ has' = [has EXCEPT ![t] = i]
            /\ pc' = [pc EXCEPT ![t] = "done"]
       ELSE UNCHANGED <<checked_out, has, pc>>
    /\ UNCHANGED <<table, config, usable, created, entryVars, wants, woken,
                   calls>>

\* No IKE_SA was found: one is created and put into the table, checked out,
\* unless create_new() fails
Create(t) ==
    /\ pc[t] = "search"
    /\ todo[t] = {}
    /\ pc' = [pc EXCEPT ![t] = "done"]
    /\ \/ \E i \in SaIds \ created :
            /\ created' = created \cup {i}
            /\ table' = table \cup {i}
            /\ config' = [config EXCEPT ![i] = wants[t]]
            /\ checked_out' = [checked_out EXCEPT ![i] = t]
            /\ usable' = [usable EXCEPT ![i] = TRUE]
            /\ has' = [has EXCEPT ![t] = i]
       \/ UNCHANGED <<saVars, has>>
    /\ UNCHANGED <<entryVars, wants, todo, woken, calls>>

\* signal() wakes one of the threads that wait, if there are any
Signal ==
    IF Sleeping = {} THEN UNCHANGED woken
    ELSE \E t \in Sleeping : woken' = woken \cup {t}

\* The entry is freed with its last thread
Release(c) ==
    /\ threads' = [threads EXCEPT ![c] = @ - 1]
    /\ config_checkouts' =
         IF threads[c] = 1 THEN config_checkouts \ {c} ELSE config_checkouts

MutLeave(t) ==
    /\ pc[t] = "done"
    /\ working' = [working EXCEPT ![wants[t]] = FALSE]
    /\ Release(wants[t])
    /\ IF threads[wants[t]] > 1 THEN Signal ELSE UNCHANGED woken
    /\ pc' = [pc EXCEPT ![t] = IF has[t] = None THEN "idle" ELSE "holds"]
    /\ UNCHANGED <<saVars, wants, has, todo, calls>>

\* The end of the call
Leave(t) ==
    /\ pc[t] = "done"
    /\ working' = [working EXCEPT ![wants[t]] = FALSE]
    /\ Release(wants[t])
    /\ Signal
    /\ pc' = [pc EXCEPT ![t] = IF has[t] = None THEN "idle" ELSE "holds"]
    /\ UNCHANGED <<saVars, wants, has, todo, calls>>

\* The caller has finished with the IKE_SA: checkin(), in whatever state it
\* left it, or checkin_and_destroy()
Checkin(t) ==
    /\ pc[t] = "holds"
    /\ pc' = [pc EXCEPT ![t] = "idle"]
    /\ has' = [has EXCEPT ![t] = None]
    /\ checked_out' = [checked_out EXCEPT ![has[t]] = None]
    /\ \E ok \in BOOLEAN :
         usable' = [usable EXCEPT ![has[t]] = @ /\ ok]
    /\ \/ table' = table
       \/ table' = table \ {has[t]}
    /\ UNCHANGED <<config, created, entryVars, wants, todo, woken, calls>>

-----------------------------------------------------------------------------
Init ==
    /\ table = {} /\ created = {}
    /\ config = [i \in SaIds |-> None]
    /\ checked_out = [i \in SaIds |-> None]
    /\ usable = [i \in SaIds |-> FALSE]
    /\ config_checkouts = {}
    /\ threads = [c \in Configs |-> 0]
    /\ working = [c \in Configs |-> FALSE]
    /\ pc = [t \in Threads |-> "idle"]
    /\ wants = [t \in Threads |-> None]
    /\ has = [t \in Threads |-> None]
    /\ todo = [t \in Threads |-> {}]
    /\ woken = {}
    /\ calls = [t \in Threads |-> 0]

Continue(t) ==
    \/ WakeUp(t)
    \/ \E i \in SaIds : Look(t, i)
    \/ Create(t)
    \/ Leave(t)
    \/ Checkin(t)

Next ==
    \E t \in Threads : \/ \E c \in Configs : CheckoutByConfig(t, c)
                       \/ Continue(t)

Spec == Init /\ [][Next]_vars

\* A thread that can run in the end does, and callers check in what they got
FairSpec == Spec /\ \A t \in Threads : WF_vars(Continue(t))

-----------------------------------------------------------------------------
(* Properties                                                              *)

\* Every variable has its type.
TypeOK ==
    /\ table \subseteq created /\ created \subseteq SaIds
    /\ config \in [SaIds -> Configs \cup {None}]
    /\ checked_out \in [SaIds -> Threads \cup {None}]
    /\ usable \in [SaIds -> BOOLEAN]
    /\ config_checkouts \subseteq Configs
    /\ threads \in [Configs -> Nat]
    /\ working \in [Configs -> BOOLEAN]
    /\ pc \in [Threads -> Places]
    /\ wants \in [Threads -> Configs \cup {None}]
    /\ has \in [Threads -> SaIds \cup {None}]
    /\ todo \in [Threads -> SUBSET SaIds]
    /\ woken \subseteq Threads
    /\ calls \in [Threads -> 0..MaxCalls]

\* Threads that want the same config at the same time end up with the same
\* IKE_SA: no config gets a second IKE_SA while it has one that can be used
\* (ike_sa_manager.c:1549-1555).
OneIkeSaPerConfig ==
    \A i, j \in table : /\ usable[i] /\ usable[j]
                        /\ config[i] = config[j]
                        => i = j

\* While a thread sleeps on the condvar, some other thread is yet to signal it:
\* one that works, or one that was woken and either gets its turn or goes back
\* to sleep because another one works.  The one signal of a thread that is done
\* is enough for all configs (ike_sa_manager.c:1552-1555, :1611-1619).
NoLostWakeup ==
    Sleeping # {} => \E t \in Threads : pc[t] \in {"search", "done"} \/ t \in woken

\* Every call returns, although a signal may wake a thread that cannot go on
\* yet and that does not pass it on (ike_sa_manager.c:1552, :1619).
CallsReturn ==
    \A t \in Threads : pc[t] \in {"wait", "search", "done"} ~> pc[t] \in {"idle", "holds"}
=============================================================================
