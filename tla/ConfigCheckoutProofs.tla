------------------------ MODULE ConfigCheckoutProofs ------------------------
(***************************************************************************)
(* Proofs about ConfigCheckout, for any number of threads, configs and     *)
(* IKE_SAs.                                                                *)
(***************************************************************************)
EXTENDS ConfigCheckout, FiniteSetTheorems, TLAPS

Inside == {"wait", "search", "done"}

\* The threads that are in checkout_by_config() for config c
Callers(c) == {t \in Threads : pc[t] \in Inside /\ wants[t] = c}

\* Threads that are inside want a config
Wanted == \A t \in Threads : pc[t] \in Inside => wants[t] \in Configs

\* The entry of a config counts its callers and is there as long as it has any
Counted ==
    \A c \in Configs : /\ threads[c] = Cardinality(Callers(c))
                       /\ c \in config_checkouts <=> threads[c] > 0

\* One thread works on a config
Turns ==
    /\ \A t \in Threads : pc[t] \in {"search", "done"} => working[wants[t]]
    /\ \A t, u \in Threads :
         /\ pc[t] \in {"search", "done"} /\ pc[u] \in {"search", "done"}
         /\ wants[t] = wants[u]
         => t = u

\* A thread that searches has yet to look at what it could use
Ahead ==
    \A t \in Threads : pc[t] = "search" =>
      \A i \in table : usable[i] /\ config[i] = wants[t] => i \in todo[t]

\* A config is worked on by some thread, and only threads that wait are woken
Worked ==
    /\ \A c \in Configs : working[c] =>
         \E t \in Threads : pc[t] \in {"search", "done"} /\ wants[t] = c
    /\ \A t \in woken : pc[t] = "wait"

\* The inductive invariant
CheckoutInv == TypeOK /\ Wanted /\ Counted /\ Turns /\ Ahead /\ OneIkeSaPerConfig

-----------------------------------------------------------------------------
(* Callers and their counters.                                             *)

LEMMA CallersFinite ==
    ASSUME NEW c
    PROVE  IsFiniteSet(Callers(c)) /\ Cardinality(Callers(c)) \in Nat
<1>1. Callers(c) \in SUBSET Threads
  BY DEF Callers
<1> QED
  BY <1>1, ConstantsAssumption, FS_Subset, FS_CardinalityType

\* The entry is found or made
LEMMA EnterCounted ==
    ASSUME CheckoutInv, NEW t \in Threads, NEW c \in Configs, CheckoutByConfig(t, c)
    PROVE  Counted' /\ threads' \in [Configs -> Nat]
<1> USE DEF CheckoutInv
<1>1. /\ pc[t] = "idle" /\ pc' \in [Threads -> Places] /\ pc'[t] \in Inside
      /\ \A u \in Threads \ {t} : pc'[u] = pc[u]
  BY DEF CheckoutByConfig, TakeTurn, TypeOK, Places, Inside
<1>2. wants'[t] = c /\ \A u \in Threads \ {t} : wants'[u] = wants[u]
  BY DEF CheckoutByConfig, TypeOK
<1>3. threads'[c] = threads[c] + 1 /\ \A d \in Configs \ {c} : threads'[d] = threads[d]
  BY DEF CheckoutByConfig, TypeOK
<1>4. \A d \in Configs \ {c} : Callers(d)' = Callers(d)
  BY <1>1, <1>2 DEF Callers, Inside
<1>5. Callers(c)' = Callers(c) \cup {t} /\ t \notin Callers(c)
  BY <1>1, <1>2 DEF Callers, Inside
<1>6. Cardinality(Callers(c)') = Cardinality(Callers(c)) + 1
  BY <1>5, CallersFinite, FS_AddElement
<1>7. threads'[c] = Cardinality(Callers(c)') /\ threads'[c] > 0
  BY <1>3, <1>6, CallersFinite DEF Counted
<1>8. config_checkouts' = config_checkouts \cup {c}
  BY DEF CheckoutByConfig
<1>9. threads' \in [Configs -> Nat]
  BY DEF CheckoutByConfig, TypeOK
<1> QED
  BY <1>3, <1>4, <1>7, <1>8, <1>9 DEF Counted

\* The entry is freed with its last thread, and not before
LEMMA LeaveCounted ==
    ASSUME CheckoutInv, NEW t \in Threads, Leave(t)
    PROVE  Counted' /\ threads' \in [Configs -> Nat]
<1> USE DEF CheckoutInv
<1>1. PICK c \in Configs : c = wants[t]
  BY DEF Leave, Wanted, Inside
<1>2. /\ pc[t] = "done" /\ pc'[t] \in {"idle", "holds"}
      /\ \A u \in Threads \ {t} : pc'[u] = pc[u]
  BY DEF Leave, TypeOK
<1>3. wants' = wants
  BY DEF Leave
<1>4. threads' = [threads EXCEPT ![c] = @ - 1]
  BY <1>1 DEF Leave, Release
<1>5. threads'[c] = threads[c] - 1 /\ \A d \in Configs \ {c} : threads'[d] = threads[d]
  BY <1>4 DEF TypeOK
<1>6. \A d \in Configs \ {c} : Callers(d)' = Callers(d)
  BY <1>1, <1>2, <1>3 DEF Callers, Inside
<1>7. Callers(c)' = Callers(c) \ {t} /\ t \in Callers(c)
  BY <1>1, <1>2, <1>3 DEF Callers, Inside
<1>8. Cardinality(Callers(c)') = Cardinality(Callers(c)) - 1 /\ IsFiniteSet(Callers(c)')
  BY <1>7, CallersFinite, FS_RemoveElement
<1>9. Cardinality(Callers(c)') \in Nat
  BY <1>8, FS_CardinalityType
<1>10. threads'[c] = Cardinality(Callers(c)') /\ threads'[c] \in Nat
  BY <1>5, <1>8, <1>9 DEF Counted
<1>11. threads' \in [Configs -> Nat]
  BY <1>4, <1>10 DEF TypeOK
<1>12. config_checkouts' = IF threads[c] = 1 THEN config_checkouts \ {c} ELSE config_checkouts
  BY <1>1 DEF Leave, Release
<1>13. c \in config_checkouts' <=> threads'[c] > 0
  BY <1>5, <1>10, <1>12 DEF Counted, TypeOK
<1> QED
  BY <1>5, <1>6, <1>10, <1>11, <1>12, <1>13 DEF Counted

\* Nobody comes or goes
LEMMA StayCounted ==
    ASSUME Counted, UNCHANGED <<config_checkouts, threads, wants>>,
           \A t \in Threads : pc'[t] \in Inside <=> pc[t] \in Inside
    PROVE  Counted'
<1>1. \A c \in Configs : Callers(c)' = Callers(c)
  BY DEF Callers
<1> QED
  BY <1>1 DEF Counted

-----------------------------------------------------------------------------
(* The actions.                                                            *)

\* A thread starts to wait or to search
LEMMA TurnStep ==
    ASSUME CheckoutInv, NEW t \in Threads, NEW c \in Configs, pc[t] \notin {"search", "done"},
           TakeTurn(t, c), wants' \in [Threads -> Configs \cup {None}],
           wants'[t] = c, \A u \in Threads \ {t} : wants'[u] = wants[u],
           UNCHANGED <<saVars, has>>
    PROVE  /\ pc' \in [Threads -> Places] /\ working' \in [Configs -> BOOLEAN]
           /\ todo' \in [Threads -> SUBSET SaIds]
           /\ Wanted' /\ Turns' /\ Ahead' /\ OneIkeSaPerConfig'
<1> USE DEF CheckoutInv
<1>1. /\ pc' \in [Threads -> Places] /\ working' \in [Configs -> BOOLEAN]
      /\ todo' \in [Threads -> SUBSET SaIds]
  BY DEF TypeOK, TakeTurn, Places
<1>2. /\ \A u \in Threads \ {t} : pc'[u] = pc[u] /\ todo'[u] = todo[u]
      /\ pc'[t] = "wait" \/ (pc'[t] = "search" /\ ~working[c] /\ todo'[t] = table)
      /\ \A d \in Configs : working[d] => working'[d]
      /\ pc'[t] = "search" => working'[c]
  BY DEF TypeOK, TakeTurn
<1>3. Wanted'
  BY <1>2 DEF Wanted, Inside
<1>4. Turns'
  BY <1>2, <1>3 DEF Turns, Wanted, Inside
<1>5. Ahead'
  BY <1>2 DEF Ahead, saVars
<1> QED
  BY <1>1, <1>3, <1>4, <1>5 DEF OneIkeSaPerConfig, saVars

LEMMA CallStep ==
    ASSUME CheckoutInv, NEW t \in Threads, NEW c \in Configs, CheckoutByConfig(t, c)
    PROVE  CheckoutInv'
<1>1. Counted' /\ threads' \in [Configs -> Nat]
  BY EnterCounted
<1>2. /\ wants' \in [Threads -> Configs \cup {None}] /\ wants'[t] = c
      /\ \A u \in Threads \ {t} : wants'[u] = wants[u]
      /\ config_checkouts' \subseteq Configs
  BY DEF CheckoutInv, TypeOK, CheckoutByConfig
<1>3. calls' \in [Threads -> 0..MaxCalls]
  BY ConstantsAssumption DEF CheckoutInv, TypeOK, CheckoutByConfig
<1>4. /\ pc' \in [Threads -> Places] /\ working' \in [Configs -> BOOLEAN]
      /\ todo' \in [Threads -> SUBSET SaIds]
      /\ Wanted' /\ Turns' /\ Ahead' /\ OneIkeSaPerConfig'
  BY <1>2, TurnStep DEF CheckoutByConfig
<1>5. TypeOK'
  BY <1>1, <1>2, <1>3, <1>4 DEF CheckoutInv, TypeOK, CheckoutByConfig, saVars
<1> QED
  BY <1>1, <1>4, <1>5 DEF CheckoutInv

LEMMA WakeUpStep ==
    ASSUME CheckoutInv, NEW t \in Threads, WakeUp(t)
    PROVE  CheckoutInv'
<1>1. PICK c \in Configs : c = wants[t]
  BY DEF CheckoutInv, Wanted, Inside, WakeUp
<1>2. /\ TakeTurn(t, c) /\ pc[t] = "wait"
      /\ UNCHANGED <<saVars, config_checkouts, threads, wants, has, calls>>
  BY <1>1 DEF WakeUp
<1>3. wants' \in [Threads -> Configs \cup {None}]
  BY <1>2 DEF CheckoutInv, TypeOK
<1>4. /\ pc' \in [Threads -> Places] /\ working' \in [Configs -> BOOLEAN]
      /\ todo' \in [Threads -> SUBSET SaIds]
      /\ Wanted' /\ Turns' /\ Ahead' /\ OneIkeSaPerConfig'
  BY <1>1, <1>2, <1>3, TurnStep
<1>5. Counted'
  <2>1. \A u \in Threads : pc'[u] \in Inside <=> pc[u] \in Inside
    BY <1>2 DEF CheckoutInv, TypeOK, TakeTurn, Inside
  <2> QED
    BY <1>2, <2>1, StayCounted DEF CheckoutInv
<1>6. TypeOK'
  BY <1>2, <1>4 DEF CheckoutInv, TypeOK, WakeUp, saVars
<1> QED
  BY <1>4, <1>5, <1>6 DEF CheckoutInv

LEMMA LookStep ==
    ASSUME CheckoutInv, NEW t \in Threads, NEW i \in SaIds, Look(t, i)
    PROVE  CheckoutInv'
<1> USE DEF CheckoutInv
<1>1. /\ UNCHANGED <<table, config, usable, created, entryVars, wants, woken, calls>>
      /\ pc[t] = "search" /\ todo' = [todo EXCEPT ![t] = @ \ {i}]
  BY DEF Look
<1>2. TypeOK'
  BY DEF TypeOK, Look, Places, entryVars
<1>3. /\ \A u \in Threads \ {t} : pc'[u] = pc[u] /\ todo'[u] = todo[u]
      /\ pc'[t] \in {"search", "done"}
      /\ pc'[t] = "search" => /\ todo'[t] = todo[t] \ {i}
                              /\ ~(i \in table /\ usable[i] /\ config[i] = wants[t])
  BY <1>1 DEF TypeOK, Look
<1>4. Counted'
  <2>1. \A u \in Threads : pc'[u] \in Inside <=> pc[u] \in Inside
    BY <1>1, <1>3 DEF Inside
  <2> QED
    BY <1>1, <2>1, StayCounted DEF entryVars
<1>5. Wanted' /\ Turns' /\ Ahead'
  BY <1>1, <1>3 DEF Wanted, Turns, Ahead, Inside, entryVars
<1> QED
  BY <1>1, <1>2, <1>4, <1>5 DEF OneIkeSaPerConfig

LEMMA CreateStep ==
    ASSUME CheckoutInv, NEW t \in Threads, Create(t)
    PROVE  CheckoutInv'
<1> USE DEF CheckoutInv
<1>1. /\ UNCHANGED <<entryVars, wants, todo, woken, calls>>
      /\ pc[t] = "search" /\ todo[t] = {} /\ pc' = [pc EXCEPT ![t] = "done"]
  BY DEF Create
<1>2. pc'[t] = "done" /\ \A u \in Threads \ {t} : pc'[u] = pc[u]
  BY <1>1 DEF TypeOK
<1>3. Counted'
  <2>1. \A u \in Threads : pc'[u] \in Inside <=> pc[u] \in Inside
    BY <1>1, <1>2 DEF Inside
  <2> QED
    BY <1>1, <2>1, StayCounted DEF entryVars
<1>4. Wanted' /\ Turns'
  BY <1>1, <1>2 DEF Wanted, Turns, Inside, entryVars
<1>5. CASE UNCHANGED <<saVars, has>>
  <2>1. TypeOK' /\ Ahead' /\ OneIkeSaPerConfig'
    BY <1>1, <1>2, <1>5 DEF TypeOK, Places, Ahead, OneIkeSaPerConfig, saVars, entryVars
  <2> QED
    BY <1>3, <1>4, <2>1
<1>6. CASE ~UNCHANGED <<saVars, has>>
  <2>1. PICK i \in SaIds \ created :
            /\ created' = created \cup {i}
            /\ table' = table \cup {i}
            /\ config' = [config EXCEPT ![i] = wants[t]]
            /\ checked_out' = [checked_out EXCEPT ![i] = t]
            /\ usable' = [usable EXCEPT ![i] = TRUE]
            /\ has' = [has EXCEPT ![t] = i]
    BY <1>6 DEF Create
  <2>2. TypeOK'
    BY <1>1, <2>1 DEF TypeOK, Places, entryVars
  <2>3. /\ i \notin table /\ config'[i] = wants[t]
        /\ \A j \in table : j \in SaIds \ {i} /\ config'[j] = config[j] /\ usable'[j] = usable[j]
    BY <2>1 DEF TypeOK
  <2>4. \A j \in table : usable[j] => config[j] # wants[t]
    BY <1>1 DEF Ahead
  <2>5. OneIkeSaPerConfig'
    BY <2>1, <2>3, <2>4 DEF OneIkeSaPerConfig
  <2>6. Ahead'
    <3> SUFFICES ASSUME NEW u \in Threads, pc'[u] = "search", NEW j \in table',
                        usable'[j], config'[j] = wants[u]
                 PROVE  j \in todo[u]
      BY <1>1 DEF Ahead
    <3>1. u # t /\ pc[u] = "search"
      BY <1>2
    <3>2. wants[u] # wants[t]
      BY <1>1, <3>1 DEF Turns
    <3> QED
      BY <2>1, <2>3, <3>1, <3>2 DEF Ahead
  <2> QED
    BY <1>3, <1>4, <2>2, <2>5, <2>6
<1> QED
  BY <1>5, <1>6

LEMMA LeaveStep ==
    ASSUME CheckoutInv, NEW t \in Threads, Leave(t)
    PROVE  CheckoutInv'
<1> USE DEF CheckoutInv
<1>1. Counted' /\ threads' \in [Configs -> Nat]
  BY LeaveCounted
<1>2. /\ UNCHANGED <<saVars, wants, has, todo, calls>> /\ pc[t] = "done"
      /\ working' = [working EXCEPT ![wants[t]] = FALSE]
      /\ pc' = [pc EXCEPT ![t] = IF has[t] = None THEN "idle" ELSE "holds"]
  BY DEF Leave
<1>3. woken' \subseteq Threads /\ config_checkouts' \subseteq Configs
  BY DEF Leave, Signal, Sleeping, Release, TypeOK
<1>4. pc' \in [Threads -> Places] /\ working' \in [Configs -> BOOLEAN]
  BY <1>2 DEF TypeOK, Places
<1>5. TypeOK'
  BY <1>1, <1>2, <1>3, <1>4 DEF TypeOK, saVars
<1>6. pc'[t] \in {"idle", "holds"} /\ \A u \in Threads \ {t} : pc'[u] = pc[u]
  BY <1>2 DEF TypeOK
<1>7. Wanted' /\ Ahead'
  BY <1>2, <1>6 DEF Wanted, Ahead, Inside, saVars
<1>8. Turns'
  <2>1. ASSUME NEW u \in Threads, pc'[u] \in {"search", "done"}
        PROVE  working'[wants'[u]]
    <3>1. u # t /\ pc[u] \in {"search", "done"} /\ wants[u] \in Configs /\ wants[t] \in Configs
      BY <1>2, <1>6, <2>1 DEF Wanted, Inside
    <3>2. wants[u] # wants[t] /\ working[wants[u]]
      BY <1>2, <3>1 DEF Turns
    <3> QED
      BY <1>2, <3>1, <3>2 DEF TypeOK
  <2> QED
    BY <1>2, <1>6, <2>1 DEF Turns
<1> QED
  BY <1>1, <1>2, <1>5, <1>7, <1>8 DEF OneIkeSaPerConfig, saVars

LEMMA CheckinStep ==
    ASSUME CheckoutInv, NEW t \in Threads, Checkin(t)
    PROVE  CheckoutInv'
<1> USE DEF CheckoutInv
<1>1. /\ UNCHANGED <<config, created, entryVars, wants, todo, woken, calls>>
      /\ pc[t] = "holds" /\ pc' = [pc EXCEPT ![t] = "idle"] /\ table' \subseteq table
      /\ has' = [has EXCEPT ![t] = None]
      /\ checked_out' = [checked_out EXCEPT ![has[t]] = None]
      /\ \E ok \in BOOLEAN : usable' = [usable EXCEPT ![has[t]] = @ /\ ok]
  BY DEF Checkin
<1>2. has' \in [Threads -> SaIds \cup {None}] /\ pc' \in [Threads -> Places]
  BY <1>1 DEF TypeOK, Places
<1>3. checked_out' \in [SaIds -> Threads \cup {None}]
  BY <1>1 DEF TypeOK
<1>4. usable' \in [SaIds -> BOOLEAN] /\ \A i \in SaIds : usable'[i] => usable[i]
  BY <1>1 DEF TypeOK
<1>5. TypeOK'
  BY <1>1, <1>2, <1>3, <1>4 DEF TypeOK, entryVars
<1>6. pc'[t] = "idle" /\ \A u \in Threads \ {t} : pc'[u] = pc[u]
  BY <1>1 DEF TypeOK
<1>7. Counted'
  <2>1. \A u \in Threads : pc'[u] \in Inside <=> pc[u] \in Inside
    BY <1>1, <1>6 DEF Inside
  <2> QED
    BY <1>1, <2>1, StayCounted DEF entryVars
<1>8. Wanted' /\ Turns'
  BY <1>1, <1>6 DEF Wanted, Turns, Inside, entryVars
<1>9. table \subseteq SaIds
  BY DEF TypeOK
<1>10. Ahead' /\ OneIkeSaPerConfig'
  BY <1>1, <1>4, <1>6, <1>9 DEF Ahead, OneIkeSaPerConfig
<1> QED
  BY <1>5, <1>7, <1>8, <1>10

-----------------------------------------------------------------------------
(* The theorems.                                                           *)

LEMMA InitInv == Init => CheckoutInv
<1> SUFFICES ASSUME Init PROVE CheckoutInv
  OBVIOUS
<1>1. TypeOK /\ Wanted /\ Turns /\ Ahead /\ OneIkeSaPerConfig
  BY ConstantsAssumption DEF Init, TypeOK, Places, Wanted, Turns, Ahead, Inside, OneIkeSaPerConfig
<1>2. \A c \in Configs : Callers(c) = {}
  BY DEF Init, Callers, Inside
<1>3. \A c \in Configs : Cardinality(Callers(c)) = 0 /\ threads[c] = 0 /\ c \notin config_checkouts
  BY <1>2, FS_EmptySet DEF Init
<1>4. Counted
  BY <1>3 DEF Counted
<1> QED
  BY <1>1, <1>4 DEF CheckoutInv

LEMMA NextInv == CheckoutInv /\ [Next]_vars => CheckoutInv'
<1> SUFFICES ASSUME CheckoutInv, [Next]_vars PROVE CheckoutInv'
  OBVIOUS
<1>1. CASE UNCHANGED vars
  BY <1>1 DEF CheckoutInv, TypeOK, Wanted, Counted, Callers, Turns, Ahead, OneIkeSaPerConfig,
              vars, saVars, entryVars
<1>2. CASE Next
  BY <1>2, CallStep, WakeUpStep, LookStep, CreateStep, LeaveStep, CheckinStep DEF Next, Continue
<1> QED
  BY <1>1, <1>2

LEMMA CheckoutCorrect == Spec => []CheckoutInv
  BY InitInv, NextInv, PTL DEF Spec

\* No config gets a second IKE_SA while it has one that can be used, however
\* many threads check out by however many configs.
THEOREM NoSecondIkeSa == Spec => []OneIkeSaPerConfig
<1>1. CheckoutInv => OneIkeSaPerConfig
  BY DEF CheckoutInv
<1> QED
  BY <1>1, CheckoutCorrect, PTL

\* The entry of a config is freed with the last thread that is in
\* checkout_by_config() for it, and not before.
THEOREM EntriesCounted == Spec => []Counted
<1>1. CheckoutInv => Counted
  BY DEF CheckoutInv
<1> QED
  BY <1>1, CheckoutCorrect, PTL
-----------------------------------------------------------------------------
(* Signals.  The part of the invariant that NoLostWakeup needs beyond      *)
(* CheckoutInv: who has to wait knows of a thread that works, and that     *)
(* thread signals in the end.                                              *)

WakeInv == Worked /\ NoLostWakeup

\* A thread starts to wait or to search; in both cases a thread works then
LEMMA TurnWakes ==
    ASSUME CheckoutInv, Worked, NEW t \in Threads, NEW c \in Configs,
           pc[t] \notin {"search", "done"}, TakeTurn(t, c),
           wants'[t] = c, \A u \in Threads \ {t} : wants'[u] = wants[u],
           woken' = woken \ {t}
    PROVE  WakeInv'
<1> USE DEF CheckoutInv
<1>1. \A u \in Threads \ {t} : pc'[u] = pc[u]
  BY DEF TypeOK, TakeTurn
<1>2. \/ pc'[t] = "wait" /\ working[c] /\ working' = working
      \/ pc'[t] = "search" /\ working' = [working EXCEPT ![c] = TRUE]
  BY DEF TypeOK, TakeTurn
<1>3. ASSUME NEW d \in Configs, working'[d]
      PROVE  \E u \in Threads : pc'[u] \in {"search", "done"} /\ wants'[u] = d
  <2>1. CASE d = c /\ pc'[t] = "search"
    BY <2>1
  <2>2. CASE ~(d = c /\ pc'[t] = "search")
    <3>1. working[d]
      BY <1>2, <1>3, <2>2 DEF TypeOK
    <3>2. PICK u \in Threads : pc[u] \in {"search", "done"} /\ wants[u] = d
      BY <3>1 DEF Worked
    <3> QED
      BY <1>1, <3>2
  <2> QED
    BY <2>1, <2>2
<1>4. \A u \in woken' : pc'[u] = "wait"
  BY <1>1 DEF Worked, TypeOK
<1>5. working'[c]
  BY <1>2 DEF TypeOK
<1>6. \E u \in Threads : pc'[u] \in {"search", "done"}
  BY <1>3, <1>5
<1> QED
  BY <1>3, <1>4, <1>6 DEF WakeInv, Worked, NoLostWakeup

\* A thread that works stays at it, or none of those that matter does a step
LEMMA SameTurn ==
    ASSUME WakeInv, UNCHANGED <<working, woken, wants>>,
           \A u \in Threads : /\ pc'[u] \in {"search", "done"} <=> pc[u] \in {"search", "done"}
                              /\ pc'[u] = "wait" <=> pc[u] = "wait",
           woken \subseteq Threads
    PROVE  WakeInv'
<1>1. Sleeping' = Sleeping
  BY DEF Sleeping
<1>2. Worked'
  BY DEF WakeInv, Worked
<1> QED
  BY <1>1, <1>2 DEF WakeInv, NoLostWakeup

\* The one signal of a thread that is done reaches a sleeping thread, if any
LEMMA LeaveWakes ==
    ASSUME CheckoutInv, WakeInv, NEW t \in Threads, Leave(t)
    PROVE  WakeInv'
<1> USE DEF CheckoutInv
<1>1. PICK c \in Configs : c = wants[t]
  BY DEF Leave, Wanted, Inside
<1>2. /\ pc[t] = "done" /\ wants' = wants /\ Signal
      /\ working' = [working EXCEPT ![c] = FALSE]
      /\ pc'[t] \in {"idle", "holds"} /\ \A u \in Threads \ {t} : pc'[u] = pc[u]
  BY <1>1 DEF Leave, TypeOK
<1>3. ASSUME NEW d \in Configs, working'[d]
      PROVE  \E u \in Threads : pc'[u] \in {"search", "done"} /\ wants'[u] = d
  <2>1. d # c /\ working[d]
    BY <1>2, <1>3 DEF TypeOK
  <2>2. PICK u \in Threads : pc[u] \in {"search", "done"} /\ wants[u] = d
    BY <2>1 DEF WakeInv, Worked
  <2> QED
    BY <1>1, <1>2, <2>1, <2>2
<1>4. /\ \A u \in woken' : u \in Threads /\ pc[u] = "wait"
      /\ woken \subseteq woken'
      /\ Sleeping # {} => woken' # {}
  BY <1>2 DEF Signal, Sleeping, WakeInv, Worked, TypeOK
<1>5. \A u \in woken' : pc'[u] = "wait"
  BY <1>2, <1>4
<1>6. Sleeping' \subseteq Sleeping
  BY <1>2, <1>4 DEF Sleeping
<1> QED
  BY <1>2, <1>3, <1>4, <1>5, <1>6 DEF WakeInv, Worked, NoLostWakeup

LEMMA NextWakes == CheckoutInv /\ WakeInv /\ [Next]_vars => WakeInv'
<1> SUFFICES ASSUME CheckoutInv, WakeInv, [Next]_vars PROVE WakeInv'
  OBVIOUS
<1> USE DEF CheckoutInv
<1>0. woken \subseteq Threads
  BY DEF TypeOK
<1>1. ASSUME NEW t \in Threads, NEW c \in Configs, CheckoutByConfig(t, c) PROVE WakeInv'
  <2>1. /\ pc[t] = "idle" /\ wants'[t] = c /\ \A u \in Threads \ {t} : wants'[u] = wants[u]
        /\ TakeTurn(t, c) /\ woken' = woken
    BY <1>1 DEF CheckoutByConfig, TypeOK
  <2>2. woken' = woken \ {t}
    BY <2>1 DEF WakeInv, Worked
  <2> QED
    BY <2>1, <2>2, TurnWakes DEF WakeInv
<1>2. ASSUME NEW t \in Threads, WakeUp(t) PROVE WakeInv'
  <2>1. PICK c \in Configs : c = wants[t]
    BY <1>2 DEF Wanted, Inside, WakeUp
  <2>2. pc[t] = "wait" /\ wants' = wants /\ TakeTurn(t, c) /\ woken' = woken \ {t}
    BY <1>2, <2>1 DEF WakeUp
  <2> QED
    BY <2>1, <2>2, TurnWakes DEF WakeInv
<1>3. ASSUME NEW t \in Threads, NEW i \in SaIds, Look(t, i) PROVE WakeInv'
  <2>1. /\ UNCHANGED <<working, woken, wants>> /\ pc[t] = "search"
        /\ pc'[t] \in {"search", "done"} /\ \A u \in Threads \ {t} : pc'[u] = pc[u]
    BY <1>3 DEF Look, TypeOK, entryVars
  <2> QED
    BY <1>0, <2>1, SameTurn
<1>4. ASSUME NEW t \in Threads, Create(t) PROVE WakeInv'
  <2>1. /\ UNCHANGED <<working, woken, wants>> /\ pc[t] = "search"
        /\ pc'[t] = "done" /\ \A u \in Threads \ {t} : pc'[u] = pc[u]
    BY <1>4 DEF Create, TypeOK, entryVars
  <2> QED
    BY <1>0, <2>1, SameTurn
<1>5. ASSUME NEW t \in Threads, Checkin(t) PROVE WakeInv'
  <2>1. /\ UNCHANGED <<working, woken, wants>> /\ pc[t] = "holds"
        /\ pc'[t] = "idle" /\ \A u \in Threads \ {t} : pc'[u] = pc[u]
    BY <1>5 DEF Checkin, TypeOK, entryVars
  <2> QED
    BY <1>0, <2>1, SameTurn
<1>6. CASE UNCHANGED vars
  <2>1. UNCHANGED <<working, woken, wants, pc>>
    BY <1>6 DEF vars, entryVars
  <2> QED
    BY <1>0, <2>1, SameTurn
<1> QED
  BY <1>1, <1>2, <1>3, <1>4, <1>5, <1>6, LeaveWakes DEF Next, Continue

LEMMA InitWakes == Init => WakeInv
  BY DEF Init, WakeInv, Worked, NoLostWakeup, Sleeping

\* No signal is lost: while a thread sleeps, another one is awake that works or
\* looks again whether it can, for any number of threads and configs.
THEOREM SignalsSuffice == Spec => []NoLostWakeup
<1>1. WakeInv => NoLostWakeup
  BY DEF WakeInv
<1> QED
  BY <1>1, CheckoutCorrect, InitWakes, NextWakes, PTL DEF Spec
=============================================================================
