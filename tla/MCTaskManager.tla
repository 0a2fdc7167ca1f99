---------------------------- MODULE MCTaskManager ----------------------------
(* Instances of TaskManager for TLC.                                          *)
EXTENDS TaskManager

NoFragments == [x \in ExchangeType |-> 1]
TwoFragments == [x \in ExchangeType |-> IF x = "CREATE_CHILD_SA" THEN 2 ELSE 1]

CoreTasks ==
    [p \in Peer |-> IF p = "i" THEN {"CHILD_CREATE", "IKE_DELETE"}
                   ELSE {"DPD", "CHILD_DELETE", "IKE_DELETE"}]
MobikeTasks ==
    [p \in Peer |-> IF p = "i" THEN {"MOBIKE", "CHILD_CREATE"}
                   ELSE {"IKE_DELETE"}]
FaultTasks ==
    [p \in Peer |-> IF p = "i" THEN {"CHILD_CREATE", "MOBIKE", "IKE_DELETE"}
                   ELSE {"CHILD_DELETE", "IKE_DELETE"}]
=============================================================================
