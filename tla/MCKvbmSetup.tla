---------------------------- MODULE MCKvbmSetup ----------------------------
(* One run for the two constructors that work on their arguments alone:    *)
(* KvbmWorker::new up to its layout (KvbmLayout) and Resources::new        *)
(* (KvbmManager).  They share no state, so a behaviour runs one of them    *)
(* and leaves the other in one state before its first step.                *)
EXTENDS KvbmLayout, KvbmManager

VARIABLE part

IdleGiven == CHOOSE g \in Givens : TRUE
IdleModel == CHOOSE m \in Models : TRUE
IdleConfig == CHOOSE c \in Configs(IdleModel) : TRUE

Init ==
  /\ LayoutInit /\ ManagerInit
  /\ \/ part = "worker" /\ given = IdleGiven
     \/ part = "manager" /\ model = IdleModel /\ config = IdleConfig /\ tensors = << >>

Next ==
  /\ \/ part = "worker" /\ LayoutNext /\ UNCHANGED mvars
     \/ part = "manager" /\ ManagerNext /\ UNCHANGED lvars
  /\ UNCHANGED part

Spec == Init /\ [][Next]_<<lvars, mvars, part>>
=============================================================================
