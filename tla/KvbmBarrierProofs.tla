-------------------------- MODULE KvbmBarrierProofs --------------------------
(***************************************************************************)
(* KvbmWorker implements LeaderBarrier for every set of workers and slots: *)
(* the initial states agree, and every step of the handshake is a step of  *)
(* the barrier or cannot be told from outside.                             *)
(*                                                                         *)
(* Four actions are steps of the barrier: MarkReady serves, AllocFails     *)
(* fails, the LeaderAdvance that ends the ping round comes up, and a       *)
(* BlockTransferDispatch is a transfer.  All others stutter, because the   *)
(* leader's phase, the ready flags, the failed allocations and the         *)
(* outcomes are all that the mapping looks at.                             *)
(***************************************************************************)
EXTENDS KvbmWorkerProofs

\* Nothing that the barrier can tell changes.
Silent ==
  /\ (phase' = "up") = (phase = "up")
  /\ ready' = ready
  /\ \A w \in Workers : (alloc'[w] = "failed") = (alloc[w] = "failed")
  /\ outcomes' = outcomes

\* A silent step is a stuttering step of the barrier.
LEMMA SilentStutters == Silent => UNCHANGED Barrier!vars
<1> SUFFICES ASSUME Silent PROVE UNCHANGED Barrier!vars
  OBVIOUS
<1>1. \A w \in Workers : WorkerState(w)' = WorkerState(w)
  BY DEF Silent, WorkerState
<1>2. [w \in Workers |-> WorkerState(w)]' = [w \in Workers |-> WorkerState(w)]
  BY <1>1
<1>3. (phase = "up")' = (phase = "up")
  BY DEF Silent
<1>4. outcomes' = outcomes
  BY DEF Silent
<1> QED
  BY <1>2, <1>3, <1>4 DEF Barrier!vars

\* The handshake starts where the barrier starts.
LEMMA InitMaps == Init => Barrier!Init
<1> SUFFICES ASSUME Init PROVE Barrier!Init
  OBVIOUS
<1>1. \A w \in Workers : WorkerState(w) = "idle"
  BY DEF Init, WorkerState
<1> QED
  BY <1>1 DEF Init, Barrier!Init

\* Publishing the handler and marking the worker ready is what serves.
LEMMA MarkReadyServes ==
  ASSUME IInv, NEW w \in Workers, MarkReady(w)
  PROVE  Barrier!Serve(w)
<1> DEFINE state == [v \in Workers |-> WorkerState(v)]
<1>1. alloc[w] = "mark" /\ ~ready[w] /\ ready'[w]
  BY DEF MarkReady, AllocStep, IInv, TypeOK, PublishInv
<1>2. \A v \in Workers : v # w => WorkerState(v)' = WorkerState(v)
  BY DEF MarkReady, AllocStep, IInv, TypeOK, WorkerState
<1>3. WorkerState(w) = "idle" /\ WorkerState(w)' = "serving"
  BY <1>1 DEF WorkerState
<1>4. state' = [state EXCEPT ![w] = "serving"]
  BY <1>2, <1>3
<1>5. UNCHANGED <<phase, outcomes>>
  BY DEF MarkReady, AllocStep, AllocUnchanged, leaderVars
<1> QED
  BY <1>3, <1>4, <1>5 DEF Barrier!Serve

\* A failed allocation is what fails a worker for good.
LEMMA AllocFailsFails ==
  ASSUME IInv, NEW w \in Workers, AllocFails(w)
  PROVE  Barrier!Fail(w)
<1> DEFINE state == [v \in Workers |-> WorkerState(v)]
<1>1. alloc[w] # "failed" /\ ~ready[w] /\ alloc'[w] = "failed" /\ ready' = ready
  BY DEF AllocFails, Fallible, IInv, TypeOK, PublishInv
<1>2. \A v \in Workers : v # w => WorkerState(v)' = WorkerState(v)
  BY <1>1 DEF AllocFails, IInv, TypeOK, WorkerState
<1>3. WorkerState(w) = "idle" /\ WorkerState(w)' = "failed"
  BY <1>1 DEF WorkerState
<1>4. state' = [state EXCEPT ![w] = "failed"]
  BY <1>2, <1>3
<1>5. UNCHANGED <<phase, outcomes>>
  BY DEF AllocFails, AllocUnchanged, leaderVars
<1> QED
  BY <1>3, <1>4, <1>5 DEF Barrier!Fail

\* The end of the ping round, and of no other, brings the leader up, and every
\* worker that answered it serves.
LEMMA AdvanceComesUp ==
  ASSUME IInv, LeaderAdvance
  PROVE  Barrier!ComeUp \/ Silent
<1>1. UNCHANGED <<ready, alloc, outcomes>>
  BY DEF LeaderAdvance, allocVars
<1>2. CASE phase = "ping"
  <2>1. \A w \in Workers : ready[w]
    BY <1>2 DEF LeaderAdvance, IInv, PingInv
  <2>2. phase' = "up"
    BY <1>2 DEF LeaderAdvance, NextPhase
  <2>3. \A w \in Workers : WorkerState(w) = "serving" /\ WorkerState(w)' = "serving"
    BY <1>1, <2>1 DEF WorkerState
  <2>4. [w \in Workers |-> WorkerState(w)]' = [w \in Workers |-> WorkerState(w)]
    BY <2>3
  <2>5. Barrier!ComeUp
    BY <1>1, <1>2, <2>2, <2>3, <2>4 DEF Barrier!ComeUp
  <2> QED
    BY <2>5
<1>3. CASE phase # "ping"
  <2>1. phase # "up" /\ phase' # "up"
    BY <1>3 DEF LeaderAdvance, NextPhase, Rounds
  <2> QED
    BY <1>1, <2>1 DEF Silent
<1> QED
  BY <1>2, <1>3

\* A leader that waits sends its transfers to workers that can serve them.
LEMMA DispatchTransfers ==
  ASSUME IInv, ~EarlyTransfers, NEW w \in Workers, NEW s \in Slots,
         BlockTransferDispatch(w, s)
  PROVE  Barrier!Transfer(w)
<1>1. phase = "up"
  BY DEF BlockTransferDispatch, IInv, TransferInv
<1>2. cell[w]
  BY <1>1 DEF IInv, PingInv, PublishInv, Published
<1>3. outcomes' = [outcomes EXCEPT ![w] = @ \cup {"served"}]
  BY <1>2 DEF BlockTransferDispatch
<1>4. UNCHANGED <<phase, ready, alloc>>
  BY DEF BlockTransferDispatch, leaderVars, allocVars
<1>5. \A v \in Workers : WorkerState(v)' = WorkerState(v)
  BY <1>4 DEF WorkerState
<1>6. [v \in Workers |-> WorkerState(v)]' = [v \in Workers |-> WorkerState(v)]
  BY <1>5
<1> QED
  BY <1>1, <1>3, <1>4, <1>6 DEF Barrier!Transfer

\* Spawning the allocation and its steps before the mark are not visible.
LEMMA AllocationSilent ==
  ASSUME IInv, NEW w \in Workers,
         \/ BuildAgent(w) \/ MakeBlocks(w) \/ BuildHandler(w)
         \/ InstallHandler(w) \/ ReturnHandler(w)
         \/ \E s \in Slots : LeaderMetadataSpawn(w, s)
  PROVE  Silent
<1> USE DEF Silent, leaderVars, allocVars, IInv, TypeOK
<1>1. CASE BuildAgent(w)
  BY <1>1 DEF BuildAgent, AllocStep, AllocUnchanged
<1>2. CASE MakeBlocks(w)
  BY <1>2 DEF MakeBlocks, AllocStep, AllocUnchanged
<1>3. CASE BuildHandler(w)
  BY <1>3 DEF BuildHandler, AllocStep, AllocUnchanged
<1>4. CASE InstallHandler(w)
  BY <1>4 DEF InstallHandler, AllocStep, AllocUnchanged
<1>5. CASE ReturnHandler(w)
  BY <1>5 DEF ReturnHandler, AllocStep, AllocUnchanged
<1>6. ASSUME NEW s \in Slots, LeaderMetadataSpawn(w, s) PROVE Silent
  BY <1>6 DEF LeaderMetadataSpawn, FlightInv
<1> QED
  BY <1>1, <1>2, <1>3, <1>4, <1>5, <1>6

\* The other steps leave the allocation, the leader's phase and the outcomes
\* alone.
LEMMA OthersSilent ==
  ASSUME \/ \E w \in Workers : LeaderSend(w) \/ LeaderTransfer(w) \/ Caller(w)
         \/ \E a \in ackNet : LeaderReceive(a)
         \/ \E m \in net : Lose(m)
         \/ \E m \in net, s \in Slots : Deliver(m, s)
         \/ \E w \in Workers, s \in Slots :
              \/ WorkerMetadataHandle(w, s) \/ LeaderMetadataAck(w, s)
              \/ LeaderMetadataStart(w, s) \/ PingGate(w, s)
              \/ PingAck(w, s) \/ PingFire(w, s)
         \/ UNCHANGED vars
  PROVE  Silent
<1> SUFFICES UNCHANGED <<phase, ready, alloc, outcomes>>
  BY DEF Silent
<1> USE DEF leaderVars, allocVars
<1>1. ASSUME NEW w \in Workers, LeaderSend(w) \/ LeaderTransfer(w)
      PROVE  UNCHANGED <<phase, ready, alloc, outcomes>>
  BY <1>1 DEF LeaderSend, LeaderTransfer
<1>2. ASSUME NEW w \in Workers, Caller(w)
      PROVE  UNCHANGED <<phase, ready, alloc, outcomes>>
  BY <1>2 DEF Caller, WorkerTaskStart, WorkerTaskExit, NewReturns, TakeHandlerRx,
              DropHandlerRx, AbandonNew, Cancel, DropWorker, workerUnchanged
<1>3. ASSUME NEW a \in ackNet, LeaderReceive(a)
      PROVE  UNCHANGED <<phase, ready, alloc, outcomes>>
  BY <1>3 DEF LeaderReceive
<1>4. ASSUME NEW m \in net, Lose(m) \/ \E s \in Slots : Deliver(m, s)
      PROVE  UNCHANGED <<phase, ready, alloc, outcomes>>
  BY <1>4 DEF Lose, Deliver
<1>5. ASSUME NEW w \in Workers, NEW s \in Slots,
             \/ WorkerMetadataHandle(w, s) \/ LeaderMetadataAck(w, s)
             \/ LeaderMetadataStart(w, s)
      PROVE  UNCHANGED <<phase, ready, alloc, outcomes>>
  BY <1>5 DEF WorkerMetadataHandle, LeaderMetadataAck, LeaderMetadataStart
<1>6. ASSUME NEW w \in Workers, NEW s \in Slots,
             PingGate(w, s) \/ PingAck(w, s) \/ PingFire(w, s)
      PROVE  UNCHANGED <<phase, ready, alloc, outcomes>>
  BY <1>6 DEF PingGate, PingAck, PingFire
<1>7. CASE UNCHANGED vars
  BY <1>7 DEF vars
<1> QED
  BY <1>1, <1>2, <1>3, <1>4, <1>5, <1>6, <1>7

\* Every step of the handshake is a step of the barrier or stutters.
LEMMA StepMaps ==
  ASSUME IInv, ~EarlyTransfers, [Next]_vars
  PROVE  [Barrier!Next]_Barrier!vars
<1>1. ASSUME NEW w \in Workers, MarkReady(w) PROVE Barrier!Next
  BY <1>1, MarkReadyServes DEF Barrier!Next
<1>2. ASSUME NEW w \in Workers, AllocFails(w) PROVE Barrier!Next
  BY <1>2, AllocFailsFails DEF Barrier!Next
<1>3. CASE LeaderAdvance
  BY <1>3, AdvanceComesUp, SilentStutters DEF Barrier!Next
<1>4. ASSUME NEW w \in Workers, NEW s \in Slots, BlockTransferDispatch(w, s)
      PROVE  Barrier!Next
  BY <1>4, DispatchTransfers DEF Barrier!Next
<1>5. ASSUME Silent PROVE [Barrier!Next]_Barrier!vars
  BY <1>5, SilentStutters
<1> QED
  BY <1>1, <1>2, <1>3, <1>4, <1>5, AllocationSilent, OthersSilent
  DEF Next, Leader, Handler, Allocation, AllocSucceeds

\* A KVBM leader that waits for its rounds sees the workers as a barrier: it
\* comes up once, with every worker serving, and every transfer is served.
THEOREM Refinement == ~EarlyTransfers => (Spec => ImplementsBarrier)
<1> SUFFICES ASSUME ~EarlyTransfers PROVE Spec => ImplementsBarrier
  OBVIOUS
<1>1. IInv /\ [Next]_vars => [Barrier!Next]_Barrier!vars
  BY StepMaps
<1> QED
  BY InitMaps, <1>1, Invariance, PTL DEF Spec, ImplementsBarrier, Barrier!Spec
=============================================================================
