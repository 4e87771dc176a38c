-------------------------- MODULE KvbmWorkerProofs --------------------------
(***************************************************************************)
(* Proofs about KvbmWorker for every set of workers and handler slots,     *)
(* every rank assignment and every combination of failures.                *)
(*                                                                         *)
(* The inductive invariant has one part per concern:                       *)
(*   FlightInv       who may still start the allocation,                   *)
(*   MetaInv         what an acknowledged leader_metadata has set off,     *)
(*   PublishInv      how far the publication of the handler has come,      *)
(*   PingInv         ready travels with ping answers up to the leader,     *)
(*   SignalInv       which ping answers the readiness signal follows,      *)
(*   TierInv         what the allocation holds at each of its points,      *)
(*   TransferInv     transfers exist only after the leader came up,        *)
(*   CreatorInv      what the constructor and its owner know.              *)
(***************************************************************************)
EXTENDS KvbmWorker, TLAPS

\* An allocation exists exactly when the layout was taken, and only the one
\* handler that swapped the flag stands before that point.
FlightInv ==
  \A w \in Workers :
    /\ alloc[w] # "none" => started[w] /\ ~deviceLayout[w]
    /\ ~deviceLayout[w] => alloc[w] # "none"
    /\ \A s \in Slots : pc[w][s] = "meta_take" =>
         /\ started[w] /\ alloc[w] = "none"
         /\ \A r \in Slots : pc[w][r] = "meta_take" => r = s

\* A flag that was swapped leads to an allocation, and an answer to
\* leader_metadata up to the leader's next round to one that has begun.
MetaInv ==
  /\ \A w \in Workers : started[w] =>
       alloc[w] # "none" \/ \E s \in Slots : pc[w][s] = "meta_take"
  /\ "malformed" \notin Events =>
       /\ \A m \in net : m.ok
       /\ \A w \in Workers, s \in Slots : pc[w][s] # "meta_ack_bad"
       /\ \A a \in ackNet : a.kind = "leader_meta" => Begun(a.from)
       /\ phase = "leader_meta" => \A w \in acks : Begun(w)
       /\ phase \in {"ping", "up"} => \A w \in Workers : Begun(w)

\* The cell, the creator's channel and the ready flag tell exactly how far the
\* allocation task has come.
PublishInv ==
  \A w \in Workers :
    /\ cell[w] <=> alloc[w] \in Published
    /\ handlerTx[w] # "held" <=> alloc[w] \in {"mark", "done"}
    /\ ready[w] <=> alloc[w] = "done"

\* Whoever passed the gate, answered or was counted by the leader is ready.
PingInv ==
  /\ \A w \in Workers :
       /\ \A s \in Slots : pc[w][s] \in {"ping_ack", "ping_fire"} => ready[w]
       /\ \A s \in Slots : pc[w][s] = "ping_fire" => pingAcked[w]
       /\ [from |-> w, kind |-> "ping"] \in ackNet => pingAcked[w]
       /\ layoutTx[w] = "sent" => pingAcked[w]
       /\ pingAcked[w] => ready[w]
  /\ phase = "ping" => \A w \in acks : ready[w]
  /\ phase = "up" => \A w \in Workers : ready[w]

\* A ping that was answered is followed by the readiness signal, and all of those
\* the leader counted were answered.
SignalInv ==
  /\ \A w \in Workers : pingAcked[w] => SignalDue(w)
  /\ phase = "ping" => \A w \in acks : pingAcked[w]
  /\ phase = "up" => \A w \in Workers : pingAcked[w]

\* What the allocation holds at each of its points: the backends of the first
\* decision from there on, the pools of the two later ones once they are made.
TierInv ==
  \A w \in Workers :
    /\ alloc[w] \in {"none", "agent", "blocks", "failed"} => tiers[w] = {}
    /\ alloc[w] \in {"blocks", "build", "install"} \cup Published =>
         ("GDS_MT" \in backends[w] <=> NeedDisk(w))
    /\ alloc[w] \in {"build", "install"} \cup Published =>
         /\ "device" \in tiers[w]
         /\ "host" \in tiers[w] <=> HostBlocks(w)
         /\ "disk" \in tiers[w] <=> DiskBlocks(w)

\* A leader that waits has no transfer under way before it is up.
TransferInv ==
  ~EarlyTransfers =>
    /\ phase # "up" => \A m \in net : m.kind # "transfer"
    /\ phase # "up" => \A w \in Workers, s \in Slots : pc[w][s] # "dispatch"
    /\ \A w \in Workers : "refused" \notin outcomes[w]

\* What the constructor and the owner of the worker know: the receiver stays with
\* a constructor that waits, so one that has seen the signal lost nothing.
CreatorInv ==
  \A w \in Workers :
    /\ creator[w] = "constructing" => handlerRx[w] = "held"
    /\ handlerTx[w] = "lost" => handlerRx[w] = "closed"
    /\ LayoutBlocking[w] /\ creator[w] \in {"constructed", "dropped"} /\ zmq[w] # "down" =>
         layoutTx[w] = "sent" /\ handlerTx[w] # "lost"

\* The inductive invariant.
IInv ==
  /\ TypeOK /\ FlightInv /\ MetaInv /\ PublishInv
  /\ PingInv /\ SignalInv /\ TierInv /\ TransferInv /\ CreatorInv

-----------------------------------------------------------------------------
\* Every message goes to a worker and starts a handler at its first statement;
\* only a transfer request reaches the dispatcher.
LEMMA EntryPoints ==
  ASSUME TypeOK, NEW m \in net
  PROVE  /\ m.to \in Workers
         /\ Entry(m) \in PC \ {"meta_take", "ping_ack", "ping_fire"}
         /\ Entry(m) = "dispatch" => m.kind = "transfer"
<1>1. m.to \in Workers /\ m.kind \in Kinds
  BY DEF TypeOK, Message
<1> QED
  BY <1>1 DEF Entry, Kinds, Rounds, PC, PingPC

\* Every step of the leader, a handler, the allocation or the caller keeps the
\* types of the state.
LEMMA TypeStep == TypeOK /\ [Next]_vars => TypeOK'
<1> SUFFICES ASSUME TypeOK, [Next]_vars PROVE TypeOK'
  OBVIOUS
<1> USE DEF leaderVars, metaVars, allocVars, callerVars
<1>1. ASSUME NEW w \in Workers, LeaderSend(w) PROVE TypeOK'
  <2>1. PICK ok \in BOOLEAN : net' = net \cup {[to |-> w, kind |-> phase, ok |-> ok]}
    BY <1>1 DEF LeaderSend
  <2>2. net' \subseteq Message
    BY <1>1, <2>1 DEF LeaderSend, TypeOK, Message, Kinds
  <2> QED
    BY <1>1, <2>2 DEF LeaderSend, TypeOK
<1>2. ASSUME NEW w \in Workers, LeaderTransfer(w) PROVE TypeOK'
  <2>1. PICK ok \in BOOLEAN : net' = net \cup {[to |-> w, kind |-> "transfer", ok |-> ok]}
    BY <1>2, Zenon DEF LeaderTransfer
  <2>2. net' \subseteq Message
    BY <2>1 DEF TypeOK, Message, Kinds
  <2> QED
    BY <1>2, <2>2 DEF LeaderTransfer, TypeOK
<1>3. ASSUME NEW a \in ackNet, LeaderReceive(a) PROVE TypeOK'
  BY <1>3 DEF LeaderReceive, TypeOK, Answer
<1>4. CASE LeaderAdvance
  BY <1>4 DEF LeaderAdvance, TypeOK, NextPhase, Rounds
<1>5. ASSUME NEW m \in net, Lose(m) PROVE TypeOK'
  BY <1>5 DEF Lose, TypeOK
<1>6. ASSUME NEW m \in net, NEW s \in Slots, Deliver(m, s) PROVE TypeOK'
  BY <1>6, EntryPoints DEF Deliver, TypeOK
<1>7. ASSUME NEW w \in Workers, NEW s \in Slots, WorkerMetadataHandle(w, s) PROVE TypeOK'
  BY <1>7 DEF WorkerMetadataHandle, SendAnswer, Goto, TypeOK, PC, PingPC, Answer, Rounds
<1>8. ASSUME NEW w \in Workers, NEW s \in Slots, LeaderMetadataAck(w, s) PROVE TypeOK'
  BY <1>8 DEF LeaderMetadataAck, SendAnswer, Goto, TypeOK, PC, PingPC, Answer, Rounds
<1>9. ASSUME NEW w \in Workers, NEW s \in Slots, LeaderMetadataStart(w, s) PROVE TypeOK'
  BY <1>9 DEF LeaderMetadataStart, Goto, TypeOK, PC, PingPC
<1>10. ASSUME NEW w \in Workers, NEW s \in Slots, LeaderMetadataSpawn(w, s) PROVE TypeOK'
  BY <1>10 DEF LeaderMetadataSpawn, Goto, TypeOK, PC, PingPC, AllocPC, Fallible, Published
<1>11. ASSUME NEW w \in Workers, NEW s \in Slots, PingGate(w, s) PROVE TypeOK'
  BY <1>11 DEF PingGate, Goto, TypeOK, PC, PingPC
<1>12. ASSUME NEW w \in Workers, NEW s \in Slots, PingAck(w, s) PROVE TypeOK'
  BY <1>12 DEF PingAck, SendAnswer, Goto, TypeOK, PC, PingPC, Answer, Rounds, AckOutcomes
<1>13. ASSUME NEW w \in Workers, NEW s \in Slots, PingFire(w, s) PROVE TypeOK'
  BY <1>13 DEF PingFire, Goto, TypeOK, PC, PingPC
<1>14. ASSUME NEW w \in Workers, NEW s \in Slots, BlockTransferDispatch(w, s) PROVE TypeOK'
  BY <1>14 DEF BlockTransferDispatch, Goto, TypeOK, PC, PingPC
<1>15. ASSUME NEW w \in Workers, BuildAgent(w) PROVE TypeOK'
  BY <1>15 DEF BuildAgent, AllocStep, AllocUnchanged, TypeOK, AllocPC, Fallible, Published
<1>16. ASSUME NEW w \in Workers, MakeBlocks(w) PROVE TypeOK'
  BY <1>16 DEF MakeBlocks, AllocStep, AllocUnchanged, TypeOK, AllocPC, Fallible, Published
<1>17. ASSUME NEW w \in Workers, BuildHandler(w) PROVE TypeOK'
  BY <1>17 DEF BuildHandler, AllocStep, AllocUnchanged, TypeOK, AllocPC, Fallible, Published
<1>18. ASSUME NEW w \in Workers, InstallHandler(w) PROVE TypeOK'
  BY <1>18 DEF InstallHandler, AllocStep, AllocUnchanged, TypeOK, AllocPC, Fallible, Published
<1>19. ASSUME NEW w \in Workers, ReturnHandler(w) PROVE TypeOK'
  BY <1>19 DEF ReturnHandler, AllocStep, AllocUnchanged, TypeOK, AllocPC, Fallible, Published
<1>20. ASSUME NEW w \in Workers, MarkReady(w) PROVE TypeOK'
  BY <1>20 DEF MarkReady, AllocStep, AllocUnchanged, TypeOK, AllocPC, Fallible, Published
<1>21. ASSUME NEW w \in Workers, AllocFails(w) PROVE TypeOK'
  BY <1>21 DEF AllocFails, AllocUnchanged, TypeOK, AllocPC, Fallible, Published
<1>22. ASSUME NEW w \in Workers, WorkerTaskStart(w) PROVE TypeOK'
  BY <1>22 DEF WorkerTaskStart, workerUnchanged, TypeOK
<1>23. ASSUME NEW w \in Workers, WorkerTaskExit(w) PROVE TypeOK'
  BY <1>23 DEF WorkerTaskExit, workerUnchanged, TypeOK
<1>24. ASSUME NEW w \in Workers, NewReturns(w) PROVE TypeOK'
  BY <1>24 DEF NewReturns, workerUnchanged, TypeOK
<1>25. ASSUME NEW w \in Workers, TakeHandlerRx(w) PROVE TypeOK'
  BY <1>25 DEF TakeHandlerRx, workerUnchanged, TypeOK
<1>26. ASSUME NEW w \in Workers, Cancel(w) PROVE TypeOK'
  BY <1>26 DEF Cancel, workerUnchanged, TypeOK
<1>27. ASSUME NEW w \in Workers, DropWorker(w) PROVE TypeOK'
  BY <1>27 DEF DropWorker, workerUnchanged, TypeOK
<1>28. ASSUME NEW w \in Workers, DropHandlerRx(w) PROVE TypeOK'
  BY <1>28 DEF DropHandlerRx, workerUnchanged, TypeOK
<1>29. ASSUME NEW w \in Workers, AbandonNew(w) PROVE TypeOK'
  BY <1>29 DEF AbandonNew, workerUnchanged, TypeOK
<1>30. CASE UNCHANGED vars
  BY <1>30 DEF vars, TypeOK
<1> QED
  BY <1>1, <1>2, <1>3, <1>4, <1>5, <1>6, <1>7, <1>8, <1>9, <1>10, <1>11,
     <1>12, <1>13, <1>14, <1>15, <1>16, <1>17, <1>18, <1>19, <1>20, <1>21,
     <1>22, <1>23, <1>24, <1>25, <1>26, <1>27, <1>28, <1>29, <1>30
  DEF Next, Leader, Handler, Allocation, AllocSucceeds, Caller

\* Only the handler that swapped the flag may take the layout and spawn.
LEMMA FlightStep == TypeOK /\ FlightInv /\ [Next]_vars => FlightInv'
<1> SUFFICES ASSUME TypeOK, FlightInv, [Next]_vars PROVE FlightInv'
  OBVIOUS
<1> USE DEF leaderVars, metaVars, allocVars, callerVars
<1>1. ASSUME NEW w \in Workers, LeaderSend(w) PROVE FlightInv'
  BY <1>1 DEF LeaderSend, TypeOK, FlightInv
<1>2. ASSUME NEW w \in Workers, LeaderTransfer(w) PROVE FlightInv'
  BY <1>2 DEF LeaderTransfer, TypeOK, FlightInv
<1>3. ASSUME NEW a \in ackNet, LeaderReceive(a) PROVE FlightInv'
  BY <1>3 DEF LeaderReceive, TypeOK, FlightInv
<1>4. CASE LeaderAdvance
  BY <1>4 DEF LeaderAdvance, TypeOK, FlightInv
<1>5. ASSUME NEW m \in net, Lose(m) PROVE FlightInv'
  BY <1>5 DEF Lose, TypeOK, FlightInv
<1>6. ASSUME NEW m \in net, NEW s \in Slots, Deliver(m, s) PROVE FlightInv'
  BY <1>6, EntryPoints DEF Deliver, TypeOK, FlightInv
<1>7. ASSUME NEW w \in Workers, NEW s \in Slots, WorkerMetadataHandle(w, s) PROVE FlightInv'
  BY <1>7 DEF WorkerMetadataHandle, SendAnswer, Goto, TypeOK, FlightInv
<1>8. ASSUME NEW w \in Workers, NEW s \in Slots, LeaderMetadataAck(w, s) PROVE FlightInv'
  BY <1>8 DEF LeaderMetadataAck, SendAnswer, Goto, TypeOK, FlightInv
<1>9. ASSUME NEW w \in Workers, NEW s \in Slots, LeaderMetadataStart(w, s) PROVE FlightInv'
  BY <1>9 DEF LeaderMetadataStart, Goto, TypeOK, FlightInv
<1>10. ASSUME NEW w \in Workers, NEW s \in Slots, LeaderMetadataSpawn(w, s) PROVE FlightInv'
  BY <1>10 DEF LeaderMetadataSpawn, Goto, TypeOK, FlightInv
<1>11. ASSUME NEW w \in Workers, NEW s \in Slots, PingGate(w, s) PROVE FlightInv'
  BY <1>11 DEF PingGate, Goto, TypeOK, FlightInv
<1>12. ASSUME NEW w \in Workers, NEW s \in Slots, PingAck(w, s) PROVE FlightInv'
  BY <1>12 DEF PingAck, SendAnswer, Goto, TypeOK, FlightInv
<1>13. ASSUME NEW w \in Workers, NEW s \in Slots, PingFire(w, s) PROVE FlightInv'
  BY <1>13 DEF PingFire, Goto, TypeOK, FlightInv
<1>14. ASSUME NEW w \in Workers, NEW s \in Slots, BlockTransferDispatch(w, s) PROVE FlightInv'
  BY <1>14 DEF BlockTransferDispatch, Goto, TypeOK, FlightInv
<1>15. ASSUME NEW w \in Workers, BuildAgent(w) PROVE FlightInv'
  BY <1>15 DEF BuildAgent, AllocStep, AllocUnchanged, TypeOK, FlightInv
<1>16. ASSUME NEW w \in Workers, MakeBlocks(w) PROVE FlightInv'
  BY <1>16 DEF MakeBlocks, AllocStep, AllocUnchanged, TypeOK, FlightInv
<1>17. ASSUME NEW w \in Workers, BuildHandler(w) PROVE FlightInv'
  BY <1>17 DEF BuildHandler, AllocStep, AllocUnchanged, TypeOK, FlightInv
<1>18. ASSUME NEW w \in Workers, InstallHandler(w) PROVE FlightInv'
  BY <1>18 DEF InstallHandler, AllocStep, AllocUnchanged, TypeOK, FlightInv
<1>19. ASSUME NEW w \in Workers, ReturnHandler(w) PROVE FlightInv'
  BY <1>19 DEF ReturnHandler, AllocStep, AllocUnchanged, TypeOK, FlightInv
<1>20. ASSUME NEW w \in Workers, MarkReady(w) PROVE FlightInv'
  BY <1>20 DEF MarkReady, AllocStep, AllocUnchanged, TypeOK, FlightInv
<1>21. ASSUME NEW w \in Workers, AllocFails(w) PROVE FlightInv'
  BY <1>21 DEF AllocFails, AllocUnchanged, TypeOK, FlightInv, Fallible
<1>22. ASSUME NEW w \in Workers, WorkerTaskStart(w) PROVE FlightInv'
  BY <1>22 DEF WorkerTaskStart, workerUnchanged, TypeOK, FlightInv
<1>23. ASSUME NEW w \in Workers, WorkerTaskExit(w) PROVE FlightInv'
  BY <1>23 DEF WorkerTaskExit, workerUnchanged, TypeOK, FlightInv
<1>24. ASSUME NEW w \in Workers, NewReturns(w) PROVE FlightInv'
  BY <1>24 DEF NewReturns, workerUnchanged, TypeOK, FlightInv
<1>25. ASSUME NEW w \in Workers, TakeHandlerRx(w) PROVE FlightInv'
  BY <1>25 DEF TakeHandlerRx, workerUnchanged, TypeOK, FlightInv
<1>26. ASSUME NEW w \in Workers, Cancel(w) PROVE FlightInv'
  BY <1>26 DEF Cancel, workerUnchanged, TypeOK, FlightInv
<1>27. ASSUME NEW w \in Workers, DropWorker(w) PROVE FlightInv'
  BY <1>27 DEF DropWorker, workerUnchanged, TypeOK, FlightInv
<1>28. ASSUME NEW w \in Workers, DropHandlerRx(w) PROVE FlightInv'
  BY <1>28 DEF DropHandlerRx, workerUnchanged, TypeOK, FlightInv
<1>29. ASSUME NEW w \in Workers, AbandonNew(w) PROVE FlightInv'
  BY <1>29 DEF AbandonNew, workerUnchanged, TypeOK, FlightInv
<1>30. CASE UNCHANGED vars
  BY <1>30 DEF vars, TypeOK, FlightInv
<1> QED
  BY <1>1, <1>2, <1>3, <1>4, <1>5, <1>6, <1>7, <1>8, <1>9, <1>10, <1>11,
     <1>12, <1>13, <1>14, <1>15, <1>16, <1>17, <1>18, <1>19, <1>20, <1>21,
     <1>22, <1>23, <1>24, <1>25, <1>26, <1>27, <1>28, <1>29, <1>30
  DEF Next, Leader, Handler, Allocation, AllocSucceeds, Caller

\* A handler that is not on its way to the allocation can move, and answer
\* another message than leader_metadata, without disturbing one that is.
LEMMA OthersMove ==
  ASSUME TypeOK, MetaInv, NEW w \in Workers, NEW s \in Slots,
         NEW to \in PC, Goto(w, s, to), pc[w][s] \notin {"meta_cas", "meta_take"},
         "malformed" \notin Events => to # "meta_ack_bad",
         UNCHANGED <<alloc, started, phase, acks>>, net' \subseteq net,
         \A a \in ackNet' : a \in ackNet \/ a.kind # "leader_meta"
  PROVE  MetaInv'
<1>1. \A v \in Workers, r \in Slots :
        pc[v][r] \in {"meta_cas", "meta_take"} => pc'[v][r] = pc[v][r]
  BY DEF Goto, TypeOK
<1>2. ASSUME NEW v \in Workers, Begun(v) PROVE Begun(v)'
  BY <1>1, <1>2 DEF Begun
<1>3. ASSUME NEW v \in Workers, started'[v]
      PROVE  alloc'[v] # "none" \/ \E r \in Slots : pc'[v][r] = "meta_take"
  BY <1>1, <1>3 DEF MetaInv
<1>4. ASSUME "malformed" \notin Events
      PROVE  /\ \A m \in net' : m.ok
             /\ \A v \in Workers, r \in Slots : pc'[v][r] # "meta_ack_bad"
  BY <1>4 DEF Goto, TypeOK, MetaInv
<1>5. ASSUME "malformed" \notin Events, NEW a \in ackNet', a.kind = "leader_meta"
      PROVE  Begun(a.from)'
  <2>1. a \in ackNet /\ a.from \in Workers
    BY <1>5 DEF TypeOK, Answer
  <2>2. Begun(a.from)
    BY <1>5, <2>1 DEF MetaInv
  <2> QED
    BY <1>2, <2>1, <2>2
<1>6. ASSUME "malformed" \notin Events, phase' = "leader_meta", NEW v \in acks'
      PROVE  Begun(v)'
  <2>1. v \in Workers /\ Begun(v)
    BY <1>6 DEF TypeOK, MetaInv
  <2> QED
    BY <1>2, <2>1
<1>7. ASSUME "malformed" \notin Events, phase' \in {"ping", "up"}, NEW v \in Workers
      PROVE  Begun(v)'
  <2>1. Begun(v)
    BY <1>7 DEF MetaInv
  <2> QED
    BY <1>2, <2>1
<1> QED
  BY <1>3, <1>4, <1>5, <1>6, <1>7 DEF MetaInv

\* A handler that finds the flag swapped leaves the allocation to another one,
\* so what has begun stays begun and answers tell the truth.
LEMMA MetaStep == TypeOK /\ FlightInv /\ MetaInv /\ [Next]_vars => MetaInv'
<1> SUFFICES ASSUME TypeOK, FlightInv, MetaInv, [Next]_vars PROVE MetaInv'
  OBVIOUS
<1> USE DEF leaderVars, metaVars, allocVars, callerVars
<1>1. ASSUME NEW w \in Workers, LeaderSend(w) PROVE MetaInv'
  <2>1. PICK ok \in {TRUE} \cup {b \in {FALSE} : phase = "leader_meta" /\ "malformed" \in Events} :
          net' = net \cup {[to |-> w, kind |-> phase, ok |-> ok]}
    BY <1>1 DEF LeaderSend
  <2>2. ASSUME "malformed" \notin Events PROVE \A m \in net' : m.ok
    <3>1. ok
      BY <2>2, <2>1
    <3> QED
      BY <2>2, <2>1, <3>1 DEF MetaInv
  <2> QED
    BY <1>1, <2>2 DEF LeaderSend, MetaInv, Begun
<1>2. ASSUME NEW w \in Workers, LeaderTransfer(w) PROVE MetaInv'
  BY <1>2 DEF LeaderTransfer, TypeOK, MetaInv, Begun
<1>3. ASSUME NEW a \in ackNet, LeaderReceive(a) PROVE MetaInv'
  BY <1>3 DEF LeaderReceive, TypeOK, Answer, MetaInv, Begun
<1>4. CASE LeaderAdvance
  BY <1>4 DEF LeaderAdvance, TypeOK, MetaInv, Begun, NextPhase, Rounds
<1>5. ASSUME NEW m \in net, Lose(m) PROVE MetaInv'
  BY <1>5 DEF Lose, TypeOK, MetaInv, Begun
<1>6. ASSUME NEW m \in net, NEW s \in Slots, Deliver(m, s) PROVE MetaInv'
  <2>1. m.to \in Workers /\ Goto(m.to, s, Entry(m)) /\ pc[m.to][s] = "idle"
    BY <1>6, EntryPoints DEF Deliver, Goto
  <2>2. m.kind \in Kinds /\ ("malformed" \notin Events => m.ok)
    BY DEF TypeOK, Message, MetaInv
  <2>3. Entry(m) \in PC /\ ("malformed" \notin Events => Entry(m) # "meta_ack_bad")
    BY <2>2, EntryPoints DEF Entry, Kinds, Rounds
  <2> QED
    BY <1>6, <2>1, <2>3, OthersMove DEF Deliver
<1>7. ASSUME NEW w \in Workers, NEW s \in Slots, WorkerMetadataHandle(w, s) PROVE MetaInv'
  <2>1. PICK to \in PC \ {"meta_ack_bad"} : Goto(w, s, to)
    BY <1>7, Zenon DEF WorkerMetadataHandle, PC, PingPC
  <2> QED
    BY <1>7, <2>1, OthersMove DEF WorkerMetadataHandle, SendAnswer
<1>8. ASSUME NEW w \in Workers, NEW s \in Slots, LeaderMetadataAck(w, s) PROVE MetaInv'
  BY <1>8 DEF LeaderMetadataAck, SendAnswer, Goto, TypeOK, MetaInv, Begun
<1>9. ASSUME NEW w \in Workers, NEW s \in Slots, LeaderMetadataStart(w, s) PROVE MetaInv'
  BY <1>9 DEF LeaderMetadataStart, Goto, TypeOK, MetaInv, Begun
<1>10. ASSUME NEW w \in Workers, NEW s \in Slots, LeaderMetadataSpawn(w, s) PROVE MetaInv'
  BY <1>10 DEF LeaderMetadataSpawn, Goto, TypeOK, FlightInv, MetaInv, Begun
<1>11. ASSUME NEW w \in Workers, NEW s \in Slots, PingGate(w, s) PROVE MetaInv'
  <2>1. PICK to \in PC \ {"meta_ack_bad"} : Goto(w, s, to)
    BY <1>11, Zenon DEF PingGate, PC, PingPC
  <2> QED
    BY <1>11, <2>1, OthersMove DEF PingGate
<1>12. ASSUME NEW w \in Workers, NEW s \in Slots, PingAck(w, s) PROVE MetaInv'
  <2>1. PICK to \in PC \ {"meta_ack_bad"} : Goto(w, s, to)
    BY <1>12, Zenon DEF PingAck, PC, PingPC
  <2> QED
    BY <1>12, <2>1, OthersMove DEF PingAck, SendAnswer
<1>13. ASSUME NEW w \in Workers, NEW s \in Slots, PingFire(w, s) PROVE MetaInv'
  <2>1. PICK to \in PC \ {"meta_ack_bad"} : Goto(w, s, to)
    BY <1>13, Zenon DEF PingFire, PC, PingPC
  <2> QED
    BY <1>13, <2>1, OthersMove DEF PingFire
<1>14. ASSUME NEW w \in Workers, NEW s \in Slots, BlockTransferDispatch(w, s) PROVE MetaInv'
  <2>1. PICK to \in PC \ {"meta_ack_bad"} : Goto(w, s, to)
    BY <1>14, Zenon DEF BlockTransferDispatch, PC, PingPC
  <2> QED
    BY <1>14, <2>1, OthersMove DEF BlockTransferDispatch
<1>15. ASSUME NEW w \in Workers, BuildAgent(w) PROVE MetaInv'
  BY <1>15 DEF BuildAgent, AllocStep, AllocUnchanged, TypeOK, MetaInv, Begun
<1>16. ASSUME NEW w \in Workers, MakeBlocks(w) PROVE MetaInv'
  BY <1>16 DEF MakeBlocks, AllocStep, AllocUnchanged, TypeOK, MetaInv, Begun
<1>17. ASSUME NEW w \in Workers, BuildHandler(w) PROVE MetaInv'
  BY <1>17 DEF BuildHandler, AllocStep, AllocUnchanged, TypeOK, MetaInv, Begun
<1>18. ASSUME NEW w \in Workers, InstallHandler(w) PROVE MetaInv'
  BY <1>18 DEF InstallHandler, AllocStep, AllocUnchanged, TypeOK, MetaInv, Begun
<1>19. ASSUME NEW w \in Workers, ReturnHandler(w) PROVE MetaInv'
  BY <1>19 DEF ReturnHandler, AllocStep, AllocUnchanged, TypeOK, MetaInv, Begun
<1>20. ASSUME NEW w \in Workers, MarkReady(w) PROVE MetaInv'
  BY <1>20 DEF MarkReady, AllocStep, AllocUnchanged, TypeOK, MetaInv, Begun
<1>21. ASSUME NEW w \in Workers, AllocFails(w) PROVE MetaInv'
  BY <1>21 DEF AllocFails, AllocUnchanged, TypeOK, MetaInv, Begun, Fallible
<1>22. ASSUME NEW w \in Workers, WorkerTaskStart(w) PROVE MetaInv'
  BY <1>22 DEF WorkerTaskStart, workerUnchanged, TypeOK, MetaInv, Begun
<1>23. ASSUME NEW w \in Workers, WorkerTaskExit(w) PROVE MetaInv'
  BY <1>23 DEF WorkerTaskExit, workerUnchanged, TypeOK, MetaInv, Begun
<1>24. ASSUME NEW w \in Workers, NewReturns(w) PROVE MetaInv'
  BY <1>24 DEF NewReturns, workerUnchanged, TypeOK, MetaInv, Begun
<1>25. ASSUME NEW w \in Workers, TakeHandlerRx(w) PROVE MetaInv'
  BY <1>25 DEF TakeHandlerRx, workerUnchanged, TypeOK, MetaInv, Begun
<1>26. ASSUME NEW w \in Workers, Cancel(w) PROVE MetaInv'
  BY <1>26 DEF Cancel, workerUnchanged, TypeOK, MetaInv, Begun
<1>27. ASSUME NEW w \in Workers, DropWorker(w) PROVE MetaInv'
  BY <1>27 DEF DropWorker, workerUnchanged, TypeOK, MetaInv, Begun
<1>28. ASSUME NEW w \in Workers, DropHandlerRx(w) PROVE MetaInv'
  BY <1>28 DEF DropHandlerRx, workerUnchanged, TypeOK, MetaInv, Begun
<1>29. ASSUME NEW w \in Workers, AbandonNew(w) PROVE MetaInv'
  BY <1>29 DEF AbandonNew, workerUnchanged, TypeOK, MetaInv, Begun
<1>30. CASE UNCHANGED vars
  BY <1>30 DEF vars, TypeOK, MetaInv, Begun
<1> QED
  BY <1>1, <1>2, <1>3, <1>4, <1>5, <1>6, <1>7, <1>8, <1>9, <1>10, <1>11,
     <1>12, <1>13, <1>14, <1>15, <1>16, <1>17, <1>18, <1>19, <1>20, <1>21,
     <1>22, <1>23, <1>24, <1>25, <1>26, <1>27, <1>28, <1>29, <1>30
  DEF Next, Leader, Handler, Allocation, AllocSucceeds, Caller

\* The handler cell, the creator's channel and the ready flag follow the
\* allocation task in this order.
LEMMA PublishStep == TypeOK /\ FlightInv /\ PublishInv /\ [Next]_vars => PublishInv'
<1> SUFFICES ASSUME TypeOK, FlightInv, PublishInv, [Next]_vars PROVE PublishInv'
  OBVIOUS
<1> USE DEF leaderVars, metaVars, allocVars, callerVars
<1>1. ASSUME NEW w \in Workers, LeaderSend(w) PROVE PublishInv'
  BY <1>1 DEF LeaderSend, TypeOK, PublishInv, Published
<1>2. ASSUME NEW w \in Workers, LeaderTransfer(w) PROVE PublishInv'
  BY <1>2 DEF LeaderTransfer, TypeOK, PublishInv, Published
<1>3. ASSUME NEW a \in ackNet, LeaderReceive(a) PROVE PublishInv'
  BY <1>3 DEF LeaderReceive, TypeOK, PublishInv, Published
<1>4. CASE LeaderAdvance
  BY <1>4 DEF LeaderAdvance, TypeOK, PublishInv, Published
<1>5. ASSUME NEW m \in net, Lose(m) PROVE PublishInv'
  BY <1>5 DEF Lose, TypeOK, PublishInv, Published
<1>6. ASSUME NEW m \in net, NEW s \in Slots, Deliver(m, s) PROVE PublishInv'
  BY <1>6 DEF Deliver, TypeOK, PublishInv, Published
<1>7. ASSUME NEW w \in Workers, NEW s \in Slots, WorkerMetadataHandle(w, s) PROVE PublishInv'
  BY <1>7 DEF WorkerMetadataHandle, SendAnswer, Goto, TypeOK, PublishInv, Published
<1>8. ASSUME NEW w \in Workers, NEW s \in Slots, LeaderMetadataAck(w, s) PROVE PublishInv'
  BY <1>8 DEF LeaderMetadataAck, SendAnswer, Goto, TypeOK, PublishInv, Published
<1>9. ASSUME NEW w \in Workers, NEW s \in Slots, LeaderMetadataStart(w, s) PROVE PublishInv'
  BY <1>9 DEF LeaderMetadataStart, Goto, TypeOK, PublishInv, Published
<1>10. ASSUME NEW w \in Workers, NEW s \in Slots, LeaderMetadataSpawn(w, s) PROVE PublishInv'
  BY <1>10 DEF LeaderMetadataSpawn, Goto, TypeOK, FlightInv, PublishInv, Published
<1>11. ASSUME NEW w \in Workers, NEW s \in Slots, PingGate(w, s) PROVE PublishInv'
  BY <1>11 DEF PingGate, Goto, TypeOK, PublishInv, Published
<1>12. ASSUME NEW w \in Workers, NEW s \in Slots, PingAck(w, s) PROVE PublishInv'
  BY <1>12 DEF PingAck, SendAnswer, Goto, TypeOK, PublishInv, Published
<1>13. ASSUME NEW w \in Workers, NEW s \in Slots, PingFire(w, s) PROVE PublishInv'
  BY <1>13 DEF PingFire, Goto, TypeOK, PublishInv, Published
<1>14. ASSUME NEW w \in Workers, NEW s \in Slots, BlockTransferDispatch(w, s) PROVE PublishInv'
  BY <1>14 DEF BlockTransferDispatch, Goto, TypeOK, PublishInv, Published
<1>15. ASSUME NEW w \in Workers, BuildAgent(w) PROVE PublishInv'
  BY <1>15 DEF BuildAgent, AllocStep, AllocUnchanged, TypeOK, PublishInv, Published
<1>16. ASSUME NEW w \in Workers, MakeBlocks(w) PROVE PublishInv'
  BY <1>16 DEF MakeBlocks, AllocStep, AllocUnchanged, TypeOK, PublishInv, Published
<1>17. ASSUME NEW w \in Workers, BuildHandler(w) PROVE PublishInv'
  BY <1>17 DEF BuildHandler, AllocStep, AllocUnchanged, TypeOK, PublishInv, Published
<1>18. ASSUME NEW w \in Workers, InstallHandler(w) PROVE PublishInv'
  BY <1>18 DEF InstallHandler, AllocStep, AllocUnchanged, TypeOK, PublishInv, Published
<1>19. ASSUME NEW w \in Workers, ReturnHandler(w) PROVE PublishInv'
  BY <1>19 DEF ReturnHandler, AllocStep, AllocUnchanged, TypeOK, PublishInv, Published
<1>20. ASSUME NEW w \in Workers, MarkReady(w) PROVE PublishInv'
  BY <1>20 DEF MarkReady, AllocStep, AllocUnchanged, TypeOK, PublishInv, Published
<1>21. ASSUME NEW w \in Workers, AllocFails(w) PROVE PublishInv'
  BY <1>21 DEF AllocFails, AllocUnchanged, TypeOK, PublishInv, Published, Fallible
<1>22. ASSUME NEW w \in Workers, WorkerTaskStart(w) PROVE PublishInv'
  BY <1>22 DEF WorkerTaskStart, workerUnchanged, TypeOK, PublishInv, Published
<1>23. ASSUME NEW w \in Workers, WorkerTaskExit(w) PROVE PublishInv'
  BY <1>23 DEF WorkerTaskExit, workerUnchanged, TypeOK, PublishInv, Published
<1>24. ASSUME NEW w \in Workers, NewReturns(w) PROVE PublishInv'
  BY <1>24 DEF NewReturns, workerUnchanged, TypeOK, PublishInv, Published
<1>25. ASSUME NEW w \in Workers, TakeHandlerRx(w) PROVE PublishInv'
  BY <1>25 DEF TakeHandlerRx, workerUnchanged, TypeOK, PublishInv, Published
<1>26. ASSUME NEW w \in Workers, Cancel(w) PROVE PublishInv'
  BY <1>26 DEF Cancel, workerUnchanged, TypeOK, PublishInv, Published
<1>27. ASSUME NEW w \in Workers, DropWorker(w) PROVE PublishInv'
  BY <1>27 DEF DropWorker, workerUnchanged, TypeOK, PublishInv, Published
<1>28. ASSUME NEW w \in Workers, DropHandlerRx(w) PROVE PublishInv'
  BY <1>28 DEF DropHandlerRx, workerUnchanged, TypeOK, PublishInv, Published
<1>29. ASSUME NEW w \in Workers, AbandonNew(w) PROVE PublishInv'
  BY <1>29 DEF AbandonNew, workerUnchanged, TypeOK, PublishInv, Published
<1>30. CASE UNCHANGED vars
  BY <1>30 DEF vars, TypeOK, PublishInv, Published
<1> QED
  BY <1>1, <1>2, <1>3, <1>4, <1>5, <1>6, <1>7, <1>8, <1>9, <1>10, <1>11,
     <1>12, <1>13, <1>14, <1>15, <1>16, <1>17, <1>18, <1>19, <1>20, <1>21,
     <1>22, <1>23, <1>24, <1>25, <1>26, <1>27, <1>28, <1>29, <1>30
  DEF Next, Leader, Handler, Allocation, AllocSucceeds, Caller

\* Readiness is never taken back, so it travels with every ping answer.
LEMMA PingStep == TypeOK /\ PublishInv /\ PingInv /\ [Next]_vars => PingInv'
<1> SUFFICES ASSUME TypeOK, PublishInv, PingInv, [Next]_vars PROVE PingInv'
  OBVIOUS
<1> USE DEF leaderVars, metaVars, allocVars, callerVars
<1>1. ASSUME NEW w \in Workers, LeaderSend(w) PROVE PingInv'
  BY <1>1 DEF LeaderSend, TypeOK, PingInv
<1>2. ASSUME NEW w \in Workers, LeaderTransfer(w) PROVE PingInv'
  BY <1>2 DEF LeaderTransfer, TypeOK, PingInv
<1>3. ASSUME NEW a \in ackNet, LeaderReceive(a) PROVE PingInv'
  BY <1>3 DEF LeaderReceive, TypeOK, PingInv, Answer
<1>4. CASE LeaderAdvance
  BY <1>4 DEF LeaderAdvance, TypeOK, PingInv, NextPhase, Rounds
<1>5. ASSUME NEW m \in net, Lose(m) PROVE PingInv'
  BY <1>5 DEF Lose, TypeOK, PingInv
<1>6. ASSUME NEW m \in net, NEW s \in Slots, Deliver(m, s) PROVE PingInv'
  BY <1>6, EntryPoints DEF Deliver, TypeOK, PingInv
<1>7. ASSUME NEW w \in Workers, NEW s \in Slots, WorkerMetadataHandle(w, s) PROVE PingInv'
  BY <1>7 DEF WorkerMetadataHandle, SendAnswer, Goto, TypeOK, PingInv
<1>8. ASSUME NEW w \in Workers, NEW s \in Slots, LeaderMetadataAck(w, s) PROVE PingInv'
  BY <1>8 DEF LeaderMetadataAck, SendAnswer, Goto, TypeOK, PingInv
<1>9. ASSUME NEW w \in Workers, NEW s \in Slots, LeaderMetadataStart(w, s) PROVE PingInv'
  BY <1>9 DEF LeaderMetadataStart, Goto, TypeOK, PingInv
<1>10. ASSUME NEW w \in Workers, NEW s \in Slots, LeaderMetadataSpawn(w, s) PROVE PingInv'
  BY <1>10 DEF LeaderMetadataSpawn, Goto, TypeOK, PingInv
<1>11. ASSUME NEW w \in Workers, NEW s \in Slots, PingGate(w, s) PROVE PingInv'
  BY <1>11 DEF PingGate, Goto, TypeOK, PingInv
<1>12. ASSUME NEW w \in Workers, NEW s \in Slots, PingAck(w, s) PROVE PingInv'
  BY <1>12 DEF PingAck, SendAnswer, Goto, TypeOK, PingInv
<1>13. ASSUME NEW w \in Workers, NEW s \in Slots, PingFire(w, s) PROVE PingInv'
  BY <1>13 DEF PingFire, Goto, TypeOK, PingInv
<1>14. ASSUME NEW w \in Workers, NEW s \in Slots, BlockTransferDispatch(w, s) PROVE PingInv'
  BY <1>14 DEF BlockTransferDispatch, Goto, TypeOK, PingInv
<1>15. ASSUME NEW w \in Workers, BuildAgent(w) PROVE PingInv'
  BY <1>15 DEF BuildAgent, AllocStep, AllocUnchanged, TypeOK, PingInv
<1>16. ASSUME NEW w \in Workers, MakeBlocks(w) PROVE PingInv'
  BY <1>16 DEF MakeBlocks, AllocStep, AllocUnchanged, TypeOK, PingInv
<1>17. ASSUME NEW w \in Workers, BuildHandler(w) PROVE PingInv'
  BY <1>17 DEF BuildHandler, AllocStep, AllocUnchanged, TypeOK, PingInv
<1>18. ASSUME NEW w \in Workers, InstallHandler(w) PROVE PingInv'
  BY <1>18 DEF InstallHandler, AllocStep, AllocUnchanged, TypeOK, PingInv
<1>19. ASSUME NEW w \in Workers, ReturnHandler(w) PROVE PingInv'
  BY <1>19 DEF ReturnHandler, AllocStep, AllocUnchanged, TypeOK, PingInv
<1>20. ASSUME NEW w \in Workers, MarkReady(w) PROVE PingInv'
  BY <1>20 DEF MarkReady, AllocStep, AllocUnchanged, TypeOK, PingInv
<1>21. ASSUME NEW w \in Workers, AllocFails(w) PROVE PingInv'
  BY <1>21 DEF AllocFails, AllocUnchanged, TypeOK, PingInv
<1>22. ASSUME NEW w \in Workers, WorkerTaskStart(w) PROVE PingInv'
  BY <1>22 DEF WorkerTaskStart, workerUnchanged, TypeOK, PingInv
<1>23. ASSUME NEW w \in Workers, WorkerTaskExit(w) PROVE PingInv'
  BY <1>23 DEF WorkerTaskExit, workerUnchanged, TypeOK, PingInv
<1>24. ASSUME NEW w \in Workers, NewReturns(w) PROVE PingInv'
  BY <1>24 DEF NewReturns, workerUnchanged, TypeOK, PingInv
<1>25. ASSUME NEW w \in Workers, TakeHandlerRx(w) PROVE PingInv'
  BY <1>25 DEF TakeHandlerRx, workerUnchanged, TypeOK, PingInv
<1>26. ASSUME NEW w \in Workers, Cancel(w) PROVE PingInv'
  BY <1>26 DEF Cancel, workerUnchanged, TypeOK, PingInv
<1>27. ASSUME NEW w \in Workers, DropWorker(w) PROVE PingInv'
  BY <1>27 DEF DropWorker, workerUnchanged, TypeOK, PingInv
<1>28. ASSUME NEW w \in Workers, DropHandlerRx(w) PROVE PingInv'
  BY <1>28 DEF DropHandlerRx, workerUnchanged, TypeOK, PingInv
<1>29. ASSUME NEW w \in Workers, AbandonNew(w) PROVE PingInv'
  BY <1>29 DEF AbandonNew, workerUnchanged, TypeOK, PingInv
<1>30. CASE UNCHANGED vars
  BY <1>30 DEF vars, TypeOK, PingInv
<1> QED
  BY <1>1, <1>2, <1>3, <1>4, <1>5, <1>6, <1>7, <1>8, <1>9, <1>10, <1>11,
     <1>12, <1>13, <1>14, <1>15, <1>16, <1>17, <1>18, <1>19, <1>20, <1>21,
     <1>22, <1>23, <1>24, <1>25, <1>26, <1>27, <1>28, <1>29, <1>30
  DEF Next, Leader, Handler, Allocation, AllocSucceeds, Caller

\* A handler that is not about to fire the signal can move without disturbing
\* one that is.
LEMMA SignalKept ==
  ASSUME TypeOK, SignalInv, NEW w \in Workers, NEW s \in Slots,
         NEW to, Goto(w, s, to), pc[w][s] # "ping_fire",
         UNCHANGED <<phase, acks, layoutTx, pingAcked>>
  PROVE  SignalInv'
<1>1. \A v \in Workers, r \in Slots : pc[v][r] = "ping_fire" => pc'[v][r] = pc[v][r]
  BY DEF Goto, TypeOK
<1>2. ASSUME NEW v \in Workers, pingAcked'[v] PROVE SignalDue(v)'
  <2>1. layoutTx[v] = "sent" \/ \E r \in Slots : pc[v][r] = "ping_fire"
    BY <1>2 DEF SignalInv, SignalDue
  <2> QED
    BY <1>1, <2>1 DEF SignalDue
<1> QED
  BY <1>2 DEF SignalInv

\* Only an answer that was sent leads a handler to the signal, and every such
\* handler fires it.
LEMMA SignalStep == TypeOK /\ PingInv /\ SignalInv /\ [Next]_vars => SignalInv'
<1> SUFFICES ASSUME TypeOK, PingInv, SignalInv, [Next]_vars PROVE SignalInv'
  OBVIOUS
<1> USE DEF leaderVars, metaVars, allocVars, callerVars
<1>1. ASSUME NEW w \in Workers, LeaderSend(w) PROVE SignalInv'
  BY <1>1 DEF LeaderSend, TypeOK, SignalInv, SignalDue
<1>2. ASSUME NEW w \in Workers, LeaderTransfer(w) PROVE SignalInv'
  BY <1>2 DEF LeaderTransfer, TypeOK, SignalInv, SignalDue
<1>3. ASSUME NEW a \in ackNet, LeaderReceive(a) PROVE SignalInv'
  BY <1>3 DEF LeaderReceive, TypeOK, Answer, PingInv, SignalInv, SignalDue
<1>4. CASE LeaderAdvance
  BY <1>4 DEF LeaderAdvance, NextPhase, Rounds, TypeOK, SignalInv, SignalDue
<1>5. ASSUME NEW m \in net, Lose(m) PROVE SignalInv'
  BY <1>5 DEF Lose, TypeOK, SignalInv, SignalDue
<1>6. ASSUME NEW m \in net, NEW s \in Slots, Deliver(m, s) PROVE SignalInv'
  BY <1>6, EntryPoints, SignalKept DEF Deliver, Goto
<1>7. ASSUME NEW w \in Workers, NEW s \in Slots, WorkerMetadataHandle(w, s) PROVE SignalInv'
  BY <1>7, SignalKept DEF WorkerMetadataHandle
<1>8. ASSUME NEW w \in Workers, NEW s \in Slots, LeaderMetadataAck(w, s) PROVE SignalInv'
  BY <1>8, SignalKept DEF LeaderMetadataAck
<1>9. ASSUME NEW w \in Workers, NEW s \in Slots, LeaderMetadataStart(w, s) PROVE SignalInv'
  BY <1>9, SignalKept DEF LeaderMetadataStart
<1>10. ASSUME NEW w \in Workers, NEW s \in Slots, LeaderMetadataSpawn(w, s) PROVE SignalInv'
  BY <1>10, SignalKept DEF LeaderMetadataSpawn
<1>11. ASSUME NEW w \in Workers, NEW s \in Slots, PingGate(w, s) PROVE SignalInv'
  BY <1>11, SignalKept DEF PingGate
<1>12. ASSUME NEW w \in Workers, NEW s \in Slots, PingAck(w, s) PROVE SignalInv'
  BY <1>12 DEF PingAck, SendAnswer, Goto, TypeOK, SignalInv, SignalDue
<1>13. ASSUME NEW w \in Workers, NEW s \in Slots, PingFire(w, s) PROVE SignalInv'
  BY <1>13 DEF PingFire, Goto, TypeOK, SignalInv, SignalDue
<1>14. ASSUME NEW w \in Workers, NEW s \in Slots, BlockTransferDispatch(w, s) PROVE SignalInv'
  BY <1>14, SignalKept DEF BlockTransferDispatch
<1>15. ASSUME NEW w \in Workers, BuildAgent(w) PROVE SignalInv'
  BY <1>15 DEF BuildAgent, AllocStep, AllocUnchanged, TypeOK, SignalInv, SignalDue
<1>16. ASSUME NEW w \in Workers, MakeBlocks(w) PROVE SignalInv'
  BY <1>16 DEF MakeBlocks, AllocStep, AllocUnchanged, TypeOK, SignalInv, SignalDue
<1>17. ASSUME NEW w \in Workers, BuildHandler(w) PROVE SignalInv'
  BY <1>17 DEF BuildHandler, AllocStep, AllocUnchanged, TypeOK, SignalInv, SignalDue
<1>18. ASSUME NEW w \in Workers, InstallHandler(w) PROVE SignalInv'
  BY <1>18 DEF InstallHandler, AllocStep, AllocUnchanged, TypeOK, SignalInv, SignalDue
<1>19. ASSUME NEW w \in Workers, ReturnHandler(w) PROVE SignalInv'
  BY <1>19 DEF ReturnHandler, AllocStep, AllocUnchanged, TypeOK, SignalInv, SignalDue
<1>20. ASSUME NEW w \in Workers, MarkReady(w) PROVE SignalInv'
  BY <1>20 DEF MarkReady, AllocStep, AllocUnchanged, TypeOK, SignalInv, SignalDue
<1>21. ASSUME NEW w \in Workers, AllocFails(w) PROVE SignalInv'
  BY <1>21 DEF AllocFails, AllocUnchanged, TypeOK, SignalInv, SignalDue, Fallible
<1>22. ASSUME NEW w \in Workers, WorkerTaskStart(w) PROVE SignalInv'
  BY <1>22 DEF WorkerTaskStart, workerUnchanged, TypeOK, SignalInv, SignalDue
<1>23. ASSUME NEW w \in Workers, WorkerTaskExit(w) PROVE SignalInv'
  BY <1>23 DEF WorkerTaskExit, workerUnchanged, TypeOK, SignalInv, SignalDue
<1>24. ASSUME NEW w \in Workers, NewReturns(w) PROVE SignalInv'
  BY <1>24 DEF NewReturns, workerUnchanged, TypeOK, SignalInv, SignalDue
<1>25. ASSUME NEW w \in Workers, TakeHandlerRx(w) PROVE SignalInv'
  BY <1>25 DEF TakeHandlerRx, workerUnchanged, TypeOK, SignalInv, SignalDue
<1>26. ASSUME NEW w \in Workers, Cancel(w) PROVE SignalInv'
  BY <1>26 DEF Cancel, workerUnchanged, TypeOK, SignalInv, SignalDue
<1>27. ASSUME NEW w \in Workers, DropWorker(w) PROVE SignalInv'
  BY <1>27 DEF DropWorker, workerUnchanged, TypeOK, SignalInv, SignalDue
<1>28. ASSUME NEW w \in Workers, DropHandlerRx(w) PROVE SignalInv'
  BY <1>28 DEF DropHandlerRx, workerUnchanged, TypeOK, SignalInv, SignalDue
<1>29. ASSUME NEW w \in Workers, AbandonNew(w) PROVE SignalInv'
  BY <1>29 DEF AbandonNew, workerUnchanged, TypeOK, SignalInv, SignalDue
<1>30. CASE UNCHANGED vars
  BY <1>30 DEF vars, TypeOK, SignalInv, SignalDue
<1> QED
  BY <1>1, <1>2, <1>3, <1>4, <1>5, <1>6, <1>7, <1>8, <1>9, <1>10, <1>11,
     <1>12, <1>13, <1>14, <1>15, <1>16, <1>17, <1>18, <1>19, <1>20, <1>21,
     <1>22, <1>23, <1>24, <1>25, <1>26, <1>27, <1>28, <1>29, <1>30
  DEF Next, Leader, Handler, Allocation, AllocSucceeds, Caller

\* The pools are those of the rank once they are made, and a failure drops them.
LEMMA TierStep == TypeOK /\ FlightInv /\ TierInv /\ [Next]_vars => TierInv'
<1> SUFFICES ASSUME TypeOK, FlightInv, TierInv, [Next]_vars PROVE TierInv'
  OBVIOUS
<1> USE DEF leaderVars, metaVars, allocVars, callerVars
<1>1. ASSUME NEW w \in Workers, LeaderSend(w) PROVE TierInv'
  BY <1>1 DEF LeaderSend, TypeOK, TierInv, Published
<1>2. ASSUME NEW w \in Workers, LeaderTransfer(w) PROVE TierInv'
  BY <1>2 DEF LeaderTransfer, TypeOK, TierInv, Published
<1>3. ASSUME NEW a \in ackNet, LeaderReceive(a) PROVE TierInv'
  BY <1>3 DEF LeaderReceive, TypeOK, TierInv, Published
<1>4. CASE LeaderAdvance
  BY <1>4 DEF LeaderAdvance, TypeOK, TierInv, Published
<1>5. ASSUME NEW m \in net, Lose(m) PROVE TierInv'
  BY <1>5 DEF Lose, TypeOK, TierInv, Published
<1>6. ASSUME NEW m \in net, NEW s \in Slots, Deliver(m, s) PROVE TierInv'
  BY <1>6 DEF Deliver, TypeOK, TierInv, Published
<1>7. ASSUME NEW w \in Workers, NEW s \in Slots, WorkerMetadataHandle(w, s) PROVE TierInv'
  BY <1>7 DEF WorkerMetadataHandle, SendAnswer, Goto, TypeOK, TierInv, Published
<1>8. ASSUME NEW w \in Workers, NEW s \in Slots, LeaderMetadataAck(w, s) PROVE TierInv'
  BY <1>8 DEF LeaderMetadataAck, SendAnswer, Goto, TypeOK, TierInv, Published
<1>9. ASSUME NEW w \in Workers, NEW s \in Slots, LeaderMetadataStart(w, s) PROVE TierInv'
  BY <1>9 DEF LeaderMetadataStart, Goto, TypeOK, TierInv, Published
<1>10. ASSUME NEW w \in Workers, NEW s \in Slots, LeaderMetadataSpawn(w, s) PROVE TierInv'
  BY <1>10 DEF LeaderMetadataSpawn, Goto, TypeOK, TierInv, Published, FlightInv
<1>11. ASSUME NEW w \in Workers, NEW s \in Slots, PingGate(w, s) PROVE TierInv'
  BY <1>11 DEF PingGate, Goto, TypeOK, TierInv, Published
<1>12. ASSUME NEW w \in Workers, NEW s \in Slots, PingAck(w, s) PROVE TierInv'
  BY <1>12 DEF PingAck, SendAnswer, Goto, TypeOK, TierInv, Published
<1>13. ASSUME NEW w \in Workers, NEW s \in Slots, PingFire(w, s) PROVE TierInv'
  BY <1>13 DEF PingFire, Goto, TypeOK, TierInv, Published
<1>14. ASSUME NEW w \in Workers, NEW s \in Slots, BlockTransferDispatch(w, s) PROVE TierInv'
  BY <1>14 DEF BlockTransferDispatch, Goto, TypeOK, TierInv, Published
<1>15. ASSUME NEW w \in Workers, BuildAgent(w) PROVE TierInv'
  BY <1>15 DEF BuildAgent, AllocStep, AllocUnchanged, TypeOK, TierInv, Published
<1>16. ASSUME NEW w \in Workers, MakeBlocks(w) PROVE TierInv'
  BY <1>16 DEF MakeBlocks, AllocStep, AllocUnchanged, TypeOK, TierInv, Published, HostBlocks, DiskBlocks
<1>17. ASSUME NEW w \in Workers, BuildHandler(w) PROVE TierInv'
  BY <1>17 DEF BuildHandler, AllocStep, AllocUnchanged, TypeOK, TierInv, Published
<1>18. ASSUME NEW w \in Workers, InstallHandler(w) PROVE TierInv'
  BY <1>18 DEF InstallHandler, AllocStep, AllocUnchanged, TypeOK, TierInv, Published
<1>19. ASSUME NEW w \in Workers, ReturnHandler(w) PROVE TierInv'
  BY <1>19 DEF ReturnHandler, AllocStep, AllocUnchanged, TypeOK, TierInv, Published
<1>20. ASSUME NEW w \in Workers, MarkReady(w) PROVE TierInv'
  BY <1>20 DEF MarkReady, AllocStep, AllocUnchanged, TypeOK, TierInv, Published
<1>21. ASSUME NEW w \in Workers, AllocFails(w) PROVE TierInv'
  BY <1>21 DEF AllocFails, AllocUnchanged, TypeOK, TierInv, Published, Fallible
<1>22. ASSUME NEW w \in Workers, WorkerTaskStart(w) PROVE TierInv'
  BY <1>22 DEF WorkerTaskStart, workerUnchanged, TypeOK, TierInv, Published
<1>23. ASSUME NEW w \in Workers, WorkerTaskExit(w) PROVE TierInv'
  BY <1>23 DEF WorkerTaskExit, workerUnchanged, TypeOK, TierInv, Published
<1>24. ASSUME NEW w \in Workers, NewReturns(w) PROVE TierInv'
  BY <1>24 DEF NewReturns, workerUnchanged, TypeOK, TierInv, Published
<1>25. ASSUME NEW w \in Workers, TakeHandlerRx(w) PROVE TierInv'
  BY <1>25 DEF TakeHandlerRx, workerUnchanged, TypeOK, TierInv, Published
<1>26. ASSUME NEW w \in Workers, Cancel(w) PROVE TierInv'
  BY <1>26 DEF Cancel, workerUnchanged, TypeOK, TierInv, Published
<1>27. ASSUME NEW w \in Workers, DropWorker(w) PROVE TierInv'
  BY <1>27 DEF DropWorker, workerUnchanged, TypeOK, TierInv, Published
<1>28. ASSUME NEW w \in Workers, DropHandlerRx(w) PROVE TierInv'
  BY <1>28 DEF DropHandlerRx, workerUnchanged, TypeOK, TierInv, Published
<1>29. ASSUME NEW w \in Workers, AbandonNew(w) PROVE TierInv'
  BY <1>29 DEF AbandonNew, workerUnchanged, TypeOK, TierInv, Published
<1>30. CASE UNCHANGED vars
  BY <1>30 DEF vars, TypeOK, TierInv, Published
<1> QED
  BY <1>1, <1>2, <1>3, <1>4, <1>5, <1>6, <1>7, <1>8, <1>9, <1>10, <1>11,
     <1>12, <1>13, <1>14, <1>15, <1>16, <1>17, <1>18, <1>19, <1>20, <1>21,
     <1>22, <1>23, <1>24, <1>25, <1>26, <1>27, <1>28, <1>29, <1>30
  DEF Next, Leader, Handler, Allocation, AllocSucceeds, Caller

\* Without early transfers a dispatch can only run after the leader came up,
\* when every cell is filled.
LEMMA TransferStep == TypeOK /\ PublishInv /\ PingInv /\ TransferInv /\ [Next]_vars => TransferInv'
<1> SUFFICES ASSUME TypeOK, PublishInv, PingInv, TransferInv, [Next]_vars PROVE TransferInv'
  OBVIOUS
<1> USE DEF leaderVars, metaVars, allocVars, callerVars
<1>1. ASSUME NEW w \in Workers, LeaderSend(w) PROVE TransferInv'
  BY <1>1 DEF LeaderSend, TypeOK, TransferInv, Rounds
<1>2. ASSUME NEW w \in Workers, LeaderTransfer(w) PROVE TransferInv'
  BY <1>2 DEF LeaderTransfer, TypeOK, TransferInv
<1>3. ASSUME NEW a \in ackNet, LeaderReceive(a) PROVE TransferInv'
  BY <1>3 DEF LeaderReceive, TypeOK, TransferInv
<1>4. CASE LeaderAdvance
  BY <1>4 DEF LeaderAdvance, TypeOK, TransferInv, NextPhase, Rounds
<1>5. ASSUME NEW m \in net, Lose(m) PROVE TransferInv'
  BY <1>5 DEF Lose, TypeOK, TransferInv
<1>6. ASSUME NEW m \in net, NEW s \in Slots, Deliver(m, s) PROVE TransferInv'
  BY <1>6 DEF Deliver, TypeOK, TransferInv, Entry, Message, Kinds, Rounds
<1>7. ASSUME NEW w \in Workers, NEW s \in Slots, WorkerMetadataHandle(w, s) PROVE TransferInv'
  BY <1>7 DEF WorkerMetadataHandle, SendAnswer, Goto, TypeOK, TransferInv
<1>8. ASSUME NEW w \in Workers, NEW s \in Slots, LeaderMetadataAck(w, s) PROVE TransferInv'
  BY <1>8 DEF LeaderMetadataAck, SendAnswer, Goto, TypeOK, TransferInv
<1>9. ASSUME NEW w \in Workers, NEW s \in Slots, LeaderMetadataStart(w, s) PROVE TransferInv'
  BY <1>9 DEF LeaderMetadataStart, Goto, TypeOK, TransferInv
<1>10. ASSUME NEW w \in Workers, NEW s \in Slots, LeaderMetadataSpawn(w, s) PROVE TransferInv'
  BY <1>10 DEF LeaderMetadataSpawn, Goto, TypeOK, TransferInv
<1>11. ASSUME NEW w \in Workers, NEW s \in Slots, PingGate(w, s) PROVE TransferInv'
  BY <1>11 DEF PingGate, Goto, TypeOK, TransferInv
<1>12. ASSUME NEW w \in Workers, NEW s \in Slots, PingAck(w, s) PROVE TransferInv'
  BY <1>12 DEF PingAck, SendAnswer, Goto, TypeOK, TransferInv
<1>13. ASSUME NEW w \in Workers, NEW s \in Slots, PingFire(w, s) PROVE TransferInv'
  BY <1>13 DEF PingFire, Goto, TypeOK, TransferInv
<1>14. ASSUME NEW w \in Workers, NEW s \in Slots, BlockTransferDispatch(w, s) PROVE TransferInv'
  BY <1>14 DEF BlockTransferDispatch, Goto, TypeOK, TransferInv, PublishInv, PingInv, Published
<1>15. ASSUME NEW w \in Workers, BuildAgent(w) PROVE TransferInv'
  BY <1>15 DEF BuildAgent, AllocStep, AllocUnchanged, TypeOK, TransferInv
<1>16. ASSUME NEW w \in Workers, MakeBlocks(w) PROVE TransferInv'
  BY <1>16 DEF MakeBlocks, AllocStep, AllocUnchanged, TypeOK, TransferInv
<1>17. ASSUME NEW w \in Workers, BuildHandler(w) PROVE TransferInv'
  BY <1>17 DEF BuildHandler, AllocStep, AllocUnchanged, TypeOK, TransferInv
<1>18. ASSUME NEW w \in Workers, InstallHandler(w) PROVE TransferInv'
  BY <1>18 DEF InstallHandler, AllocStep, AllocUnchanged, TypeOK, TransferInv
<1>19. ASSUME NEW w \in Workers, ReturnHandler(w) PROVE TransferInv'
  BY <1>19 DEF ReturnHandler, AllocStep, AllocUnchanged, TypeOK, TransferInv
<1>20. ASSUME NEW w \in Workers, MarkReady(w) PROVE TransferInv'
  BY <1>20 DEF MarkReady, AllocStep, AllocUnchanged, TypeOK, TransferInv
<1>21. ASSUME NEW w \in Workers, AllocFails(w) PROVE TransferInv'
  BY <1>21 DEF AllocFails, AllocUnchanged, TypeOK, TransferInv
<1>22. ASSUME NEW w \in Workers, WorkerTaskStart(w) PROVE TransferInv'
  BY <1>22 DEF WorkerTaskStart, workerUnchanged, TypeOK, TransferInv
<1>23. ASSUME NEW w \in Workers, WorkerTaskExit(w) PROVE TransferInv'
  BY <1>23 DEF WorkerTaskExit, workerUnchanged, TypeOK, TransferInv
<1>24. ASSUME NEW w \in Workers, NewReturns(w) PROVE TransferInv'
  BY <1>24 DEF NewReturns, workerUnchanged, TypeOK, TransferInv
<1>25. ASSUME NEW w \in Workers, TakeHandlerRx(w) PROVE TransferInv'
  BY <1>25 DEF TakeHandlerRx, workerUnchanged, TypeOK, TransferInv
<1>26. ASSUME NEW w \in Workers, Cancel(w) PROVE TransferInv'
  BY <1>26 DEF Cancel, workerUnchanged, TypeOK, TransferInv
<1>27. ASSUME NEW w \in Workers, DropWorker(w) PROVE TransferInv'
  BY <1>27 DEF DropWorker, workerUnchanged, TypeOK, TransferInv
<1>28. ASSUME NEW w \in Workers, DropHandlerRx(w) PROVE TransferInv'
  BY <1>28 DEF DropHandlerRx, workerUnchanged, TypeOK, TransferInv
<1>29. ASSUME NEW w \in Workers, AbandonNew(w) PROVE TransferInv'
  BY <1>29 DEF AbandonNew, workerUnchanged, TypeOK, TransferInv
<1>30. CASE UNCHANGED vars
  BY <1>30 DEF vars, TypeOK, TransferInv
<1> QED
  BY <1>1, <1>2, <1>3, <1>4, <1>5, <1>6, <1>7, <1>8, <1>9, <1>10, <1>11,
     <1>12, <1>13, <1>14, <1>15, <1>16, <1>17, <1>18, <1>19, <1>20, <1>21,
     <1>22, <1>23, <1>24, <1>25, <1>26, <1>27, <1>28, <1>29, <1>30
  DEF Next, Leader, Handler, Allocation, AllocSucceeds, Caller

\* A closed receiver has lost its owner, and a blocking constructor that
\* returned under a running worker task has seen the readiness signal.
LEMMA CreatorStep == TypeOK /\ PublishInv /\ PingInv /\ CreatorInv /\ [Next]_vars => CreatorInv'
<1> SUFFICES ASSUME TypeOK, PublishInv, PingInv, CreatorInv, [Next]_vars PROVE CreatorInv'
  OBVIOUS
<1> USE KvbmWorkerAssumption DEF leaderVars, metaVars, allocVars, callerVars
<1>1. ASSUME NEW w \in Workers, LeaderSend(w) PROVE CreatorInv'
  BY <1>1 DEF LeaderSend, TypeOK, CreatorInv
<1>2. ASSUME NEW w \in Workers, LeaderTransfer(w) PROVE CreatorInv'
  BY <1>2 DEF LeaderTransfer, TypeOK, CreatorInv
<1>3. ASSUME NEW a \in ackNet, LeaderReceive(a) PROVE CreatorInv'
  BY <1>3 DEF LeaderReceive, TypeOK, CreatorInv
<1>4. CASE LeaderAdvance
  BY <1>4 DEF LeaderAdvance, TypeOK, CreatorInv
<1>5. ASSUME NEW m \in net, Lose(m) PROVE CreatorInv'
  BY <1>5 DEF Lose, TypeOK, CreatorInv
<1>6. ASSUME NEW m \in net, NEW s \in Slots, Deliver(m, s) PROVE CreatorInv'
  BY <1>6 DEF Deliver, TypeOK, CreatorInv
<1>7. ASSUME NEW w \in Workers, NEW s \in Slots, WorkerMetadataHandle(w, s) PROVE CreatorInv'
  BY <1>7 DEF WorkerMetadataHandle, SendAnswer, Goto, TypeOK, CreatorInv
<1>8. ASSUME NEW w \in Workers, NEW s \in Slots, LeaderMetadataAck(w, s) PROVE CreatorInv'
  BY <1>8 DEF LeaderMetadataAck, SendAnswer, Goto, TypeOK, CreatorInv
<1>9. ASSUME NEW w \in Workers, NEW s \in Slots, LeaderMetadataStart(w, s) PROVE CreatorInv'
  BY <1>9 DEF LeaderMetadataStart, Goto, TypeOK, CreatorInv
<1>10. ASSUME NEW w \in Workers, NEW s \in Slots, LeaderMetadataSpawn(w, s) PROVE CreatorInv'
  BY <1>10 DEF LeaderMetadataSpawn, Goto, TypeOK, CreatorInv
<1>11. ASSUME NEW w \in Workers, NEW s \in Slots, PingGate(w, s) PROVE CreatorInv'
  BY <1>11 DEF PingGate, Goto, TypeOK, CreatorInv
<1>12. ASSUME NEW w \in Workers, NEW s \in Slots, PingAck(w, s) PROVE CreatorInv'
  BY <1>12 DEF PingAck, SendAnswer, Goto, TypeOK, CreatorInv
<1>13. ASSUME NEW w \in Workers, NEW s \in Slots, PingFire(w, s) PROVE CreatorInv'
  BY <1>13 DEF PingFire, Goto, TypeOK, CreatorInv
<1>14. ASSUME NEW w \in Workers, NEW s \in Slots, BlockTransferDispatch(w, s) PROVE CreatorInv'
  BY <1>14 DEF BlockTransferDispatch, Goto, TypeOK, CreatorInv
<1>15. ASSUME NEW w \in Workers, BuildAgent(w) PROVE CreatorInv'
  BY <1>15 DEF BuildAgent, AllocStep, AllocUnchanged, TypeOK, CreatorInv
<1>16. ASSUME NEW w \in Workers, MakeBlocks(w) PROVE CreatorInv'
  BY <1>16 DEF MakeBlocks, AllocStep, AllocUnchanged, TypeOK, CreatorInv
<1>17. ASSUME NEW w \in Workers, BuildHandler(w) PROVE CreatorInv'
  BY <1>17 DEF BuildHandler, AllocStep, AllocUnchanged, TypeOK, CreatorInv
<1>18. ASSUME NEW w \in Workers, InstallHandler(w) PROVE CreatorInv'
  BY <1>18 DEF InstallHandler, AllocStep, AllocUnchanged, TypeOK, CreatorInv
<1>19. ASSUME NEW w \in Workers, ReturnHandler(w) PROVE CreatorInv'
  <2>1. layoutTx[w] # "sent"
    BY <1>19 DEF ReturnHandler, AllocStep, PingInv, PublishInv
  <2>2. UNCHANGED <<creator, handlerRx, zmq, layoutTx>>
    BY <1>19 DEF ReturnHandler, AllocStep, AllocUnchanged
  <2>3. \A v \in Workers : v # w => handlerTx'[v] = handlerTx[v]
    BY <1>19 DEF ReturnHandler, TypeOK
  <2>4. handlerTx'[w] = "lost" => handlerRx[w] = "closed"
    BY <1>19 DEF ReturnHandler, TypeOK
  <2> QED
    BY <2>1, <2>2, <2>3, <2>4 DEF CreatorInv
<1>20. ASSUME NEW w \in Workers, MarkReady(w) PROVE CreatorInv'
  BY <1>20 DEF MarkReady, AllocStep, AllocUnchanged, TypeOK, CreatorInv
<1>21. ASSUME NEW w \in Workers, AllocFails(w) PROVE CreatorInv'
  BY <1>21 DEF AllocFails, AllocUnchanged, TypeOK, CreatorInv
<1>22. ASSUME NEW w \in Workers, WorkerTaskStart(w) PROVE CreatorInv'
  BY <1>22 DEF WorkerTaskStart, workerUnchanged, TypeOK, CreatorInv
<1>23. ASSUME NEW w \in Workers, WorkerTaskExit(w) PROVE CreatorInv'
  BY <1>23 DEF WorkerTaskExit, workerUnchanged, TypeOK, CreatorInv
<1>24. ASSUME NEW w \in Workers, NewReturns(w) PROVE CreatorInv'
  BY <1>24 DEF NewReturns, workerUnchanged, TypeOK, CreatorInv, LayoutTxDropped
<1>25. ASSUME NEW w \in Workers, TakeHandlerRx(w) PROVE CreatorInv'
  BY <1>25 DEF TakeHandlerRx, workerUnchanged, TypeOK, CreatorInv
<1>26. ASSUME NEW w \in Workers, Cancel(w) PROVE CreatorInv'
  BY <1>26 DEF Cancel, workerUnchanged, TypeOK, CreatorInv
<1>27. ASSUME NEW w \in Workers, DropWorker(w) PROVE CreatorInv'
  BY <1>27 DEF DropWorker, workerUnchanged, TypeOK, CreatorInv
<1>28. ASSUME NEW w \in Workers, DropHandlerRx(w) PROVE CreatorInv'
  BY <1>28 DEF DropHandlerRx, workerUnchanged, TypeOK, CreatorInv
<1>29. ASSUME NEW w \in Workers, AbandonNew(w) PROVE CreatorInv'
  BY <1>29 DEF AbandonNew, workerUnchanged, TypeOK, CreatorInv
<1>30. CASE UNCHANGED vars
  BY <1>30 DEF vars, TypeOK, CreatorInv
<1> QED
  BY <1>1, <1>2, <1>3, <1>4, <1>5, <1>6, <1>7, <1>8, <1>9, <1>10, <1>11,
     <1>12, <1>13, <1>14, <1>15, <1>16, <1>17, <1>18, <1>19, <1>20, <1>21,
     <1>22, <1>23, <1>24, <1>25, <1>26, <1>27, <1>28, <1>29, <1>30
  DEF Next, Leader, Handler, Allocation, AllocSucceeds, Caller

\* Before the first message nothing is allocated, published or answered.
LEMMA InitIInv == Init => IInv
<1> SUFFICES ASSUME Init PROVE IInv
  OBVIOUS
<1>1. TypeOK
  BY DEF Init, TypeOK, Rounds, Message, Answer, PC, AllocPC, Fallible, Published
<1>2. FlightInv /\ MetaInv /\ PublishInv
  BY DEF Init, FlightInv, MetaInv, PublishInv, Published
<1>3. PingInv /\ SignalInv /\ TransferInv
  BY DEF Init, PingInv, SignalInv, TransferInv
<1>4. TierInv /\ CreatorInv
  BY DEF Init, TierInv, CreatorInv, Published
<1> QED
  BY <1>1, <1>2, <1>3, <1>4 DEF IInv

\* The conjunction of the parts is an invariant of every behaviour of the
\* worker handlers, the allocation task, the constructor and the leader.
THEOREM Invariance == Spec => []IInv
<1>1. IInv /\ [Next]_vars => IInv'
  BY TypeStep, FlightStep, MetaStep, PublishStep, PingStep, SignalStep, TierStep, TransferStep, CreatorStep
  DEF IInv
<1> QED
  BY InitIInv, <1>1, PTL DEF Spec

\* Every variable keeps its type (TypeOK), whatever fails and whenever.
THEOREM TypeCorrect == Spec => []TypeOK
<1>1. IInv => TypeOK
  BY DEF IInv
<1> QED
  BY <1>1, Invariance, PTL

\* Any number of concurrent leader_metadata handlers start one allocation:
\* the compare-and-swap of LeaderMetadataHandler is enough.
THEOREM SingleFlightHolds == Spec => []SingleFlight
<1>1. IInv => SingleFlight
  BY DEF IInv, FlightInv, SingleFlight, TypeOK
<1> QED
  BY <1>1, Invariance, PTL

\* The leader goes on to pings only when each worker has begun its allocation:
\* LeaderMetadataHandler loses no acknowledged message that decodes, also when
\* it finds the flag swapped by another handler.
THEOREM AckedMetadataBegins == Spec => []AckedMetadataStarts
<1>1. IInv => AckedMetadataStarts
  BY DEF IInv, MetaInv, AckedMetadataStarts
<1> QED
  BY <1>1, Invariance, PTL

\* A ping ACK of GatedPing promises that BlockTransferDispatch finds a handler
\* and that the creator's channel has been served.
THEOREM PingAckServable == Spec => []PingAckMeansServable
<1>1. IInv => PingAckMeansServable
  BY DEF IInv, TypeOK, PublishInv, PingInv, CreatorInv, PingAckMeansServable, Published
<1> QED
  BY <1>1, Invariance, PTL

\* The pools perform_allocation_and_build_handler publishes agree with the agent
\* it built before them, and with the pools of every other worker.
THEOREM PublishedTiersHold == Spec => []PublishedTiers
<1>1. IInv => PublishedTiers
  <2> SUFFICES ASSUME IInv PROVE PublishedTiers
    OBVIOUS
  <2>1. ASSUME NEW w \in Workers, cell[w]
        PROVE  /\ "device" \in tiers[w]
               /\ "host" \in tiers[w] <=> HostBlocks(w)
               /\ "disk" \in tiers[w] <=> DiskBlocks(w)
               /\ "GDS_MT" \in backends[w] <=> NeedDisk(w)
               /\ tiers[w] \subseteq {"device", "host", "disk"}
    BY <2>1 DEF IInv, TypeOK, PublishInv, TierInv, Published
  <2>2. ASSUME NEW w \in Workers, NEW v \in Workers, cell[w], cell[v], Rank[v] = Rank[w]
        PROVE  tiers[v] = tiers[w]
    <3>1. HostBlocks(v) = HostBlocks(w) /\ DiskBlocks(v) = DiskBlocks(w)
      BY <2>2 DEF HostBlocks, DiskBlocks, ShouldAllocateOffload
    <3>2. \A t \in {"device", "host", "disk"} : t \in tiers[v] <=> t \in tiers[w]
      BY <2>1, <2>2, <3>1
    <3>3. /\ \A t \in tiers[v] : t \in {"device", "host", "disk"}
          /\ \A t \in tiers[w] : t \in {"device", "host", "disk"}
      BY <2>1, <2>2
    <3>4. tiers[v] \subseteq tiers[w] /\ tiers[w] \subseteq tiers[v]
      BY <3>2, <3>3
    <3> QED
      BY <3>4
  <2>3. ASSUME NEW w \in Workers, NEW v \in Workers, cell[w], cell[v],
               NoRank \notin {Rank[v], Rank[w]}, Rank[v] # Rank[w]
        PROVE  Offload(v) = {} \/ Offload(w) = {}
    BY <2>1, <2>3 DEF Offload, HostBlocks, DiskBlocks, ShouldAllocateOffload
  <2> QED
    BY <2>1, <2>2, <2>3 DEF PublishedTiers, NeedDisk, DiskBlocks
<1> QED
  BY <1>1, Invariance, PTL

\* The leader is never up before every worker can serve transfers, with the
\* offload pools it counts blocks for where they belong.
THEOREM LeaderUpServable == Spec => []LeaderUpMeansAllServable
<1>1. IInv => LeaderUpMeansAllServable
  <2> SUFFICES ASSUME IInv, phase = "up", NEW w \in Workers
               PROVE  /\ ready[w] /\ cell[w] /\ "device" \in tiers[w]
                      /\ Rank[w] \in {0, NoRank} =>
                           /\ NumHostBlocks > 0 => "host" \in tiers[w]
                           /\ NumDiskBlocks > 0 =>
                                "disk" \in tiers[w] /\ "GDS_MT" \in backends[w]
    BY DEF LeaderUpMeansAllServable
  <2>1. ready[w] /\ cell[w] /\ alloc[w] = "done"
    BY DEF IInv, PingInv, PublishInv, Published
  <2> QED
    BY <2>1 DEF IInv, TierInv, Published, NeedDisk, HostBlocks, DiskBlocks, ShouldAllocateOffload
<1> QED
  BY <1>1, Invariance, PTL

\* A leader that sends transfers only once it is up never meets the "transfer
\* handler not ready yet" error of BlockTransferDispatch.
THEOREM TransfersServed == ~EarlyTransfers => (Spec => []NoTransferRefused)
<1> SUFFICES ASSUME ~EarlyTransfers PROVE Spec => []NoTransferRefused
  OBVIOUS
<1>1. IInv => NoTransferRefused
  BY DEF IInv, TransferInv, NoTransferRefused
<1> QED
  BY <1>1, Invariance, PTL

\* A failed allocation leaves the worker empty and silent, and the leader down.
THEOREM FailureContained == Spec => []FailedNeverReady
<1>1. IInv => FailedNeverReady
  BY DEF IInv, PublishInv, PingInv, TierInv, FailedNeverReady, Published
<1> QED
  BY <1>1, Invariance, PTL

\* The readiness channel of the constructor fires only after a ping ACK.
THEOREM SignalAfterAck == Spec => []LayoutSignalAfterAck
<1>1. IInv => LayoutSignalAfterAck
  BY DEF IInv, PingInv, LayoutSignalAfterAck
<1> QED
  BY <1>1, Invariance, PTL

\* Every ping ACK of GatedPing is followed by the readiness signal, so no blocking
\* constructor is left behind by a leader that came up.
THEOREM SignalFollowsAck == Spec => []AckMeansSignal
<1>1. IInv => AckMeansSignal
  BY DEF IInv, SignalInv, AckMeansSignal
<1> QED
  BY <1>1, Invariance, PTL

\* A blocking KvbmWorker::new that returns under a running worker task hands
\* out a receiver that already holds the transfer handler.
THEOREM BlockingReturn == Spec => []BlockingReturnHasHandler
<1>1. IInv => BlockingReturnHasHandler
  <2> SUFFICES ASSUME IInv, NEW w \in Workers, LayoutBlocking[w],
                      creator[w] = "constructed", zmq[w] = "up"
               PROVE  handlerTx[w] = "sent"
    BY DEF BlockingReturnHasHandler
  <2>1. handlerTx[w] \in {"held", "sent", "lost"}
    BY DEF IInv, TypeOK
  <2>2. ready[w]
    BY DEF IInv, CreatorInv, PingInv
  <2>3. handlerTx[w] # "held"
    BY <2>2 DEF IInv, PublishInv
  <2>4. handlerTx[w] # "lost"
    BY DEF IInv, CreatorInv
  <2> QED
    BY <2>1, <2>3, <2>4
<1> QED
  BY <1>1, Invariance, PTL
=============================================================================
