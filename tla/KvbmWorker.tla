----------------------------- MODULE KvbmWorker -----------------------------
(***************************************************************************)
(* Initialisation handshake between the KVBM leader and its workers        *)
(* (runtime-kvbm-distributed-worker.rs).                                   *)
(*                                                                         *)
(* Every worker answers four kinds of messages of the leader.  Handlers    *)
(* run as concurrent tasks: each of them is a slot of the worker, and each *)
(* of its await points is a step of its own, so that two handlers of one   *)
(* worker interleave there.  The first well-formed leader_metadata message *)
(* spawns the allocation, which runs in the background, publishes the      *)
(* block transfer handler and only then lets the worker answer pings.      *)
(*                                                                         *)
(* The leader and the ZMQ transport are not part of the repository.  They  *)
(* are modelled from what the handlers rely on: a round sends one kind of  *)
(* message to every worker, ends when every worker has answered, and is    *)
(* sent again otherwise; messages may be lost and arrive in any order.     *)
(***************************************************************************)
EXTENDS Integers, FiniteSets

CONSTANTS
  Workers,         \* the workers (one process per GPU)
  Slots,           \* handler tasks that may run at once in one worker
  Rank,            \* config.rank of each worker
  NoRank,          \* rank = None: sharded mode
  NumHostBlocks,   \* LeaderMetadata.num_host_blocks
  NumDiskBlocks,   \* LeaderMetadata.num_disk_blocks
  LayoutBlocking,  \* the layout_blocking argument of each KvbmWorker::new
  EarlyTransfers,  \* may the leader send transfers before it is up?
  Events,          \* the failures and caller decisions that may happen
  MaxInFlight      \* bound: messages of the leader in flight

EventKinds == {"loss", "malformed", "ack", "alloc", "zmq", "cancel", "drop"}

ASSUME KvbmWorkerAssumption ==
  /\ Workers # {} /\ Slots # {}
  /\ Rank \in [Workers -> Nat \cup {NoRank}] /\ NoRank \notin Nat
  /\ NumHostBlocks \in Nat /\ NumDiskBlocks \in Nat
  /\ LayoutBlocking \in [Workers -> BOOLEAN] /\ EarlyTransfers \in BOOLEAN
  /\ Events \subseteq EventKinds
  /\ MaxInFlight \in Nat \ {0}

VARIABLES
  phase,         \* the leader's current round, "up" after the last one
  acks,          \* workers whose answer in this round the leader has
  net,           \* messages of the leader in flight
  ackNet,        \* answers of the workers in flight
  zmq,           \* ZmqActiveMessageWorker of each worker
  pc,            \* where each handler task is
  started,       \* LeaderMetadataHandler.started
  deviceLayout,  \* is LeaderMetadataHandler.device_layout Some?
  alloc,         \* the background allocation task
  backends,      \* NIXL backends its agent has
  tiers,         \* block pools allocated and registered
  cell,          \* is handler_cell Some?
  handlerTx,     \* handler_tx: still there, sent, or sent to nobody
  handlerRx,     \* block_transfer_handler_rx of the KvbmWorker
  ready,         \* WorkerState.ready_for_ping
  layoutTx,      \* layout_ready_tx: still there or sent
  pingAcked,     \* history: has a ping ACK of the worker been sent?
  outcomes,      \* history: what transfer requests ended in
  creator,       \* the caller of KvbmWorker::new and the owner of its result
  cancelled      \* the cancellation token

leaderVars  == <<phase, acks>>
allocVars   == <<alloc, backends, tiers, cell, handlerTx, ready>>
callerVars  == <<creator, cancelled, handlerRx>>
metaVars    == <<started, deviceLayout>>
vars == <<leaderVars, net, ackNet, zmq, pc, metaVars, allocVars,
          layoutTx, pingAcked, outcomes, callerVars>>

Rounds == {"worker_meta", "leader_meta", "ping"}
Kinds  == Rounds \cup {"transfer"}
Message == [to: Workers, kind: Kinds, ok: BOOLEAN]
Answer  == [from: Workers, kind: Rounds]

\* Entry point of the handler that worker_task registers for each kind.  Only
\* leader_metadata decodes its payload; one that will not decode is marked.
Entry(m) ==
  CASE m.kind = "worker_meta" -> "reply"
    [] m.kind = "leader_meta" -> IF m.ok THEN "meta_ack" ELSE "meta_ack_bad"
    [] m.kind = "ping"        -> "ping_check"
    [] m.kind = "transfer"    -> "dispatch"

PingPC == {"ping_check", "ping_ack", "ping_fire"}
PC == {"idle", "reply", "meta_ack", "meta_ack_bad", "meta_cas", "meta_take", "dispatch"}
      \cup PingPC

Fallible == {"agent", "blocks", "build"}
Published == {"publish", "mark", "done"}
AllocPC == {"none", "failed", "install"} \cup Fallible \cup Published

Init ==
  /\ phase = "worker_meta" /\ acks = {} /\ net = {} /\ ackNet = {}
  /\ zmq = [w \in Workers |-> "starting"]
  /\ pc = [w \in Workers |-> [s \in Slots |-> "idle"]]
  /\ started = [w \in Workers |-> FALSE]
  /\ deviceLayout = [w \in Workers |-> TRUE]
  /\ alloc = [w \in Workers |-> "none"]
  /\ backends = [w \in Workers |-> {}]
  /\ tiers = [w \in Workers |-> {}]
  /\ cell = [w \in Workers |-> FALSE]
  /\ handlerTx = [w \in Workers |-> "held"]
  /\ handlerRx = [w \in Workers |-> "held"]
  /\ ready = [w \in Workers |-> FALSE]
  /\ layoutTx = [w \in Workers |-> "held"]
  /\ pingAcked = [w \in Workers |-> FALSE]
  /\ outcomes = [w \in Workers |-> {}]
  /\ creator = [w \in Workers |-> "constructing"]
  /\ cancelled = [w \in Workers |-> FALSE]

(***************************************************************************)
(* The leader and the transport (external).                                *)
(***************************************************************************)
NextPhase == [worker_meta |-> "leader_meta", leader_meta |-> "ping", ping |-> "up"]

\* Start the current round, or repeat it after a timeout.
LeaderSend(w) ==
  /\ phase \in Rounds
  /\ Cardinality(net) < MaxInFlight
  /\ \E ok \in {TRUE} \cup {b \in {FALSE} : phase = "leader_meta" /\ "malformed" \in Events} :
        net' = net \cup {[to |-> w, kind |-> phase, ok |-> ok]}
  /\ UNCHANGED <<leaderVars, ackNet, zmq, pc, metaVars, allocVars,
                 layoutTx, pingAcked, outcomes, callerVars>>

LeaderTransfer(w) ==
  /\ phase = "up" \/ EarlyTransfers
  /\ Cardinality(net) < MaxInFlight
  /\ net' = net \cup {[to |-> w, kind |-> "transfer", ok |-> TRUE]}
  /\ UNCHANGED <<leaderVars, ackNet, zmq, pc, metaVars, allocVars,
                 layoutTx, pingAcked, outcomes, callerVars>>

\* An answer counts for the round of its kind, also when it answers an
\* earlier sending of that round.
LeaderReceive(a) ==
  /\ a \in ackNet
  /\ ackNet' = ackNet \ {a}
  /\ acks' = IF a.kind = phase THEN acks \cup {a.from} ELSE acks
  /\ UNCHANGED <<phase, net, zmq, pc, metaVars, allocVars,
                 layoutTx, pingAcked, outcomes, callerVars>>

LeaderAdvance ==
  /\ phase \in Rounds
  /\ acks = Workers
  /\ phase' = NextPhase[phase]
  /\ acks' = {}
  /\ UNCHANGED <<net, ackNet, zmq, pc, metaVars, allocVars,
                 layoutTx, pingAcked, outcomes, callerVars>>

\* A message can be lost; one to a worker that is not connected always is.
Lose(m) ==
  /\ m \in net
  /\ "loss" \in Events \/ zmq[m.to] # "up"
  /\ net' = net \ {m}
  /\ UNCHANGED <<leaderVars, ackNet, zmq, pc, metaVars, allocVars,
                 layoutTx, pingAcked, outcomes, callerVars>>

\* The transport hands a message to the handler registered for its kind.
Deliver(m, s) ==
  /\ m \in net
  /\ zmq[m.to] = "up"
  /\ pc[m.to][s] = "idle"
  /\ net' = net \ {m}
  /\ pc' = [pc EXCEPT ![m.to][s] = Entry(m)]
  /\ UNCHANGED <<leaderVars, ackNet, zmq, metaVars, allocVars,
                 layoutTx, pingAcked, outcomes, callerVars>>

\* An answer can fail to be sent, always so once the sockets are gone.
AckOutcomes(w) ==
  {TRUE} \cup (IF "ack" \in Events \/ zmq[w] = "down" THEN {FALSE} ELSE {})

SendAnswer(w, kind, sent) ==
  ackNet' = IF sent THEN ackNet \cup {[from |-> w, kind |-> kind]} ELSE ackNet

Goto(w, s, to) == pc' = [pc EXCEPT ![w][s] = to]

(***************************************************************************)
(* The handlers of a worker.                                               *)
(***************************************************************************)
WorkerMetadataHandle(w, s) ==
  /\ pc[w][s] = "reply"
  /\ \E sent \in AckOutcomes(w) : SendAnswer(w, "worker_meta", sent)
  /\ Goto(w, s, "idle")
  /\ UNCHANGED <<leaderVars, net, zmq, metaVars, allocVars,
                 layoutTx, pingAcked, outcomes, callerVars>>

\* leader_metadata is acknowledged first, whatever the message holds; a failed
\* ACK is only logged, and a payload that does not decode is then ignored.
LeaderMetadataAck(w, s) ==
  /\ pc[w][s] \in {"meta_ack", "meta_ack_bad"}
  /\ \E sent \in AckOutcomes(w) : SendAnswer(w, "leader_meta", sent)
  /\ Goto(w, s, IF pc[w][s] = "meta_ack" THEN "meta_cas" ELSE "idle")
  /\ UNCHANGED <<leaderVars, net, zmq, metaVars, allocVars,
                 layoutTx, pingAcked, outcomes, callerVars>>

\* Mutant: the flag is stored without being compared.
LeaderMetadataStartAnyway(w, s) ==
  /\ pc[w][s] = "meta_cas"
  /\ Goto(w, s, "meta_take")
  /\ started' = [started EXCEPT ![w] = TRUE]
  /\ UNCHANGED <<leaderVars, net, ackNet, zmq, deviceLayout, allocVars,
                 layoutTx, pingAcked, outcomes, callerVars>>

\* Only the first handler to swap the flag goes on.
LeaderMetadataStart(w, s) ==
  /\ pc[w][s] = "meta_cas"
  /\ Goto(w, s, IF started[w] THEN "idle" ELSE "meta_take")
  /\ started' = [started EXCEPT ![w] = TRUE]
  /\ UNCHANGED <<leaderVars, net, ackNet, zmq, deviceLayout, allocVars,
                 layoutTx, pingAcked, outcomes, callerVars>>

\* Take the device layout and spawn the allocation.
LeaderMetadataSpawn(w, s) ==
  /\ pc[w][s] = "meta_take"
  /\ Goto(w, s, "idle")
  /\ deviceLayout' = [deviceLayout EXCEPT ![w] = FALSE]
  /\ alloc' = IF deviceLayout[w] THEN [alloc EXCEPT ![w] = "agent"] ELSE alloc
  /\ UNCHANGED <<leaderVars, net, ackNet, zmq, started, backends, tiers,
                 cell, handlerTx, ready, layoutTx, pingAcked, outcomes, callerVars>>

\* Mutant: pings are answered whether or not the worker is ready.
PingNotGated(w, s) ==
  /\ pc[w][s] = "ping_check"
  /\ Goto(w, s, "ping_ack")
  /\ UNCHANGED <<leaderVars, net, ackNet, zmq, metaVars, allocVars,
                 layoutTx, pingAcked, outcomes, callerVars>>

PingGate(w, s) ==
  /\ pc[w][s] = "ping_check"
  /\ Goto(w, s, IF ready[w] THEN "ping_ack" ELSE "idle")
  /\ UNCHANGED <<leaderVars, net, ackNet, zmq, metaVars, allocVars,
                 layoutTx, pingAcked, outcomes, callerVars>>

\* A failed ACK ends the handler: the readiness channel is left alone.
PingAck(w, s) ==
  /\ pc[w][s] = "ping_ack"
  /\ \E sent \in AckOutcomes(w) :
        /\ SendAnswer(w, "ping", sent)
        /\ Goto(w, s, IF sent THEN "ping_fire" ELSE "idle")
        /\ pingAcked' = [pingAcked EXCEPT ![w] = @ \/ sent]
  /\ UNCHANGED <<leaderVars, net, zmq, metaVars, allocVars,
                 layoutTx, outcomes, callerVars>>

\* Mutant: the sender is unwrapped, so the second ping panics.
PingFireUnwraps(w, s) ==
  /\ pc[w][s] = "ping_fire"
  /\ Goto(w, s, "idle")
  /\ layoutTx' = [layoutTx EXCEPT ![w] = IF @ = "held" THEN "sent" ELSE "panicked"]
  /\ UNCHANGED <<leaderVars, net, ackNet, zmq, metaVars, allocVars,
                 pingAcked, outcomes, callerVars>>

\* Mutant: the readiness channel is never used.
PingFireForgotten(w, s) ==
  /\ pc[w][s] = "ping_fire"
  /\ Goto(w, s, "idle")
  /\ UNCHANGED <<leaderVars, net, ackNet, zmq, metaVars, allocVars,
                 layoutTx, pingAcked, outcomes, callerVars>>

PingFire(w, s) ==
  /\ pc[w][s] = "ping_fire"
  /\ Goto(w, s, "idle")
  /\ layoutTx' = [layoutTx EXCEPT ![w] = "sent"]
  /\ UNCHANGED <<leaderVars, net, ackNet, zmq, metaVars, allocVars,
                 pingAcked, outcomes, callerVars>>

BlockTransferDispatch(w, s) ==
  /\ pc[w][s] = "dispatch"
  /\ Goto(w, s, "idle")
  /\ outcomes' = [outcomes EXCEPT ![w] = @ \cup {IF cell[w] THEN "served" ELSE "refused"}]
  /\ UNCHANGED <<leaderVars, net, ackNet, zmq, metaVars, allocVars,
                 layoutTx, pingAcked, callerVars>>

(***************************************************************************)
(* The background allocation: perform_allocation_and_build_handler, whose  *)
(* results are locals that an error drops, and the publication after it.   *)
(***************************************************************************)
\* Sharded mode: every rank.  Replicated mode: rank 0 only.
ShouldAllocateOffload(w) == Rank[w] = NoRank \/ Rank[w] = 0

\* Mutant: the disk pool is allocated wherever there are disk blocks.
DiskBlocksEverywhere(w) == NumDiskBlocks > 0

\* The code decides three times: for the agent and, later, for each pool.
NeedDisk(w)   == ShouldAllocateOffload(w) /\ NumDiskBlocks > 0
HostBlocks(w) == ShouldAllocateOffload(w) /\ NumHostBlocks > 0
DiskBlocks(w) == ShouldAllocateOffload(w) /\ NumDiskBlocks > 0

AllocUnchanged ==
  UNCHANGED <<leaderVars, net, ackNet, zmq, pc, metaVars,
              layoutTx, pingAcked, outcomes, callerVars>>

AllocStep(w, from, to) ==
  /\ alloc[w] = from
  /\ alloc' = [alloc EXCEPT ![w] = to]
  /\ AllocUnchanged

\* The NIXL agent and the transfer context with its CUDA pools.
BuildAgent(w) ==
  /\ AllocStep(w, "agent", "blocks")
  /\ backends' = [backends EXCEPT ![w] = {"POSIX"} \cup (IF NeedDisk(w) THEN {"GDS_MT"} ELSE {})]
  /\ UNCHANGED <<tiers, cell, handlerTx, ready>>

\* Device blocks on every rank, then host and disk blocks where they are due.
MakeBlocks(w) ==
  /\ AllocStep(w, "blocks", "build")
  /\ tiers' = [tiers EXCEPT ![w] = {"device"} \cup (IF HostBlocks(w) THEN {"host"} ELSE {})
                                             \cup (IF DiskBlocks(w) THEN {"disk"} ELSE {})]
  /\ UNCHANGED <<backends, cell, handlerTx, ready>>

BuildHandler(w) ==
  /\ AllocStep(w, "build", "install")
  /\ UNCHANGED <<backends, tiers, cell, handlerTx, ready>>

\* Any of these calls may fail; the locals are dropped, nothing is published.
AllocFails(w) ==
  /\ "alloc" \in Events
  /\ alloc[w] \in Fallible
  /\ alloc' = [alloc EXCEPT ![w] = "failed"]
  /\ tiers' = [tiers EXCEPT ![w] = {}]
  /\ backends' = [backends EXCEPT ![w] = {}]
  /\ UNCHANGED <<cell, handlerTx, ready>>
  /\ AllocUnchanged

InstallHandler(w) ==
  /\ AllocStep(w, "install", "publish")
  /\ cell' = [cell EXCEPT ![w] = TRUE]
  /\ UNCHANGED <<backends, tiers, handlerTx, ready>>

\* The sender is taken once; a closed receiver makes the send a no-op.
ReturnHandler(w) ==
  /\ AllocStep(w, "publish", "mark")
  /\ handlerTx' = [handlerTx EXCEPT ![w] = IF handlerRx[w] = "closed" THEN "lost" ELSE "sent"]
  /\ UNCHANGED <<backends, tiers, cell, ready>>

\* Mutant: mark_ready is forgotten.
MarkReadyForgotten(w) ==
  /\ AllocStep(w, "mark", "done")
  /\ UNCHANGED <<backends, tiers, cell, handlerTx, ready>>

MarkReady(w) ==
  /\ AllocStep(w, "mark", "done")
  /\ ready' = [ready EXCEPT ![w] = TRUE]
  /\ UNCHANGED <<backends, tiers, cell, handlerTx>>

(***************************************************************************)
(* The worker task, the constructor and the owner of the KvbmWorker.       *)
(***************************************************************************)
workerUnchanged ==
  UNCHANGED <<leaderVars, net, ackNet, pc, metaVars, allocVars,
              layoutTx, pingAcked, outcomes>>

\* worker_task builds the handlers and connects.
WorkerTaskStart(w) ==
  /\ zmq[w] = "starting"
  /\ \E state \in {"up"} \cup (IF "zmq" \in Events THEN {"down"} ELSE {}) :
        zmq' = [zmq EXCEPT ![w] = state]
  /\ UNCHANGED callerVars /\ workerUnchanged

WorkerTaskExit(w) ==
  /\ zmq[w] = "up" /\ cancelled[w]
  /\ zmq' = [zmq EXCEPT ![w] = "down"]
  /\ UNCHANGED callerVars /\ workerUnchanged

\* Mutant: the constructor keeps a sender of its own alive.
LayoutTxKept(w) == FALSE /\ layoutTx[w] = "held"

\* The sender lives in GatedPing: it is dropped with the handler map once no
\* ping handler runs any more.
LayoutTxDropped(w) ==
  /\ layoutTx[w] = "held"
  /\ zmq[w] = "down"
  /\ \A s \in Slots : pc[w][s] \notin PingPC

\* Mutant: the constructor never waits.
NewReturnsAtOnce(w) ==
  /\ creator[w] = "constructing"
  /\ creator' = [creator EXCEPT ![w] = "constructed"]
  /\ UNCHANGED <<cancelled, handlerRx, zmq>> /\ workerUnchanged

\* The blocking constructor waits for the readiness channel, and returns the
\* same Ok when the channel was dropped; the other one returns at once.
NewReturns(w) ==
  /\ creator[w] = "constructing"
  /\ LayoutBlocking[w] => layoutTx[w] = "sent" \/ LayoutTxDropped(w)
  /\ creator' = [creator EXCEPT ![w] = "constructed"]
  /\ UNCHANGED <<cancelled, handlerRx, zmq>> /\ workerUnchanged

TakeHandlerRx(w) ==
  /\ creator[w] = "constructed"
  /\ handlerRx[w] = "held"
  /\ handlerRx' = [handlerRx EXCEPT ![w] = "taken"]
  /\ UNCHANGED <<creator, cancelled, zmq>> /\ workerUnchanged

\* Whoever took the receiver drops it, perhaps before the handler is sent.
DropHandlerRx(w) ==
  /\ "drop" \in Events
  /\ handlerRx[w] = "taken"
  /\ handlerRx' = [handlerRx EXCEPT ![w] = "closed"]
  /\ UNCHANGED <<creator, cancelled, zmq>> /\ workerUnchanged

\* The caller gives up the future of a blocking new while it waits.  Both
\* receivers go with it; the worker task lives on and the token is untouched.
AbandonNew(w) ==
  /\ "drop" \in Events
  /\ LayoutBlocking[w] /\ creator[w] = "constructing"
  /\ creator' = [creator EXCEPT ![w] = "abandoned"]
  /\ handlerRx' = [handlerRx EXCEPT ![w] = "closed"]
  /\ UNCHANGED <<cancelled, zmq>> /\ workerUnchanged

\* The caller's own cancellation token.
Cancel(w) ==
  /\ "cancel" \in Events
  /\ ~cancelled[w]
  /\ cancelled' = [cancelled EXCEPT ![w] = TRUE]
  /\ UNCHANGED <<creator, handlerRx, zmq>> /\ workerUnchanged

DropWorker(w) ==
  /\ "drop" \in Events
  /\ creator[w] = "constructed"
  /\ creator' = [creator EXCEPT ![w] = "dropped"]
  /\ cancelled' = [cancelled EXCEPT ![w] = TRUE]
  /\ handlerRx' = [handlerRx EXCEPT ![w] = IF @ = "held" THEN "closed" ELSE @]
  /\ UNCHANGED zmq /\ workerUnchanged

-----------------------------------------------------------------------------
Leader ==
  \/ \E w \in Workers : LeaderSend(w)
  \/ \E w \in Workers : LeaderTransfer(w)
  \/ \E a \in ackNet : LeaderReceive(a)
  \/ LeaderAdvance
  \/ \E m \in net : Lose(m)
  \/ \E m \in net, s \in Slots : Deliver(m, s)

Handler(w, s) ==
  \/ WorkerMetadataHandle(w, s)
  \/ LeaderMetadataAck(w, s)
  \/ LeaderMetadataStart(w, s)
  \/ LeaderMetadataSpawn(w, s)
  \/ PingGate(w, s)
  \/ PingAck(w, s)
  \/ PingFire(w, s)
  \/ BlockTransferDispatch(w, s)

AllocSucceeds(w) ==
  \/ BuildAgent(w)
  \/ MakeBlocks(w)
  \/ BuildHandler(w)
  \/ InstallHandler(w)
  \/ ReturnHandler(w)
  \/ MarkReady(w)

Allocation(w) == AllocSucceeds(w) \/ AllocFails(w)

Caller(w) ==
  \/ WorkerTaskStart(w)
  \/ WorkerTaskExit(w)
  \/ NewReturns(w)
  \/ TakeHandlerRx(w)
  \/ DropHandlerRx(w)
  \/ AbandonNew(w)
  \/ Cancel(w)
  \/ DropWorker(w)

Next ==
  \/ Leader
  \/ \E w \in Workers, s \in Slots : Handler(w, s)
  \/ \E w \in Workers : Allocation(w)
  \/ \E w \in Workers : Caller(w)

Spec == Init /\ [][Next]_vars

(***************************************************************************)
(* Fairness.  The runtime polls every spawned task that can make progress; *)
(* the leader repeats an unfinished round, reads its answers and goes on   *)
(* when the round is complete; a message the leader keeps sending to a     *)
(* worker that can take it is not lost for ever, and neither is an answer  *)
(* the worker keeps sending.  Nothing forces a failure, a cancellation or  *)
(* a drop.                                                                 *)
(***************************************************************************)
DeliverTo(w) == \E m \in net, s \in Slots : m.to = w /\ Deliver(m, s)

\* A handler of the worker answers a message of this kind, and the answer is sent.
Answered(w, kind) ==
  /\ SendAnswer(w, kind, TRUE)
  /\ \E s \in Slots :
       \/ kind = "worker_meta" /\ WorkerMetadataHandle(w, s)
       \/ kind = "leader_meta" /\ LeaderMetadataAck(w, s)
       \/ kind = "ping" /\ PingAck(w, s) /\ pc'[w][s] = "ping_fire"

Fairness ==
  /\ WF_vars(LeaderAdvance)
  /\ WF_vars(\E a \in ackNet : LeaderReceive(a))
  /\ \A w \in Workers :
       /\ WF_vars(LeaderSend(w))
       /\ SF_vars(DeliverTo(w))
       /\ \A kind \in Rounds : SF_vars(Answered(w, kind))
       /\ \A s \in Slots : WF_vars(Handler(w, s))
       /\ WF_vars(Allocation(w))
       /\ WF_vars(WorkerTaskStart(w)) /\ WF_vars(WorkerTaskExit(w))
       /\ WF_vars(NewReturns(w))

FairSpec == Spec /\ Fairness

-----------------------------------------------------------------------------
\* Every variable stays in its type.
TypeOK ==
  /\ phase \in Rounds \cup {"up"}
  /\ acks \subseteq Workers
  /\ net \subseteq Message
  /\ ackNet \subseteq Answer
  /\ zmq \in [Workers -> {"starting", "up", "down"}]
  /\ pc \in [Workers -> [Slots -> PC]]
  /\ started \in [Workers -> BOOLEAN]
  /\ deviceLayout \in [Workers -> BOOLEAN]
  /\ alloc \in [Workers -> AllocPC]
  /\ backends \in [Workers -> SUBSET {"POSIX", "GDS_MT"}]
  /\ tiers \in [Workers -> SUBSET {"device", "host", "disk"}]
  /\ cell \in [Workers -> BOOLEAN]
  /\ handlerTx \in [Workers -> {"held", "sent", "lost"}]
  /\ handlerRx \in [Workers -> {"held", "taken", "closed"}]
  /\ ready \in [Workers -> BOOLEAN]
  /\ layoutTx \in [Workers -> {"held", "sent"}]
  /\ pingAcked \in [Workers -> BOOLEAN]
  /\ outcomes \in [Workers -> SUBSET {"served", "refused"}]
  /\ creator \in [Workers -> {"constructing", "constructed", "abandoned", "dropped"}]
  /\ cancelled \in [Workers -> BOOLEAN]

\* Duplicated and concurrent leader_metadata messages start one allocation:
\* a handler that won the flag still finds the device layout and no
\* allocation, and no second handler is at that point.
SingleFlight ==
  \A w \in Workers, s \in Slots :
    pc[w][s] = "meta_take" =>
      /\ deviceLayout[w] /\ alloc[w] = "none"
      /\ \A r \in Slots : pc[w][r] = "meta_take" => r = s

\* leader_metadata is acknowledged before it is acted on (the comment calls the
\* ACK immediate), yet none that was counted is forgotten: when the leader goes
\* on to pings, every worker has an allocation or a handler on its way to one,
\* whatever was lost, repeated or failed, as long as every payload decodes.
\* An acknowledged payload that does not decode starts nothing.
Begun(w) ==
  alloc[w] # "none" \/ \E s \in Slots : pc[w][s] \in {"meta_cas", "meta_take"}

AckedMetadataStarts ==
  "malformed" \notin Events /\ phase \in {"ping", "up"} => \A w \in Workers : Begun(w)

\* Once a worker has acknowledged a ping, transfers can be dispatched to its
\* handler and the creator's channel has been served: the handler was sent to
\* whoever holds the receiver, and is lost only if nobody does.
PingAckMeansServable ==
  \A w \in Workers :
    pingAcked[w] \/ [from |-> w, kind |-> "ping"] \in ackNet =>
      /\ cell[w] /\ handlerTx[w] # "held"
      /\ handlerTx[w] = "lost" => handlerRx[w] = "closed"

\* The agent is built on one decision and the pools on others, with calls that
\* may fail in between, and each worker decides for itself.  Yet a published
\* disk pool always has an agent with the GDS_MT backend, no agent has it for
\* nothing, workers of a sharded group hold the same pools, and no two ranks of
\* a replicated group both hold an offload pool.
Offload(w) == tiers[w] \ {"device"}

PublishedTiers ==
  \A w \in Workers : cell[w] =>
    /\ "device" \in tiers[w]
    /\ "disk" \in tiers[w] <=> "GDS_MT" \in backends[w]
    /\ \A v \in Workers : cell[v] =>
         /\ Rank[v] = Rank[w] => tiers[v] = tiers[w]
         /\ NoRank \notin {Rank[v], Rank[w]} /\ Rank[v] # Rank[w] =>
              Offload(v) = {} \/ Offload(w) = {}

\* The leader comes up only when every worker can serve transfers, however
\* many answers of repeated rounds are still under way: each has published its
\* handler and its device blocks, and an offload pool the leader counts blocks
\* for exists on a worker with rank 0 or without a rank.
LeaderUpMeansAllServable ==
  phase = "up" => \A w \in Workers :
    /\ ready[w] /\ cell[w] /\ "device" \in tiers[w]
    /\ Rank[w] \in {0, NoRank} =>
         /\ NumHostBlocks > 0 => "host" \in tiers[w]
         /\ NumDiskBlocks > 0 => "disk" \in tiers[w] /\ "GDS_MT" \in backends[w]

\* No transfer request of a leader that waits for its workers meets the
\* "transfer handler not ready yet" error of BlockTransferDispatch.
NoTransferRefused == \A w \in Workers : "refused" \notin outcomes[w]

\* A worker whose allocation failed holds nothing, never answers a ping and
\* keeps the leader from coming up.
FailedNeverReady ==
  \A w \in Workers :
    alloc[w] = "failed" =>
      /\ ~ready[w] /\ ~cell[w] /\ ~pingAcked[w]
      /\ tiers[w] = {} /\ handlerTx[w] = "held"
      /\ phase # "up"

\* The readiness channel fires only after a ping ACK was really sent.
LayoutSignalAfterAck ==
  \A w \in Workers : layoutTx[w] = "sent" => pingAcked[w]

\* And it does fire: whoever has acknowledged a ping, all workers of a leader
\* that is up among them, has fired it or has a handler that is about to, so a
\* blocking constructor waits neither for a ping that failed nor for a later one.
SignalDue(w) ==
  layoutTx[w] = "sent" \/ \E s \in Slots : pc[w][s] = "ping_fire"

AckMeansSignal ==
  \A w \in Workers : pingAcked[w] \/ phase = "up" => SignalDue(w)

\* When the blocking constructor returns while the worker task still runs, the
\* receiver it hands out already holds the transfer handler.
BlockingReturnHasHandler ==
  \A w \in Workers :
    LayoutBlocking[w] /\ creator[w] = "constructed" /\ zmq[w] = "up" => handlerTx[w] = "sent"

SomeCancelled == \E w \in Workers : cancelled[w]

\* With lost messages and a leader that retries, initialisation completes
\* unless an allocation fails or a worker is cancelled.
InitCompletes ==
  <>(phase = "up" \/ SomeCancelled \/ \E w \in Workers : alloc[w] = "failed")

\* The blocking constructor returns unless its own allocation fails or some
\* worker is cancelled (a lost peer leaves the leader in its round).
BlockingNewReturns ==
  \A w \in Workers :
    <>(creator[w] # "constructing" \/ alloc[w] = "failed" \/ SomeCancelled)

\* Cancelling the token always unblocks the constructor, whatever state the
\* handlers and the allocation are in.
CancelUnblocksNew ==
  \A w \in Workers : cancelled[w] ~> creator[w] # "constructing"

\* What the outside can tell of a worker.
WorkerState(w) ==
  IF ready[w] THEN "serving" ELSE IF alloc[w] = "failed" THEN "failed" ELSE "idle"

Barrier == INSTANCE LeaderBarrier WITH
  up      <- phase = "up",
  worker  <- [w \in Workers |-> WorkerState(w)],
  answers <- outcomes

\* With a leader that waits for its rounds, the handshake is a barrier: each
\* step of a handler, of the allocation or of the leader serves, fails, brings
\* the leader up, answers a transfer, or cannot be told from outside.
ImplementsBarrier == Barrier!Spec
=============================================================================
