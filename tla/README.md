# Formal models of the P/D disaggregation demo

TLA+ models, TLC checks and TLAPS proofs for the parts of this repository that
keep state: the KVBM runtime code that Phase 2 runs (`pd-disaggregation/phase2/backup/runtime-*`),
the scripts that build and tear down the RAM-backed NFS/RDMA storage
(`phase2/storage`, `phase2/nfs`, `phase2/systemd`, `phase2/scripts/rollback-phase2.sh`)
and the resumable image download (`pd-disaggregation/scripts`).

Paths below are relative to `pd-disaggregation/`; `B/` stands for `phase2/backup/`.

## 1. The system

A prefill worker and a decode worker serve one model. KV cache blocks move from
the GPU to host memory and on to files (locally, or on the RAM disk of node3
that node1 mounts over NFS/RDMA), under the control of a KVBM leader that talks
to one KVBM worker per GPU over ZMQ.

| Component | Code | State | Operations | Interacts with | Hard behaviours |
|---|---|---|---|---|---|
| KVBM worker initialisation | `B/runtime-kvbm-distributed-worker.rs` | handler flags (`started`, `ready_for_ping`), handler cell, oneshot channels, background allocation | handlers for worker/leader metadata, ping, transfer; constructor, cancel, drop | leader (ZMQ messages, ACKs), allocation task, caller of `new` | concurrent handlers, lost and repeated messages, publication order, partial failure, waiting without a timeout |
| Disk cache files | `B/runtime-kvbm-disk.rs`, `B/runtime-kvbm-storage-nixl.rs` | files: name, length, descriptor, O_DIRECT mode, registration | open (two strategies), allocate (three ways), register, unlink, drop | allocation of a worker, NIXL | failing system calls, process death, rounding to pages |
| RAM storage over NFS/RDMA | `phase2/storage/*.sh`, `phase2/nfs/node*.sh`, `phase2/systemd/*.service`, `phase2/scripts/rollback-phase2.sh` | kernel module, RAM disk, mounts, export table, nfsd, configuration and state files, units | start/stop, setup/rollback, mount/unmount, Phase 2 rollback | two hosts, systemd | kills between steps, reboots, stale state files, check-then-act across hosts |
| Resumable image download | `scripts/resumable-nvcr-pull.sh`, `scripts/snapshot-containerd-ingest.sh` | partial and final files of a blob | check, reuse, take over, fetch, verify, import; snapshot | registry, containerd, each other | resume offsets, two writers of one file, kills, retries |
| KV block transfer strategies | `B/runtime-kvbm-transfer-strategy.rs` | none | choice of a copy path per storage pair | block transfer handler, storages | direction of a transfer seen from both ends |
| NIXL registration and descriptors | `B/runtime-kvbm-storage-nixl.rs` | registrations, what a peer was sent | register, describe, deregister | peers, allocators | descriptors that outlive their storage, sums that wrap |
| KV layout and configuration | `B/runtime-kvbm-config.rs`, `-cache-config.rs`, `-resources.rs`, constructor of the worker | builders, resources | setters, validation, inference of the block geometry | worker, leader | dimensions guessed from shapes, setters in any order, failures that only degrade |
| KVBM metrics endpoint | `B/runtime-kvbm-metrics.rs` | registry, shared shutdown signal, server task | new, clone, drop, serve | every KVBM object | drops on several threads, last drop against a server that does not wait yet |
| P/D connector | `B/runtime-pd-connector.py`, `-dynamo-connector.py`, `-vllm-nixl-connector.py` | two child connectors, metadata | scheduler and worker hooks | vLLM | a request that both connectors save |
| Offload/reload demonstration | `phase2/scripts/demo-*.sh`, `inpod-stream-client.py` | counters before and after | run, compare, judge | cluster | exit status lost in a pipeline |
| Benchmarks, validation, deployment | `phase2/scripts/compare-*.py`, `roce-throughput.py`, `validate-*.sh`, `scripts/*.sh`, manifests | none that outlives a run | measure, check, apply | cluster, switch | - |

What makes each modelled component correct:

* **Worker.** One allocation however often the leader asks; an answered ping
  means the worker can serve; the leader comes up only with workers that serve
  what their rank owes; a failure stays silent; the constructor does not hang
  after a cancellation and, while its worker task runs, returns a receiver that
  the handler was sent to. (When the readiness channel is dropped with the worker
  task, it returns `Ok` with a receiver that never yields; the code promises
  nothing for that case, and no property speaks about it.)
* **Disk files.** Exact length whatever way the space was allocated, aligned
  writes, no name on a registered file beyond the step between registration and
  unlink unless the unlink failed, registration before the name goes, a known
  reason for every file that outlives its process.
* **Storages and transfers.** A transfer delivers whatever its ends are; a
  descriptor stays inside its storage and, when it outlives it, reaches nothing
  that was not registered.
* **Construction.** The geometry read off the tensors is theirs; a layout has one
  source of blocks; what a manager lacks has a known reason.
* **Metrics.** A registry belongs to one `new`; the server outlives every value
  that shares it and no longer.
* **RAM storage.** Nothing but the marked RAM file system is ever served; a
  client that `mountd` named is not cut off; what Phase 2 found is what it leaves;
  the rollback tells the truth.
* **Download.** Resuming is exact, what is returned is verified, progress is
  kept unless others changed what the puller had looked at, and the download
  ends.

## 2. Modules

| Module | Models | Kind |
|---|---|---|
| `KvbmWorker` | leader handshake of all workers | specification, no values for constants |
| `MCKvbmWorker` | values for the constants | instances for TLC |
| `LeaderBarrier` | what the handshake promises, without messages and tasks | abstract specification |
| `KvbmWorkerProofs` | inductive invariant and theorems | TLAPS |
| `KvbmBarrierProofs` | `KvbmWorker` implements `LeaderBarrier` | TLAPS |
| `DiskStorage` | disk cache files | specification |
| `MCDiskStorage` | values for the constants | instances for TLC |
| `DiskStorageProofs` | inductive invariant and theorems | TLAPS |
| `KvbmStorage` | storages of all kinds, strategies, registrations, descriptors | specification |
| `KvbmStorageProofs` | its theorems | TLAPS |
| `KvbmMetrics` | metrics values, registries, servers | specification |
| `KvbmMetricsProofs` | its theorems | TLAPS |
| `KvbmLayout` | `KvbmWorker::new` up to its layout | actions, no initial process |
| `KvbmManager` | builders and `Resources::new` | actions, no initial process |
| `MCKvbmSetup` | one or the other of these two | specification and instance for TLC |
| `KvbmSetupProofs` | theorems about both | TLAPS |
| `RamStorage` | node1 and node3 storage | specification without constants |
| `RamStorageProofs` | its theorems | TLAPS |
| `BlobDownload` | one blob | specification |
| `BlobDownloadProofs` | its theorems | TLAPS |

### KvbmWorker

A handler task is a *slot* of a worker with a program counter; each `.await` of
the source ends a step, everything between two awaits is one step, so two
handlers of one worker interleave exactly where the runtime may switch. The
allocation is a task of its own whose program counter is `alloc`: `agent`
(`build_agent`), `blocks`, `build`, then the publication in the order of the
source, `install` (the `RwLock` cell), `publish` (the oneshot to the creator),
`mark` (`ready_for_ping`). Variables carry the names of the fields they stand
for.

The leader and ZMQ are not in the repository. They are modelled from what the
handlers rely on and marked external: a round per message kind, repeated until
every worker has answered; messages lost, repeated and reordered. An answer to
an earlier sending of a round counts for the round.

Which backends the agent gets and which pools are built is decided in three
places (lines 133, 170 and 186), each from the message and the rank, with calls
that may fail between them: `NeedDisk`, `HostBlocks` and `DiskBlocks` are three
operators, and that they agree is a property. The receiver of the handler may be
dropped by whoever took it (`DropHandlerRx`), and the future of a blocking
constructor may be given up while it waits (`AbandonNew`); then the handler has
nobody to go to.

Constants: the workers and the slots, ranks (or none, in sharded mode), the
block counts of the leader's metadata, `LayoutBlocking` per worker,
`EarlyTransfers` (may transfers be sent before the leader is up) and `Events`,
the kinds of failures that are allowed, so that an instance says which.

`LeaderBarrier` says what all this amounts to: each worker becomes able to serve
by itself or fails for good, the leader comes up once all of them serve, and
every transfer after that is served. `KvbmWorker!Barrier` maps onto it (`up` is
`phase = "up"`, a worker serves when `ready_for_ping` is set and has failed when
its allocation task ended with an error, the answers are the outcomes of
transfers), and `ImplementsBarrier` is the refinement for a leader that waits.

### DiskStorage

One storage per file name; a system call is a step that succeeds or fails, and
the process may die between any two. The registration with NIXL and the unlink
after it are two steps, and so are the release of the handles and the unlink of
`Drop`; the flag that the unlink was tried is memory of the process. Sizes count in units of which `PageSize`
make a page, so page multiples and remainders are all that is left of the 4096
and of the 16 MiB buffer. `mishap` records why a file kept its name, for the
properties only.

`DiskStorage` looks at one file and its system calls; `KvbmStorage` below sees a
disk file as one of four kinds of storage and needs of it only whether it was
unlinked and registered.

### KvbmStorage

Four kinds of storage (system, pinned, device, disk) share two memories, and a
file has addresses of its own because its descriptor, which is never closed, is
its device id. A storage is allocated where nobody is, filled, registered,
described, used in transfers, and dropped in two steps: the handles are released,
where a deregistration may fail and is only logged, and then the memory is given
back. Addresses can then be used again, while the peer keeps the last descriptor
it was sent. `handle` is what the storage believes about its registration,
`region` what the NIXL agent knows; after a failed deregistration both stay.
`WriteTo` and `ReadFrom` are the two traits of the strategy file. What CUDA and
NIXL do with a strategy (`Delivers`) and whom an agent lets in (`Admitted`) are
assumptions, marked external. Sizes are `usize` values of `Word` and wrap.

### KvbmMetrics

A value goes through `new` (which registers one metric after another, and panics
at the first that the registry has), or through `clone`; its drop has three
steps, the reading of the strong count, the notification and the release of its
`Arc`. A server is named after the value that started it. Its `Arc` of the
`Notify` is counted while the task runs and waits: a server that could not bind,
or was killed with the runtime of its creator, no longer counts, which is why 2
need not mean "one value and the server". `overlapped` and `early` are history.

### KvbmLayout, KvbmManager

`KvbmLayout` starts from a model (numbers of blocks and layers, an outer dimension
of 1 or 2 that may have no axis of its own, a page size and an inner dimension),
makes the tensors an engine would make of it in each of the three layouts, and
lets the constructor validate, load and infer. The model is history: the code
sees shapes only. A tensor may fail to load (`LoadFails`). `elements` counts the elements of a block, that is
`bytes_per_block` without the constant factor of the element width. What
`create_layout` does with the result is not in the repository.

`KvbmManager` calls setters in any order, builds, and runs `Resources::new`,
each of whose calls may fail. A builder field is `unset`, `none` (the setter was
called with `None`) or `some`.

They share no state, so `MCKvbmSetup` runs either of them in a behaviour.

### RamStorage

Each script is a job on its host: a command that changes the host is a step, and
a kill or a failing command may end the job before any of them (`set -e`). So
starting nfsd and exporting, and removing the export file and re-exporting, are
steps of their own. A state file is truncated (`SaveRam`, `SaveNfs`) before it is
written (`WriteRam`, `WriteNfs`); in between it is `partial`, and a script that
reads it then takes the value that is missing for "no". One job runs on node3 at
a time (systemd orders the units); node1 acts at any moment, which is where the
check-then-act windows are. Files under `/etc` and `/var/lib` survive a reboot,
kernel state does not.

Whether a script refuses because of clients is not a function of the mount alone.
The client check of the rollback (`phase2/nfs/node3-nfs-rdma-rollback.sh:33-34`)
goes on when `showmount` is missing or `mountd` does not answer, and may stop at
an entry that a rebooted client left behind; unmounting may find the file system
busy on either host. Each is a choice of the model. `slipped` records that a
check went past a live mount, or that one came behind it.

A script runs by hand or as its unit. A unit is active when its `ExecStart` came
to its end. `systemctl stop` runs the `ExecStop` of an active unit only, reports
success whatever it returned, and leaves the unit inactive; this is what the
rollback script builds on, and it is modelled as it is. A rollback shuts nobody
out: scripts run by hand, mounts of node1 and reboots go on beside it. It ends
with the host it runs on (`RebootNode1`) or by itself (`RollbackEnds`). `missed`
says that one of its stop scripts did not run to its end, or that another script
of node3 ran in between. History variables say what the hosts were like before
Phase 2 and which scripts were cut off.

### BlobDownload

A file is the sequence of its bytes, of each of which only its rightness is
kept. There are three writers of a partial: the puller, with curl (appending at
the end of file, from the offset it asked for) or `cp` (truncating, then writing
at its own offset, following the file through a rename); the `cp` of the snapshot
script; and a curl or `cp` whose puller was killed, which goes on by itself and
may be there when the next puller starts. They are modelled byte by byte, because
that is the level at which they disturb each other.

What the puller looks at and what it does about it are steps apart: the sizes
before `cp` truncates (`open`), a partial that is too long (`oversized`) and one
with the wrong digest (`mismatched`) before it is removed. History variables say
what came in between: `mixed` (two of the three wrote at a time), `late` (a
file was written to after it was hashed), `stale` (the ingest or the partial
changed after the puller's last check), and `flipped` (a transfer put a wrong
byte in).

## 3. Runs

| Run | Question | Instance | Distinct states |
|---|---|---|---|
| `worker_safety` | does the handshake keep its promises under every failure? | 1 worker, 2 slots, all events, 2 messages in flight | 372 thousand |
| `worker_pair` | do ranks and partial failure of one worker reach the leader? | 2 workers in replicated mode, 1 slot each, failed allocations, 1 message in flight | 0.9 million |
| `worker_live` | does initialisation end? | 1 worker, 2 slots, loss, failed answers, failed allocation, cancellation | 46 thousand |
| `disk_storage` | all disk file properties | 2 files, page 2, buffer 3 (rounded to 4), sizes 0..9, all environments | 339 thousand |
| `disk_drop` (violated) | does a drop free the space? | 1 instance of the same | |
| `ram_storage` | all storage properties | the two hosts, every state before Phase 2 | 7.0 million |
| `ram_rollback` (violated) | does PASS mean torn down? | same | |
| `ram_killed` (violated) | is the state before Phase 2 preserved? | same | |
| `blob_download` | all download properties | 3 bytes, 2 faults, 1 snapshot, a curl or `cp` left over from a kill | 986 thousand |
| `kvbm_metrics` | registration, early stops, lost stops | 3 values, 2 registries, 2 metrics | 272 thousand |
| `kvbm_storage` | transfers and descriptors | 2 storages, 2 addresses in each memory, words of 4 | 637 thousand |
| `kvbm_setup` | geometry of a worker, resources of a manager | 1 to 3 blocks, pages 1, 2, 3, 4 and 8 of at most 4, inner 1, 4 and 6, 1 or 2 layers; 4 setters | 114 thousand |

Why these bounds are enough. Two slots show every race of two handlers of one
worker; the third would have to do what one of the two does. With one worker and
two messages a repeated and a reordered round both occur; the pair run gives up
slots for a second rank, which is what its properties speak about. For disk
files, a page of two units has both remainders, a buffer that is no page multiple
gets rounded, and nine units go past two buffers and stop at, before and after
each boundary; two files only show that they do not disturb each other. A blob of
three bytes has a first, a middle and a last byte for an offset to be wrong at;
two faults allow one failure in the recovery from another. Three metrics values
let two of them be dropped at once while a third still lives, clone beside `new`,
and two servers want the port; two metrics are enough for a registration to be
cut in the middle. Two storages of at most two addresses let one take the place
of another, wholly or in part, and a word of 4 makes sums wrap. For the geometry,
every comparison of the code with 2 is met by block counts and pages below, at
and above it, and page 3 and page 8 are the two ways in which a page size is
refused. Four setters suffice to set each of the three sources and one of them
again. `RamStorage` has no bound.

Bounds in the specifications: `MaxInFlight` (leader messages under way),
`MaxFaults` and `MaxSnaps` (faults and snapshot runs of a download), `MaxCalls`
(setters called before a build).
`CHECK_DEADLOCK FALSE` stands where the system ends: when all disk files are gone,
when the image is imported, when the metrics values are used up and when a
constructor has returned. Symmetry is used for slots and files in runs
without liveness properties.

### What the runs show

* `worker_safety`, `worker_pair`: the compare-and-swap lets one allocation
  start; before a ping is answered the handler is in the cell and was sent to
  whoever still holds the receiver; the decisions about backends and pools agree
  (a disk pool always with `GDS_MT`, never on two ranks of a replicated group;
  the theorem adds that the workers of a sharded group hold the same pools, which
  the pair run does not meet); the leader is up only when all workers serve and
  the blocks it counts on have a pool, and the handshake is a barrier (which
  includes that a failed allocation keeps the leader down and that no transfer
  after it is refused).
* `worker_live`: with fairness, initialisation ends though messages are lost and
  answers fail, the blocking constructor returns, and a cancellation releases it.
* `disk_storage`: lengths, alignment, O_DIRECT and registration are as promised
  for every size and failure. A registered file has its name only until the step
  after, or because the unlink failed. A file outlives its process after a failed
  allocation, a failed unlink, or a death before the one unlink was tried; the
  last includes the deaths between registration and unlink
  (`B/runtime-kvbm-storage-nixl.rs:389-390`) and inside `Drop`
  (`B/runtime-kvbm-disk.rs:493-494`).
* `disk_drop`: `Drop` never closes the descriptor, so the space of an unlinked
  file stays taken until the process ends.
* `ram_storage`: what is served over RDMA is the marked RAM file system in every
  interleaving, also after a reboot that exports the empty directory again (the
  listener is missing then). A rollback cuts off a client that mounts between the
  client check and the unexport, and any client when `showmount` is missing or
  fails; it does not cut off one that `mountd` named. A
  rollback whose three stop scripts came to their end, with no other script of
  node3 in between, leaves nothing of Phase 2 on node3: no mount, export,
  configuration or state file, and brd as it was; node1 keeps a mount only where
  the check did not hear of it. `nfs.env` tells what nfs-server was before, unless
  a setup was killed before it saved that or, on any later run, while it wrote the
  file again.
* `ram_rollback`: the rollback reports PASS after a stop that did not happen,
  and its last step removes the scripts a second attempt would need.
* `ram_killed`: a first setup that ends before it saved its state makes the next
  one take the nfs-server that Phase 2 started for one that was there before.
* `blob_download`: resuming is exact while one writes at a time; the checksum
  catches every wrong byte that is there when it is taken; the puller throws bytes
  away only for a reason, which still holds when it acts unless the ingest or the
  partial changed behind its check (a restarted ingest, a snapshot or a
  leftover `cp`). The one way to hang is a partial that two writers made grow past
  its size while the loop runs, because the oversize check stands before the loop.
* `kvbm_metrics`: a registry is never shared by two values; no server stops while
  one of its values is in use, also after servers failed or were killed. The port
  is not given back when the last two values are dropped at the same time (both
  read 3) or the last one before the server waits (`notify_waiters` stores
  nothing), and in no other case.
* `kvbm_storage`: the strategy tables agree with each other and with the memories
  at both ends. A descriptor that begins before its storage needs an offset and a
  size whose sum wraps. A stale descriptor reaches a storage that is not
  registered only where an earlier deregistration failed.
* `kvbm_setup`: the inference of dimensions is right for all tensors that have an
  axis for the outer dimension. Without one it is wrong in the cases listed in
  `Misread`, among them every `outer_contiguous` tensor with pages of more than
  one token, where it skips the page dimension although its comment says "all dims
  after n_blocks" (`B/runtime-kvbm-distributed-worker.rs:561` and `:572`). A layout may be built
  without a source of blocks, or refused with one, when a setter was called with
  `None`. A manager without events or GDS has one of the reasons in
  `DegradedExplained`.

## 4. Fairness

`KvbmWorker!FairSpec` assumes: the runtime polls every task that can go on (weak
fairness for handlers, allocation, worker task and constructor); the leader
repeats an unfinished round, reads its answers and goes on when the round is
complete (weak fairness); a message that is sent again and again is delivered in
the end (strong fairness for delivery, since losing it disables it), and so is an
answer that is tried again and again (`Answered`: an ACK may fail any number of
times, but not always). No failure, cancellation or drop is ever forced.
`BlobDownload!Spec` assumes that the puller is scheduled, which includes that
somebody runs the script again after a kill, and so is a running copy of the
snapshot; faults are bounded, nothing forces containerd to go on, and a curl or
`cp` left over from a kill may stop for ever.
`KvbmMetrics!Spec` assumes that server tasks are polled (a task that starts binds
or fails, a bound one comes to wait, a notified one stops) and that a thread
inside `drop` goes on; nobody has to create, clone or drop anything, and the
runtime of the callers need not end. Weak fairness is enough: a step of a task or
of a dropping thread stays possible until it is taken or the task is killed.
`RamStorage`, `DiskStorage`, `KvbmStorage` and `MCKvbmSetup` have no liveness
property and no fairness.

## 5. Proofs

`KvbmWorkerProofs` proves, for any set of workers and slots, any ranks, block
counts, blocking modes and failures, that `Spec` implies each of the eleven safety
invariants of `KvbmWorker` (`NoTransferRefused` under `~EarlyTransfers`, the case
in which it holds). The only assumption is `KvbmWorkerAssumption`, which types
the constants.

None of these invariants is inductive as it stands: an answered ping means a
ready worker only because of what holds while the answer is still a program
counter or a message. `IInv` adds to the type invariant

* `FlightInv`: an allocation exists exactly when the layout was taken, and one
  handler at most stands between the swap and the taking (for `SingleFlight`);
* `MetaInv`: a swapped flag has an allocation or a handler that is about to start
  one, and so has every worker whose answer to `leader_metadata` is under way or
  counted (for `AckedMetadataStarts`, which a payload that does not decode would
  break: it is acknowledged and starts nothing);
* `PublishInv`: cell, channel and ready flag are functions of how far the
  publication is (for `PingAckMeansServable`, `FailedNeverReady`);
* `PingInv`: readiness travels from the gate through the program counter, the
  answer and the leader's set of answers up to `phase = "up"` (for
  `LeaderUpMeansAllServable`, `LayoutSignalAfterAck`);
* `SignalInv`: an answered ping has fired the readiness signal or has a handler
  about to, and the leader counts only answered ones (for `AckMeansSignal`, the
  safety half of `BlockingNewReturns`);
* `TierInv`: what the allocation holds at each of its points, the backends by the
  first decision, the pools by the two later ones (for `PublishedTiers`);
* `TransferInv`: a waiting leader has no transfer under way before it is up, so
  every dispatch finds the cell filled (for `NoTransferRefused`);
* `CreatorInv`: the receiver stays with a constructor that waits, a handler is
  lost only when nobody has the receiver, and a blocking constructor returns after
  the signal (for `BlockingReturnHasHandler`, `PingAckMeansServable`).

Each part has a step lemma with one step per action (`TypeStep` ... `CreatorStep`),
which names the other parts it needs; `Invariance` joins them.

`KvbmBarrierProofs` proves `~EarlyTransfers => (Spec => ImplementsBarrier)`: the
initial states agree, and under `IInv` four actions are steps of the barrier
(`MarkReady`, `AllocFails`, the `LeaderAdvance` that ends the ping round,
`BlockTransferDispatch`) while all others leave what the mapping looks at alone.
`PublishInv` gives that a worker serves or fails only once, `PingInv` that the
leader counts serving workers only, `TransferInv` that a dispatch finds the
leader up and the cell filled. Without `~EarlyTransfers` the statement is false: a transfer that comes before the
handler is refused at once (line 393), although the comment on the type (line
381) says that it waits. That leaders do wait is an assumption of all runs; an
instance with `EarlyTransfers = TRUE` violates `NoTransferRefused`.

`NoTransferRefused`, `FailedNeverReady`, `LayoutSignalAfterAck`,
`AckedMetadataStarts`, `AckMeansSignal`,
`ODirectUnlessDisabled` (of `DiskStorage`) and `LastIsNotMissed` (of `KvbmMetrics`) belong to no run: their
theorems cover every instance.

`DiskStorageProofs` proves every safety property of `DiskStorage` but
`DropReleasesSpace`, which does not hold, for any set of files, any sizes, any
page size and any buffer size, from `DiskStorageAssumption` (which types the
constants and asks for a page and a buffer of at least one unit). Its `IInv` adds
to the type invariant

* `FillInv`: a file is empty before its space is allocated, as long as what was
  written and page-aligned during the loop, and exact afterwards (for
  `LiveHasExactLength`, `ZeroFillAligned`); this rests on the lemmas about
  `RoundUp` and `ToWrite`, which hold for every page size;
* `ModeInv`: only the default strategy leaves O_DIRECT to a second step (for
  `ODirectUnlessDisabled`);
* `NameInv`: who tried to unlink and what came of it, also between a registration
  and its unlink and between the two steps of `Drop` (for
  `RegisteredHasNoName`, `OrphansExplained` and the action property
  `RegisterWhileLinked`).

`KvbmMetricsProofs` proves the type invariant, `WholeRegistry`, `NotBeforeLast`
and `LastIsNotMissed` for any finite set of values, any registries and any number of
metrics, from `KvbmMetricsAssumption`. `WholeRegistry` needs `RegInv`: a value
owns every name of its registry before its next one, a name is owned by a value
that was given this registry and is past this name, and a value that `new`
returned is past them all. `NotBeforeLast` needs `CountInv`: a value that is
notifying a server whose task still waits is the only one that holds its
`Notify`, and only `new` gives a server its first value, so nobody joins later.
Its core is a lemma about cardinalities (`LastOfTwo`): when the server task holds
its `Arc` and the count is 2, the value that reads it is the only holder.
`LastIsNotMissed` is the safety half of the liveness property `StopsAfterLast`: a
server that nobody will stop is one of the two kinds `StopsAfterLast` excludes. It
needs `HeldInv`: a running server has a value in use or about to notify it, unless
two were dropped at once or it was notified before it waited.

`KvbmStorageProofs` proves all four properties of `KvbmStorage`, for any storages,
any memory size and any word larger than it, from `KvbmStorageAssumption`.
`StrategiesDeliver` is the statement about the strategy tables alone, of which
`TransfersDeliver` makes one about steps. `StaleReach` rests on `SafeInv`: the
storages that occupy memory are apart (lemma `Apart`), and the agent knows only
regions of storages that were allocated and hold a handle. `DescriptorsInside`
rests on `DescInv` (the storage of a descriptor was allocated, so that its place
no longer changes) and on what a comparison with a sum that wraps says about the
addresses (`InsideOrWrapped`, from the lemmas `ModLow` and `ModHigh`).

`RamStorageProofs` proves the six invariants and both action properties of
`RamStorage`. There are no constants to generalise over; what the proof adds to
the run is why they hold. None of them is inductive. The scripts write their
state file last and read it first, so between two commands the truth is in the
script: the proof carries it from one to the other.

* `ScriptInv`: what a script has reached is there as long as it runs (the RAM
  start mounts an unmounted device, the NFS setup runs on the marked file system
  and behind its own export file);
* `SavedInv`: what a script remembers of its state file is what the file says, a
  truncated file saying no;
* `FoundInv`: a brd that was there before Phase 2 stays and is never recorded as
  created;
* `OwnerInv`: as long as the device holds a file system, the state file or the
  running start says who loaded brd, and without one brd is as it was (for
  `ModuleRestored`, `BlankUnlessCut`). A start that finds a signature refuses
  *after* it loaded the module; it is saved by the fact that a signature means the
  module was loaded already, by whom the state file says;
* `ExportInv`: what is exported is in the export file, and RDMA serves of it only
  the marked file system (for `ServedIsRam`);
* `ClientInv`: from the unexport to the stop of nfsd a live client is one that the
  check did not hear of (for `MountedIsServed`);
* `EnvInv`: what nfs-server was before is in the state file or in the running setup,
  which alone knows it while the file is truncated (for `NfsEnvTruthful`,
  `ServiceRestored`);
* `RollInv`: each stop a rollback has behind it left its part taken down and its
  files removed, or is counted as missed, as is every other script of node3 that
  came in between (for `TornDownUnlessMissed`).

`BlobDownloadProofs` proves the type invariant, `ResumeExact`, `VerifiedFinal`
and the action property `ProgressKept` for a blob of any size, any number of
faults and any number of snapshots, from the assumptions that these are numbers
and the size is not 0. Files are sequences, and the lemmas say what a write at
an offset does to one (`Written` and those after it). `RoomInv` bounds the files
by what the puller and a left-over curl may still write to them, and `OrderInv`
keeps a curl from falling behind its beginning (both for the type invariant).
`ResumeExact` needs
`ContentInv`: as long as nobody else writes, the writer of the partial stands at
its end, so it leaves no gap and repeats nothing. `VerifiedFinal` needs `MoveInv`:
what was hashed is still the blob when it is moved, unless another writer came
between. `ProgressKept` needs `CheckedInv`: what the puller found wrong is still
wrong when it acts, unless others changed what it had looked at.

`KvbmSetupProofs` proves the three invariants of `MCKvbmSetup` for all numbers of
blocks and layers, page sizes, inner dimensions and calls of setters, from
`KvbmLayoutAssumption` (the constants are numbers, a model has at least one layer
and an inner dimension of at least 1). `GeometryExact` needs
that the tensors still are those of the model and that a step of the constructor
has validated what it relies on (`LayoutInv`); the arithmetic is about products of
at most five factors and exact divisions, one lemma per layout. `OneSource` and
`DegradedExplained` need `ManagerInv`: what each builder field was last set to
(`SourceInv`) and what each step of `Resources::new` made of it (`EventsInv`,
`AgentInv`).

The inductive invariants of the last three modules were given to TLC as invariants
of `ram_storage`, `blob_download` and `kvbm_setup` before they were proved.

Every safety property that a passing run checks is thereby also a theorem. Only
model-checked are the liveness properties: those of `worker_live`,
`StopsAfterLast` of the metrics and `Completes` of the download (liveness under
fairness is out of the prover's reach), and the three statements that do not hold,
whose counterexamples TLC finds. What `Product` computes is bounded by its
definition to five dimensions, which no shape of the model exceeds.

## 6. Not modelled

The layout and pool builders, the leader, ZMQ, CUDA and NIXL themselves, which are
not in the repository; error texts and logging; the values of the counters of
`KvbmMetrics`; refusals of the storage scripts because of foreign files, sizes or
addresses, which end a script early as a kill does; the number of nfsd threads; the
memory reserve of the RAM disk; the Phase 1 validation inside the rollback; the
manifest, the token loop and the other blobs of a download. Benchmarks, validation scripts, manifests and
the switch dialogue keep no state across runs.

The block counts of the cache configuration and `should_bypass_cpu_cache` are
functions of a few numbers and strings whose callers are not in the repository; a
model would repeat them. One thing about the second is worth knowing: it reads
sizes as whole numbers (`B/runtime-kvbm-config.rs:283`), so a CPU cache of 0.5 GB
counts as not set, while the cache configuration takes fractions
(`B/runtime-kvbm-cache-config.rs:54`).

A second NIXL registration of a memory storage is left out: what its set of
handles, which is not in the repository, does with a second handle of one name
decides the outcome. What the end of a task handle does to a worker task whose
constructor was given up is left open in the same way: the task may go on, or exit
after a cancellation.

Three states of the storage hosts are in `RamStorage`, but outside what its
properties promise. A rollback killed between the removal of the export file and
`exportfs -ra` leaves the kernel's export behind: the next rollback skips the unit,
which is inactive by then, and a run by hand, which finds no export file, takes
the export down only where it stops nfsd.
A stop leaves an ext4 signature on the device of a brd module that was loaded
before Phase 2, at which the next start refuses (`BlankUnlessCut` leaves that case
out). A rollback without a state file takes a missing `SERVICE_WAS_ACTIVE` for
"inactive" and stops an nfs-server that ran before (`ServiceRestored` is about
setups that are still in force and were not killed).

The P/D connector passes every call on to two connectors, and the pending saves it
hands from the scheduler to the workers are counted by its superclass in vLLM;
neither is in the repository, so that a model of it would be one of guesses.

## 7. Plan

1. Worker handshake with the barrier it implements, and their proofs (done);
   disk files and their proofs (done); RAM storage (done); download (done).
2. Metrics, storages with strategies and descriptors, and their proofs (done);
   construction of a worker and of a manager (done).
3. Proofs for RAM storage, download and construction: every safety property of the
   runs (done).
4. Worth proving next: an abstract export (absent, served, gone with notice, cut
   off) that `RamStorage` implements.
