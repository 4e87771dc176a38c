---------------------------- MODULE KvbmStorage ----------------------------
(***************************************************************************)
(* Storages of one process, the strategies that move blocks between them   *)
(* (runtime-kvbm-transfer-strategy.rs), and what a peer can reach through  *)
(* NIXL descriptors of them (runtime-kvbm-storage-nixl.rs).                *)
(*                                                                         *)
(* The code chooses a strategy and makes registrations and descriptors.    *)
(* What CUDA and NIXL then do, and how the allocators of memory behave, is *)
(* external: Delivers and Admitted say what is assumed of them.            *)
(***************************************************************************)
EXTENDS Integers, FiniteSets

CONSTANTS
  Storages,  \* storage values, each allocated at most once
  MemSize,   \* addresses of host memory, and of device memory
  Word,      \* usize has the values 0 .. Word - 1
  None

ASSUME KvbmStorageAssumption ==
  /\ MemSize \in Nat \ {0} /\ Word \in Nat /\ MemSize < Word
  /\ Storages \cap {"Dram", "Vram"} = {} /\ None \notin Storages

VARIABLES
  kind,      \* the Rust type of each storage
  life,      \* none, live, released (inside drop) or gone
  base,      \* its first address
  size,      \* its length
  unlinked,  \* DiskStorage.unlinked
  handle,    \* does it hold a "nixl" registration (after drop: one that failed to go)?
  region,    \* does the NIXL agent still know its memory?
  desc,      \* the descriptor the peer holds, the last one it was sent
  data       \* what a storage holds

vars == <<kind, life, base, size, unlinked, handle, region, desc, data>>

(***************************************************************************)
(* Strategies                                                              *)
(***************************************************************************)
Host == {"System", "Pinned"}
Memory == Host \cup {"Device"}
Local == Memory \cup {"Disk"}

\* Mutant: a storage that reads from a disk is treated like one that writes.
DiskAlwaysWrites(s, d) ==
  CASE s = "Disk" \/ d \in {"Disk", "Nixl"} -> "NixlWrite"
    [] s \in Host /\ d \in Host -> "Memcpy"
    [] s = "Device" /\ d = "Device" -> "CudaAsyncD2D"
    [] s = "Pinned" /\ d = "Device" -> "CudaAsyncH2D"
    [] s = "Device" /\ d = "Pinned" -> "CudaAsyncD2H"
    [] s = "System" /\ d = "Device" -> "CudaBlockingH2D"
    [] s = "Device" /\ d = "System" -> "CudaBlockingD2H"

\* WriteToStrategy<d> for s; "Nixl" is the remote NixlStorage.
WriteTo(s, d) ==
  CASE d \in {"Disk", "Nixl"} -> "NixlWrite"
    [] s = "Disk" /\ d \in Memory -> "NixlRead"
    [] s \in Host /\ d \in Host -> "Memcpy"
    [] s = "Device" /\ d = "Device" -> "CudaAsyncD2D"
    [] s = "Pinned" /\ d = "Device" -> "CudaAsyncH2D"
    [] s = "Device" /\ d = "Pinned" -> "CudaAsyncD2H"
    [] s = "System" /\ d = "Device" -> "CudaBlockingH2D"
    [] s = "Device" /\ d = "System" -> "CudaBlockingD2H"

\* ReadFromStrategy<s> for d: the write strategy of the source, implemented
\* for every memory, and a NIXL read from a remote storage for all.
ReadFrom(d, s) == IF s = "Nixl" THEN "NixlRead" ELSE WriteTo(s, d)

\* The strategies a transfer from s to d may run with.
Strategies(s, d) ==
  IF s = "Nixl" THEN {ReadFrom(d, s)} ELSE {WriteTo(s, d)} \cup {x \in {ReadFrom(d, s)} : d \in Memory}

\* External: which way a strategy moves data between a source and a
\* destination of these kinds, if it can.  Copies by the CPU need host memory
\* at both ends, asynchronous CUDA copies need it pinned, and for NIXL the
\* file, or the peer, is the remote end, which a write fills and a read drains.
Delivers(x, s, d) ==
  CASE x = "Memcpy" -> s \in Host /\ d \in Host
    [] x = "CudaAsyncH2D" -> s = "Pinned" /\ d = "Device"
    [] x = "CudaAsyncD2H" -> s = "Device" /\ d = "Pinned"
    [] x = "CudaAsyncD2D" -> s = "Device" /\ d = "Device"
    [] x = "CudaBlockingH2D" -> s \in Host /\ d = "Device"
    [] x = "CudaBlockingD2H" -> s = "Device" /\ d \in Host
    [] x = "NixlWrite" -> d \in {"Disk", "Nixl"}
    [] x = "NixlRead" -> s = "Nixl" \/ (s = "Disk" /\ d \in Memory)

(***************************************************************************)
(* Memory                                                                  *)
(***************************************************************************)
\* nixl_mem_type, and mem_type of the storages; of a file the device id is its
\* descriptor, which is never closed and so stays with one storage.
MemType(k) == IF k \in Host THEN "Dram" ELSE IF k = "Device" THEN "Vram" ELSE "File"
Space(s) == IF MemType(kind[s]) = "File" THEN s ELSE MemType(kind[s])

Cells(s, first, n) == {<<Space(s), a>> : a \in first .. first + n - 1}
CellsOf(s) == Cells(s, base[s], size[s])
Occupies(s) == life[s] \in {"live", "released"}

\* External: a peer may use a descriptor if the agent knows all of its range.
Named(d) == Cells(d.owner, d.addr, d.size)
Admitted(d) == \E r \in Storages : region[r] /\ Named(d) \subseteq CellsOf(r)
Reached(d) == {t \in Storages : life[t] = "live" /\ Named(d) \cap CellsOf(t) # {}}

Init ==
  /\ kind = [s \in Storages |-> "System"]
  /\ life = [s \in Storages |-> "none"]
  /\ base = [s \in Storages |-> 0]
  /\ size = [s \in Storages |-> 0]
  /\ unlinked = [s \in Storages |-> FALSE]
  /\ handle = [s \in Storages |-> FALSE]
  /\ region = [s \in Storages |-> FALSE]
  /\ desc = None
  /\ data = [s \in Storages |-> "blank"]

\* Mutant: an allocation may reach past the end of memory.
AllocateUnbounded(s, k, b, n) ==
  /\ life[s] = "none"
  /\ kind' = [kind EXCEPT ![s] = k]
  /\ life' = [life EXCEPT ![s] = "live"]
  /\ base' = [base EXCEPT ![s] = b]
  /\ size' = [size EXCEPT ![s] = n]
  /\ UNCHANGED <<unlinked, handle, region, desc, data>>

\* StorageAllocator::allocate: memory that nobody occupies; a file has
\* addresses of its own, from 0.
Allocate(s, k, b, n) ==
  /\ life[s] = "none"
  /\ b + n <= MemSize /\ (k = "Disk" => b = 0)
  /\ \A t \in Storages : k # "Disk" /\ Occupies(t) /\ MemType(kind[t]) = MemType(k) =>
        b + n <= base[t] \/ base[t] + size[t] <= b
  /\ kind' = [kind EXCEPT ![s] = k]
  /\ life' = [life EXCEPT ![s] = "live"]
  /\ base' = [base EXCEPT ![s] = b]
  /\ size' = [size EXCEPT ![s] = n]
  /\ UNCHANGED <<unlinked, handle, region, desc, data>>

\* The owner of the blocks writes them.
Fill(s) ==
  /\ life[s] = "live"
  /\ data' = [data EXCEPT ![s] = "local"]
  /\ UNCHANGED <<kind, life, base, size, unlinked, handle, region, desc>>

(***************************************************************************)
(* Registration and descriptors                                            *)
(***************************************************************************)
\* nixl_register: a disk storage must have its name and loses it here,
\* whether or not the unlink that follows succeeds.  A second registration of a
\* memory storage is left out: what the set of handles, which is not part of the
\* repository, does with a second "nixl" handle decides its outcome.
NixlRegister(s) ==
  /\ life[s] = "live" /\ ~handle[s] /\ ~unlinked[s]
  /\ handle' = [handle EXCEPT ![s] = TRUE]
  /\ region' = [region EXCEPT ![s] = TRUE]
  /\ unlinked' = [unlinked EXCEPT ![s] = kind[s] = "Disk"]
  /\ UNCHANGED <<kind, life, base, size, desc, data>>

Unlink(s) ==
  /\ life[s] = "live" /\ kind[s] = "Disk"
  /\ unlinked' = [unlinked EXCEPT ![s] = TRUE]
  /\ UNCHANGED <<kind, life, base, size, handle, region, desc, data>>

\* A NixlStorage; wrapped is history.
Describe(s, offset, n) ==
  [owner |-> s, addr |-> (base[s] + offset) % Word, size |-> n, wrapped |-> offset + n >= Word]

\* as_nixl_descriptor, None unless the storage is registered.
AsNixlDescriptor(s) ==
  /\ life[s] = "live" /\ handle[s]
  /\ desc' = Describe(s, 0, size[s])
  /\ UNCHANGED <<kind, life, base, size, unlinked, handle, region, data>>

\* Mutant: only the offset is compared with the size.
FromStorageUnbounded(s, offset, n) ==
  /\ life[s] = "live" /\ offset <= size[s]
  /\ desc' = Describe(s, offset, n)
  /\ UNCHANGED <<kind, life, base, size, unlinked, handle, region, data>>

\* from_storage_with_offset: the sum is a usize and wraps in a release build.
\* Nothing asks whether the storage is registered.
FromStorageWithOffset(s, offset, n) ==
  /\ life[s] = "live" /\ (offset + n) % Word <= size[s]
  /\ desc' = Describe(s, offset, n)
  /\ UNCHANGED <<kind, life, base, size, unlinked, handle, region, data>>

(***************************************************************************)
(* Transfers                                                               *)
(***************************************************************************)
NeedsNixl(x) == x \in {"NixlWrite", "NixlRead"}

\* A strategy that cannot do what it is asked leaves a destination in pieces.
Transfer(s, t) ==
  /\ s # t /\ life[s] = "live" /\ life[t] = "live"
  /\ \E x \in Strategies(kind[s], kind[t]) :
        /\ NeedsNixl(x) => handle[s] /\ handle[t]
        /\ data' = [data EXCEPT ![t] = IF Delivers(x, kind[s], kind[t]) THEN data[s] ELSE "torn"]
  /\ UNCHANGED <<kind, life, base, size, unlinked, handle, region, desc>>

\* A peer writes one of its storages to a descriptor it was sent.
PeerWrite(d) ==
  /\ Admitted(d)
  /\ \E k \in Local :
        data' = [t \in Storages |->
                   IF t \in Reached(d) /\ Delivers(WriteTo(k, "Nixl"), k, "Nixl") THEN "remote" ELSE data[t]]
  /\ UNCHANGED <<kind, life, base, size, unlinked, handle, region, desc>>

(***************************************************************************)
(* Drop: the handles are released first, and a failed deregistration is    *)
(* only logged; then the memory is given back.                             *)
(***************************************************************************)
\* Mutant: the registration is forgotten rather than given back.
ReleaseForgets(s) ==
  /\ life[s] = "live"
  /\ life' = [life EXCEPT ![s] = "released"]
  /\ handle' = [handle EXCEPT ![s] = FALSE]
  /\ unlinked' = [unlinked EXCEPT ![s] = kind[s] = "Disk"]
  /\ UNCHANGED <<kind, base, size, region, desc, data>>

Release(s) ==
  /\ life[s] = "live"
  /\ life' = [life EXCEPT ![s] = "released"]
  /\ \E failed \in BOOLEAN :
        /\ failed => handle[s]
        /\ handle' = [handle EXCEPT ![s] = failed]
        /\ region' = [region EXCEPT ![s] = failed]
  /\ unlinked' = [unlinked EXCEPT ![s] = kind[s] = "Disk"]
  /\ UNCHANGED <<kind, base, size, desc, data>>

Free(s) ==
  /\ life[s] = "released"
  /\ life' = [life EXCEPT ![s] = "gone"]
  /\ UNCHANGED <<kind, base, size, unlinked, handle, region, desc, data>>

Next ==
  \/ \E s \in Storages :
        \/ \E k \in Local, b \in 0 .. MemSize - 1, n \in 1 .. MemSize : Allocate(s, k, b, n)
        \/ Fill(s) \/ NixlRegister(s) \/ Unlink(s) \/ AsNixlDescriptor(s)
        \/ \E offset, n \in 0 .. Word - 1 : FromStorageWithOffset(s, offset, n)
        \/ Release(s) \/ Free(s)
  \/ \E s, t \in Storages : Transfer(s, t)
  \/ \E d \in {desc} \ {None} : PeerWrite(d)

Spec == Init /\ [][Next]_vars

-----------------------------------------------------------------------------
Descriptors == [owner: Storages, addr: 0 .. Word - 1, size: 0 .. Word - 1, wrapped: BOOLEAN]

(* Every variable has its type, and storages in memory have a place there.  *)
TypeOK ==
  /\ kind \in [Storages -> Local]
  /\ life \in [Storages -> {"none", "live", "released", "gone"}]
  /\ base \in [Storages -> 0 .. MemSize - 1]
  /\ size \in [Storages -> 0 .. MemSize]
  /\ \A s \in Storages : base[s] + size[s] <= MemSize
  /\ unlinked \in [Storages -> BOOLEAN]
  /\ handle \in [Storages -> BOOLEAN]
  /\ region \in [Storages -> BOOLEAN]
  /\ desc \in Descriptors \cup {None}
  /\ data \in [Storages -> {"blank", "local", "remote", "torn"}]

(* Whichever storages are at the two ends, and whether the source writes or *)
(* the destination reads, the strategy the code picks is one these memories *)
(* can carry out, in the direction that was asked for: the destination ends *)
(* up with what the source holds, and no transfer leaves it in pieces.      *)
TransferDelivers ==
  [][\A s, t \in Storages : Transfer(s, t) => data'[t] = data[s] /\ data'[s] = data[s]]_vars

(* A descriptor that is handed out lies within the storage it describes,    *)
(* the only exception being an offset and a size whose sum wraps in usize:  *)
(* that one still ends inside, and begins before the storage does.          *)
DescriptorInside ==
  desc # None =>
    LET s == desc.owner IN
    IF desc.wrapped
    THEN (desc.addr + desc.size) % Word \in base[s] .. base[s] + size[s]
    ELSE desc.addr >= base[s] /\ desc.addr + desc.size <= base[s] + size[s]

\* t occupies memory of a dropped storage whose deregistration failed.
Haunted(t) == \E o \in Storages : life[o] = "gone" /\ handle[o] /\ CellsOf(o) \cap CellsOf(t) # {}

(* A descriptor outlives the storage it was made of, which keeps no         *)
(* ownership, and its addresses are used again.  Still a peer that kept it  *)
(* reaches no storage that is not registered itself, unless an earlier      *)
(* storage there could not be deregistered, which its drop only logs.       *)
StaleReachExplained ==
  desc # None /\ Admitted(desc) => \A t \in Reached(desc) : handle[t] \/ Haunted(t)
=============================================================================
