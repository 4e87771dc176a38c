---------------------------- MODULE DiskStorage ----------------------------
(***************************************************************************)
(* Life of the disk cache files (runtime-kvbm-disk.rs and the DiskStorage  *)
(* part of runtime-kvbm-storage-nixl.rs): a temporary file is created with *)
(* one of two ways of asking for O_DIRECT, its space is allocated with     *)
(* fallocate or one of two fallbacks, it is registered with NIXL while it  *)
(* still has a name, loses the name, is used through its descriptor and    *)
(* dropped.  Every system call may fail and the process may die between    *)
(* any two of them; a new process starts from new file names.              *)
(*                                                                         *)
(* Sizes count units of which PageSize make a page: the model keeps which  *)
(* lengths are page multiples and forgets the 4096.                        *)
(***************************************************************************)
EXTENDS Integers, FiniteSets

CONSTANTS
  Files,           \* the names mkostemp hands out
  Sizes,           \* sizes that are asked for
  PageSize,        \* PAGE_SIZE
  ZeroBufSize      \* ZERO_BUF_SIZE

ASSUME DiskStorageAssumption ==
  /\ Sizes \subseteq Nat
  /\ PageSize \in Nat \ {0} /\ ZeroBufSize \in Nat \ {0}

VARIABLES
  env,         \* the environment variables, fixed for the deployment
  pc,          \* where the storage of each file is in its life
  size,        \* the size asked for
  written,     \* bytes the zero-fill loop has written
  length,      \* length of the file
  linked,      \* does the file have a name in the cache directory?
  fdOpen,      \* does the process hold the descriptor of the file?
  oDirect,     \* is the descriptor in O_DIRECT mode?
  unlinked,    \* DiskStorage.unlinked
  registered,  \* does handles hold the "nixl" registration?
  mishap       \* history: what kept the file from losing its name

vars == <<env, pc, size, written, length, linked, fdOpen, oDirect, unlinked, registered, mishap>>

\* openDirect: DYN_KVBM_DISK_ALLOCATOR_TYPE is "open-direct" rather than
\* "default" (any other value is an error before a file exists); the other two
\* are set or not, whatever their value.
Environments == [openDirect: BOOLEAN, disableODirect: BOOLEAN, zeroFill: BOOLEAN]

Init ==
  /\ env \in Environments
  /\ pc = [f \in Files |-> "absent"]
  /\ size = [f \in Files |-> 0]
  /\ written = [f \in Files |-> 0]
  /\ length = [f \in Files |-> 0]
  /\ linked = [f \in Files |-> FALSE]
  /\ fdOpen = [f \in Files |-> FALSE]
  /\ oDirect = [f \in Files |-> FALSE]
  /\ unlinked = [f \in Files |-> FALSE]
  /\ registered = [f \in Files |-> FALSE]
  /\ mishap = [f \in Files |-> "none"]

\* nixl_register and drop are on their way in "registering" and "dropping".
BeforeUse == {"created", "opened", "filling"}
InUse == {"live", "registering", "dropping"}
States == {"absent", "failed", "dropped", "orphaned"} \cup BeforeUse \cup InUse
Mishaps == {"none", "unlink", "allocate", "crash"}

DivCeil(n, d) == (n + d - 1) \div d
RoundUp(n) == DivCeil(n, PageSize) * PageSize
Least(a, b) == IF a <= b THEN a ELSE b

\* The zero buffer is rounded up to whole pages.
BufLen == RoundUp(ZeroBufSize)

(***************************************************************************)
(* Opening: mkostemp, with O_DIRECT at once or through fcntl afterwards.   *)
(* A failed fcntl closes and removes the file, ignoring errors.            *)
(***************************************************************************)
\* mkostemp; when it fails there is no file and nothing changes.
CreateTempFile(f, n) ==
  /\ pc[f] = "absent"
  /\ pc' = [pc EXCEPT ![f] = IF env.openDirect \/ env.disableODirect THEN "opened" ELSE "created"]
  /\ size' = [size EXCEPT ![f] = n]
  /\ linked' = [linked EXCEPT ![f] = TRUE]
  /\ fdOpen' = [fdOpen EXCEPT ![f] = TRUE]
  /\ oDirect' = [oDirect EXCEPT ![f] = env.openDirect /\ ~env.disableODirect]
  /\ UNCHANGED <<written, length, unlinked, registered, mishap>>

\* F_GETFL and F_SETFL of the default strategy.
SetODirect(f) ==
  /\ pc[f] = "created"
  /\ pc' = [pc EXCEPT ![f] = "opened"]
  /\ oDirect' = [oDirect EXCEPT ![f] = TRUE]
  /\ UNCHANGED <<size, written, length, linked, fdOpen, unlinked, registered, mishap>>

SetODirectFails(f) ==
  /\ pc[f] = "created"
  /\ pc' = [pc EXCEPT ![f] = "failed"]
  /\ fdOpen' = [fdOpen EXCEPT ![f] = FALSE]
  /\ \E removed \in BOOLEAN :
        /\ linked' = [linked EXCEPT ![f] = ~removed]
        /\ mishap' = [mishap EXCEPT ![f] = IF removed THEN @ ELSE "unlink"]
  /\ UNCHANGED <<size, written, length, oDirect, unlinked, registered>>

(***************************************************************************)
(* allocate_file.                                                          *)
(***************************************************************************)
\* fallocate works; the kernel refuses a length of zero before anything else.
Fallocate(f) ==
  /\ pc[f] = "opened" /\ size[f] > 0
  /\ pc' = [pc EXCEPT ![f] = "live"]
  /\ length' = [length EXCEPT ![f] = size[f]]
  /\ UNCHANGED <<size, written, linked, fdOpen, oDirect, unlinked, registered, mishap>>

\* fallocate is not supported: only set the length ...
TruncateFallback(f) ==
  /\ pc[f] = "opened" /\ size[f] > 0 /\ ~env.zeroFill
  /\ pc' = [pc EXCEPT ![f] = "live"]
  /\ length' = [length EXCEPT ![f] = size[f]]
  /\ UNCHANGED <<size, written, linked, fdOpen, oDirect, unlinked, registered, mishap>>

\* ... or write zeros.
StartZeroFill(f) ==
  /\ pc[f] = "opened" /\ size[f] > 0 /\ env.zeroFill
  /\ pc' = [pc EXCEPT ![f] = "filling"]
  /\ UNCHANGED <<size, written, length, linked, fdOpen, oDirect, unlinked, registered, mishap>>

\* Mutant: the last write is not rounded up to a page.
ToWriteUnrounded(f) == Least(size[f] - written[f], BufLen)

\* Mutant: a page too little is taken for the last write.
ToWritePageShort(f) ==
  LET remaining == size[f] - written[f]
  IN  IF remaining >= BufLen THEN BufLen ELSE remaining - PageSize

ToWrite(f) ==
  LET remaining == size[f] - written[f]
  IN  IF remaining >= BufLen THEN BufLen ELSE Least(RoundUp(remaining), BufLen)

ZeroFillWrite(f) ==
  /\ pc[f] = "filling" /\ written[f] < size[f]
  /\ written' = [written EXCEPT ![f] = @ + ToWrite(f)]
  /\ length' = [length EXCEPT ![f] = written[f] + ToWrite(f)]
  /\ UNCHANGED <<pc, size, linked, fdOpen, oDirect, unlinked, registered, mishap>>

\* Mutant: the padding stays.
ZeroFillFinishPadded(f) ==
  /\ pc[f] = "filling" /\ written[f] >= size[f]
  /\ pc' = [pc EXCEPT ![f] = "live"]
  /\ UNCHANGED <<size, written, length, linked, fdOpen, oDirect, unlinked, registered, mishap>>

\* Flush, and cut the padding of the last page off.
ZeroFillFinish(f) ==
  /\ pc[f] = "filling" /\ written[f] >= size[f]
  /\ pc' = [pc EXCEPT ![f] = "live"]
  /\ length' = [length EXCEPT ![f] = IF written[f] > size[f] THEN size[f] ELSE @]
  /\ UNCHANGED <<size, written, linked, fdOpen, oDirect, unlinked, registered, mishap>>

\* Any call of allocate_file fails, a short write included.  The error leaves
\* DiskStorage::new at once: nobody closes or removes the file.
AllocateFails(f) ==
  /\ pc[f] \in {"opened", "filling"}
  /\ pc' = [pc EXCEPT ![f] = "failed"]
  /\ mishap' = [mishap EXCEPT ![f] = "allocate"]
  /\ UNCHANGED <<size, written, length, linked, fdOpen, oDirect, unlinked, registered>>

(***************************************************************************)
(* Registration, unlink, drop.                                             *)
(***************************************************************************)
\* The unlink method: the flag is set before the system call is tried, so a
\* failed call is never repeated.  The flag is memory of the process: dying
\* between the two is dying before both.
UnlinkEffect(f) ==
  IF unlinked[f]
  THEN UNCHANGED <<linked, unlinked, mishap>>
  ELSE /\ unlinked' = [unlinked EXCEPT ![f] = TRUE]
       /\ \E removed \in BOOLEAN :
            /\ linked' = [linked EXCEPT ![f] = ~removed]
            /\ mishap' = [mishap EXCEPT ![f] = IF removed THEN @ ELSE "unlink"]

\* Mutant: the check of the unlinked flag is missing.
NixlRegisterUnchecked(f) ==
  /\ pc[f] = "live"
  /\ pc' = [pc EXCEPT ![f] = "registering"]
  /\ registered' = [registered EXCEPT ![f] = TRUE]
  /\ UNCHANGED <<size, written, length, linked, fdOpen, oDirect, unlinked, mishap>>

\* nixl_register, refused once unlinked; when register_memory fails it returns
\* and nothing has changed ...
NixlRegister(f) ==
  /\ pc[f] = "live" /\ ~unlinked[f]
  /\ pc' = [pc EXCEPT ![f] = "registering"]
  /\ registered' = [registered EXCEPT ![f] = TRUE]
  /\ UNCHANGED <<size, written, length, linked, fdOpen, oDirect, unlinked, mishap>>

\* Mutant: the file keeps its name after the registration.
NixlRegisterKeepsName(f) ==
  /\ pc[f] = "registering"
  /\ pc' = [pc EXCEPT ![f] = "live"]
  /\ UNCHANGED <<size, written, length, linked, fdOpen, oDirect, unlinked, registered, mishap>>

\* ... and then unlink, whose failure is returned although the registration
\* stands.
NixlRegisterUnlink(f) ==
  /\ pc[f] = "registering"
  /\ pc' = [pc EXCEPT ![f] = "live"]
  /\ UnlinkEffect(f)
  /\ UNCHANGED <<size, written, length, fdOpen, oDirect, registered>>

\* The method is public as well.
Unlink(f) ==
  /\ pc[f] = "live"
  /\ UnlinkEffect(f)
  /\ UNCHANGED <<pc, size, written, length, fdOpen, oDirect, registered>>

\* Drop releases the handles ...
Drop(f) ==
  /\ pc[f] = "live"
  /\ pc' = [pc EXCEPT ![f] = "dropping"]
  /\ registered' = [registered EXCEPT ![f] = FALSE]
  /\ UNCHANGED <<size, written, length, linked, fdOpen, oDirect, unlinked, mishap>>

\* Mutant: Drop only releases the handles.
DropKeepsName(f) ==
  /\ pc[f] = "dropping"
  /\ pc' = [pc EXCEPT ![f] = "dropped"]
  /\ UNCHANGED <<size, written, length, linked, fdOpen, oDirect, unlinked, registered, mishap>>

\* ... and then unlinks, unless that was tried before.
DropUnlink(f) ==
  /\ pc[f] = "dropping"
  /\ pc' = [pc EXCEPT ![f] = "dropped"]
  /\ UnlinkEffect(f)
  /\ UNCHANGED <<size, written, length, fdOpen, oDirect, registered>>

\* The process ends: the kernel closes the descriptors, names stay.
ProcessExit ==
  /\ \E f \in Files : fdOpen[f]
  /\ pc' = [f \in Files |-> IF pc[f] = "absent" THEN "absent" ELSE "orphaned"]
  /\ fdOpen' = [f \in Files |-> FALSE]
  /\ registered' = [f \in Files |-> FALSE]
  /\ mishap' = [f \in Files |-> IF pc[f] \in BeforeUse \cup InUse /\ ~unlinked[f]
                               THEN "crash" ELSE mishap[f]]
  /\ UNCHANGED <<size, written, length, linked, oDirect, unlinked>>

-----------------------------------------------------------------------------
Step ==
  \/ \E f \in Files, n \in Sizes : CreateTempFile(f, n)
  \/ \E f \in Files : SetODirect(f)
  \/ \E f \in Files : SetODirectFails(f)
  \/ \E f \in Files : Fallocate(f)
  \/ \E f \in Files : TruncateFallback(f)
  \/ \E f \in Files : StartZeroFill(f)
  \/ \E f \in Files : ZeroFillWrite(f)
  \/ \E f \in Files : ZeroFillFinish(f)
  \/ \E f \in Files : AllocateFails(f)
  \/ \E f \in Files : NixlRegister(f)
  \/ \E f \in Files : NixlRegisterUnlink(f)
  \/ \E f \in Files : Unlink(f)
  \/ \E f \in Files : Drop(f)
  \/ \E f \in Files : DropUnlink(f)
  \/ ProcessExit

Next == Step /\ UNCHANGED env

Spec == Init /\ [][Next]_vars

-----------------------------------------------------------------------------
\* Every variable stays in its type.
TypeOK ==
  /\ env \in Environments
  /\ pc \in [Files -> States]
  /\ size \in [Files -> Nat] /\ written \in [Files -> Nat] /\ length \in [Files -> Nat]
  /\ linked \in [Files -> BOOLEAN] /\ fdOpen \in [Files -> BOOLEAN]
  /\ oDirect \in [Files -> BOOLEAN] /\ unlinked \in [Files -> BOOLEAN]
  /\ registered \in [Files -> BOOLEAN]
  /\ mishap \in [Files -> Mishaps]

\* A storage that can be used has exactly the length that was asked for,
\* whichever way its space was allocated and however the size lies with
\* respect to the page and to the buffer.
LiveHasExactLength ==
  \A f \in Files : pc[f] \in InUse => length[f] = size[f]

\* Every write of the zero-fill loop starts and ends on a page, as O_DIRECT
\* demands, makes progress and goes past the size by less than a page.
ZeroFillAligned ==
  \A f \in Files : pc[f] = "filling" =>
    /\ written[f] % PageSize = 0
    /\ written[f] < size[f] + PageSize
    /\ written[f] < size[f] => ToWrite(f) > 0 /\ ToWrite(f) % PageSize = 0

\* Both ways of opening a file agree: its space is allocated and used in
\* O_DIRECT mode exactly when that is not disabled.
ODirectUnlessDisabled ==
  \A f \in Files : pc[f] \in {"opened", "filling"} \cup InUse => oDirect[f] = ~env.disableODirect

\* GDS can only register a file that still has its name.
RegisterWhileLinked ==
  [][\A f \in Files : ~registered[f] /\ registered'[f] => linked[f] /\ fdOpen[f]]_vars

\* Outside nixl_register itself, a registered file has given up its name or its
\* one unlink failed.  Only between the registration and the unlink, and after
\* a failed unlink, does the death of the process leave a registered file behind.
RegisteredHasNoName ==
  \A f \in Files : registered[f] /\ linked[f] => pc[f] = "registering" \/ mishap[f] = "unlink"

\* A file outlives its process only because its allocation failed, its one
\* unlink failed, or the process died before that was tried: inside new, before
\* the registration, between it and its unlink, or inside Drop between the
\* release of the handles and the unlink.
OrphansExplained ==
  \A f \in Files :
    pc[f] \in {"dropped", "orphaned"} /\ linked[f] =>
      \/ mishap[f] = "allocate"
      \/ mishap[f] = "unlink"
      \/ mishap[f] = "crash" /\ ~unlinked[f]

\* A dropped storage gives back the disk space: neither a name nor an open
\* descriptor keeps the file ("DiskStorage dropped and cleaned up").
DropReleasesSpace ==
  \A f \in Files : pc[f] = "dropped" /\ mishap[f] = "none" => ~linked[f] /\ ~fdOpen[f]
=============================================================================
