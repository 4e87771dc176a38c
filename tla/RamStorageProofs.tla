-------------------------- MODULE RamStorageProofs --------------------------
(***************************************************************************)
(* The safety of RamStorage, over every interleaving of scripts, kills and *)
(* reboots.  The module has no constants: what the proofs add to the run   *)
(* is the argument, the relations between the disk, the kernel and the     *)
(* running script that each command of the scripts keeps.                  *)
(*                                                                         *)
(* No invariant of RamStorage is inductive by itself.  Where a state file  *)
(* is written last, what it will say is in the running script until then   *)
(* (OwnerInv, EnvInv), and a mount keeps its server only because the stop  *)
(* scripts ask for clients and exports before they take anything away      *)
(* (ExportInv, ClientInv).                                                 *)
(***************************************************************************)
EXTENDS RamStorage, TLAPS

\* What a script has reached is there as long as it runs: the RAM start owns
\* an unmounted device until it mounts it, the NFS setup runs on the marked
\* file system and behind its own export file.
ScriptInv ==
  /\ job = "mkfs" => ~ramMount
  /\ job = "mount_ram" => ~ramMount /\ fs = "ext4"
  /\ job = "mark" => ramMount /\ fs = "ext4"
  /\ job \in {"save_ram", "write_ram"} => ramMount /\ fs = "marked"
  /\ job \in StopJobs => ~ramMount
  /\ job \in SetupJobs => ramMount /\ fs = "marked"
  /\ job \in {"conf", "serve", "export"} => exportFile
  /\ job = "reexport" => ~exportFile
  /\ ramMount => fs # "none"

\* What a script remembers of its state file: a stop script whether the start
\* loaded brd, a rollback whether nfs-server was active; and a setup that writes
\* its state file has truncated it.
SavedInv ==
  /\ job \in StopJobs => saved = (ramEnv = "created")
  /\ job \in UndoJobs => saved = (nfsEnv = "active")
  /\ job = "clean_ram" /\ saved => fs = "none"
  /\ job = "write_nfs" => nfsEnv = "partial"

\* What was there before Phase 2 is never taken for created.
FoundInv ==
  brdBefore => /\ brd
               /\ ramEnv # "created"
               /\ job \in StartJobs => ~saved

\* Who loaded brd is known to the state file or to the running start script,
\* for as long as the device holds a file system; without one, brd is as it
\* was before Phase 2.
OwnerInv ==
  ~cutStart =>
    /\ fs = "none" /\ job # "mkfs" => brd = brdBefore
    /\ fs # "none" => brdBefore \/ ramEnv = "created" \/ job \in StartJobs \ {"mkfs"}
    /\ job \in StartJobs /\ (job = "mkfs" => fs = "none") => saved \/ brdBefore

\* What RDMA serves is the marked file system, and between its two units an export
\* has the RAM file system below it, so that the stop script sees it.
ExportInv ==
  /\ exported /\ listener => ramMount /\ fs = "marked"
  /\ exported /\ nfsUnit => ramMount

\* node1 has nothing else mounted, and no client that the check heard of is there
\* when the export goes.
ClientInv ==
  /\ mount # "unmarked"
  /\ job \in {"unexport", "reexport", "stop_nfsd"} /\ mount = "live" => slipped

\* The state of nfs-server before this setup is in the state file or in the
\* hands of the running setup.
EnvInv ==
  ~cutSetup =>
    /\ nfsEnv # "none" /\ job # "write_nfs" => nfsEnv = nfsBefore
    /\ nfsEnv = "none" /\ job \notin SetupJobs => nfsBefore = "unset"
    /\ job \in SetupJobs => nfsBefore = IF saved THEN "active" ELSE "inactive"

\* What a rollback has behind it, as long as it missed nothing: which script runs
\* on node3, what node1 can have and what is gone already.
RollInv ==
  ~missed =>
    /\ rollback \in {"stop_client", "stop_nfs", "stop_ram", "passed"} => job = "idle"
    /\ rollback = "wait_nfs" => job \in UndoJobs \cup {"idle"}
    /\ rollback = "wait_ram" => job \in StopJobs \cup {"idle"}
    /\ rollback \in {"stop_nfs", "wait_nfs", "stop_ram"} => mount \in {"none", "live"}
    /\ rollback = "wait_ram" => mount = "none" \/ slipped
    /\ rollback \in {"wait_nfs", "stop_ram"} /\ exported => ramMount
    /\ rollback = "wait_ram" => ~ramMount /\ ~exported
    /\ rollback \in {"wait_nfs", "stop_ram", "wait_ram"} => ~nfsConf
    /\ rollback = "wait_nfs" /\ job \in {"reexport", "stop_nfsd", "clean_nfs", "idle"} => ~exportFile
    /\ rollback = "wait_nfs" /\ job = "idle" => nfsEnv = "none"
    /\ rollback \in {"stop_ram", "wait_ram"} => ~exportFile /\ nfsEnv = "none"
    /\ rollback = "wait_ram" /\ job = "idle" => ramEnv = "none"

IInv == /\ TypeOK /\ ScriptInv /\ SavedInv /\ FoundInv /\ OwnerInv
        /\ ExportInv /\ ClientInv /\ MountedIsServed /\ EnvInv /\ RollInv

\* The groups of variables and of jobs are only names for their members.
USE DEF Jobs, StartJobs, StopJobs, SetupJobs, UndoJobs, vars, ramVars, nfsFiles,
        nfsVars, units, clientVars, rollVars, history, Meddle, Unsaved

-----------------------------------------------------------------------------
\* node1 changes nothing on node3.
LEMMA ClientFrame ==
  ASSUME Client
  PROVE  UNCHANGED <<ramVars, nfsFiles, nfsVars, ramUnit, nfsUnit, rollVars,
                   history, job, saved>>
<1>1. CASE AdoptMount BY <1>1 DEF AdoptMount
<1>2. CASE Mount BY <1>2 DEF Mount
<1>3. CASE Unmount BY <1>3 DEF Unmount, MayUnmount
<1> QED
  BY <1>1, <1>2, <1>3 DEF Client

\* rollback-phase2.sh itself changes nothing on node3 but the state of a unit: its
\* stops are the scripts.
LEMMA RollFrame ==
  ASSUME Roll
  PROVE  UNCHANGED <<ramVars, nfsFiles, nfsVars, nfsUnit, history,
                   job, saved>>
<1>1. CASE RollbackStart BY <1>1 DEF RollbackStart
<1>2. CASE RollbackStopClient BY <1>2 DEF RollbackStopClient, MayUnmount
<1>3. CASE RollbackSkip BY <1>3 DEF RollbackSkip, MayUmount
<1>4. CASE RollbackNext BY <1>4 DEF RollbackNext
<1> QED
  BY <1>1, <1>2, <1>3, <1>4 DEF Roll

\* The types of node3's kernel and disk, of the history, of the units and
\* flags, and of where everybody is.
HostType ==
  /\ brd \in BOOLEAN /\ fs \in {"none", "ext4", "marked"} /\ ramMount \in BOOLEAN
  /\ ramEnv \in {"none", "partial", "created", "found"}
  /\ package \in BOOLEAN /\ enabled \in BOOLEAN
  /\ exportFile \in BOOLEAN /\ nfsConf \in BOOLEAN
  /\ nfsEnv \in {"none", "partial", "active", "inactive"}
  /\ nfsd \in BOOLEAN /\ exported \in BOOLEAN /\ listener \in BOOLEAN

HistoryType ==
  /\ brdBefore \in BOOLEAN /\ nfsBefore \in {"unset", "active", "inactive"}
  /\ cutStart \in BOOLEAN /\ cutSetup \in BOOLEAN

UnitType ==
  /\ ramUnit \in BOOLEAN /\ nfsUnit \in BOOLEAN /\ clientUnit \in BOOLEAN
  /\ saved \in BOOLEAN
  /\ missed \in BOOLEAN /\ slipped \in BOOLEAN

PlaceType ==
  /\ job \in Jobs
  /\ mount \in {"none", "live", "stale", "unmarked"}
  /\ rollback \in {"idle", "stop_client", "stop_nfs", "wait_nfs", "stop_ram", "wait_ram", "passed"}

LEMMA HostTypeStep ==
  ASSUME TypeOK, [Next]_vars
  PROVE  HostType'
<1> USE DEF TypeOK, HostType
<1>1. CASE Ram
  BY <1>1 DEF Ram, AdoptRam, StartRam, Mkfs, MountRam, MarkRam, SaveRam, WriteRam,
       UmountRam, RamStopped, MayUmount, Cut, RefuseUmount, UnloadBrd,
       CleanRam
<1>2. CASE Setup
  <2>1. CASE InstallPackage BY <2>1 DEF InstallPackage
  <2>2. CASE WriteExportFile BY <2>2 DEF WriteExportFile
  <2>3. CASE WriteNfsConf BY <2>3 DEF WriteNfsConf
  <2>4. CASE StartNfsd \/ Export
    BY <2>4 DEF StartNfsd, Export
  <2>5. CASE Listen BY <2>5 DEF Listen
  <2>6. CASE SaveNfs \/ WriteNfs
    BY <2>6 DEF SaveNfs, WriteNfs
  <2>7. CASE SetupNfs BY <2>7 DEF SetupNfs
  <2> QED
    BY <1>2, <2>1, <2>2, <2>3, <2>4, <2>5, <2>6, <2>7 DEF Setup
<1>3. CASE Undo
  BY <1>3 DEF Undo, UndoNfs, CheckClients, Listed, Unexport, Reexport, StopNfsd,
       CleanNfs
<1>4. CASE Client BY <1>4, ClientFrame
<1>5. CASE Roll BY <1>5, RollFrame
<1>6. CASE Fault BY <1>6 DEF Fault, Kill, RollbackEnds, RebootNode3, Cut, RebootNode1
<1>7. CASE UNCHANGED vars BY <1>7
<1> QED
  BY <1>1, <1>2, <1>3, <1>4, <1>5, <1>6, <1>7 DEF Next

LEMMA HistoryTypeStep ==
  ASSUME TypeOK, [Next]_vars
  PROVE  HistoryType'
<1> USE DEF TypeOK, HistoryType
<1>1. CASE Ram
  BY <1>1 DEF Ram, AdoptRam, StartRam, Mkfs, MountRam, MarkRam, SaveRam, WriteRam,
       UmountRam, RamStopped, MayUmount, Cut, RefuseUmount, UnloadBrd,
       CleanRam
<1>2. CASE Setup
  BY <1>2 DEF Setup, SetupNfs, InstallPackage, WriteExportFile, WriteNfsConf,
       StartNfsd, Export, Listen, SaveNfs, WriteNfs
<1>3. CASE Undo
  BY <1>3 DEF Undo, UndoNfs, CheckClients, Listed, Unexport, Reexport, StopNfsd,
       CleanNfs
<1>4. CASE Client BY <1>4, ClientFrame
<1>5. CASE Roll BY <1>5, RollFrame
<1>6. CASE Fault BY <1>6 DEF Fault, Kill, RollbackEnds, RebootNode3, Cut, RebootNode1
<1>7. CASE UNCHANGED vars BY <1>7
<1> QED
  BY <1>1, <1>2, <1>3, <1>4, <1>5, <1>6, <1>7 DEF Next

LEMMA UnitTypeStep ==
  ASSUME TypeOK, [Next]_vars
  PROVE  UnitType'
<1> USE DEF TypeOK, UnitType
<1>1. CASE Ram
  <2>1. CASE AdoptRam BY <2>1 DEF AdoptRam
  <2>2. CASE StartRam BY <2>2 DEF StartRam
  <2>3. CASE SaveRam \/ WriteRam
    BY <2>3 DEF SaveRam, WriteRam
  <2>4. CASE UmountRam BY <2>4 DEF UmountRam, RamStopped, MayUmount, Cut
  <2>5. CASE RefuseUmount BY <2>5 DEF RefuseUmount, RamStopped
  <2>6. CASE Mkfs \/ MountRam \/ MarkRam \/ UnloadBrd \/ CleanRam
    BY <2>6 DEF Mkfs, MountRam, MarkRam, UnloadBrd, CleanRam
  <2> QED
    BY <1>1, <2>1, <2>2, <2>3, <2>4, <2>5, <2>6 DEF Ram
<1>2. CASE Setup
  <2>1. CASE SetupNfs BY <2>1 DEF SetupNfs
  <2>2. CASE SaveNfs \/ WriteNfs
    BY <2>2 DEF SaveNfs, WriteNfs
  <2>3. CASE InstallPackage \/ WriteExportFile \/ WriteNfsConf \/ StartNfsd \/ Export \/ Listen
    BY <2>3 DEF InstallPackage, WriteExportFile, WriteNfsConf, StartNfsd, Export, Listen
  <2> QED
    BY <1>2, <2>1, <2>2, <2>3 DEF Setup
<1>3. CASE Undo
  <2>1. CASE UndoNfs BY <2>1 DEF UndoNfs
  <2>2. CASE CheckClients BY <2>2 DEF CheckClients, Listed
  <2>3. CASE Unexport \/ Reexport \/ StopNfsd \/ CleanNfs
    BY <2>3 DEF Unexport, Reexport, StopNfsd, CleanNfs
  <2> QED
    BY <1>3, <2>1, <2>2, <2>3 DEF Undo
<1>4. CASE Client
  <2>1. CASE AdoptMount BY <2>1 DEF AdoptMount
  <2>2. CASE Mount BY <2>2 DEF Mount
  <2>3. CASE Unmount BY <2>3 DEF Unmount, MayUnmount
  <2> QED
    BY <1>4, <2>1, <2>2, <2>3 DEF Client
<1>5. CASE Roll
  <2>1. CASE RollbackStart BY <2>1 DEF RollbackStart
  <2>2. CASE RollbackStopClient BY <2>2 DEF RollbackStopClient, MayUnmount
  <2>3. CASE RollbackSkip BY <2>3 DEF RollbackSkip, MayUmount
  <2>4. CASE RollbackNext BY <2>4 DEF RollbackNext
  <2> QED
    BY <1>5, <2>1, <2>2, <2>3, <2>4 DEF Roll
<1>6. CASE Fault
  <2>1. CASE Kill \/ RollbackEnds
    BY <2>1 DEF Kill, RollbackEnds
  <2>2. CASE RebootNode3 BY <2>2 DEF RebootNode3, Cut
  <2>3. CASE RebootNode1 BY <2>3 DEF RebootNode1
  <2> QED
    BY <1>6, <2>1, <2>2, <2>3 DEF Fault
<1>7. CASE UNCHANGED vars BY <1>7
<1> QED
  BY <1>1, <1>2, <1>3, <1>4, <1>5, <1>6, <1>7 DEF Next

LEMMA PlaceTypeStep ==
  ASSUME TypeOK, [Next]_vars
  PROVE  PlaceType'
<1> USE DEF TypeOK, PlaceType
<1>1. CASE Ram
  <2>1. CASE StartRam \/ Mkfs \/ MountRam \/ MarkRam \/ SaveRam \/ WriteRam
    BY <2>1 DEF StartRam, Mkfs, MountRam, MarkRam, SaveRam, WriteRam
  <2>2. CASE UmountRam
    BY <2>2 DEF UmountRam, MayUmount, Cut
  <2>3. CASE AdoptRam \/ RefuseUmount \/ UnloadBrd \/ CleanRam
    BY <2>3 DEF AdoptRam, RefuseUmount, UnloadBrd, CleanRam
  <2> QED
    BY <1>1, <2>1, <2>2, <2>3 DEF Ram
<1>2. CASE Setup
  BY <1>2 DEF Setup, SetupNfs, InstallPackage, WriteExportFile, WriteNfsConf,
       StartNfsd, Export, Listen, SaveNfs, WriteNfs
<1>3. CASE Undo
  BY <1>3 DEF Undo, UndoNfs, CheckClients, Listed, Unexport, Reexport, StopNfsd,
       CleanNfs
<1>4. CASE Client
  BY <1>4 DEF Client, AdoptMount, Mount, Unmount, MayUnmount
<1>5. CASE Roll
  BY <1>5 DEF Roll, RollbackStart, RollbackStopClient, MayUnmount,
       RollbackSkip, MayUmount, RollbackNext
<1>6. CASE Fault BY <1>6 DEF Fault, Kill, RollbackEnds, RebootNode3, Cut, RebootNode1
<1>7. CASE UNCHANGED vars BY <1>7
<1> QED
  BY <1>1, <1>2, <1>3, <1>4, <1>5, <1>6, <1>7 DEF Next

LEMMA TypeStep ==
  ASSUME TypeOK, [Next]_vars
  PROVE  TypeOK'
BY HostTypeStep, HistoryTypeStep, UnitTypeStep, PlaceTypeStep
   DEF TypeOK, HostType, HistoryType, UnitType, PlaceType

\* Only the script itself moves what it has reached, except for a reboot, which
\* ends it.
LEMMA ScriptStep ==
  ASSUME TypeOK, ScriptInv, [Next]_vars
  PROVE  ScriptInv'
<1> USE DEF TypeOK, ScriptInv
<1>1. CASE Ram
  <2>1. CASE StartRam BY <2>1 DEF StartRam
  <2>2. CASE Mkfs BY <2>2 DEF Mkfs
  <2>3. CASE MountRam BY <2>3 DEF MountRam
  <2>4. CASE MarkRam BY <2>4 DEF MarkRam
  <2>5. CASE SaveRam \/ WriteRam
    BY <2>5 DEF SaveRam, WriteRam
  <2>6. CASE UmountRam BY <2>6 DEF UmountRam, RamStopped, MayUmount, Cut
  <2>7. CASE UnloadBrd BY <2>7 DEF UnloadBrd
  <2>8. CASE CleanRam BY <2>8 DEF CleanRam
  <2>9. CASE AdoptRam \/ RefuseUmount
    BY <2>9 DEF AdoptRam, RefuseUmount, RamStopped
  <2> QED
    BY <1>1, <2>1, <2>2, <2>3, <2>4, <2>5, <2>6, <2>7, <2>8, <2>9 DEF Ram
<1>2. CASE Setup
  <2>1. CASE SetupNfs BY <2>1 DEF SetupNfs
  <2>2. CASE InstallPackage BY <2>2 DEF InstallPackage
  <2>3. CASE WriteExportFile BY <2>3 DEF WriteExportFile
  <2>4. CASE WriteNfsConf BY <2>4 DEF WriteNfsConf
  <2>5. CASE StartNfsd \/ Export
    BY <2>5 DEF StartNfsd, Export
  <2>6. CASE Listen BY <2>6 DEF Listen
  <2>7. CASE SaveNfs \/ WriteNfs
    BY <2>7 DEF SaveNfs, WriteNfs
  <2> QED
    BY <1>2, <2>1, <2>2, <2>3, <2>4, <2>5, <2>6, <2>7 DEF Setup
<1>3. CASE Undo
  <2>1. CASE UndoNfs BY <2>1 DEF UndoNfs
  <2>2. CASE CheckClients BY <2>2 DEF CheckClients, Listed
  <2>3. CASE Unexport \/ Reexport
    BY <2>3 DEF Unexport, Reexport
  <2>4. CASE StopNfsd BY <2>4 DEF StopNfsd
  <2>5. CASE CleanNfs BY <2>5 DEF CleanNfs
  <2> QED
    BY <1>3, <2>1, <2>2, <2>3, <2>4, <2>5 DEF Undo
<1>4. CASE Client BY <1>4, ClientFrame
<1>5. CASE Roll BY <1>5, RollFrame
<1>6. CASE Fault
  <2>1. CASE Kill \/ RollbackEnds
    BY <2>1 DEF Kill, RollbackEnds
  <2>2. CASE RebootNode3 BY <2>2 DEF RebootNode3, Cut
  <2>3. CASE RebootNode1 BY <2>3 DEF RebootNode1
  <2> QED
    BY <1>6, <2>1, <2>2, <2>3 DEF Fault
<1>7. CASE UNCHANGED vars BY <1>7
<1> QED
  BY <1>1, <1>2, <1>3, <1>4, <1>5, <1>6, <1>7 DEF Next

\* A script reads its state file in its first command and writes it in its last.
LEMMA SavedStep ==
  ASSUME TypeOK, SavedInv, [Next]_vars
  PROVE  SavedInv'
<1> USE DEF TypeOK, SavedInv
<1>1. CASE Ram
  <2>1. CASE StartRam BY <2>1 DEF StartRam
  <2>2. CASE Mkfs BY <2>2 DEF Mkfs
  <2>3. CASE MountRam BY <2>3 DEF MountRam
  <2>4. CASE MarkRam BY <2>4 DEF MarkRam
  <2>5. CASE SaveRam \/ WriteRam
    BY <2>5 DEF SaveRam, WriteRam
  <2>6. CASE UmountRam BY <2>6 DEF UmountRam, RamStopped, MayUmount, Cut
  <2>7. CASE UnloadBrd BY <2>7 DEF UnloadBrd
  <2>8. CASE CleanRam BY <2>8 DEF CleanRam
  <2>9. CASE AdoptRam \/ RefuseUmount
    BY <2>9 DEF AdoptRam, RefuseUmount, RamStopped
  <2> QED
    BY <1>1, <2>1, <2>2, <2>3, <2>4, <2>5, <2>6, <2>7, <2>8, <2>9 DEF Ram
<1>2. CASE Setup
  <2>1. CASE SetupNfs BY <2>1 DEF SetupNfs
  <2>2. CASE InstallPackage BY <2>2 DEF InstallPackage
  <2>3. CASE WriteExportFile BY <2>3 DEF WriteExportFile
  <2>4. CASE WriteNfsConf BY <2>4 DEF WriteNfsConf
  <2>5. CASE StartNfsd \/ Export
    BY <2>5 DEF StartNfsd, Export
  <2>6. CASE Listen BY <2>6 DEF Listen
  <2>7. CASE SaveNfs \/ WriteNfs
    BY <2>7 DEF SaveNfs, WriteNfs
  <2> QED
    BY <1>2, <2>1, <2>2, <2>3, <2>4, <2>5, <2>6, <2>7 DEF Setup
<1>3. CASE Undo
  <2>1. CASE UndoNfs BY <2>1 DEF UndoNfs
  <2>2. CASE CheckClients BY <2>2 DEF CheckClients, Listed
  <2>3. CASE Unexport \/ Reexport
    BY <2>3 DEF Unexport, Reexport
  <2>4. CASE StopNfsd BY <2>4 DEF StopNfsd
  <2>5. CASE CleanNfs BY <2>5 DEF CleanNfs
  <2> QED
    BY <1>3, <2>1, <2>2, <2>3, <2>4, <2>5 DEF Undo
<1>4. CASE Client BY <1>4, ClientFrame
<1>5. CASE Roll BY <1>5, RollFrame
<1>6. CASE Fault
  <2>1. CASE Kill \/ RollbackEnds
    BY <2>1 DEF Kill, RollbackEnds
  <2>2. CASE RebootNode3 BY <2>2 DEF RebootNode3, Cut
  <2>3. CASE RebootNode1 BY <2>3 DEF RebootNode1
  <2> QED
    BY <1>6, <2>1, <2>2, <2>3 DEF Fault
<1>7. CASE UNCHANGED vars BY <1>7
<1> QED
  BY <1>1, <1>2, <1>3, <1>4, <1>5, <1>6, <1>7 DEF Next

\* brd goes only when the state file says created, which it never says of a
\* module that was found.
LEMMA FoundStep ==
  ASSUME TypeOK, FoundInv, SavedInv, [Next]_vars
  PROVE  FoundInv'
<1> USE DEF TypeOK, FoundInv, SavedInv
<1>1. CASE Ram
  <2>1. CASE StartRam BY <2>1 DEF StartRam
  <2>2. CASE Mkfs BY <2>2 DEF Mkfs
  <2>3. CASE MountRam BY <2>3 DEF MountRam
  <2>4. CASE MarkRam BY <2>4 DEF MarkRam
  <2>5. CASE SaveRam \/ WriteRam
    BY <2>5 DEF SaveRam, WriteRam
  <2>6. CASE UmountRam BY <2>6 DEF UmountRam, RamStopped, MayUmount, Cut
  <2>7. CASE UnloadBrd BY <2>7 DEF UnloadBrd
  <2>8. CASE CleanRam BY <2>8 DEF CleanRam
  <2>9. CASE AdoptRam \/ RefuseUmount
    BY <2>9 DEF AdoptRam, RefuseUmount, RamStopped
  <2> QED
    BY <1>1, <2>1, <2>2, <2>3, <2>4, <2>5, <2>6, <2>7, <2>8, <2>9 DEF Ram
<1>2. CASE Setup
  <2>1. CASE SetupNfs BY <2>1 DEF SetupNfs
  <2>2. CASE InstallPackage BY <2>2 DEF InstallPackage
  <2>3. CASE WriteExportFile BY <2>3 DEF WriteExportFile
  <2>4. CASE WriteNfsConf BY <2>4 DEF WriteNfsConf
  <2>5. CASE StartNfsd \/ Export
    BY <2>5 DEF StartNfsd, Export
  <2>6. CASE Listen BY <2>6 DEF Listen
  <2>7. CASE SaveNfs \/ WriteNfs
    BY <2>7 DEF SaveNfs, WriteNfs
  <2> QED
    BY <1>2, <2>1, <2>2, <2>3, <2>4, <2>5, <2>6, <2>7 DEF Setup
<1>3. CASE Undo
  <2>1. CASE UndoNfs BY <2>1 DEF UndoNfs
  <2>2. CASE CheckClients BY <2>2 DEF CheckClients, Listed
  <2>3. CASE Unexport \/ Reexport
    BY <2>3 DEF Unexport, Reexport
  <2>4. CASE StopNfsd BY <2>4 DEF StopNfsd
  <2>5. CASE CleanNfs BY <2>5 DEF CleanNfs
  <2> QED
    BY <1>3, <2>1, <2>2, <2>3, <2>4, <2>5 DEF Undo
<1>4. CASE Client BY <1>4, ClientFrame
<1>5. CASE Roll BY <1>5, RollFrame
<1>6. CASE Fault
  <2>1. CASE Kill \/ RollbackEnds
    BY <2>1 DEF Kill, RollbackEnds
  <2>2. CASE RebootNode3 BY <2>2 DEF RebootNode3, Cut
  <2>3. CASE RebootNode1 BY <2>3 DEF RebootNode1
  <2> QED
    BY <1>6, <2>1, <2>2, <2>3 DEF Fault
<1>7. CASE UNCHANGED vars BY <1>7
<1> QED
  BY <1>1, <1>2, <1>3, <1>4, <1>5, <1>6, <1>7 DEF Next

\* The start writes down who loaded brd before it ends, a start on a device with
\* a file system ends without having loaded anything, and a stop blanks the device
\* when it unloads brd.
LEMMA OwnerStep ==
  ASSUME TypeOK, OwnerInv, ScriptInv, SavedInv, FoundInv, [Next]_vars
  PROVE  OwnerInv'
<1> USE DEF TypeOK, OwnerInv, ScriptInv, SavedInv, FoundInv
<1>1. CASE Ram
  <2>1. CASE StartRam BY <2>1 DEF StartRam
  <2>2. CASE Mkfs BY <2>2 DEF Mkfs
  <2>3. CASE MountRam BY <2>3 DEF MountRam
  <2>4. CASE MarkRam BY <2>4 DEF MarkRam
  <2>5. CASE SaveRam \/ WriteRam
    BY <2>5 DEF SaveRam, WriteRam
  <2>6. CASE UmountRam BY <2>6 DEF UmountRam, RamStopped, MayUmount, Cut
  <2>7. CASE UnloadBrd BY <2>7 DEF UnloadBrd
  <2>8. CASE CleanRam BY <2>8 DEF CleanRam
  <2>9. CASE AdoptRam \/ RefuseUmount
    BY <2>9 DEF AdoptRam, RefuseUmount, RamStopped
  <2> QED
    BY <1>1, <2>1, <2>2, <2>3, <2>4, <2>5, <2>6, <2>7, <2>8, <2>9 DEF Ram
<1>2. CASE Setup
  <2>1. CASE SetupNfs BY <2>1 DEF SetupNfs
  <2>2. CASE InstallPackage BY <2>2 DEF InstallPackage
  <2>3. CASE WriteExportFile BY <2>3 DEF WriteExportFile
  <2>4. CASE WriteNfsConf BY <2>4 DEF WriteNfsConf
  <2>5. CASE StartNfsd \/ Export
    BY <2>5 DEF StartNfsd, Export
  <2>6. CASE Listen BY <2>6 DEF Listen
  <2>7. CASE SaveNfs \/ WriteNfs
    BY <2>7 DEF SaveNfs, WriteNfs
  <2> QED
    BY <1>2, <2>1, <2>2, <2>3, <2>4, <2>5, <2>6, <2>7 DEF Setup
<1>3. CASE Undo
  <2>1. CASE UndoNfs BY <2>1 DEF UndoNfs
  <2>2. CASE CheckClients BY <2>2 DEF CheckClients, Listed
  <2>3. CASE Unexport \/ Reexport
    BY <2>3 DEF Unexport, Reexport
  <2>4. CASE StopNfsd BY <2>4 DEF StopNfsd
  <2>5. CASE CleanNfs BY <2>5 DEF CleanNfs
  <2> QED
    BY <1>3, <2>1, <2>2, <2>3, <2>4, <2>5 DEF Undo
<1>4. CASE Client BY <1>4, ClientFrame
<1>5. CASE Roll BY <1>5, RollFrame
<1>6. CASE Fault
  <2>1. CASE Kill \/ RollbackEnds
    BY <2>1 DEF Kill, RollbackEnds
  <2>2. CASE RebootNode3 BY <2>2 DEF RebootNode3, Cut
  <2>3. CASE RebootNode1 BY <2>3 DEF RebootNode1
  <2> QED
    BY <1>6, <2>1, <2>2, <2>3 DEF Fault
<1>7. CASE UNCHANGED vars BY <1>7
<1> QED
  BY <1>1, <1>2, <1>3, <1>4, <1>5, <1>6, <1>7 DEF Next

\* Only a setup exports where RDMA listens, on the marked file system, and the RAM
\* file system cannot go from under an export.
LEMMA ExportStep ==
  ASSUME TypeOK, ExportInv, ScriptInv, [Next]_vars
  PROVE  ExportInv'
<1> USE DEF TypeOK, ExportInv, ScriptInv
<1>1. CASE Ram
  <2>1. CASE StartRam BY <2>1 DEF StartRam
  <2>2. CASE Mkfs BY <2>2 DEF Mkfs
  <2>3. CASE MountRam BY <2>3 DEF MountRam
  <2>4. CASE MarkRam BY <2>4 DEF MarkRam
  <2>5. CASE SaveRam \/ WriteRam
    BY <2>5 DEF SaveRam, WriteRam
  <2>6. CASE UmountRam BY <2>6 DEF UmountRam, RamStopped, MayUmount, Cut
  <2>7. CASE UnloadBrd BY <2>7 DEF UnloadBrd
  <2>8. CASE CleanRam BY <2>8 DEF CleanRam
  <2>9. CASE AdoptRam \/ RefuseUmount
    BY <2>9 DEF AdoptRam, RefuseUmount, RamStopped
  <2> QED
    BY <1>1, <2>1, <2>2, <2>3, <2>4, <2>5, <2>6, <2>7, <2>8, <2>9 DEF Ram
<1>2. CASE Setup
  <2>1. CASE SetupNfs BY <2>1 DEF SetupNfs
  <2>2. CASE InstallPackage BY <2>2 DEF InstallPackage
  <2>3. CASE WriteExportFile BY <2>3 DEF WriteExportFile
  <2>4. CASE WriteNfsConf BY <2>4 DEF WriteNfsConf
  <2>5. CASE StartNfsd \/ Export
    BY <2>5 DEF StartNfsd, Export
  <2>6. CASE Listen BY <2>6 DEF Listen
  <2>7. CASE SaveNfs \/ WriteNfs
    BY <2>7 DEF SaveNfs, WriteNfs
  <2> QED
    BY <1>2, <2>1, <2>2, <2>3, <2>4, <2>5, <2>6, <2>7 DEF Setup
<1>3. CASE Undo
  <2>1. CASE UndoNfs BY <2>1 DEF UndoNfs
  <2>2. CASE CheckClients BY <2>2 DEF CheckClients, Listed
  <2>3. CASE Unexport \/ Reexport
    BY <2>3 DEF Unexport, Reexport
  <2>4. CASE StopNfsd BY <2>4 DEF StopNfsd
  <2>5. CASE CleanNfs BY <2>5 DEF CleanNfs
  <2> QED
    BY <1>3, <2>1, <2>2, <2>3, <2>4, <2>5 DEF Undo
<1>4. CASE Client BY <1>4, ClientFrame
<1>5. CASE Roll BY <1>5, RollFrame
<1>6. CASE Fault
  <2>1. CASE Kill \/ RollbackEnds
    BY <2>1 DEF Kill, RollbackEnds
  <2>2. CASE RebootNode3 BY <2>2 DEF RebootNode3, Cut
  <2>3. CASE RebootNode1 BY <2>3 DEF RebootNode1
  <2> QED
    BY <1>6, <2>1, <2>2, <2>3 DEF Fault
<1>7. CASE UNCHANGED vars BY <1>7
<1> QED
  BY <1>1, <1>2, <1>3, <1>4, <1>5, <1>6, <1>7 DEF Next

\* The client check lets nobody through whom it hears of; whom it does not, or who
\* mounts later, has slipped.
LEMMA ClientStep ==
  ASSUME TypeOK, ClientInv, ExportInv, MountedIsServed, [Next]_vars
  PROVE  ClientInv'
<1> USE DEF TypeOK, ClientInv, ExportInv, MountedIsServed
<1>1. CASE Ram
  <2>1. CASE StartRam BY <2>1 DEF StartRam
  <2>2. CASE Mkfs BY <2>2 DEF Mkfs
  <2>3. CASE MountRam BY <2>3 DEF MountRam
  <2>4. CASE MarkRam BY <2>4 DEF MarkRam
  <2>5. CASE SaveRam \/ WriteRam
    BY <2>5 DEF SaveRam, WriteRam
  <2>6. CASE UmountRam BY <2>6 DEF UmountRam, RamStopped, MayUmount, Cut
  <2>7. CASE UnloadBrd BY <2>7 DEF UnloadBrd
  <2>8. CASE CleanRam BY <2>8 DEF CleanRam
  <2>9. CASE AdoptRam \/ RefuseUmount
    BY <2>9 DEF AdoptRam, RefuseUmount, RamStopped
  <2> QED
    BY <1>1, <2>1, <2>2, <2>3, <2>4, <2>5, <2>6, <2>7, <2>8, <2>9 DEF Ram
<1>2. CASE Setup
  <2>1. CASE SetupNfs BY <2>1 DEF SetupNfs
  <2>2. CASE InstallPackage BY <2>2 DEF InstallPackage
  <2>3. CASE WriteExportFile BY <2>3 DEF WriteExportFile
  <2>4. CASE WriteNfsConf BY <2>4 DEF WriteNfsConf
  <2>5. CASE StartNfsd \/ Export
    BY <2>5 DEF StartNfsd, Export
  <2>6. CASE Listen BY <2>6 DEF Listen
  <2>7. CASE SaveNfs \/ WriteNfs
    BY <2>7 DEF SaveNfs, WriteNfs
  <2> QED
    BY <1>2, <2>1, <2>2, <2>3, <2>4, <2>5, <2>6, <2>7 DEF Setup
<1>3. CASE Undo
  <2>1. CASE UndoNfs BY <2>1 DEF UndoNfs
  <2>2. CASE CheckClients BY <2>2 DEF CheckClients, Listed
  <2>3. CASE Unexport \/ Reexport
    BY <2>3 DEF Unexport, Reexport
  <2>4. CASE StopNfsd BY <2>4 DEF StopNfsd
  <2>5. CASE CleanNfs BY <2>5 DEF CleanNfs
  <2> QED
    BY <1>3, <2>1, <2>2, <2>3, <2>4, <2>5 DEF Undo
<1>4. CASE Client
  <2>1. CASE Mount BY <2>1 DEF Mount
  <2>2. CASE Unmount BY <2>2 DEF Unmount, MayUnmount
  <2>3. CASE AdoptMount BY <2>3 DEF AdoptMount
  <2> QED
    BY <1>4, <2>1, <2>2, <2>3 DEF Client
<1>5. CASE Roll
  <2>1. CASE RollbackStopClient BY <2>1 DEF RollbackStopClient, MayUnmount
  <2>2. CASE RollbackStart \/ RollbackSkip \/ RollbackNext
    BY <2>2 DEF RollbackStart, RollbackSkip, MayUmount, RollbackNext
  <2> QED
    BY <1>5, <2>1, <2>2 DEF Roll
<1>6. CASE Fault
  <2>1. CASE Kill \/ RollbackEnds
    BY <2>1 DEF Kill, RollbackEnds
  <2>2. CASE RebootNode3 BY <2>2 DEF RebootNode3, Cut
  <2>3. CASE RebootNode1 BY <2>3 DEF RebootNode1
  <2> QED
    BY <1>6, <2>1, <2>2, <2>3 DEF Fault
<1>7. CASE UNCHANGED vars BY <1>7
<1> QED
  BY <1>1, <1>2, <1>3, <1>4, <1>5, <1>6, <1>7 DEF Next

\* Whatever takes the file system, the export or the server away finds the client
\* gone, refused by the check, slipped, or makes its mount stale.
LEMMA MountedIsServedStep ==
  ASSUME TypeOK, MountedIsServed, ScriptInv, ExportInv, ClientInv, [Next]_vars
  PROVE  MountedIsServed'
<1> USE DEF TypeOK, MountedIsServed, ScriptInv, ExportInv, ClientInv
<1>1. CASE Ram
  <2>1. CASE Mkfs BY <2>1 DEF Mkfs
  <2>2. CASE MountRam BY <2>2 DEF MountRam
  <2>3. CASE MarkRam BY <2>3 DEF MarkRam
  <2>4. CASE UmountRam BY <2>4 DEF UmountRam, RamStopped, MayUmount, Cut
  <2>5. CASE UnloadBrd BY <2>5 DEF UnloadBrd
  <2>6. CASE AdoptRam \/ StartRam \/ SaveRam \/ WriteRam \/ RefuseUmount \/ CleanRam
    BY <2>6 DEF AdoptRam, StartRam, SaveRam, WriteRam, RefuseUmount, RamStopped,
         CleanRam
  <2> QED
    BY <1>1, <2>1, <2>2, <2>3, <2>4, <2>5, <2>6 DEF Ram
<1>2. CASE Setup
  <2>1. CASE InstallPackage BY <2>1 DEF InstallPackage
  <2>2. CASE StartNfsd \/ Export
    BY <2>2 DEF StartNfsd, Export
  <2>3. CASE Listen BY <2>3 DEF Listen
  <2>4. CASE SetupNfs \/ WriteExportFile \/ WriteNfsConf \/ SaveNfs \/ WriteNfs
    BY <2>4 DEF SetupNfs, WriteExportFile, WriteNfsConf, SaveNfs, WriteNfs
  <2> QED
    BY <1>2, <2>1, <2>2, <2>3, <2>4 DEF Setup
<1>3. CASE Undo
  <2>1. CASE Unexport \/ Reexport
    BY <2>1 DEF Unexport, Reexport
  <2>2. CASE StopNfsd BY <2>2 DEF StopNfsd
  <2>3. CASE UndoNfs \/ CheckClients \/ CleanNfs
    BY <2>3 DEF UndoNfs, CheckClients, Listed, CleanNfs
  <2> QED
    BY <1>3, <2>1, <2>2, <2>3 DEF Undo
<1>4. CASE Client
  <2>1. CASE Mount BY <2>1 DEF Mount
  <2>2. CASE Unmount BY <2>2 DEF Unmount, MayUnmount
  <2>3. CASE AdoptMount BY <2>3 DEF AdoptMount
  <2> QED
    BY <1>4, <2>1, <2>2, <2>3 DEF Client
<1>5. CASE Roll
  <2>1. CASE RollbackStopClient BY <2>1 DEF RollbackStopClient, MayUnmount
  <2>2. CASE RollbackStart \/ RollbackSkip \/ RollbackNext
    BY <2>2 DEF RollbackStart, RollbackSkip, MayUmount, RollbackNext
  <2> QED
    BY <1>5, <2>1, <2>2 DEF Roll
<1>6. CASE Fault
  <2>1. CASE RebootNode3 BY <2>1 DEF RebootNode3, Cut
  <2>2. CASE RebootNode1 BY <2>2 DEF RebootNode1
  <2>3. CASE Kill \/ RollbackEnds
    BY <2>3 DEF Kill, RollbackEnds
  <2> QED
    BY <1>6, <2>1, <2>2, <2>3 DEF Fault
<1>7. CASE UNCHANGED vars BY <1>7
<1> QED
  BY <1>1, <1>2, <1>3, <1>4, <1>5, <1>6, <1>7 DEF Next

\* The setup decides once, and only a rollback that came to its end forgets it.
LEMMA EnvStep ==
  ASSUME TypeOK, EnvInv, SavedInv, [Next]_vars
  PROVE  EnvInv'
<1> USE DEF TypeOK, EnvInv, SavedInv
<1>1. CASE Ram
  <2>1. CASE StartRam BY <2>1 DEF StartRam
  <2>2. CASE Mkfs BY <2>2 DEF Mkfs
  <2>3. CASE MountRam BY <2>3 DEF MountRam
  <2>4. CASE MarkRam BY <2>4 DEF MarkRam
  <2>5. CASE SaveRam \/ WriteRam
    BY <2>5 DEF SaveRam, WriteRam
  <2>6. CASE UmountRam BY <2>6 DEF UmountRam, RamStopped, MayUmount, Cut
  <2>7. CASE UnloadBrd BY <2>7 DEF UnloadBrd
  <2>8. CASE CleanRam BY <2>8 DEF CleanRam
  <2>9. CASE AdoptRam \/ RefuseUmount
    BY <2>9 DEF AdoptRam, RefuseUmount, RamStopped
  <2> QED
    BY <1>1, <2>1, <2>2, <2>3, <2>4, <2>5, <2>6, <2>7, <2>8, <2>9 DEF Ram
<1>2. CASE Setup
  <2>1. CASE SetupNfs BY <2>1 DEF SetupNfs
  <2>2. CASE InstallPackage BY <2>2 DEF InstallPackage
  <2>3. CASE WriteExportFile BY <2>3 DEF WriteExportFile
  <2>4. CASE WriteNfsConf BY <2>4 DEF WriteNfsConf
  <2>5. CASE StartNfsd \/ Export
    BY <2>5 DEF StartNfsd, Export
  <2>6. CASE Listen BY <2>6 DEF Listen
  <2>7. CASE SaveNfs \/ WriteNfs
    BY <2>7 DEF SaveNfs, WriteNfs
  <2> QED
    BY <1>2, <2>1, <2>2, <2>3, <2>4, <2>5, <2>6, <2>7 DEF Setup
<1>3. CASE Undo
  <2>1. CASE UndoNfs BY <2>1 DEF UndoNfs
  <2>2. CASE CheckClients BY <2>2 DEF CheckClients, Listed
  <2>3. CASE Unexport \/ Reexport
    BY <2>3 DEF Unexport, Reexport
  <2>4. CASE StopNfsd BY <2>4 DEF StopNfsd
  <2>5. CASE CleanNfs BY <2>5 DEF CleanNfs
  <2> QED
    BY <1>3, <2>1, <2>2, <2>3, <2>4, <2>5 DEF Undo
<1>4. CASE Client BY <1>4, ClientFrame
<1>5. CASE Roll BY <1>5, RollFrame
<1>6. CASE Fault
  <2>1. CASE Kill
    <3>1. CASE cutSetup'
      BY <3>1
    <3>2. CASE ~cutSetup'
      <4>1. ~cutSetup /\ (job \in SetupJobs => nfsEnv \in {"active", "inactive"})
        BY <2>1, <3>2 DEF Kill
      <4>2. nfsEnv' = nfsEnv /\ nfsBefore' = nfsBefore /\ job' = "idle"
        BY <2>1 DEF Kill
      <4> QED
        BY <4>1, <4>2
    <3> QED
      BY <3>1, <3>2
  <2>2. CASE RebootNode3 BY <2>2 DEF RebootNode3, Cut
  <2>3. CASE RebootNode1 \/ RollbackEnds
    BY <2>3 DEF RebootNode1, RollbackEnds
  <2> QED
    BY <1>6, <2>1, <2>2, <2>3 DEF Fault
<1>7. CASE UNCHANGED vars BY <1>7
<1> QED
  BY <1>1, <1>2, <1>3, <1>4, <1>5, <1>6, <1>7 DEF Next

\* Each stop of a rollback leaves its part taken down or is counted as missed.
LEMMA RollStep ==
  ASSUME TypeOK, RollInv, ExportInv, ClientInv, MountedIsServed, [Next]_vars
  PROVE  RollInv'
<1> USE DEF TypeOK, RollInv, ExportInv, ClientInv, MountedIsServed
<1>1. CASE Ram
  <2>1. CASE StartRam BY <2>1 DEF StartRam
  <2>2. CASE Mkfs BY <2>2 DEF Mkfs
  <2>3. CASE MountRam BY <2>3 DEF MountRam
  <2>4. CASE MarkRam BY <2>4 DEF MarkRam
  <2>5. CASE SaveRam \/ WriteRam
    BY <2>5 DEF SaveRam, WriteRam
  <2>6. CASE UmountRam
    <3>1. CASE rollback = "stop_ram" /\ rollback' = "wait_ram" /\ missed' = missed
      BY <2>6, <3>1 DEF UmountRam, MayUmount, Cut
    <3>2. CASE rollback' = rollback /\ missed' = (missed \/ rollback # "idle")
      BY <2>6, <3>2 DEF UmountRam
    <3> QED
      BY <2>6, <3>1, <3>2 DEF UmountRam
  <2>7. CASE UnloadBrd BY <2>7 DEF UnloadBrd
  <2>8. CASE CleanRam BY <2>8 DEF CleanRam
  <2>9. CASE AdoptRam \/ RefuseUmount
    BY <2>9 DEF AdoptRam, RefuseUmount, RamStopped
  <2> QED
    BY <1>1, <2>1, <2>2, <2>3, <2>4, <2>5, <2>6, <2>7, <2>8, <2>9 DEF Ram
<1>2. CASE Setup
  <2>1. CASE SetupNfs BY <2>1 DEF SetupNfs
  <2>2. CASE InstallPackage BY <2>2 DEF InstallPackage
  <2>3. CASE WriteExportFile BY <2>3 DEF WriteExportFile
  <2>4. CASE WriteNfsConf BY <2>4 DEF WriteNfsConf
  <2>5. CASE StartNfsd \/ Export
    BY <2>5 DEF StartNfsd, Export
  <2>6. CASE Listen BY <2>6 DEF Listen
  <2>7. CASE SaveNfs \/ WriteNfs
    BY <2>7 DEF SaveNfs, WriteNfs
  <2> QED
    BY <1>2, <2>1, <2>2, <2>3, <2>4, <2>5, <2>6, <2>7 DEF Setup
<1>3. CASE Undo
  <2>1. CASE UndoNfs
    <3>1. CASE rollback = "stop_nfs" /\ nfsUnit /\ rollback' = "wait_nfs" /\ missed' = missed
      BY <2>1, <3>1 DEF UndoNfs
    <3>2. CASE rollback' = rollback /\ missed' = (missed \/ rollback # "idle")
      BY <2>1, <3>2 DEF UndoNfs
    <3> QED
      BY <2>1, <3>1, <3>2 DEF UndoNfs
  <2>2. CASE CheckClients BY <2>2 DEF CheckClients, Listed
  <2>3. CASE Unexport \/ Reexport
    BY <2>3 DEF Unexport, Reexport
  <2>4. CASE StopNfsd BY <2>4 DEF StopNfsd
  <2>5. CASE CleanNfs BY <2>5 DEF CleanNfs
  <2> QED
    BY <1>3, <2>1, <2>2, <2>3, <2>4, <2>5 DEF Undo
<1>4. CASE Client
  <2>1. CASE Mount BY <2>1 DEF Mount
  <2>2. CASE Unmount BY <2>2 DEF Unmount, MayUnmount
  <2>3. CASE AdoptMount BY <2>3 DEF AdoptMount
  <2> QED
    BY <1>4, <2>1, <2>2, <2>3 DEF Client
<1>5. CASE Roll
  <2>1. CASE RollbackStart BY <2>1 DEF RollbackStart
  <2>2. CASE RollbackStopClient BY <2>2 DEF RollbackStopClient, MayUnmount
  <2>3. CASE RollbackSkip BY <2>3 DEF RollbackSkip, MayUmount
  <2>4. CASE RollbackNext BY <2>4 DEF RollbackNext
  <2> QED
    BY <1>5, <2>1, <2>2, <2>3, <2>4 DEF Roll
<1>6. CASE Fault
  <2>1. CASE Kill \/ RollbackEnds
    BY <2>1 DEF Kill, RollbackEnds
  <2>2. CASE RebootNode3 BY <2>2 DEF RebootNode3, Cut
  <2>3. CASE RebootNode1 BY <2>3 DEF RebootNode1
  <2> QED
    BY <1>6, <2>1, <2>2, <2>3 DEF Fault
<1>7. CASE UNCHANGED vars BY <1>7
<1> QED
  BY <1>1, <1>2, <1>3, <1>4, <1>5, <1>6, <1>7 DEF Next

-----------------------------------------------------------------------------
LEMMA Initially == Init => IInv
<1> SUFFICES ASSUME Init
             PROVE  IInv
  OBVIOUS
<1> USE DEF Init
<1>1. TypeOK
  BY DEF TypeOK
<1>2. ScriptInv /\ SavedInv /\ FoundInv /\ OwnerInv
  BY DEF ScriptInv, SavedInv, FoundInv, OwnerInv
<1>3. ExportInv /\ ClientInv /\ MountedIsServed
  BY DEF ExportInv, ClientInv, MountedIsServed
<1>4. EnvInv /\ RollInv
  BY DEF EnvInv, RollInv
<1> QED
  BY <1>1, <1>2, <1>3, <1>4 DEF IInv

LEMMA Invariance == Spec => []IInv
<1>1. IInv /\ [Next]_vars => IInv'
  BY TypeStep, ScriptStep, SavedStep, FoundStep, OwnerStep, ExportStep,
     ClientStep, MountedIsServedStep, EnvStep, RollStep DEF IInv
<1> QED
  BY Initially, <1>1, PTL DEF Spec

\* Every variable stays in its type.
THEOREM TypeCorrect == Spec => []TypeOK
BY Invariance, PTL DEF IInv

\* Over any kills and reboots, RDMA serves under the export path only the marked
\* RAM file system, and node1 never mounts anything else.
THEOREM ServesOnlyRam == Spec => []ServedIsRam
<1>1. IInv => ServedIsRam
  BY DEF IInv, ExportInv, ClientInv, ServedIsRam
<1> QED
  BY Invariance, <1>1, PTL

\* A live mount of node1 keeps its server, its export and its file system, unless
\* showmount gave no answer of it or it came behind the client check of a rollback.
THEOREM ServesItsMounts == Spec => []MountedIsServed
BY Invariance, PTL DEF IInv

\* With the RAM storage down and its state file gone, brd is loaded only if it was
\* before Phase 2, unless a start was killed.
THEOREM RestoresModule == Spec => []ModuleRestored
<1>1. IInv => ModuleRestored
  BY DEF IInv, TypeOK, FoundInv, OwnerInv, ModuleRestored
<1> QED
  BY Invariance, <1>1, PTL

\* Nor is a signature left on a device that the start script will find blank.
THEOREM LeavesBlank == Spec => []BlankUnlessCut
<1>1. IInv => BlankUnlessCut
  BY DEF IInv, TypeOK, OwnerInv, BlankUnlessCut
<1> QED
  BY Invariance, <1>1, PTL

\* nfs.env tells what nfs-server was before this setup, unless a setup was killed
\* before it had saved that, or while it wrote the file again.
THEOREM RemembersService == Spec => []NfsEnvTruthful
<1>1. IInv => NfsEnvTruthful
  BY DEF IInv, EnvInv, NfsEnvTruthful
<1> QED
  BY Invariance, <1>1, PTL

\* The rollback stops the nfs-server that the setup started and keeps one that ran
\* before: when it gets there, what it read of nfs.env is the truth.
THEOREM RestoresService == Spec => ServiceRestored
<1> DEFINE Kept == job = "stop_nfsd" /\ job' = "clean_nfs" /\ nfsBefore # "unset" /\ ~cutSetup
                      => nfsd' = (nfsd /\ nfsBefore = "active")
<1>1. IInv /\ [Next]_vars => Kept
  <2> SUFFICES ASSUME IInv, [Next]_vars, job = "stop_nfsd", job' = "clean_nfs",
                      nfsBefore # "unset", ~cutSetup
               PROVE  nfsd' = (nfsd /\ nfsBefore = "active")
    OBVIOUS
  <2>1. saved = (nfsBefore = "active")
    BY DEF IInv, TypeOK, SavedInv, EnvInv
  <2>2. StopNfsd
    BY DEF Next, Ram, AdoptRam, StartRam, Mkfs, MountRam, MarkRam, SaveRam, WriteRam,
         UmountRam, RamStopped, MayUmount, Cut, RefuseUmount, UnloadBrd,
         CleanRam, Setup, SetupNfs, InstallPackage, WriteExportFile,
         WriteNfsConf, StartNfsd, Export, Listen, SaveNfs, WriteNfs, Undo, UndoNfs, CheckClients,
         Listed, Unexport, Reexport, StopNfsd, CleanNfs, Client, AdoptMount,
         Mount, Unmount, MayUnmount, Roll, RollbackStart,
         RollbackStopClient, RollbackSkip, RollbackNext, Fault, Kill, RollbackEnds,
         RebootNode3, RebootNode1
  <2> QED
    BY <2>1, <2>2 DEF StopNfsd, IInv, TypeOK
<1>2. IInv /\ [Next]_vars => [Kept]_vars
  BY <1>1
<1> QED
  BY Invariance, <1>2, PTL DEF Spec, ServiceRestored

\* rollback-phase2.sh passes with the storage down and no file of Phase 2 left on
\* node3 when each of its stop scripts ran and came to its end, whatever node1 did
\* meanwhile; a mount that is left is one the client check did not hear of.
THEOREM TearsDown == Spec => TornDownUnlessMissed
<1> DEFINE Down == rollback # "passed" /\ rollback' = "passed" /\ ~missed'
                     => StorageDown' /\ NothingLeft' /\ (mount = "none" \/ slipped)'
<1>1. IInv /\ [Next]_vars => Down
  <2> SUFFICES ASSUME IInv, [Next]_vars, rollback # "passed", rollback' = "passed", ~missed'
               PROVE  StorageDown' /\ NothingLeft' /\ (mount = "none" \/ slipped)'
    OBVIOUS
  <2>1. RollbackNext /\ rollback = "wait_ram"
    BY DEF Next, Ram, AdoptRam, StartRam, Mkfs, MountRam, MarkRam, SaveRam, WriteRam,
         UmountRam, RamStopped, MayUmount, Cut, RefuseUmount, UnloadBrd,
         CleanRam, Setup, SetupNfs, InstallPackage, WriteExportFile,
         WriteNfsConf, StartNfsd, Export, Listen, SaveNfs, WriteNfs, Undo, UndoNfs, CheckClients,
         Listed, Unexport, Reexport, StopNfsd, CleanNfs, Client, AdoptMount,
         Mount, Unmount, MayUnmount, Roll, RollbackStart,
         RollbackStopClient, RollbackSkip, RollbackNext, Fault, Kill, RollbackEnds,
         RebootNode3, RebootNode1
  <2>2. StorageDown' /\ (mount = "none" \/ slipped)'
    BY <2>1 DEF RollbackNext, StorageDown, IInv, RollInv
  <2>3. ModuleRestored /\ job = "idle" /\ ~ramMount /\ ramEnv = "none"
    BY <2>1 DEF RollbackNext, IInv, TypeOK, FoundInv, OwnerInv, RollInv, ModuleRestored
  <2> QED
    BY <2>1, <2>2, <2>3 DEF RollbackNext, NothingLeft, ModuleRestored, IInv, RollInv
<1>2. IInv /\ [Next]_vars => [Down]_vars
  BY <1>1
<1> QED
  BY Invariance, <1>2, PTL DEF Spec, TornDownUnlessMissed
=============================================================================
