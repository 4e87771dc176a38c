----------------------------- MODULE RamStorage -----------------------------
(***************************************************************************)
(* The Phase 2 storage: node3 keeps an ext4 file system on a RAM block     *)
(* device (storage/*.sh) and exports it over NFS/RDMA (nfs/node3-*.sh),    *)
(* node1 mounts it (nfs/node1-*.sh), and rollback-phase2.sh takes all of   *)
(* it down again.                                                          *)
(*                                                                         *)
(* Every script is a sequence of commands under "set -e": each command     *)
(* that changes the host is a step, a die is a step back to idle, and the  *)
(* script can be killed (TimeoutStartSec, TimeoutStopSec, a failing        *)
(* command) before any of them.  systemd orders the units of one host, so  *)
(* one script at a time runs on node3, while node1 runs its own.  A state  *)
(* file is truncated when it is opened and complete after its last line.   *)
(* A reboot loses what the kernel holds and keeps what is on disk.         *)
(*                                                                         *)
(* A script is run by hand or by its systemd unit (systemd/*.service,      *)
(* Type=oneshot, RemainAfterExit).  A unit is active when its ExecStart    *)
(* came to its end; only then does systemctl stop run the ExecStop, and    *)
(* the unit is no longer active whatever becomes of it.  Nothing keeps     *)
(* anybody from running a script by hand while a rollback is under way.    *)
(***************************************************************************)
VARIABLES
  brd,         \* node3: is the brd module, with its RAM device, loaded?
  fs,          \* node3: what the RAM device holds: nothing, ext4, ext4 with the marker
  ramMount,    \* node3: is the RAM device mounted on /srv/dynamo-g4?
  ramEnv,      \* node3, on disk: CREATED_MODULE of ram-storage.env
  package,     \* node3, on disk: is nfs-kernel-server installed?
  enabled,     \* node3, on disk: does nfs-server start at boot?
  exportFile,  \* node3, on disk: /etc/exports.d/dynamo-phase2.exports
  nfsConf,     \* node3, on disk: /etc/nfs.conf.d/dynamo-phase2.conf
  nfsEnv,      \* node3, on disk: SERVICE_WAS_ACTIVE of nfs.env
  nfsd,        \* node3: is nfs-server running?
  exported,    \* node3: is /srv/dynamo-g4 in the kernel's export table?
  listener,    \* node3: does nfsd listen for RDMA?
  job,         \* node3: next command of the running script
  saved,       \* node3: created_module or service_was_active of that script
  ramUnit,     \* node3: is dynamo-phase2-ram-storage.service active?
  nfsUnit,     \* node3: is dynamo-phase2-nfs-rdma-server.service active?
  clientUnit,  \* node1: is dynamo-phase2-nfs-rdma-client.service active?
  mount,       \* node1: what is mounted on /mnt/dynamo-g4
  rollback,    \* where rollback-phase2.sh is
  missed,      \* did a stop script of this rollback not run, or not to its end,
               \* or another script of node3 run in between?
  brdBefore,   \* history: was brd loaded before Phase 2?
  nfsBefore,   \* history: was nfs-server active before this Phase 2 setup?
  cutStart,    \* history: was a RAM start killed before it saved its state?
  cutSetup,    \* history: was an NFS setup killed that had not saved its state?
  slipped      \* history: did the client check of a rollback miss the mount, for
               \* want of an answer or because the mount came behind it?

ramVars    == <<brd, fs, ramMount, ramEnv>>
nfsFiles   == <<package, enabled, exportFile, nfsConf, nfsEnv>>
nfsVars    == <<nfsd, exported, listener>>
units      == <<ramUnit, nfsUnit, clientUnit>>
clientVars == <<mount, slipped>>
rollVars   == <<rollback, missed>>
history    == <<brdBefore, nfsBefore, cutStart, cutSetup>>
vars == <<ramVars, nfsFiles, nfsVars, units, job, saved, clientVars, rollVars, history>>

StartJobs == {"mkfs", "mount_ram", "mark", "save_ram", "write_ram"}
StopJobs  == {"unload", "clean_ram"}
SetupJobs == {"install", "export_file", "conf", "serve", "export", "listen", "save_nfs", "write_nfs"}
UndoJobs  == {"check_clients", "unexport", "reexport", "stop_nfsd", "clean_nfs"}
Jobs == {"idle"} \cup StartJobs \cup StopJobs \cup SetupJobs \cup UndoJobs

\* Before Phase 2: brd may already be loaded (with a blank device of the right
\* size) and nfs-server may be installed, in which case it may be in use.
Init ==
  /\ brd \in BOOLEAN /\ fs = "none" /\ ramMount = FALSE /\ ramEnv = "none"
  /\ package \in BOOLEAN /\ enabled \in BOOLEAN /\ (enabled => package)
  /\ exportFile = FALSE /\ nfsConf = FALSE /\ nfsEnv = "none"
  /\ nfsd = enabled /\ exported = FALSE /\ listener = FALSE
  /\ job = "idle" /\ saved = FALSE
  /\ ramUnit = FALSE /\ nfsUnit = FALSE /\ clientUnit = FALSE
  /\ mount = "none" /\ slipped = FALSE
  /\ rollback = "idle" /\ missed = FALSE
  /\ brdBefore = brd /\ nfsBefore = "unset"
  /\ cutStart = FALSE /\ cutSetup = FALSE

\* Another script of node3 while a rollback is under way counts against what
\* that rollback can promise.
Meddle == missed' = (missed \/ rollback # "idle")

(***************************************************************************)
(* start-ram-storage.sh.                                                   *)
(***************************************************************************)
\* An existing mount with the marker is adopted.
AdoptRam ==
  /\ job = "idle"
  /\ ramMount /\ fs = "marked"
  /\ ramUnit' = TRUE
  /\ UNCHANGED <<ramVars, nfsFiles, nfsVars, nfsUnit, clientUnit, job, saved,
                 clientVars, rollVars, history>>

\* The module is loaded if it is not there.
StartRam ==
  /\ job = "idle"
  /\ ~ramMount
  /\ Meddle
  /\ brd' = TRUE
  /\ saved' = ~brd
  /\ job' = "mkfs"
  /\ UNCHANGED <<units, fs, ramMount, ramEnv, nfsFiles, nfsVars, clientVars, rollback, history>>

\* A device with a signature is refused.
Mkfs ==
  /\ job = "mkfs"
  /\ job' = IF fs = "none" THEN "mount_ram" ELSE "idle"
  /\ saved' = (saved /\ fs = "none")
  /\ fs' = IF fs = "none" THEN "ext4" ELSE fs
  /\ UNCHANGED <<units, brd, ramMount, ramEnv, nfsFiles, nfsVars, clientVars, rollVars, history>>

MountRam ==
  /\ job = "mount_ram"
  /\ job' = "mark"
  /\ ramMount' = TRUE
  /\ UNCHANGED <<units, brd, fs, ramEnv, nfsFiles, nfsVars, saved, clientVars, rollVars, history>>

MarkRam ==
  /\ job = "mark"
  /\ job' = "save_ram"
  /\ fs' = "marked"
  /\ UNCHANGED <<units, brd, ramMount, ramEnv, nfsFiles, nfsVars, saved, clientVars, rollVars, history>>

\* CREATED_MODULE is the last line of the state file.
SaveRam ==
  /\ job = "save_ram"
  /\ job' = "write_ram"
  /\ ramEnv' = "partial"
  /\ UNCHANGED <<units, brd, fs, ramMount, nfsFiles, nfsVars, saved, clientVars, rollVars, history>>

\* Mutant of WriteRam: the flag is written as the script keeps it.
WriteRamRaw ==
  /\ job = "write_ram"
  /\ job' = "idle" /\ saved' = FALSE
  /\ ramEnv' = IF saved THEN "1" ELSE "0"
  /\ ramUnit' \in {ramUnit, TRUE}
  /\ UNCHANGED <<brd, fs, ramMount, nfsFiles, nfsVars, nfsUnit, clientUnit, clientVars,
                 rollVars, history>>

\* Mutant of WriteRam: who loaded the module is forgotten.
WriteRamForgets ==
  /\ job = "write_ram"
  /\ job' = "idle" /\ saved' = FALSE
  /\ ramEnv' = "found"
  /\ ramUnit' \in {ramUnit, TRUE}
  /\ UNCHANGED <<brd, fs, ramMount, nfsFiles, nfsVars, nfsUnit, clientUnit, clientVars,
                 rollVars, history>>

WriteRam ==
  /\ job = "write_ram"
  /\ job' = "idle" /\ saved' = FALSE
  /\ ramEnv' = IF saved THEN "created" ELSE "found"
  /\ ramUnit' \in {ramUnit, TRUE}
  /\ UNCHANGED <<brd, fs, ramMount, nfsFiles, nfsVars, nfsUnit, clientUnit, clientVars,
                 rollVars, history>>

(***************************************************************************)
(* stop-ram-storage.sh.                                                    *)
(***************************************************************************)
\* A mount without the marker or with an export is refused.
MayUmount == ramMount => fs = "marked" /\ ~exported

\* node1 keeps the handles of a file system that is gone.
Cut(m) == IF m = "live" THEN "stale" ELSE m

\* By hand the unit stays as it is.  systemd stops the server unit before the
\* one it requires.
RamStopped ==
  /\ \/ ramUnit' = ramUnit
     \/ ramUnit' = FALSE /\ ~nfsUnit
  /\ UNCHANGED <<nfsUnit, clientUnit>>

\* A rollback runs the script only as the stop of an active unit.  Without a
\* CREATED_MODULE line the module counts as found.
UmountRam ==
  /\ job = "idle"
  /\ MayUmount
  /\ RamStopped
  /\ job' = "unload"
  /\ saved' = (ramEnv = "created")
  /\ ramMount' = FALSE
  /\ mount' = IF ramMount THEN Cut(mount) ELSE mount
  /\ \/ rollback = "stop_ram" /\ ramUnit /\ ~ramUnit' /\ rollback' = "wait_ram" /\ missed' = missed
     \/ rollback' = rollback /\ Meddle
  /\ UNCHANGED <<brd, fs, ramEnv, nfsFiles, nfsVars, slipped, history>>

\* The script refuses, for what MayUmount asks or because fuser finds a user of
\* the mount, and the unit that ran it fails.
RefuseUmount ==
  /\ job = "idle"
  /\ ramMount
  /\ RamStopped
  /\ UNCHANGED <<ramVars, nfsFiles, nfsVars, job, saved, clientVars, rollVars, history>>

\* Mutant of UnloadBrd: the module goes whoever loaded it.
UnloadBrdAlways ==
  /\ job = "unload"
  /\ job' = "clean_ram"
  /\ brd' = FALSE
  /\ fs' = "none"
  /\ UNCHANGED <<units, ramMount, ramEnv, nfsFiles, nfsVars, saved, clientVars, rollVars, history>>

\* The module goes only if the start script loaded it.
UnloadBrd ==
  /\ job = "unload"
  /\ job' = "clean_ram"
  /\ brd' = (brd /\ ~saved)
  /\ fs' = IF saved THEN "none" ELSE fs
  /\ UNCHANGED <<units, ramMount, ramEnv, nfsFiles, nfsVars, saved, clientVars, rollVars, history>>

CleanRam ==
  /\ job = "clean_ram"
  /\ job' = "idle" /\ saved' = FALSE
  /\ ramEnv' = "none"
  /\ UNCHANGED <<units, brd, fs, ramMount, nfsFiles, nfsVars, clientVars, rollVars, history>>

(***************************************************************************)
(* node3-nfs-rdma-setup.sh.                                                *)
(***************************************************************************)
\* Mutant of SetupNfs: the marker is not asked for.
SetupNfsUnmarked ==
  /\ job = "idle"
  /\ Meddle
  /\ saved' = IF nfsEnv = "none" THEN nfsd ELSE nfsEnv = "active"
  /\ nfsBefore' = IF nfsBefore = "unset" THEN (IF nfsd THEN "active" ELSE "inactive") ELSE nfsBefore
  /\ job' = IF package THEN "export_file" ELSE "install"
  /\ UNCHANGED <<units, ramVars, nfsFiles, nfsVars, clientVars, rollback, brdBefore, cutStart, cutSetup>>

\* Mutant of SetupNfs: a second start asks systemctl instead of the state file.
SetupNfsAsksAgain ==
  /\ job = "idle"
  /\ Meddle
  /\ ramMount /\ fs = "marked"
  /\ saved' = nfsd
  /\ nfsBefore' = IF nfsBefore = "unset" THEN (IF nfsd THEN "active" ELSE "inactive") ELSE nfsBefore
  /\ job' = IF package THEN "export_file" ELSE "install"
  /\ UNCHANGED <<units, ramVars, nfsFiles, nfsVars, clientVars, rollback, brdBefore, cutStart, cutSetup>>

\* The marker must be there.  A state file of an earlier setup is believed.
SetupNfs ==
  /\ job = "idle"
  /\ Meddle
  /\ ramMount /\ fs = "marked"
  /\ saved' = IF nfsEnv = "none" THEN nfsd ELSE nfsEnv = "active"
  /\ nfsBefore' = IF nfsBefore = "unset" THEN (IF nfsd THEN "active" ELSE "inactive") ELSE nfsBefore
  /\ job' = IF package THEN "export_file" ELSE "install"
  /\ UNCHANGED <<units, ramVars, nfsFiles, nfsVars, clientVars, rollback, brdBefore, cutStart, cutSetup>>

\* Only by hand: the unit does not set INSTALL_PACKAGE.  The package enables
\* and starts nfs-server.
InstallPackage ==
  /\ job = "install"
  /\ job' = "export_file"
  /\ package' = TRUE /\ enabled' = TRUE
  /\ nfsd' = TRUE
  /\ UNCHANGED <<units, ramVars, exportFile, nfsConf, nfsEnv, exported, listener, saved,
                 clientVars, rollVars, history>>

WriteExportFile ==
  /\ job = "export_file"
  /\ job' = "conf"
  /\ exportFile' = TRUE
  /\ UNCHANGED <<units, ramVars, package, enabled, nfsConf, nfsEnv, nfsVars, saved,
                 clientVars, rollVars, history>>

WriteNfsConf ==
  /\ job = "conf"
  /\ job' = "serve"
  /\ nfsConf' = TRUE
  /\ UNCHANGED <<units, ramVars, package, enabled, exportFile, nfsEnv, nfsVars, saved,
                 clientVars, rollVars, history>>

\* systemctl start: a service that starts exports what the export files say, one
\* that runs is left alone.  rpc.nfsd then only sets the number of threads.
StartNfsd ==
  /\ job = "serve"
  /\ job' = "export"
  /\ nfsd' = TRUE
  /\ exported' = IF nfsd THEN exported ELSE exportFile
  /\ UNCHANGED <<units, ramVars, nfsFiles, listener, saved, clientVars, rollVars, history>>

Export ==
  /\ job = "export"
  /\ job' = "listen"
  /\ exported' = exportFile
  /\ UNCHANGED <<units, ramVars, nfsFiles, nfsd, listener, saved, clientVars, rollVars, history>>

Listen ==
  /\ job = "listen"
  /\ job' = "save_nfs"
  /\ listener' = TRUE
  /\ UNCHANGED <<units, ramVars, nfsFiles, nfsd, exported, saved, clientVars, rollVars, history>>

\* SERVICE_WAS_ACTIVE is the last line of the state file, which every setup
\* writes again.
SaveNfs ==
  /\ job = "save_nfs"
  /\ job' = "write_nfs"
  /\ nfsEnv' = "partial"
  /\ UNCHANGED <<units, ramVars, package, enabled, exportFile, nfsConf, nfsVars, saved,
                 clientVars, rollVars, history>>

WriteNfs ==
  /\ job = "write_nfs"
  /\ job' = "idle" /\ saved' = FALSE
  /\ nfsEnv' = IF saved THEN "active" ELSE "inactive"
  /\ nfsUnit' \in {nfsUnit, nfsUnit \/ ramUnit}
  /\ UNCHANGED <<ramVars, package, enabled, exportFile, nfsConf, nfsVars, ramUnit,
                 clientUnit, clientVars, rollVars, history>>

(***************************************************************************)
(* node3-nfs-rdma-rollback.sh.                                             *)
(***************************************************************************)
\* Without a SERVICE_WAS_ACTIVE line the service counts as inactive before Phase
\* 2.  The configuration goes before the clients are looked at.
UndoNfs ==
  /\ job = "idle"
  /\ nfsUnit' = nfsUnit \/ nfsUnit' = FALSE
  /\ saved' = (nfsEnv = "active")
  /\ nfsConf' = FALSE
  /\ job' = "check_clients"
  /\ \/ rollback = "stop_nfs" /\ nfsUnit /\ ~nfsUnit' /\ rollback' = "wait_nfs" /\ missed' = missed
     \/ rollback' = rollback /\ Meddle
  /\ UNCHANGED <<ramVars, package, enabled, exportFile, nfsEnv, nfsVars, ramUnit,
                 clientUnit, clientVars, history>>

\* Mutant of Listed: the pattern matches no line of showmount.
ListedNever(answered, leftover) == FALSE

\* What showmount lists of the export path: a mount, and what mountd wrote down
\* of a client that went away without a word.
Listed(answered, leftover) == answered /\ (mount = "live" \/ leftover)

\* showmount may be missing, and without an answer of mountd it fails; neither is
\* told from a host without clients.
CheckClients ==
  /\ job = "check_clients"
  /\ \E answered, leftover \in BOOLEAN :
       /\ answered => nfsd
       /\ job' = IF Listed(answered, leftover) THEN "idle" ELSE "unexport"
       /\ saved' = (saved /\ ~Listed(answered, leftover))
       /\ missed' = (missed \/ (Listed(answered, leftover) /\ rollback # "idle"))
       /\ slipped' = (slipped \/ (~answered /\ mount = "live"))
  /\ UNCHANGED <<units, ramVars, nfsFiles, nfsVars, mount, rollback, history>>

\* Without an export file the export table is left as it is.
Unexport ==
  /\ job = "unexport"
  /\ job' = IF exportFile THEN "reexport" ELSE "stop_nfsd"
  /\ exportFile' = FALSE
  /\ UNCHANGED <<units, ramVars, package, enabled, nfsConf, nfsEnv, nfsVars, saved,
                 clientVars, rollVars, history>>

Reexport ==
  /\ job = "reexport"
  /\ job' = "stop_nfsd"
  /\ exported' = exportFile
  /\ UNCHANGED <<units, ramVars, nfsFiles, nfsd, listener, saved, clientVars, rollVars, history>>

\* Mutant of StopNfsd: the service is stopped whatever it was before.
StopNfsdAlways ==
  /\ job = "stop_nfsd"
  /\ job' = "clean_nfs"
  /\ nfsd' = FALSE /\ exported' = FALSE /\ listener' = FALSE
  /\ UNCHANGED <<units, ramVars, nfsFiles, saved, clientVars, rollVars, history>>

\* A service that was active keeps running, its RDMA listener included.
StopNfsd ==
  /\ job = "stop_nfsd"
  /\ job' = "clean_nfs"
  /\ nfsd' = (nfsd /\ saved)
  /\ exported' = (exported /\ saved)
  /\ listener' = (listener /\ saved)
  /\ UNCHANGED <<units, ramVars, nfsFiles, saved, clientVars, rollVars, history>>

CleanNfs ==
  /\ job = "clean_nfs"
  /\ job' = "idle" /\ saved' = FALSE
  /\ nfsEnv' = "none"
  /\ nfsBefore' = "unset"
  /\ cutSetup' = FALSE
  /\ UNCHANGED <<units, ramVars, package, enabled, exportFile, nfsConf, nfsVars,
                 clientVars, rollVars, brdBefore, cutStart>>

(***************************************************************************)
(* node1: mount and unmount.                                               *)
(***************************************************************************)
\* The unit is active when its script came to its end; the script adopts what
\* is mounted.
AdoptMount ==
  /\ mount # "none"
  /\ clientUnit' = TRUE
  /\ UNCHANGED <<ramVars, nfsFiles, nfsVars, ramUnit, nfsUnit, job, saved,
                 clientVars, rollVars, history>>

\* The marker is only looked at afterwards, when the mount already stands.
Mount ==
  /\ mount = "none"
  /\ nfsd /\ exported /\ listener
  /\ mount' = IF ramMount /\ fs = "marked" THEN "live" ELSE "unmarked"
  /\ slipped' = (job \in {"unexport", "reexport", "stop_nfsd"})
  /\ clientUnit' \in {clientUnit, clientUnit \/ mount' = "live"}
  /\ UNCHANGED <<ramVars, nfsFiles, nfsVars, ramUnit, nfsUnit, job, saved,
                 rollVars, history>>

\* A mount whose marker cannot be read is refused.  So may any other be: the
\* Prefill pod and other processes that use it come and go.
MayUnmount == mount # "none" => mount = "live" /\ exported

Unmount ==
  /\ \/ MayUnmount /\ mount' = "none" /\ slipped' = FALSE
     \/ mount # "none" /\ UNCHANGED <<mount, slipped>>
  /\ clientUnit' \in {clientUnit, FALSE}
  /\ UNCHANGED <<ramVars, nfsFiles, nfsVars, ramUnit, nfsUnit, job, saved,
                 rollVars, history>>

(***************************************************************************)
(* rollback-phase2.sh.  systemctl stop waits for the stop script and does  *)
(* not fail with it; the commands for node3 are joined by semicolons.      *)
(***************************************************************************)
RollbackStart ==
  /\ rollback = "idle" /\ job = "idle"
  /\ rollback' = "stop_client" /\ missed' = FALSE
  /\ UNCHANGED <<units, ramVars, nfsFiles, nfsVars, job, saved, clientVars, history>>

RollbackStopClient ==
  /\ rollback = "stop_client"
  /\ rollback' = "stop_nfs"
  /\ clientUnit' = FALSE
  /\ \/ clientUnit /\ MayUnmount /\ mount' = "none" /\ slipped' = FALSE /\ missed' = missed
     \/ (~clientUnit \/ mount # "none") /\ missed' = TRUE /\ UNCHANGED clientVars
  /\ UNCHANGED <<ramVars, nfsFiles, nfsVars, ramUnit, nfsUnit, job, saved, history>>

\* The node3 stop scripts are UndoNfs and UmountRam.  A unit that is not active
\* or whose script refuses lets the next command run all the same.
RollbackSkip ==
  /\ job = "idle"
  /\ \/ /\ rollback = "stop_nfs" /\ ~nfsUnit
        /\ rollback' = "stop_ram"
        /\ UNCHANGED ramUnit
     \/ /\ rollback = "stop_ram" /\ (ramUnit => ramMount)
        /\ rollback' = "passed"
        /\ ramUnit' = FALSE
  /\ missed' = TRUE
  /\ UNCHANGED <<ramVars, nfsFiles, nfsVars, nfsUnit, clientUnit, job, saved, clientVars, history>>

\* Mutant of RollbackNext: the RAM storage unit is left out of the rollback.
RollbackNextKeepsRam ==
  /\ job = "idle"
  /\ \/ rollback = "wait_nfs" /\ rollback' = "passed"
     \/ rollback = "wait_ram" /\ rollback' = "passed"
     \/ rollback = "passed" /\ rollback' = "idle"
  /\ UNCHANGED <<ramVars, nfsFiles, nfsVars, units, job, saved, clientVars, missed, history>>

RollbackNext ==
  /\ job = "idle"
  /\ \/ rollback = "wait_nfs" /\ rollback' = "stop_ram"
     \/ rollback = "wait_ram" /\ rollback' = "passed"
     \/ rollback = "passed" /\ rollback' = "idle"
  /\ UNCHANGED <<ramVars, nfsFiles, nfsVars, units, job, saved, clientVars, missed, history>>

(***************************************************************************)
(* Failures.                                                               *)
(***************************************************************************)
\* A setup that has yet to save what nfs-server was before it.
Unsaved == job \in SetupJobs /\ nfsEnv \in {"none", "partial"}

\* A script is killed, or one of its commands fails.
Kill ==
  /\ job # "idle"
  /\ job' = "idle" /\ saved' = FALSE
  /\ cutStart' = (cutStart \/ job \in StartJobs)
  /\ cutSetup' = (cutSetup \/ Unsaved)
  /\ Meddle
  /\ UNCHANGED <<units, ramVars, nfsFiles, nfsVars, clientVars, rollback, brdBefore, nfsBefore>>

\* rollback-phase2.sh is killed or one of its own commands fails; a stop script
\* that runs on node3 goes on.
RollbackEnds ==
  /\ rollback # "idle"
  /\ rollback' = "idle" /\ missed' = FALSE
  /\ UNCHANGED <<units, ramVars, nfsFiles, nfsVars, job, saved, clientVars, history>>

\* node3 starts again: the RAM is blank, an enabled nfs-server exports what
\* the export file says, nobody listens for RDMA, node1 is left behind and
\* a rollback in progress ends with an error.
RebootNode3 ==
  /\ brd' = brdBefore /\ fs' = "none" /\ ramMount' = FALSE
  /\ nfsd' = enabled /\ exported' = (enabled /\ exportFile) /\ listener' = FALSE
  /\ job' = "idle" /\ saved' = FALSE /\ rollback' = "idle" /\ missed' = FALSE
  /\ ramUnit' = FALSE /\ nfsUnit' = FALSE
  /\ mount' = Cut(mount) /\ slipped' = FALSE
  /\ cutStart' = FALSE
  /\ cutSetup' = (cutSetup \/ Unsaved)
  /\ UNCHANGED <<clientUnit, ramEnv, nfsFiles, brdBefore, nfsBefore>>

\* rollback-phase2.sh runs on node1 and goes with it.
RebootNode1 ==
  /\ mount' = "none" /\ slipped' = FALSE
  /\ clientUnit' = FALSE
  /\ rollback' = "idle" /\ missed' = FALSE
  /\ UNCHANGED <<ramVars, nfsFiles, nfsVars, ramUnit, nfsUnit, job, saved, history>>

-----------------------------------------------------------------------------
Ram    == AdoptRam \/ StartRam \/ Mkfs \/ MountRam \/ MarkRam \/ SaveRam \/ WriteRam
          \/ UmountRam \/ RefuseUmount \/ UnloadBrd \/ CleanRam
Setup  == SetupNfs \/ InstallPackage \/ WriteExportFile \/ WriteNfsConf
          \/ StartNfsd \/ Export \/ Listen \/ SaveNfs \/ WriteNfs
Undo   == UndoNfs \/ CheckClients \/ Unexport \/ Reexport \/ StopNfsd \/ CleanNfs
Client == AdoptMount \/ Mount \/ Unmount
Roll   == RollbackStart \/ RollbackStopClient \/ RollbackSkip \/ RollbackNext
Fault  == Kill \/ RollbackEnds \/ RebootNode3 \/ RebootNode1

Next == Ram \/ Setup \/ Undo \/ Client \/ Roll \/ Fault

Spec == Init /\ [][Next]_vars
-----------------------------------------------------------------------------
\* Every variable stays in its type.
TypeOK ==
  /\ brd \in BOOLEAN /\ fs \in {"none", "ext4", "marked"} /\ ramMount \in BOOLEAN
  /\ ramEnv \in {"none", "partial", "created", "found"}
  /\ package \in BOOLEAN /\ enabled \in BOOLEAN
  /\ exportFile \in BOOLEAN /\ nfsConf \in BOOLEAN
  /\ nfsEnv \in {"none", "partial", "active", "inactive"}
  /\ nfsd \in BOOLEAN /\ exported \in BOOLEAN /\ listener \in BOOLEAN
  /\ ramUnit \in BOOLEAN /\ nfsUnit \in BOOLEAN /\ clientUnit \in BOOLEAN
  /\ job \in Jobs /\ saved \in BOOLEAN
  /\ mount \in {"none", "live", "stale", "unmarked"}
  /\ rollback \in {"idle", "stop_client", "stop_nfs", "wait_nfs", "stop_ram", "wait_ram", "passed"}
  /\ missed \in BOOLEAN /\ slipped \in BOOLEAN
  /\ brdBefore \in BOOLEAN /\ nfsBefore \in {"unset", "active", "inactive"}
  /\ cutStart \in BOOLEAN /\ cutSetup \in BOOLEAN

\* Whatever scripts were killed and whenever node3 went down, what the RDMA
\* listener serves under the export path is the marked RAM file system, never
\* the directory of the root disk below it; and so is every mount of node1.
ServedIsRam ==
  /\ nfsd /\ exported /\ listener => ramMount /\ fs = "marked"
  /\ mount # "unmarked"

\* A live mount of node1 keeps its server, its export and its file system: the
\* rollback and stop scripts take nothing away from a client that mountd could
\* name when they asked.  (A rollback goes on past a client when showmount is
\* missing or fails, or when it mounts after the question.)
MountedIsServed ==
  mount = "live" /\ ~slipped => ramMount /\ fs = "marked" /\ nfsd /\ exported /\ listener

\* When the RAM storage is down and its state file is gone, brd is loaded only
\* if it was before, unless a start was killed before it saved what it had
\* loaded.
ModuleRestored ==
  job = "idle" /\ ~ramMount /\ ramEnv = "none" /\ ~cutStart => brd = brdBefore

\* Where the start script loads brd itself, no signature is left over that
\* would make the next start refuse the device, unless a start was killed.  (On
\* a module that was there before, the stop script always leaves one.)
BlankUnlessCut ==
  job = "idle" /\ ~ramMount /\ ramEnv = "none" /\ ~brdBefore /\ ~cutStart => fs = "none"

\* The state file tells what nfs-server was before this setup, over restarts
\* of the script and reboots, unless a setup was killed before it saved that or
\* while it wrote the file again.
NfsEnvTruthful ==
  nfsEnv # "none" /\ job # "write_nfs" /\ ~cutSetup => nfsEnv = nfsBefore

\* The rollback of a setup that was not killed stops the nfs-server that the
\* setup started, and keeps one that ran before.
ServiceRestored ==
  [][job = "stop_nfsd" /\ job' = "clean_nfs" /\ nfsBefore # "unset" /\ ~cutSetup
       => nfsd' = (nfsd /\ nfsBefore = "active")]_vars

StorageDown == ~ramMount /\ ~exported

TornDown == StorageDown /\ mount = "none"

\* No configuration or state file of Phase 2 is left on the disk of node3, and the
\* module is as it was, unless a start was killed before it saved its state.
NothingLeft ==
  /\ ~exportFile /\ ~nfsConf /\ nfsEnv = "none" /\ ramEnv = "none"
  /\ ~cutStart => brd = brdBefore

\* rollback-phase2.sh passes with the storage down and nothing of it left on node3
\* when each of the three stop scripts ran and came to its end and no other script
\* of node3 came in between, whatever node1 does meanwhile; node1 has a mount only
\* if the client check did not hear of it.
TornDownUnlessMissed ==
  [][rollback # "passed" /\ rollback' = "passed" /\ ~missed'
       => StorageDown' /\ NothingLeft' /\ (mount = "none" \/ slipped)']_vars

\* "PASS: Phase 2 rollback complete" means that the storage is taken down.
RollbackPassMeansTornDown ==
  [][rollback # "passed" /\ rollback' = "passed" => TornDown']_vars

\* An idempotent start preserves the state from before Phase 2, also when an
\* earlier start did not come to its end: what it writes is what was.
OriginalStatePreserved == nfsEnv \in {"active", "inactive"} => nfsEnv = nfsBefore
=============================================================================
