---------------------------- MODULE BlobDownload ----------------------------
(***************************************************************************)
(* One blob of the image that resumable-nvcr-pull.sh fetches over a slow   *)
(* link.  Its puller resumes a partial file over kills, broken transfers   *)
(* and checksum failures, and takes over what containerd, which pulls the  *)
(* same image, has already got.  snapshot-containerd-ingest.sh may copy    *)
(* containerd's ingest onto the same partial at any time, and a curl or cp *)
(* may outlive the script that started it: nothing locks.                  *)
(*                                                                         *)
(* A file is a sequence that tells of each byte whether it is the blob's   *)
(* byte at that place.  An absent file is the empty one: the scripts treat *)
(* both alike.                                                             *)
(***************************************************************************)
EXTENDS Naturals, Sequences

CONSTANTS
  Size,       \* expected_size, from the manifest
  MaxFaults,  \* bound: kills, broken transfers, wrong bytes, aborted ingests
  MaxSnaps    \* bound: runs of snapshot-containerd-ingest.sh

ASSUME SizeAssumption == Size \in Nat \ {0}
ASSUME BoundsAssumption == MaxFaults \in Nat /\ MaxSnaps \in Nat

VARIABLES
  pc,         \* where download_blob is
  partial,    \* $partials/$hex.partial
  final,      \* $layout/blobs/sha256/$hex
  from,       \* length of the partial when curl opened it
  pos,        \* bytes that the running curl or cp of the puller has written or skipped
  ingest,     \* bytes in containerd's ingest of the blob, which are all right
  ingesting,  \* is there an ingest?
  committed,  \* does containerd hold the blob?
  snap,       \* step, position and opened file of the snapshot's cp
  orphan,     \* the same of a curl or cp whose puller was killed
  snaps, faults,
  mixed,      \* history: was the partial written by two of the three at a time?
  late,       \* history: was a file written to after it was hashed?
  flipped,    \* history: did a transfer put a wrong byte into the partial?
  stale       \* history: did others change what the puller's last check saw?

containerd == <<ingest, ingesting, committed>>
snapshot   == <<snap, snaps>>
history    == <<mixed, late, flipped, stale>>
vars == <<pc, partial, final, from, pos, containerd, snapshot, orphan, faults, history>>

Steps == {"check", "reuse", "ingest", "open", "copy", "trim", "oversized", "loop", "hash",
          "mismatched", "move", "curl", "done", "imported"}

\* The puller has looked at the partial and is about to throw it away.
Checked == {"open", "oversized", "mismatched"}

\* Every byte is the blob's.
Clean(file) == \A i \in DOMAIN file : file[i]

\* sha256sum and the size agree with the digest.
Right(file) == Len(file) = Size /\ Clean(file)

\* Byte number n is written at its place; a gap before it reads as zeros.
WriteAt(file, n, ok) ==
  [i \in 1..(IF n > Len(file) THEN n ELSE Len(file)) |->
     IF i = n THEN ok ELSE i <= Len(file) /\ file[i]]

\* What others have open follows a rename and survives a removal.
Follow(old, new) ==
  /\ snap' = [snap EXCEPT !.at = IF @ = old THEN new ELSE @]
  /\ orphan' = [orphan EXCEPT !.at = IF @ = old THEN new ELSE @]

Nobody == [step |-> "idle", from |-> 0, pos |-> 0, at |-> "none"]

Init ==
  /\ pc = "check"
  /\ partial = <<>> /\ final = <<>>
  /\ from = 0 /\ pos = 0
  /\ ingest = 0 /\ ingesting \in BOOLEAN /\ committed = FALSE
  /\ snap = [step |-> "idle", pos |-> 0, at |-> "none"]
  /\ orphan = Nobody
  /\ snaps = 0 /\ faults = 0
  /\ mixed = FALSE /\ late = FALSE /\ flipped = FALSE /\ stale = FALSE

(***************************************************************************)
(* download_blob.                                                          *)
(***************************************************************************)
CheckFinal ==
  /\ pc = "check"
  /\ pc' = IF Right(final) THEN "done" ELSE "reuse"
  /\ late' = FALSE
  /\ UNCHANGED <<partial, final, from, pos, containerd, snapshot, orphan, faults,
                 mixed, flipped, stale>>

\* The candidate is a copy of containerd's content under a name of its own.
Reuse ==
  /\ pc = "reuse"
  /\ IF committed
       THEN pc' = "done" /\ final' = [i \in 1..Size |-> TRUE] /\ Follow("final", "gone")
       ELSE pc' = "ingest" /\ UNCHANGED <<final, snap, orphan>>
  /\ UNCHANGED <<partial, from, pos, containerd, snaps, faults, history>>

\* Mutant: the ingest is taken whatever its length.
CompareIngestAlways ==
  /\ pc = "ingest"
  /\ pc' = IF ingesting THEN "open" ELSE "trim"
  /\ stale' = FALSE
  /\ UNCHANGED <<partial, final, from, pos, containerd, snapshot, orphan, faults,
                 mixed, late, flipped>>

\* Only an ingest that is longer than the partial is worth a copy.
CompareIngest ==
  /\ pc = "ingest"
  /\ pc' = IF ingesting /\ ingest > Len(partial) THEN "open" ELSE "trim"
  /\ stale' = FALSE
  /\ UNCHANGED <<partial, final, from, pos, containerd, snapshot, orphan, faults,
                 mixed, late, flipped>>

\* The puller writes to the partial: has somebody else opened it too?
Share == mixed' = (mixed \/ "partial" \in {snap.at, orphan.at})

\* cp empties the partial before it copies, whatever became of the sizes; it
\* fails, and the script with it, when the ingest is gone.
OpenIngest ==
  /\ pc = "open"
  /\ stale' = FALSE
  /\ IF ingesting
       THEN pc' = "copy" /\ partial' = <<>> /\ pos' = 0 /\ Share
       ELSE pc' = "check" /\ UNCHANGED <<partial, pos, mixed>>
  /\ UNCHANGED <<final, from, containerd, snapshot, orphan, faults, late, flipped>>

CopyIngest ==
  /\ pc = "copy"
  /\ IF ingesting /\ pos < ingest
       THEN /\ partial' = WriteAt(partial, pos + 1, TRUE)
            /\ pos' = pos + 1
            /\ Share
            /\ UNCHANGED pc
       ELSE pc' = "trim" /\ pos' = 0 /\ UNCHANGED <<partial, mixed>>
  /\ UNCHANGED <<final, from, containerd, snapshot, orphan, faults, late, flipped, stale>>

Trim ==
  /\ pc = "trim"
  /\ pc' = IF Len(partial) > Size THEN "oversized" ELSE "loop"
  /\ stale' = FALSE
  /\ UNCHANGED <<partial, final, from, pos, containerd, snapshot, orphan, faults,
                 mixed, late, flipped>>

\* rm and touch make a new file of a partial that was too long or had the wrong
\* sum.
Discard ==
  /\ pc \in {"oversized", "mismatched"}
  /\ pc' = "loop"
  /\ partial' = <<>>
  /\ Follow("partial", "gone")
  /\ mixed' = FALSE /\ flipped' = FALSE /\ stale' = FALSE
  /\ UNCHANGED <<final, from, pos, containerd, snaps, faults, late>>

\* Mutant: the range does not follow the length of the partial.
LoopFromStart ==
  /\ pc = "loop"
  /\ IF Len(partial) = Size
       THEN pc' = "hash" /\ UNCHANGED <<from, pos>>
       ELSE pc' = "curl" /\ from' = Len(partial) /\ pos' = IF from' = 0 THEN 0 ELSE 1
  /\ UNCHANGED <<partial, final, containerd, snapshot, orphan, faults, history>>

\* curl --continue-at - looks at the length again when it opens the file.
Loop ==
  /\ pc = "loop"
  /\ IF Len(partial) = Size
       THEN pc' = "hash" /\ UNCHANGED <<from, pos>>
       ELSE pc' = "curl" /\ from' = Len(partial) /\ pos' = Len(partial)
  /\ UNCHANGED <<partial, final, containerd, snapshot, orphan, faults, history>>

HashLeaves ==
  UNCHANGED <<partial, final, from, pos, containerd, snapshot, orphan, faults, mixed, flipped>>

\* Mutant: the size alone counts.
HashUnchecked ==
  /\ pc = "hash"
  /\ pc' = "move" /\ late' = FALSE /\ stale' = FALSE
  /\ HashLeaves

\* Mutant: the file with the wrong sum stays.
HashKeeps ==
  /\ pc = "hash"
  /\ pc' = IF Right(partial) THEN "move" ELSE "loop"
  /\ late' = FALSE /\ stale' = FALSE
  /\ HashLeaves

Hash ==
  /\ pc = "hash"
  /\ pc' = IF Right(partial) THEN "move" ELSE "mismatched"
  /\ late' = FALSE /\ stale' = FALSE
  /\ HashLeaves

Move ==
  /\ pc = "move"
  /\ pc' = "done"
  /\ final' = partial /\ partial' = <<>>
  /\ LET moved(at) == CASE at = "final" -> "gone" [] at = "partial" -> "final" [] OTHER -> at
     IN  /\ snap' = [snap EXCEPT !.at = moved(@)]
         /\ orphan' = [orphan EXCEPT !.at = moved(@)]
  /\ mixed' = FALSE /\ flipped' = FALSE
  /\ UNCHANGED <<from, pos, containerd, snaps, faults, late, stale>>

(***************************************************************************)
(* curl.  It appends when it resumes and begins a new content otherwise.   *)
(* A range past the end is refused by the server.                          *)
(***************************************************************************)
CurlWrites(file, first, n, ok) ==
  IF n = 0 THEN <<ok>>
  ELSE IF first = 0 THEN WriteAt(file, n + 1, ok)
  ELSE Append(file, Len(file) = n /\ ok)

\* A wrong byte is a fault of the transfer.
Transfer(wrong) ==
  /\ wrong => faults < MaxFaults
  /\ faults' = IF wrong THEN faults + 1 ELSE faults

\* Mutant: the server sends more than the blob.
CurlByteUnbounded ==
  /\ pc = "curl"
  /\ pos' = pos + 1
  /\ partial' = CurlWrites(partial, from, pos, TRUE)
  /\ Share
  /\ UNCHANGED <<pc, final, from, containerd, snapshot, orphan, faults, late, flipped, stale>>

CurlByte ==
  /\ pc = "curl"
  /\ pos < Size
  /\ pos' = pos + 1
  /\ \E wrong \in BOOLEAN :
       /\ Transfer(wrong)
       /\ flipped' = (flipped \/ wrong)
       /\ partial' = CurlWrites(partial, from, pos, ~wrong)
  /\ Share
  /\ UNCHANGED <<pc, final, from, containerd, snapshot, orphan, late, stale>>

\* Nothing of the puller's is under way.
AtRest == from' = 0 /\ pos' = 0

\* All bytes are there, or the range was refused.
CurlEnd ==
  /\ pc = "curl"
  /\ pos >= Size
  /\ pc' = "loop" /\ AtRest
  /\ UNCHANGED <<partial, final, containerd, snapshot, orphan, faults, history>>

\* The connection or the token fails.
CurlFail ==
  /\ pc = "curl"
  /\ faults < MaxFaults /\ faults' = faults + 1
  /\ pc' = "loop" /\ AtRest
  /\ UNCHANGED <<partial, final, containerd, snapshot, orphan, history>>

Cut(file, n) == IF Len(file) > n THEN SubSeq(file, 1, n) ELSE file

\* --retry: curl cuts the file to the length it had and begins there again.
CurlRetry ==
  /\ pc = "curl"
  /\ pos > from
  /\ faults < MaxFaults /\ faults' = faults + 1
  /\ partial' = Cut(partial, from)
  /\ pos' = from
  /\ Share
  /\ UNCHANGED <<pc, final, from, containerd, snapshot, orphan, late, flipped, stale>>

\* containerd checks the digests of what it imports.  A failed import is run
\* again.
Import ==
  /\ pc = "done"
  /\ pc' = IF Right(final) THEN "imported" ELSE "check"
  /\ UNCHANGED <<partial, final, from, pos, containerd, snapshot, orphan, faults, history>>

\* The script is killed, or one of its commands fails, and run again.  Its curl
\* or cp dies with it or, when only the shell was killed, goes on (bound: one
\* at a time).  A curl that starts from nothing opens its file at the first byte.
Kill ==
  /\ pc \notin {"check", "imported"}
  /\ faults < MaxFaults /\ faults' = faults + 1
  /\ pc' = "check" /\ AtRest
  /\ \/ UNCHANGED orphan
     \/ /\ pc \in {"curl", "copy"} /\ orphan = Nobody
        /\ orphan' = [step |-> pc, from |-> from, pos |-> pos,
                      at |-> IF pc = "curl" /\ pos = 0 THEN "none" ELSE "partial"]
  /\ UNCHANGED <<partial, final, containerd, snapshot, history>>

(***************************************************************************)
(* Others that write: snapshot-containerd-ingest.sh and what is left of a  *)
(* killed puller.                                                          *)
(***************************************************************************)
\* Two write to the partial at a time, or one to what was hashed.
Meddle(at, other) ==
  /\ mixed' = (mixed \/ (at = "partial" /\ (pc \in {"copy", "curl"} \/ other.at = "partial")))
  /\ late' = (late \/ (at = "partial" /\ pc = "move") \/ at = "final")
  /\ stale' = (stale \/ (at = "partial" /\ pc \in Checked))

SnapStat ==
  /\ snap.step = "idle" /\ snaps < MaxSnaps
  /\ ingesting /\ ingest > Len(partial)
  /\ snap' = [step |-> "open", pos |-> 0, at |-> "none"]
  /\ snaps' = snaps + 1
  /\ UNCHANGED <<pc, partial, final, from, pos, containerd, orphan, faults, history>>

\* The sizes may be out of date by now.
SnapOpen ==
  /\ snap.step = "open"
  /\ IF ingesting
       THEN /\ snap' = [step |-> "copy", pos |-> 0, at |-> "partial"]
            /\ partial' = <<>>
            /\ Meddle("partial", orphan)
       ELSE /\ snap' = [snap EXCEPT !.step = "idle"]
            /\ UNCHANGED <<partial, mixed, late, stale>>
  /\ UNCHANGED <<pc, final, from, pos, containerd, snaps, orphan, faults, flipped>>

SnapCopy ==
  /\ snap.step = "copy"
  /\ ingesting /\ snap.pos < ingest
  /\ snap' = [snap EXCEPT !.pos = @ + 1]
  /\ partial' = IF snap.at = "partial" THEN WriteAt(partial, snap.pos + 1, TRUE) ELSE partial
  /\ final' = IF snap.at = "final" THEN WriteAt(final, snap.pos + 1, TRUE) ELSE final
  /\ Meddle(snap.at, orphan)
  /\ UNCHANGED <<pc, from, pos, containerd, snaps, orphan, faults, flipped>>

SnapEnd ==
  /\ snap.step = "copy"
  /\ ~(ingesting /\ snap.pos < ingest)
  /\ snap' = [step |-> "idle", pos |-> 0, at |-> "none"]
  /\ UNCHANGED <<pc, partial, final, from, pos, containerd, snaps, orphan, faults, history>>

\* The file an orphan writes to.
Target == IF orphan.at = "none" THEN "partial" ELSE orphan.at

OrphanByte ==
  /\ orphan.step = "curl"
  /\ orphan.pos < Size
  /\ orphan' = [orphan EXCEPT !.pos = @ + 1, !.at = Target]
  /\ \E wrong \in BOOLEAN :
       /\ Transfer(wrong)
       /\ flipped' = (flipped \/ (wrong /\ Target = "partial"))
       /\ partial' = IF Target = "partial"
                     THEN CurlWrites(partial, orphan.from, orphan.pos, ~wrong) ELSE partial
       /\ final' = IF Target = "final"
                   THEN CurlWrites(final, orphan.from, orphan.pos, ~wrong) ELSE final
  /\ Meddle(Target, snap)
  /\ UNCHANGED <<pc, from, pos, containerd, snapshot>>

OrphanRetry ==
  /\ orphan.step = "curl"
  /\ orphan.pos > orphan.from
  /\ faults < MaxFaults /\ faults' = faults + 1
  /\ orphan' = [orphan EXCEPT !.pos = orphan.from]
  /\ partial' = IF orphan.at = "partial" THEN Cut(partial, orphan.from) ELSE partial
  /\ final' = IF orphan.at = "final" THEN Cut(final, orphan.from) ELSE final
  /\ Meddle(orphan.at, snap)
  /\ UNCHANGED <<pc, from, pos, containerd, snapshot, flipped>>

OrphanCopy ==
  /\ orphan.step = "copy"
  /\ ingesting /\ orphan.pos < ingest
  /\ orphan' = [orphan EXCEPT !.pos = @ + 1]
  /\ partial' = IF orphan.at = "partial" THEN WriteAt(partial, orphan.pos + 1, TRUE) ELSE partial
  /\ final' = IF orphan.at = "final" THEN WriteAt(final, orphan.pos + 1, TRUE) ELSE final
  /\ Meddle(orphan.at, snap)
  /\ UNCHANGED <<pc, from, pos, containerd, snapshot, faults, flipped>>

\* It has nothing left to do, fails, or is killed after all.
OrphanEnd ==
  /\ orphan # Nobody
  /\ orphan' = Nobody
  /\ UNCHANGED <<pc, partial, final, from, pos, containerd, snapshot, faults, history>>

(***************************************************************************)
(* containerd.                                                             *)
(***************************************************************************)
IngestGrow ==
  /\ ingesting /\ ingest < Size
  /\ ingest' = ingest + 1
  /\ UNCHANGED <<pc, partial, final, from, pos, ingesting, committed, snapshot, orphan,
                 faults, history>>

IngestCommit ==
  /\ ingesting /\ ingest = Size
  /\ committed' = TRUE
  /\ ingesting' = FALSE
  /\ UNCHANGED <<pc, partial, final, from, pos, ingest, snapshot, orphan, faults, history>>

\* A pull that fails deletes its ingest.
IngestAbort ==
  /\ ingesting
  /\ faults < MaxFaults /\ faults' = faults + 1
  /\ ingesting' = FALSE
  /\ UNCHANGED <<pc, partial, final, from, pos, ingest, committed, snapshot, orphan, history>>

\* It starts again from nothing, and not while a cp reads the old one.
IngestStart ==
  /\ ~ingesting /\ ~committed
  /\ "copy" \notin {pc, snap.step, orphan.step}
  /\ ingesting' = TRUE /\ ingest' = 0
  /\ stale' = (stale \/ pc \in Checked)
  /\ UNCHANGED <<pc, partial, final, from, pos, committed, snapshot, orphan, faults,
                 mixed, late, flipped>>

-----------------------------------------------------------------------------
Download == CheckFinal \/ Reuse \/ CompareIngest \/ OpenIngest \/ CopyIngest \/ Trim
            \/ Discard \/ Loop \/ Hash \/ Move
Curl     == CurlByte \/ CurlEnd \/ CurlFail \/ CurlRetry
Puller   == Download \/ Curl \/ Import
Snapshot == SnapStat \/ SnapOpen \/ SnapCopy \/ SnapEnd
Orphan   == OrphanByte \/ OrphanRetry \/ OrphanCopy \/ OrphanEnd
Ingest   == IngestGrow \/ IngestCommit \/ IngestAbort \/ IngestStart

Next == Puller \/ Kill \/ Snapshot \/ Orphan \/ Ingest

\* The puller and the running commands of the snapshot are scheduled.
Spec == Init /\ [][Next]_vars /\ WF_vars(Puller) /\ WF_vars(SnapOpen \/ SnapCopy \/ SnapEnd)
-----------------------------------------------------------------------------
Files == UNION {[1..n -> BOOLEAN] : n \in 0..(3 * Size)}

Places == {"none", "partial", "final", "gone"}

Snapshots == [step : {"idle", "open", "copy"}, pos : 0..Size, at : Places]

Orphans == [step : {"idle", "curl", "copy"}, from : 0..(3 * Size), pos : 0..(3 * Size), at : Places]

\* Every variable stays in its type.
TypeOK ==
  /\ pc \in Steps
  /\ partial \in Files /\ final \in Files
  /\ from \in 0..(3 * Size) /\ pos \in 0..(3 * Size)
  /\ ingest \in 0..Size /\ ingesting \in BOOLEAN /\ committed \in BOOLEAN
  /\ snap \in Snapshots /\ orphan \in Orphans
  /\ snaps \in 0..MaxSnaps /\ faults \in 0..MaxFaults
  /\ mixed \in BOOLEAN /\ late \in BOOLEAN /\ flipped \in BOOLEAN /\ stale \in BOOLEAN

\* Kills in the middle of a copy, broken transfers, retries and takeovers from
\* containerd resume exactly: as long as no two of the puller, the snapshot and
\* a curl or cp left over from a killed puller write at a time, the partial never
\* outgrows the blob, and it is a prefix of it unless a transfer put in a wrong
\* byte.
ResumeExact ==
  ~mixed => Len(partial) <= Size /\ (~flipped => Clean(partial))

\* What download_blob returns is the blob, whatever was wrong on the way,
\* unless somebody got behind the checksum: the snapshot with a size it had read
\* before, or what was left over from a killed puller.
VerifiedFinal == pc \in {"done", "imported"} /\ ~late => Right(final)

\* A puller that has the partial for itself throws bytes away only for a longer
\* copy, for the blob, in a retry of curl, or because it found them too many or
\* wrong.  It finds out before it acts: the exception is an ingest or a partial
\* that was begun anew or written to by others in between.
ProgressKept ==
  [][Puller /\ ~mixed' /\ Len(partial') < Len(partial) =>
       \/ pc = "open" /\ (ingest > Len(partial) \/ stale)
       \/ pc = "oversized" /\ (Len(partial) > Size \/ stale)
       \/ pc = "mismatched" /\ (~Right(partial) \/ stale)
       \/ pc = "move" /\ final' = partial
       \/ pc = "curl" /\ Len(partial') = from]_vars

\* The image is imported in the end, or the partial has grown past its size
\* while the loop runs: the loop never looks for that again, and every range it
\* asks for is refused.  Only two that write at a time can bring it there
\* (ResumeExact).
Completes == <>(pc = "imported") \/ <>[](Len(partial) > Size)
=============================================================================
