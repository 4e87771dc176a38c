-------------------------- MODULE BlobDownloadProofs --------------------------
(***************************************************************************)
(* The safety of BlobDownload for every size of the blob, any number of    *)
(* faults and any number of snapshots.                                     *)
(*                                                                         *)
(* TypeOK rests on RoomInv: a curl, the puller's or one left over from a   *)
(* killed puller, adds no more to a file than its range still owes.        *)
(* ResumeExact rests on ContentInv: as long as nobody writes along, the    *)
(* writer of the partial stands at its end, so it leaves no gap and        *)
(* repeats nothing.  VerifiedFinal rests on MoveInv: what was hashed is    *)
(* the blob until another writes to it.  ProgressKept rests on CheckedInv: *)
(* what the puller found when it looked still holds when it acts, unless   *)
(* others were at the partial or the ingest in between.                    *)
(***************************************************************************)
EXTENDS BlobDownload, SequenceTheorems, TLAPS

\* What a range that has come to byte n still owes.
Owed(n) == IF n < Size THEN Size - n ELSE 0

PullerOwes == IF pc = "curl" THEN Owed(pos) ELSE 0

OrphanOwes(file) ==
  IF orphan.step = "curl" /\ Target = file THEN Owed(orphan.pos) ELSE 0

RoomInv ==
  /\ Len(partial) + PullerOwes + OrphanOwes("partial") <= 3 * Size
  /\ Len(final) + OrphanOwes("final") <= 3 * Size

\* A curl is not behind the place it began at, and has written nothing to a file
\* that it has not opened.
OrderInv ==
  /\ pc = "curl" => from <= pos
  /\ orphan.step = "curl" => orphan.from <= orphan.pos
  /\ orphan.step = "curl" /\ orphan.at = "none" => orphan.pos = 0
  /\ orphan.step = "copy" => orphan.at # "none"
  /\ orphan.step = "idle" => orphan = Nobody

TypeInv == TypeOK /\ RoomInv /\ OrderInv

\* Whoever writes alone stands at the end of the partial.
ContentInv ==
  ~mixed =>
    /\ pc = "copy" => Len(partial) = pos
    /\ pc = "curl" => Len(partial) = pos
    /\ snap.at = "partial" => pc # "copy" /\ Len(partial) = snap.pos
    /\ orphan.at = "partial" => pc # "copy" /\ Len(partial) = orphan.pos

\* What is moved to its final place is what was hashed.
MoveInv == pc = "move" /\ ~late => Right(partial)

\* What the puller found wrong with its partial is still wrong.
CheckedInv ==
  ~stale =>
    /\ pc = "open" => ingest > Len(partial)
    /\ pc = "oversized" => Len(partial) > Size
    /\ pc = "mismatched" => ~Right(partial)

IInv == TypeInv /\ ContentInv /\ ResumeExact /\ MoveInv /\ VerifiedFinal /\ CheckedInv

-----------------------------------------------------------------------------
\* A file in the type's bounds is a sequence of that length.
LEMMA FilesAreSequences ==
  \A file : file \in Files <=> file \in Seq(BOOLEAN) /\ Len(file) <= 3 * Size
<1> SUFFICES ASSUME NEW file
             PROVE  file \in Files <=> file \in Seq(BOOLEAN) /\ Len(file) <= 3 * Size
  OBVIOUS
<1>1. ASSUME file \in Files PROVE file \in Seq(BOOLEAN) /\ Len(file) <= 3 * Size
  <2>1. PICK n \in 0..(3 * Size) : file \in [1..n -> BOOLEAN]
    BY <1>1 DEF Files
  <2>2. file \in Seq(BOOLEAN) /\ DOMAIN file = 1..n
    BY <2>1, SeqDef, SizeAssumption
  <2>3. Len(file) = n
    BY <2>1, <2>2, SizeAssumption
  <2> QED
    BY <2>2, <2>3, SizeAssumption
<1>2. ASSUME file \in Seq(BOOLEAN), Len(file) <= 3 * Size PROVE file \in Files
  <2>1. Len(file) \in 0..(3 * Size) /\ file \in [1..Len(file) -> BOOLEAN]
    BY <1>2, LenProperties, SizeAssumption
  <2> QED
    BY <2>1 DEF Files
<1> QED
  BY <1>1, <1>2

\* Writing at or behind the end fills the gap; it never cuts the file.
LEMMA Written ==
  ASSUME NEW file \in Seq(BOOLEAN), NEW n \in Nat \ {0}, NEW ok \in BOOLEAN
  PROVE  /\ WriteAt(file, n, ok) \in Seq(BOOLEAN)
         /\ Len(WriteAt(file, n, ok)) = IF n > Len(file) THEN n ELSE Len(file)
<1> DEFINE m == IF n > Len(file) THEN n ELSE Len(file)
           e(i) == IF i = n THEN ok ELSE i <= Len(file) /\ file[i]
<1>1. Len(file) \in Nat
  BY LenProperties
<1>2. m \in Nat
  BY <1>1
<1>3. \A i \in 1..m : e(i) \in BOOLEAN
  OBVIOUS
<1>4. WriteAt(file, n, ok) = [i \in 1..m |-> e(i)]
  BY DEF WriteAt
<1> HIDE DEF m, e
<1>5. [i \in 1..m |-> e(i)] \in [1..m -> BOOLEAN]
  BY <1>3
<1>6. WriteAt(file, n, ok) \in Seq(BOOLEAN)
  BY <1>2, <1>4, <1>5, SeqDef
<1>7. DOMAIN WriteAt(file, n, ok) = 1..m /\ Len(WriteAt(file, n, ok)) = m
  BY <1>2, <1>4, <1>6, LenProperties
<1> QED
  BY <1>6, <1>7 DEF m

\* A right byte at the end of a clean file makes a longer clean file.
LEMMA CleanGrows ==
  ASSUME NEW file \in Seq(BOOLEAN), NEW n \in Nat \ {0}, n = Len(file) + 1, Clean(file)
  PROVE  Clean(WriteAt(file, n, TRUE))
<1>1. Len(file) \in Nat /\ DOMAIN file = 1..Len(file)
  BY LenProperties
<1>2. n > Len(file)
  BY <1>1
<1>3. WriteAt(file, n, TRUE) = [i \in 1..n |-> IF i = n THEN TRUE ELSE i <= Len(file) /\ file[i]]
  BY <1>2 DEF WriteAt
<1>4. \A i \in 1..n : WriteAt(file, n, TRUE)[i] = IF i = n THEN TRUE ELSE i <= Len(file) /\ file[i]
  BY <1>3
<1>5. ASSUME NEW i \in 1..n PROVE WriteAt(file, n, TRUE)[i]
  <2>1. CASE i = n
    BY <1>4, <2>1
  <2>2. CASE i # n
    <3>1. i \in DOMAIN file /\ i <= Len(file)
      BY <1>1, <2>2
    <3>2. file[i]
      BY <3>1 DEF Clean
    <3> QED
      BY <1>4, <2>2, <3>1, <3>2
  <2> QED
    BY <2>1, <2>2
<1> QED
  BY <1>3, <1>5 DEF Clean

\* So does appending one.
LEMMA CleanAppends ==
  ASSUME NEW file \in Seq(BOOLEAN), Clean(file)
  PROVE  Clean(Append(file, TRUE))
<1>1. /\ Len(file) \in Nat /\ DOMAIN file = 1..Len(file)
      /\ Append(file, TRUE) \in Seq(BOOLEAN) /\ Len(Append(file, TRUE)) = Len(file) + 1
  BY AppendProperties, LenProperties
<1>2. DOMAIN Append(file, TRUE) = 1..(Len(file) + 1)
  BY <1>1, LenProperties
<1>3. ASSUME NEW i \in 1..(Len(file) + 1) PROVE Append(file, TRUE)[i]
  <2>1. CASE i = Len(file) + 1
    BY <2>1, AppendProperties
  <2>2. CASE i # Len(file) + 1
    <3>1. i \in 1..Len(file)
      BY <1>1, <2>2
    <3>2. file[i]
      BY <1>1, <3>1 DEF Clean
    <3>3. Append(file, TRUE)[i] = file[i]
      BY <3>1, AppendProperties
    <3> QED
      BY <3>2, <3>3
  <2> QED
    BY <2>1, <2>2
<1> QED
  BY <1>2, <1>3 DEF Clean

-----------------------------------------------------------------------------
\* The files as sequences, and the lengths they can have.
LEMMA FileLengths ==
  ASSUME TypeOK
  PROVE  /\ partial \in Seq(BOOLEAN) /\ Len(partial) \in Nat /\ Len(partial) <= 3 * Size
         /\ final \in Seq(BOOLEAN) /\ Len(final) \in Nat /\ Len(final) <= 3 * Size
BY FilesAreSequences, LenProperties DEF TypeOK

\* The new files an action may make.
LEMMA NewFiles ==
  /\ <<>> \in Files /\ Len(<<>>) = 0
  /\ \A ok \in BOOLEAN : <<ok>> \in Files /\ Len(<<ok>>) = 1
  /\ [i \in 1..Size |-> TRUE] \in Files
<1>1. <<>> \in Files /\ Len(<<>>) = 0
  <2>1. <<>> \in Seq(BOOLEAN) /\ Len(<<>>) = 0
    OBVIOUS
  <2>2. 0 <= 3 * Size
    BY SizeAssumption
  <2> QED
    BY <2>1, <2>2, FilesAreSequences
<1>2. ASSUME NEW ok \in BOOLEAN PROVE <<ok>> \in Files /\ Len(<<ok>>) = 1
  <2>1. <<ok>> \in Seq(BOOLEAN) /\ Len(<<ok>>) = 1
    OBVIOUS
  <2>2. 1 <= 3 * Size
    BY SizeAssumption
  <2> QED
    BY <2>1, <2>2, FilesAreSequences
<1>3. [i \in 1..Size |-> TRUE] \in Files
  BY SizeAssumption DEF Files
<1> QED
  BY <1>1, <1>2, <1>3

\* What writing one byte does to a file of the type.
LEMMA WrittenFile ==
  ASSUME NEW file \in Files, NEW n \in 1..(3 * Size), NEW ok \in BOOLEAN
  PROVE  /\ WriteAt(file, n, ok) \in Files
         /\ Len(WriteAt(file, n, ok)) = IF n > Len(file) THEN n ELSE Len(file)
<1>1. file \in Seq(BOOLEAN) /\ Len(file) \in Nat /\ Len(file) <= 3 * Size
  BY FilesAreSequences, LenProperties
<1>2. n \in Nat \ {0} /\ n <= 3 * Size
  BY SizeAssumption
<1>3. WriteAt(file, n, ok) \in Seq(BOOLEAN)
  BY <1>1, <1>2, Written
<1>4. Len(WriteAt(file, n, ok)) = IF n > Len(file) THEN n ELSE Len(file)
  BY <1>1, <1>2, Written
<1>5. Len(WriteAt(file, n, ok)) <= 3 * Size
  BY <1>1, <1>2, <1>4
<1> QED
  BY <1>3, <1>4, <1>5, FilesAreSequences

LEMMA AppendedFile ==
  ASSUME NEW file \in Files, NEW ok \in BOOLEAN, Len(file) < 3 * Size
  PROVE  Append(file, ok) \in Files /\ Len(Append(file, ok)) = Len(file) + 1
<1>1. file \in Seq(BOOLEAN) /\ Len(file) \in Nat
  BY FilesAreSequences, LenProperties
<1>2. Append(file, ok) \in Seq(BOOLEAN) /\ Len(Append(file, ok)) = Len(file) + 1
  BY <1>1, AppendProperties
<1>3. Len(Append(file, ok)) <= 3 * Size
  BY <1>1, <1>2, SizeAssumption
<1> QED
  BY <1>2, <1>3, FilesAreSequences

\* What is left of a file when curl cuts it.
LEMMA CutFile ==
  ASSUME NEW file \in Files, NEW n \in Nat, n <= Len(file)
  PROVE  /\ SubSeq(file, 1, n) \in Files /\ Len(SubSeq(file, 1, n)) = n
         /\ Clean(file) => Clean(SubSeq(file, 1, n))
<1>1. file \in Seq(BOOLEAN) /\ Len(file) \in Nat /\ Len(file) <= 3 * Size /\ DOMAIN file = 1..Len(file)
  BY FilesAreSequences, LenProperties
<1>2. \A i \in 1..n : file[i] \in BOOLEAN
  BY <1>1, ElementOfSeq
<1>3. SubSeq(file, 1, n) \in Seq(BOOLEAN)
  BY <1>2, SubSeqProperties
<1>4. Len(SubSeq(file, 1, n)) = n
  BY <1>2, SubSeqProperties
<1>5. SubSeq(file, 1, n) \in Files
  <2>1. Len(SubSeq(file, 1, n)) <= 3 * Size
    BY <1>1, <1>4, SizeAssumption
  <2> QED
    BY <1>3, <2>1, FilesAreSequences
<1>6. \A i \in 1..n : SubSeq(file, 1, n)[i] = file[i]
  BY <1>2, SubSeqProperties
<1>7. DOMAIN SubSeq(file, 1, n) = 1..n
  BY <1>3, <1>4, LenProperties
<1>8. ASSUME Clean(file) PROVE Clean(SubSeq(file, 1, n))
  <2> SUFFICES ASSUME NEW i \in 1..n PROVE SubSeq(file, 1, n)[i]
    BY <1>7 DEF Clean
  <2>1. i \in DOMAIN file
    BY <1>1
  <2>2. file[i]
    BY <1>8, <2>1 DEF Clean
  <2> QED
    BY <1>6, <2>2
<1> QED
  BY <1>4, <1>5, <1>8

\* An empty file is clean, and a clean byte makes a clean file.
LEMMA CleanStart == Clean(<<>>) /\ Clean(<<TRUE>>)
<1>1. DOMAIN <<>> = {} /\ DOMAIN <<TRUE>> = {1}
  OBVIOUS
<1>2. <<TRUE>>[1] = TRUE
  OBVIOUS
<1> QED
  BY <1>1, <1>2 DEF Clean

\* What cp makes of a file: it never cuts it, and a copy that stands at the end
\* of a clean file leaves a clean one.
LEMMA CopiedByte ==
  ASSUME NEW file \in Files, NEW n \in Nat, n < Size
  PROVE  /\ WriteAt(file, n + 1, TRUE) \in Files
         /\ Len(WriteAt(file, n + 1, TRUE)) \in Nat
         /\ Len(WriteAt(file, n + 1, TRUE)) = IF n < Len(file) THEN Len(file) ELSE n + 1
         /\ n = Len(file) /\ Clean(file) => Clean(WriteAt(file, n + 1, TRUE))
<1>1. n + 1 \in 1..(3 * Size) /\ n + 1 \in Nat \ {0} /\ TRUE \in BOOLEAN
  BY SizeAssumption
<1>2. file \in Seq(BOOLEAN) /\ Len(file) \in Nat
  BY FilesAreSequences, LenProperties
<1>3. /\ WriteAt(file, n + 1, TRUE) \in Files
      /\ Len(WriteAt(file, n + 1, TRUE)) = IF n + 1 > Len(file) THEN n + 1 ELSE Len(file)
  BY <1>1, WrittenFile
<1>4. n = Len(file) /\ Clean(file) => Clean(WriteAt(file, n + 1, TRUE))
  BY <1>1, <1>2, CleanGrows
<1>5. Len(WriteAt(file, n + 1, TRUE)) \in Nat
  BY <1>3, FilesAreSequences, LenProperties
<1>6. (IF n + 1 > Len(file) THEN n + 1 ELSE Len(file)) = (IF n < Len(file) THEN Len(file) ELSE n + 1)
  BY <1>2
<1> QED
  BY <1>3, <1>4, <1>5, <1>6, Zenon

\* What curl makes of a file with one byte: it grows by no more than the range
\* owes, and a curl that stands at the end of a clean file, or begins a new one,
\* leaves a clean one.
LEMMA CurledByte ==
  ASSUME NEW file \in Files, NEW first \in Nat, NEW n \in Nat, n < Size, NEW ok \in BOOLEAN,
         Len(file) < 3 * Size, NEW new, new = CurlWrites(file, first, n, ok)
  PROVE  /\ new \in Files /\ Len(new) \in Nat
         /\ Len(new) + Owed(n + 1) <= Size \/ Len(new) + Owed(n + 1) <= Len(file) + Owed(n)
         /\ n # 0 => Len(new) >= Len(file)
         /\ n = 0 \/ n = Len(file) =>
              /\ Len(new) = n + 1
              /\ ok /\ (n # 0 => Clean(file)) => Clean(new)
<1>0. file \in Seq(BOOLEAN) /\ Len(file) \in Nat
  BY FilesAreSequences, LenProperties
<1>1. Owed(n) = Size - n /\ Owed(n + 1) = Size - n - 1
  BY SizeAssumption DEF Owed
<1>2. CASE n = 0
  <2>1. new = <<ok>>
    BY <1>2 DEF CurlWrites
  <2>2. new \in Files /\ Len(new) = 1
    BY <2>1, NewFiles
  <2>3. ok => Clean(new)
    BY <2>1, CleanStart
  <2>4. Len(new) = n + 1 /\ ~(n # 0)
    BY <1>2, <2>2
  <2>5. Len(new) \in Nat /\ Len(new) + Owed(n + 1) <= Size
    BY <1>1, <2>4, SizeAssumption
  <2> QED
    BY <2>2, <2>3, <2>4, <2>5
<1>3. CASE n # 0 /\ first = 0
  <2>1. new = WriteAt(file, n + 1, ok)
    BY <1>3 DEF CurlWrites
  <2>2. n + 1 \in 1..(3 * Size) /\ n + 1 \in Nat \ {0}
    BY SizeAssumption
  <2>3. new \in Files /\ Len(new) = IF n + 1 > Len(file) THEN n + 1 ELSE Len(file)
    BY <2>1, <2>2, WrittenFile
  <2>4. ok /\ n = Len(file) /\ Clean(file) => Clean(new)
    BY <1>0, <2>1, <2>2, CleanGrows
  <2> QED
    BY <1>0, <1>1, <1>3, <2>3, <2>4, SizeAssumption
<1>4. CASE n # 0 /\ first # 0
  <2> DEFINE last == Len(file) = n /\ ok
  <2>1. new = Append(file, last) /\ last \in BOOLEAN
    BY <1>4 DEF CurlWrites
  <2>2. ok /\ n = Len(file) => last = TRUE
    OBVIOUS
  <2> HIDE DEF last
  <2>3. new \in Files /\ Len(new) = Len(file) + 1
    BY <2>1, AppendedFile
  <2>4. ok /\ n = Len(file) /\ Clean(file) => Clean(new)
    BY <1>0, <2>1, <2>2, CleanAppends
  <2> QED
    BY <1>0, <1>1, <1>4, <2>3, <2>4, SizeAssumption
<1> QED
  BY <1>2, <1>3, <1>4

\* What curl's retry leaves of a file.
LEMMA CutLeaves ==
  ASSUME NEW file \in Files, NEW n \in Nat
  PROVE  /\ Cut(file, n) \in Files /\ Len(Cut(file, n)) \in Nat
         /\ Len(Cut(file, n)) = IF Len(file) > n THEN n ELSE Len(file)
         /\ Clean(file) => Clean(Cut(file, n))
<1>1. Len(file) \in Nat
  BY FilesAreSequences, LenProperties
<1>2. CASE Len(file) > n
  BY <1>1, <1>2, CutFile DEF Cut
<1>3. CASE ~(Len(file) > n)
  BY <1>1, <1>3 DEF Cut
<1> QED
  BY <1>2, <1>3

-----------------------------------------------------------------------------
\* What a byte of the puller's curl makes of the partial.
LEMMA PullersFile ==
  ASSUME partial \in Files, Len(partial) < 3 * Size, from \in Nat, pos \in Nat, pos < Size,
         NEW ok \in BOOLEAN, partial' = CurlWrites(partial, from, pos, ok)
  PROVE  /\ partial' \in Files /\ Len(partial') \in Nat
         /\ \/ Len(partial') + Owed(pos + 1) <= Size
            \/ Len(partial') + Owed(pos + 1) <= Len(partial) + Owed(pos)
         /\ pos # 0 => Len(partial') >= Len(partial)
         /\ pos = 0 \/ pos = Len(partial) =>
              /\ Len(partial') = pos + 1
              /\ ok /\ (pos # 0 => Clean(partial)) => Clean(partial')
BY CurledByte

\* What a byte of the puller's curl does.
LEMMA PullersByte ==
  ASSUME TypeInv, CurlByte
  PROVE  /\ pc = "curl" /\ pos \in Nat /\ pos < Size /\ pos' = pos + 1
         /\ partial' \in Files /\ Len(partial') \in Nat
         /\ \/ Len(partial') + Owed(pos + 1) <= Size
            \/ Len(partial') + Owed(pos + 1) <= Len(partial) + Owed(pos)
         /\ pos # 0 => Len(partial') >= Len(partial)
         /\ pos = 0 \/ pos = Len(partial) =>
              /\ Len(partial') = pos + 1
              /\ ~flipped' /\ (pos # 0 => Clean(partial)) => Clean(partial')
         /\ faults' \in 0..MaxFaults /\ flipped' \in BOOLEAN /\ (~flipped' => ~flipped)
         /\ mixed' = (mixed \/ "partial" \in {snap.at, orphan.at})
         /\ UNCHANGED <<pc, final, from, containerd, snapshot, orphan, late, stale>>
<1>1. /\ pc = "curl" /\ pos < Size /\ pos' = pos + 1
      /\ mixed' = (mixed \/ "partial" \in {snap.at, orphan.at})
      /\ UNCHANGED <<pc, final, from, containerd, snapshot, orphan, late, stale>>
  BY DEF CurlByte, Share
<1>2. PICK wrong \in BOOLEAN :
        /\ Transfer(wrong)
        /\ flipped' = (flipped \/ wrong)
        /\ partial' = CurlWrites(partial, from, pos, ~wrong)
  BY Zenon DEF CurlByte
<1>3. faults' \in 0..MaxFaults
  BY <1>2, BoundsAssumption DEF Transfer, TypeInv, TypeOK
<1>4. flipped' \in BOOLEAN /\ (~flipped' => ~flipped /\ ~wrong)
  BY <1>2
<1>5. pos \in Nat /\ from \in Nat /\ partial \in Files /\ Len(partial) < 3 * Size
  <2>1. pos \in Nat /\ from \in Nat /\ partial \in Files /\ Len(partial) \in Nat
    BY FileLengths, SizeAssumption DEF TypeInv, TypeOK
  <2>2. PullerOwes \in Nat /\ PullerOwes >= 1
    BY <1>1, <2>1, SizeAssumption DEF PullerOwes, Owed
  <2>3. OrphanOwes("partial") \in Nat
    BY SizeAssumption DEF OrphanOwes, Owed, TypeInv, TypeOK, Orphans
  <2> QED
    BY <2>1, <2>2, <2>3, SizeAssumption DEF TypeInv, RoomInv
<1> DEFINE ok == ~wrong
<1>6. ok \in BOOLEAN /\ partial' = CurlWrites(partial, from, pos, ok) /\ (~flipped' => ok)
  BY <1>2, <1>4
<1> HIDE DEF ok
<1>7. /\ partial' \in Files /\ Len(partial') \in Nat
      /\ \/ Len(partial') + Owed(pos + 1) <= Size
         \/ Len(partial') + Owed(pos + 1) <= Len(partial) + Owed(pos)
      /\ pos # 0 => Len(partial') >= Len(partial)
      /\ pos = 0 \/ pos = Len(partial) =>
           /\ Len(partial') = pos + 1
           /\ ok /\ (pos # 0 => Clean(partial)) => Clean(partial')
  <2>1. pos < Size
    BY <1>1
  <2>2. ok \in BOOLEAN /\ partial' = CurlWrites(partial, from, pos, ok)
    BY <1>6
  <2> QED
    BY <1>5, <2>1, <2>2, PullersFile, Zenon
<1>8. pos = 0 \/ pos = Len(partial) =>
         /\ Len(partial') = pos + 1
         /\ ~flipped' /\ (pos # 0 => Clean(partial)) => Clean(partial')
  BY <1>6, <1>7, Zenon
<1> QED
  BY <1>1, <1>3, <1>4, <1>5, <1>7, <1>8, Zenon

\* What a byte of a curl that was left over does.
LEMMA OrphansByte ==
  ASSUME TypeInv, OrphanByte
  PROVE  /\ orphan.step = "curl" /\ orphan.pos \in Nat /\ orphan.pos < Size
         /\ orphan' = [orphan EXCEPT !.pos = @ + 1, !.at = Target]
         /\ partial' \in Files /\ Len(partial') \in Nat
         /\ final' \in Files /\ Len(final') \in Nat
         /\ Target # "partial" => partial' = partial
         /\ Target # "final" => final' = final
         /\ Target = "partial" =>
              /\ \/ Len(partial') + Owed(orphan.pos + 1) <= Size
                 \/ Len(partial') + Owed(orphan.pos + 1) <= Len(partial) + Owed(orphan.pos)
              /\ orphan.pos = 0 \/ orphan.pos = Len(partial) =>
                   /\ Len(partial') = orphan.pos + 1
                   /\ ~flipped' /\ (orphan.pos # 0 => Clean(partial)) => Clean(partial')
         /\ Target = "final" =>
              \/ Len(final') + Owed(orphan.pos + 1) <= Size
              \/ Len(final') + Owed(orphan.pos + 1) <= Len(final) + Owed(orphan.pos)
         /\ faults' \in 0..MaxFaults /\ flipped' \in BOOLEAN /\ (~flipped' => ~flipped)
         /\ Meddle(Target, snap)
         /\ UNCHANGED <<pc, from, pos, containerd, snapshot>>
<1>1. /\ orphan.step = "curl" /\ orphan.pos < Size
      /\ orphan' = [orphan EXCEPT !.pos = @ + 1, !.at = Target]
      /\ Meddle(Target, snap)
      /\ UNCHANGED <<pc, from, pos, containerd, snapshot>>
  BY DEF OrphanByte
<1>2. PICK wrong \in BOOLEAN :
        /\ Transfer(wrong)
        /\ flipped' = (flipped \/ (wrong /\ Target = "partial"))
        /\ partial' = IF Target = "partial"
                      THEN CurlWrites(partial, orphan.from, orphan.pos, ~wrong) ELSE partial
        /\ final' = IF Target = "final"
                    THEN CurlWrites(final, orphan.from, orphan.pos, ~wrong) ELSE final
  BY Zenon DEF OrphanByte
<1>3. faults' \in 0..MaxFaults
  BY <1>2, BoundsAssumption DEF Transfer, TypeInv, TypeOK
<1>4. flipped' \in BOOLEAN /\ (~flipped' => ~flipped /\ (Target = "partial" => ~wrong))
  BY <1>2
<1>5. /\ orphan.pos \in Nat /\ orphan.from \in Nat /\ partial \in Files /\ final \in Files
      /\ Len(partial) \in Nat /\ Len(final) \in Nat
  BY FileLengths, SizeAssumption DEF TypeInv, TypeOK, Orphans
<1>6. Owed(orphan.pos) \in Nat /\ Owed(orphan.pos) >= 1
  BY <1>1, <1>5, SizeAssumption DEF Owed
<1>7. PullerOwes \in Nat
  BY SizeAssumption DEF PullerOwes, Owed, TypeInv, TypeOK
<1>8. Target = "partial" => Len(partial) < 3 * Size
  <2> SUFFICES ASSUME Target = "partial" PROVE Len(partial) < 3 * Size
    OBVIOUS
  <2>1. Len(partial) + PullerOwes + Owed(orphan.pos) <= 3 * Size
    BY <1>1 DEF OrphanOwes, TypeInv, RoomInv
  <2> QED
    BY <1>5, <1>6, <1>7, <2>1, SizeAssumption
<1>9. Target = "final" => Len(final) < 3 * Size
  <2> SUFFICES ASSUME Target = "final" PROVE Len(final) < 3 * Size
    OBVIOUS
  <2>1. Len(final) + Owed(orphan.pos) <= 3 * Size
    BY <1>1 DEF OrphanOwes, TypeInv, RoomInv
  <2> QED
    BY <1>5, <1>6, <2>1, SizeAssumption
<1> DEFINE ok == ~wrong
<1>10. /\ ok \in BOOLEAN /\ (~flipped' /\ Target = "partial" => ok)
       /\ partial' = IF Target = "partial"
                     THEN CurlWrites(partial, orphan.from, orphan.pos, ok) ELSE partial
       /\ final' = IF Target = "final"
                   THEN CurlWrites(final, orphan.from, orphan.pos, ok) ELSE final
  BY <1>2, <1>4
<1> HIDE DEF ok
<1>11. ASSUME Target = "partial"
       PROVE  /\ partial' \in Files /\ Len(partial') \in Nat
              /\ \/ Len(partial') + Owed(orphan.pos + 1) <= Size
                 \/ Len(partial') + Owed(orphan.pos + 1) <= Len(partial) + Owed(orphan.pos)
              /\ orphan.pos = 0 \/ orphan.pos = Len(partial) =>
                   /\ Len(partial') = orphan.pos + 1
                   /\ ok /\ (orphan.pos # 0 => Clean(partial)) => Clean(partial')
  <2>1. partial' = CurlWrites(partial, orphan.from, orphan.pos, ok)
    BY <1>10, <1>11
  <2> QED
    BY <1>1, <1>5, <1>8, <1>10, <1>11, <2>1, CurledByte
<1>12. ASSUME Target = "final"
       PROVE  /\ final' \in Files /\ Len(final') \in Nat
              /\ \/ Len(final') + Owed(orphan.pos + 1) <= Size
                 \/ Len(final') + Owed(orphan.pos + 1) <= Len(final) + Owed(orphan.pos)
  <2>1. final' = CurlWrites(final, orphan.from, orphan.pos, ok)
    BY <1>10, <1>12
  <2> QED
    BY <1>1, <1>5, <1>9, <1>10, <1>12, <2>1, CurledByte
<1>13. Target # "partial" => partial' = partial
  BY <1>10
<1>14. Target # "final" => final' = final
  BY <1>10
<1>15. partial' \in Files /\ Len(partial') \in Nat
  BY <1>5, <1>11, <1>13
<1>16. final' \in Files /\ Len(final') \in Nat
  BY <1>5, <1>12, <1>14
<1>17. Target = "partial" =>
         /\ \/ Len(partial') + Owed(orphan.pos + 1) <= Size
            \/ Len(partial') + Owed(orphan.pos + 1) <= Len(partial) + Owed(orphan.pos)
         /\ orphan.pos = 0 \/ orphan.pos = Len(partial) =>
              /\ Len(partial') = orphan.pos + 1
              /\ ~flipped' /\ (orphan.pos # 0 => Clean(partial)) => Clean(partial')
  BY <1>10, <1>11
<1> QED
  BY <1>1, <1>3, <1>4, <1>5, <1>12, <1>13, <1>14, <1>15, <1>16, <1>17

\* What the byte of a copy does to the file it has open.
LEMMA CopiesByte ==
  ASSUME TypeInv, NEW file, file \in {partial, final}, NEW n \in Nat, ingesting, n < ingest
  PROVE  /\ n < Size /\ n + 1 \in 0..Size /\ Len(file) \in Nat
         /\ WriteAt(file, n + 1, TRUE) \in Files /\ Len(WriteAt(file, n + 1, TRUE)) \in Nat
         /\ Len(WriteAt(file, n + 1, TRUE)) = IF n < Len(file) THEN Len(file) ELSE n + 1
         /\ n = Len(file) /\ Clean(file) => Clean(WriteAt(file, n + 1, TRUE))
<1>1. n < Size /\ n + 1 \in 0..Size /\ file \in Files /\ Len(file) \in Nat
  BY FileLengths, SizeAssumption DEF TypeInv, TypeOK
<1> QED
  BY <1>1, CopiedByte

-----------------------------------------------------------------------------
\* What follows a rename or a removal stays in its type.
LEMMA Followed ==
  ASSUME TypeOK, NEW old \in Places, NEW new \in Places, Follow(old, new)
  PROVE  snap' \in Snapshots /\ orphan' \in Orphans
BY DEF TypeOK, Follow, Snapshots, Orphans

LEMMA TypeStep == TypeInv /\ [Next]_vars => TypeOK'
<1> SUFFICES ASSUME TypeInv, [Next]_vars PROVE TypeOK'
  OBVIOUS
<1> USE SizeAssumption, BoundsAssumption DEF TypeOK, Steps, containerd, snapshot, history
<1>0. /\ TypeOK /\ Len(partial) \in Nat /\ Len(partial) <= 3 * Size
      /\ Len(final) \in Nat /\ Len(final) <= 3 * Size
  BY FileLengths DEF TypeInv
<1>1. CASE CheckFinal
  BY <1>0, <1>1 DEF CheckFinal
<1>2. CASE Reuse
  <2>1. snap' \in Snapshots /\ orphan' \in Orphans
    BY <1>0, <1>2, Followed DEF Reuse, Places
  <2> QED
    BY <1>0, <1>2, <2>1, NewFiles DEF Reuse
<1>3. CASE CompareIngest
  BY <1>0, <1>3 DEF CompareIngest
<1>4. CASE OpenIngest
  <2>1. /\ pc' \in {"copy", "check"} /\ partial' \in Files /\ pos' \in 0..(3 * Size)
        /\ mixed' \in BOOLEAN /\ stale' = FALSE
    BY <1>0, <1>4, NewFiles DEF OpenIngest, Share
  <2> QED
    BY <1>0, <1>4, <2>1 DEF OpenIngest
<1>5. CASE CopyIngest
  <2>1. CASE ingesting /\ pos < ingest
    <3>1. pos \in Nat /\ pos + 1 \in 0..Size /\ WriteAt(partial, pos + 1, TRUE) \in Files
      <4>1. pos \in Nat
        BY <1>0
      <4> QED
        BY <2>1, <4>1, CopiesByte
    <3>2. /\ partial' \in Files /\ pos' = pos + 1 /\ mixed' \in BOOLEAN
          /\ UNCHANGED <<pc, final, from, containerd, snapshot, orphan, faults, late, flipped, stale>>
      BY <1>5, <2>1, <3>1 DEF CopyIngest, Share
    <3> QED
      BY <1>0, <3>1, <3>2
  <2>2. CASE ~(ingesting /\ pos < ingest)
    <3>1. /\ pc' = "trim" /\ pos' = 0
          /\ UNCHANGED <<partial, final, from, containerd, snapshot, orphan, faults, history>>
      BY <1>5, <2>2 DEF CopyIngest
    <3> QED
      BY <1>0, <3>1
  <2> QED
    BY <2>1, <2>2
<1>6. CASE Trim
  BY <1>0, <1>6 DEF Trim
<1>7. CASE Discard
  <2>1. snap' \in Snapshots /\ orphan' \in Orphans
    BY <1>0, <1>7, Followed DEF Discard, Places
  <2> QED
    BY <1>0, <1>7, <2>1, NewFiles DEF Discard
<1>8. CASE Loop
  BY <1>0, <1>8 DEF Loop
<1>9. CASE Hash
  BY <1>0, <1>9 DEF Hash, HashLeaves
<1>10. CASE Move
  <2>1. snap' \in Snapshots /\ orphan' \in Orphans
    BY <1>0, <1>10 DEF Move, Snapshots, Orphans, Places
  <2> QED
    BY <1>0, <1>10, <2>1, NewFiles DEF Move
<1>11. CASE CurlByte
  BY <1>0, <1>11, PullersByte
<1>12. CASE CurlEnd
  BY <1>0, <1>12 DEF CurlEnd, AtRest
<1>13. CASE CurlFail
  BY <1>0, <1>13 DEF CurlFail, AtRest
<1>14. CASE CurlRetry
  <2>1. from \in Nat /\ partial \in Files
    BY <1>0
  <2>2. Cut(partial, from) \in Files
    BY <2>1, CutLeaves
  <2> QED
    BY <1>0, <1>14, <2>2 DEF CurlRetry, Share
<1>15. CASE Import
  BY <1>0, <1>15 DEF Import
<1>16. CASE Kill
  <2>1. orphan' \in Orphans
    BY <1>0, <1>16 DEF Kill, Orphans, Places
  <2> QED
    BY <1>0, <1>16, <2>1 DEF Kill, AtRest
<1>17. CASE SnapStat
  <2>1. snap' \in Snapshots
    BY <1>17 DEF SnapStat, Snapshots, Places
  <2> QED
    BY <1>0, <1>17, <2>1 DEF SnapStat
<1>18. CASE SnapOpen
  <2>1. snap' \in Snapshots
    BY <1>0, <1>18 DEF SnapOpen, Snapshots, Places
  <2> QED
    BY <1>0, <1>18, <2>1, NewFiles DEF SnapOpen, Meddle
<1>19. CASE SnapCopy
  <2>1. /\ ingesting /\ snap.pos < ingest /\ snap.pos \in Nat
        /\ snap' = [snap EXCEPT !.pos = @ + 1]
        /\ mixed' \in BOOLEAN /\ late' \in BOOLEAN /\ stale' \in BOOLEAN
        /\ UNCHANGED <<pc, from, pos, containerd, snaps, orphan, faults, flipped>>
    BY <1>0, <1>19 DEF SnapCopy, Meddle, Snapshots
  <2>2. snap.pos + 1 \in 0..Size /\ WriteAt(partial, snap.pos + 1, TRUE) \in Files
    BY <2>1, CopiesByte
  <2>3. WriteAt(final, snap.pos + 1, TRUE) \in Files
    BY <2>1, CopiesByte
  <2>4. partial' \in Files /\ final' \in Files
    BY <1>0, <1>19, <2>2, <2>3 DEF SnapCopy
  <2>5. snap' \in Snapshots
    BY <1>0, <2>1, <2>2 DEF Snapshots
  <2> QED
    BY <1>0, <2>1, <2>4, <2>5
<1>20. CASE SnapEnd
  <2>1. snap' \in Snapshots
    BY <1>20 DEF SnapEnd, Snapshots, Places
  <2> QED
    BY <1>0, <1>20, <2>1 DEF SnapEnd
<1>21. CASE OrphanByte
  <2>1. /\ orphan.pos \in Nat /\ orphan.pos < Size
        /\ orphan' = [orphan EXCEPT !.pos = @ + 1, !.at = Target]
        /\ partial' \in Files /\ final' \in Files
        /\ faults' \in 0..MaxFaults /\ flipped' \in BOOLEAN /\ Meddle(Target, snap)
        /\ UNCHANGED <<pc, from, pos, containerd, snapshot>>
    BY <1>21, OrphansByte
  <2>2. mixed' \in BOOLEAN /\ late' \in BOOLEAN /\ stale' \in BOOLEAN
    BY <1>0, <2>1 DEF Meddle
  <2>3. Target \in Places
    BY <1>0 DEF Target, Orphans, Places
  <2>4. orphan' \in Orphans
    <3>1. orphan' = [step |-> orphan.step, from |-> orphan.from,
                     pos |-> orphan.pos + 1, at |-> Target]
      BY <1>0, <2>1 DEF Orphans
    <3> QED
      BY <1>0, <2>1, <2>3, <3>1 DEF Orphans
  <2> QED
    BY <1>0, <2>1, <2>2, <2>4
<1>22. CASE OrphanRetry
  <2>1. orphan.from \in Nat
    BY <1>0 DEF Orphans
  <2>2. Cut(partial, orphan.from) \in Files /\ Cut(final, orphan.from) \in Files
    BY <1>0, <2>1, CutLeaves
  <2>3. partial' \in Files /\ final' \in Files
    BY <1>0, <1>22, <2>2 DEF OrphanRetry
  <2>4. mixed' \in BOOLEAN /\ late' \in BOOLEAN /\ stale' \in BOOLEAN
    BY <1>0, <1>22 DEF OrphanRetry, Meddle
  <2>5. /\ orphan' = [orphan EXCEPT !.pos = orphan.from] /\ faults' \in 0..MaxFaults
        /\ UNCHANGED <<pc, from, pos, containerd, snapshot, flipped>>
    BY <1>0, <1>22 DEF OrphanRetry
  <2>6. orphan' \in Orphans
    BY <1>0, <2>5 DEF Orphans
  <2> QED
    BY <1>0, <2>3, <2>4, <2>5, <2>6
<1>23. CASE OrphanCopy
  <2>1. /\ ingesting /\ orphan.pos < ingest /\ orphan.pos \in Nat
        /\ orphan' = [orphan EXCEPT !.pos = @ + 1]
        /\ mixed' \in BOOLEAN /\ late' \in BOOLEAN /\ stale' \in BOOLEAN
        /\ UNCHANGED <<pc, from, pos, containerd, snapshot, faults, flipped>>
    BY <1>0, <1>23 DEF OrphanCopy, Meddle, Orphans
  <2>2. orphan.pos + 1 \in 0..Size /\ WriteAt(partial, orphan.pos + 1, TRUE) \in Files
    BY <2>1, CopiesByte
  <2>3. WriteAt(final, orphan.pos + 1, TRUE) \in Files
    BY <2>1, CopiesByte
  <2>4. partial' \in Files /\ final' \in Files
    BY <1>0, <1>23, <2>2, <2>3 DEF OrphanCopy
  <2>5. orphan' \in Orphans
    BY <1>0, <2>1, <2>2 DEF Orphans
  <2> QED
    BY <1>0, <2>1, <2>4, <2>5
<1>24. CASE OrphanEnd
  <2>1. orphan' \in Orphans
    BY <1>24 DEF OrphanEnd, Nobody, Orphans, Places
  <2> QED
    BY <1>0, <1>24, <2>1 DEF OrphanEnd
<1>25. CASE IngestGrow
  BY <1>0, <1>25 DEF IngestGrow
<1>26. CASE IngestCommit
  BY <1>0, <1>26 DEF IngestCommit
<1>27. CASE IngestAbort
  <2>1. faults' \in 0..MaxFaults /\ ingesting' = FALSE
    BY <1>0, <1>27 DEF IngestAbort
  <2> QED
    BY <1>0, <1>27, <2>1 DEF IngestAbort
<1>28. CASE IngestStart
  BY <1>0, <1>28 DEF IngestStart
<1>29. CASE UNCHANGED vars
  BY <1>0, <1>29 DEF vars
<1> QED
  BY <1>1, <1>2, <1>3, <1>4, <1>5, <1>6, <1>7, <1>8, <1>9, <1>10, <1>11, <1>12, <1>13, <1>14, <1>15,
     <1>16, <1>17, <1>18, <1>19, <1>20, <1>21, <1>22, <1>23, <1>24, <1>25, <1>26, <1>27, <1>28, <1>29
     DEF Next, Puller, Download, Curl, Snapshot, Orphan, Ingest

-----------------------------------------------------------------------------
\* A copy of containerd's content.
LEMMA WholeBlob ==
  /\ [i \in 1..Size |-> TRUE] \in Files
  /\ Len([i \in 1..Size |-> TRUE]) = Size
  /\ Right([i \in 1..Size |-> TRUE])
<1>1. [i \in 1..Size |-> TRUE] \in Files /\ [i \in 1..Size |-> TRUE] \in Seq(BOOLEAN)
  BY NewFiles, FilesAreSequences
<1>2. DOMAIN [i \in 1..Size |-> TRUE] = 1..Size
  OBVIOUS
<1>3. Len([i \in 1..Size |-> TRUE]) = Size
  BY <1>1, <1>2, LenProperties, SizeAssumption
<1> QED
  BY <1>1, <1>2, <1>3 DEF Right, Clean

LEMMA OrderStep == TypeInv /\ [Next]_vars => OrderInv'
<1> SUFFICES ASSUME TypeInv, [Next]_vars PROVE OrderInv'
  OBVIOUS
<1>0. /\ OrderInv /\ orphan \in Orphans /\ from \in Nat /\ pos \in Nat
      /\ orphan.from \in Nat /\ orphan.pos \in Nat
  BY SizeAssumption DEF TypeInv, TypeOK, Orphans
<1> USE DEF OrderInv
<1>1. CASE CheckFinal \/ CompareIngest \/ Trim \/ Hash \/ Import
  BY <1>0, <1>1 DEF CheckFinal, CompareIngest, Trim, Hash, HashLeaves, Import
<1>2. ASSUME NEW old \in {"partial", "final"}, NEW new \in {"final", "gone"},
             orphan' = [orphan EXCEPT !.at = IF @ = old THEN new ELSE @], pc' # "curl"
      PROVE  OrderInv'
  <2>1. /\ orphan'.step = orphan.step /\ orphan'.from = orphan.from /\ orphan'.pos = orphan.pos
        /\ orphan'.at = IF orphan.at = old THEN new ELSE orphan.at
    BY <1>0, <1>2 DEF Orphans
  <2>2. orphan.step = "idle" => orphan' = orphan
    BY <1>0, <1>2, <2>1 DEF Nobody, Orphans
  <2> QED
    BY <1>0, <1>2, <2>1, <2>2
<1>3. CASE Reuse
  <2>1. CASE committed
    BY <1>2, <1>3, <2>1 DEF Reuse, Follow
  <2>2. CASE ~committed
    BY <1>0, <1>3, <2>2 DEF Reuse
  <2> QED
    BY <2>1, <2>2
<1>4. CASE OpenIngest \/ CopyIngest
  <2>1. pc' # "curl" /\ orphan' = orphan
    BY <1>4 DEF OpenIngest, CopyIngest
  <2> QED
    BY <1>0, <2>1
<1>5. CASE Discard
  BY <1>2, <1>5 DEF Discard, Follow
<1>6. CASE Loop
  <2>1. orphan' = orphan /\ (pc' = "curl" => from' = Len(partial) /\ pos' = Len(partial))
    BY <1>6 DEF Loop
  <2>2. Len(partial) \in Nat
    BY FileLengths DEF TypeInv
  <2> QED
    BY <1>0, <2>1, <2>2
<1>7. CASE Move
  <2>1. /\ orphan'.step = orphan.step /\ orphan'.from = orphan.from /\ orphan'.pos = orphan.pos
        /\ (orphan'.at = "none" <=> orphan.at = "none") /\ pc' = "done"
    BY <1>0, <1>7 DEF Move, Orphans
  <2>2. orphan.step = "idle" => orphan' = orphan
    BY <1>0, <1>7, <2>1 DEF Move, Nobody, Orphans
  <2> QED
    BY <1>0, <2>1, <2>2
<1>8. CASE CurlByte
  <2>1. pc = "curl" /\ pos' = pos + 1 /\ from' = from /\ orphan' = orphan
    BY <1>8 DEF CurlByte
  <2> QED
    BY <1>0, <2>1
<1>9. CASE CurlEnd \/ CurlFail
  BY <1>0, <1>9 DEF CurlEnd, CurlFail
<1>10. CASE CurlRetry
  BY <1>0, <1>10 DEF CurlRetry
<1>11. CASE Kill
  <2>1. CASE orphan' = orphan
    BY <1>0, <1>11, <2>1 DEF Kill
  <2>2. CASE orphan' # orphan
    <3>1. /\ pc \in {"curl", "copy"}
          /\ orphan' = [step |-> pc, from |-> from, pos |-> pos,
                        at |-> IF pc = "curl" /\ pos = 0 THEN "none" ELSE "partial"]
          /\ pc' = "check"
      BY <1>11, <2>2 DEF Kill
    <3> QED
      BY <1>0, <3>1
  <2> QED
    BY <2>1, <2>2
<1>12. CASE SnapStat \/ SnapOpen \/ SnapCopy \/ SnapEnd
  BY <1>0, <1>12 DEF SnapStat, SnapOpen, SnapCopy, SnapEnd
<1>13. CASE OrphanByte
  <2>1. orphan.step = "curl" /\ pc' = pc /\ from' = from /\ pos' = pos
        /\ orphan' = [orphan EXCEPT !.pos = @ + 1, !.at = Target]
    BY <1>13, OrphansByte DEF containerd, snapshot
  <2>2. orphan' = [step |-> orphan.step, from |-> orphan.from, pos |-> orphan.pos + 1, at |-> Target]
    BY <1>0, <2>1 DEF Orphans
  <2>3. Target # "none"
    BY DEF Target
  <2> QED
    BY <1>0, <2>1, <2>2, <2>3
<1>14. CASE OrphanRetry
  <2>1. /\ orphan.step = "curl" /\ orphan.pos > orphan.from /\ pc' = pc /\ from' = from /\ pos' = pos
        /\ orphan' = [orphan EXCEPT !.pos = orphan.from]
    BY <1>14 DEF OrphanRetry
  <2>2. orphan' = [step |-> "curl", from |-> orphan.from, pos |-> orphan.from, at |-> orphan.at]
    BY <1>0, <2>1 DEF Orphans
  <2>3. orphan.at # "none"
    BY <1>0, <2>1
  <2> QED
    BY <1>0, <2>1, <2>2, <2>3
<1>15. CASE OrphanCopy
  <2>1. /\ orphan.step = "copy" /\ pc' = pc /\ from' = from /\ pos' = pos
        /\ orphan' = [orphan EXCEPT !.pos = @ + 1]
    BY <1>15 DEF OrphanCopy
  <2>2. orphan'.step = "copy" /\ orphan'.at = orphan.at
    BY <1>0, <2>1 DEF Orphans
  <2> QED
    BY <1>0, <2>1, <2>2
<1>16. CASE OrphanEnd
  BY <1>0, <1>16 DEF OrphanEnd, Nobody
<1>17. CASE IngestGrow \/ IngestCommit \/ IngestAbort \/ IngestStart
  BY <1>0, <1>17 DEF IngestGrow, IngestCommit, IngestAbort, IngestStart
<1>18. CASE UNCHANGED vars
  BY <1>0, <1>18 DEF vars
<1> QED
  BY <1>1, <1>3, <1>4, <1>5, <1>6, <1>7, <1>8, <1>9, <1>10, <1>11, <1>12, <1>13, <1>14, <1>15,
     <1>16, <1>17, <1>18
     DEF Next, Puller, Download, Curl, Snapshot, Orphan, Ingest

\* What the two curls owe is at most a blob each.
LEMMA Owing ==
  ASSUME TypeOK
  PROVE  /\ PullerOwes \in 0..Size
         /\ OrphanOwes("partial") \in 0..Size /\ OrphanOwes("final") \in 0..Size
BY SizeAssumption DEF TypeOK, Orphans, PullerOwes, OrphanOwes, Owed

LEMMA RoomStep == TypeInv /\ [Next]_vars => RoomInv'
<1> SUFFICES ASSUME TypeInv, [Next]_vars PROVE RoomInv'
  OBVIOUS
<1>0. /\ RoomInv /\ OrderInv /\ TypeOK /\ TypeOK'
      /\ Len(partial) \in Nat /\ Len(final) \in Nat /\ Len(partial') \in Nat /\ Len(final') \in Nat
  <2>1. TypeOK'
    BY TypeStep
  <2>2. Len(partial') \in Nat /\ Len(final') \in Nat
    BY <2>1, FilesAreSequences, LenProperties DEF TypeOK
  <2> QED
    BY <2>1, <2>2, FileLengths DEF TypeInv
<1>a. /\ PullerOwes \in 0..Size /\ OrphanOwes("partial") \in 0..Size /\ OrphanOwes("final") \in 0..Size
      /\ PullerOwes' \in 0..Size /\ OrphanOwes("partial")' \in 0..Size /\ OrphanOwes("final")' \in 0..Size
  <2>1. PullerOwes \in 0..Size /\ OrphanOwes("partial") \in 0..Size /\ OrphanOwes("final") \in 0..Size
    BY <1>0, Owing
  <2>2. \A n \in Nat : Owed(n) \in 0..Size /\ 0 \in 0..Size
    BY SizeAssumption DEF Owed
  <2>3. pos' \in Nat /\ orphan' \in Orphans
    BY <1>0, SizeAssumption DEF TypeOK
  <2>4. orphan'.pos \in Nat
    BY <2>3, SizeAssumption DEF Orphans
  <2>5. PullerOwes' \in 0..Size
    BY <2>2, <2>3 DEF PullerOwes, Owed
  <2>6. OrphanOwes("partial")' \in 0..Size /\ OrphanOwes("final")' \in 0..Size
    BY <2>2, <2>4 DEF OrphanOwes, Owed
  <2> QED
    BY <2>1, <2>5, <2>6
\* A file of at most a blob has room for both.
<1>b. \A n, m, k \in 0..Size : n + m + k <= 3 * Size /\ n + m <= 3 * Size
  BY SizeAssumption
<1>c. Len(<<>>) = 0 /\ 0 \in 0..Size
  BY NewFiles, SizeAssumption
<1>d. ASSUME pc' # "curl", UNCHANGED <<orphan, final>>, partial' = partial \/ partial' = <<>>
      PROVE  RoomInv'
  <2>1. PullerOwes' = 0
    BY <1>d DEF PullerOwes
  <2>2. OrphanOwes("partial")' = OrphanOwes("partial") /\ OrphanOwes("final")' = OrphanOwes("final")
    BY <1>d DEF OrphanOwes, Target
  <2>3. Len(partial') <= Len(partial)
    BY <1>0, <1>c, <1>d
  <2>4. Len(partial') + PullerOwes' + OrphanOwes("partial")' <= 3 * Size
    BY <1>0, <1>a, <2>1, <2>2, <2>3, SizeAssumption DEF RoomInv
  <2>5. Len(final') + OrphanOwes("final")' <= 3 * Size
    BY <1>0, <1>d, <2>2 DEF RoomInv
  <2> QED
    BY <2>4, <2>5 DEF RoomInv
<1>1. CASE CheckFinal \/ CompareIngest \/ OpenIngest \/ Trim \/ Hash \/ CurlEnd \/ CurlFail \/ Import
  <2>1. pc' # "curl" /\ UNCHANGED <<orphan, final>> /\ (partial' = partial \/ partial' = <<>>)
    BY <1>1 DEF CheckFinal, CompareIngest, OpenIngest, Trim, Hash, HashLeaves, CurlEnd, CurlFail, Import
  <2> QED
    BY <1>d, <2>1
<1>2. CASE Reuse
  <2>1. CASE committed
    <3>1. /\ pc' = "done" /\ final' = [i \in 1..Size |-> TRUE] /\ partial' = partial
          /\ Follow("final", "gone")
      BY <1>2, <2>1 DEF Reuse
    <3>2. Len(final') = Size /\ PullerOwes' = 0
      BY <3>1, WholeBlob DEF PullerOwes
    <3>3. OrphanOwes("partial")' = OrphanOwes("partial")
      BY <1>0, <3>1 DEF Follow, TypeOK, Orphans, OrphanOwes, Target
    <3>4. Len(partial') + PullerOwes' + OrphanOwes("partial")' <= 3 * Size
      BY <1>0, <1>a, <3>1, <3>2, <3>3, SizeAssumption DEF RoomInv
    <3>5. Len(final') + OrphanOwes("final")' <= 3 * Size
      BY <1>a, <3>2, SizeAssumption
    <3> QED
      BY <3>4, <3>5 DEF RoomInv
  <2>2. CASE ~committed
    BY <1>2, <1>d, <2>2 DEF Reuse
  <2> QED
    BY <2>1, <2>2
\* What a copy makes of a file.
<1>e. ASSUME NEW file, file \in {partial, final}, NEW n \in Nat, ingesting, n < ingest,
             NEW new, new = file \/ new = WriteAt(file, n + 1, TRUE)
      PROVE  Len(new) <= Size \/ Len(new) <= Len(file)
  <2>1. CASE new = file
    <3>1. Len(file) \in Nat
      BY <1>0, <1>e
    <3> QED
      BY <2>1, <3>1
  <2>2. CASE new = WriteAt(file, n + 1, TRUE)
    <3>1. /\ n < Size /\ Len(file) \in Nat
          /\ Len(new) = IF n < Len(file) THEN Len(file) ELSE n + 1
      BY <1>e, <2>2, CopiesByte
    <3>2. CASE n < Len(file)
      BY <3>1, <3>2
    <3>3. CASE ~(n < Len(file))
      BY <3>1, <3>3, SizeAssumption
    <3> QED
      BY <3>2, <3>3
  <2> QED
    BY <1>e, <2>1, <2>2
<1>f. ASSUME UNCHANGED <<PullerOwes, OrphanOwes("partial"), OrphanOwes("final")>>,
             Len(partial') <= Size \/ Len(partial') <= Len(partial),
             Len(final') <= Size \/ Len(final') <= Len(final)
      PROVE  RoomInv'
  <2>1. Len(partial') + PullerOwes' + OrphanOwes("partial")' <= 3 * Size
    BY <1>0, <1>a, <1>f, SizeAssumption DEF RoomInv
  <2>2. Len(final') + OrphanOwes("final")' <= 3 * Size
    BY <1>0, <1>a, <1>f, SizeAssumption DEF RoomInv
  <2> QED
    BY <2>1, <2>2 DEF RoomInv
<1>3. CASE CopyIngest
  <2>1. UNCHANGED <<PullerOwes, OrphanOwes("partial"), OrphanOwes("final")>> /\ final' = final
    BY <1>3 DEF CopyIngest, PullerOwes, OrphanOwes, Target
  <2>2. Len(partial') <= Size \/ Len(partial') <= Len(partial)
    <3>1. CASE ingesting /\ pos < ingest
      <4>1. pos \in Nat /\ partial' = WriteAt(partial, pos + 1, TRUE)
        BY <1>0, <1>3, <3>1, SizeAssumption DEF CopyIngest, TypeOK
      <4> QED
        BY <1>e, <3>1, <4>1
    <3>2. CASE ~(ingesting /\ pos < ingest)
      <4>1. partial' = partial
        BY <1>3, <3>2 DEF CopyIngest
      <4> QED
        BY <1>0, <4>1
    <3> QED
      BY <3>1, <3>2
  <2> QED
    BY <1>0, <1>f, <2>1, <2>2
<1>4. CASE Discard
  <2>1. partial' = <<>> /\ final' = final /\ pc' = "loop" /\ Follow("partial", "gone")
    BY <1>4 DEF Discard
  <2>2. Len(partial') \in 0..Size
    BY <1>c, <2>1
  <2>3. OrphanOwes("final")' = OrphanOwes("final")
    BY <1>0, <2>1 DEF Follow, TypeOK, Orphans, OrphanOwes, Target
  <2> QED
    BY <1>0, <1>a, <1>b, <2>1, <2>2, <2>3 DEF RoomInv
<1>5. CASE Loop
  <2>1. UNCHANGED <<partial, final, orphan>>
    BY <1>5 DEF Loop
  <2>2. OrphanOwes("partial")' = OrphanOwes("partial") /\ OrphanOwes("final")' = OrphanOwes("final")
    BY <2>1 DEF OrphanOwes, Target
  <2>3. Len(partial) + PullerOwes' <= Size \/ PullerOwes' = 0
    BY <1>0, <1>5, SizeAssumption DEF Loop, PullerOwes, Owed
  <2>4. Len(partial') + PullerOwes' + OrphanOwes("partial")' <= 3 * Size
    BY <1>0, <1>a, <2>1, <2>2, <2>3, SizeAssumption DEF RoomInv
  <2> QED
    BY <1>0, <2>1, <2>2, <2>4 DEF RoomInv
<1>6. CASE Move
  <2>1. /\ partial' = <<>> /\ final' = partial /\ pc' = "done"
        /\ orphan' = [orphan EXCEPT !.at = CASE @ = "final" -> "gone" [] @ = "partial" -> "final" [] OTHER -> @]
    BY <1>6 DEF Move
  <2>2. Len(partial') \in 0..Size
    BY <1>c, <2>1
  <2>3. OrphanOwes("final")' <= OrphanOwes("partial")
    <3>1. /\ orphan'.step = orphan.step /\ orphan'.pos = orphan.pos
          /\ orphan'.at = "final" <=> orphan.at = "partial"
      BY <1>0, <2>1 DEF TypeOK, Orphans
    <3>2. OrphanOwes("final")' = OrphanOwes("partial") \/ OrphanOwes("final")' = 0
      BY <3>1 DEF OrphanOwes, Target, Owed
    <3> QED
      BY <1>a, <3>2, SizeAssumption
  <2>4. Len(final') + OrphanOwes("final")' <= 3 * Size
    BY <1>0, <1>a, <2>1, <2>3, SizeAssumption DEF RoomInv
  <2> QED
    BY <1>a, <1>b, <2>2, <2>4 DEF RoomInv
<1>7. CASE CurlByte
  <2>1. /\ pc = "curl" /\ pos \in Nat /\ pos < Size /\ pos' = pos + 1 /\ UNCHANGED <<pc, final, orphan>>
        /\ \/ Len(partial') + Owed(pos + 1) <= Size
           \/ Len(partial') + Owed(pos + 1) <= Len(partial) + Owed(pos)
    BY <1>7, PullersByte
  <2>2. PullerOwes = Owed(pos) /\ PullerOwes' = Owed(pos + 1)
    BY <2>1 DEF PullerOwes, Owed
  <2>3. OrphanOwes("partial")' = OrphanOwes("partial") /\ OrphanOwes("final")' = OrphanOwes("final")
    BY <2>1 DEF OrphanOwes, Target
  <2>4. Len(partial') + PullerOwes' <= Size \/ Len(partial') + PullerOwes' <= Len(partial) + PullerOwes
    BY <2>1, <2>2
  <2>5. Len(partial') + PullerOwes' + OrphanOwes("partial")' <= 3 * Size
    BY <1>0, <1>a, <2>3, <2>4, SizeAssumption DEF RoomInv
  <2> QED
    BY <1>0, <2>1, <2>3, <2>5 DEF RoomInv
<1>8. CASE CurlRetry
  <2>1. /\ pc = "curl" /\ pos' = from /\ partial' = Cut(partial, from) /\ UNCHANGED <<pc, from, final, orphan>>
    BY <1>8 DEF CurlRetry
  <2>2. from \in Nat /\ partial \in Files
    BY <1>0, SizeAssumption DEF TypeOK
  <2>3. Len(partial') = IF Len(partial) > from THEN from ELSE Len(partial)
    BY <2>1, <2>2, CutLeaves
  <2>4. OrphanOwes("partial")' = OrphanOwes("partial") /\ OrphanOwes("final")' = OrphanOwes("final")
    BY <2>1 DEF OrphanOwes, Target
  <2>5. PullerOwes' = IF from < Size THEN Size - from ELSE 0
    BY <2>1 DEF PullerOwes, Owed
  <2>6. Len(partial') + PullerOwes' <= Size \/ Len(partial') + PullerOwes' <= Len(partial)
    <3>1. CASE from < Size
      <4>1. Len(partial') <= from /\ PullerOwes' = Size - from
        BY <1>0, <2>2, <2>3, <2>5, <3>1
      <4> QED
        BY <1>0, <2>2, <3>1, <4>1, SizeAssumption
    <3>2. CASE ~(from < Size)
      <4>1. Len(partial') <= Len(partial) /\ PullerOwes' = 0
        BY <1>0, <2>2, <2>3, <2>5, <3>2
      <4> QED
        BY <1>0, <4>1
    <3> QED
      BY <3>1, <3>2
  <2>7. Len(partial') + PullerOwes' + OrphanOwes("partial")' <= 3 * Size
    BY <1>0, <1>a, <2>4, <2>6, SizeAssumption DEF RoomInv
  <2> QED
    BY <1>0, <2>1, <2>4, <2>7 DEF RoomInv
<1>9. CASE Kill
  <2>1. CASE orphan' = orphan
    BY <1>9, <1>d, <2>1 DEF Kill
  <2>2. CASE orphan' # orphan
    <3>1. /\ orphan' = [step |-> pc, from |-> from, pos |-> pos,
                        at |-> IF pc = "curl" /\ pos = 0 THEN "none" ELSE "partial"]
          /\ pc \in {"curl", "copy"} /\ pc' = "check" /\ UNCHANGED <<partial, final>>
      BY <1>9, <2>2 DEF Kill
    <3>2. OrphanOwes("partial")' = PullerOwes /\ PullerOwes' = 0 /\ OrphanOwes("final")' = 0
      BY <3>1 DEF OrphanOwes, PullerOwes, Target
    <3>3. Len(partial') + PullerOwes' + OrphanOwes("partial")' <= 3 * Size
      BY <1>0, <1>a, <3>1, <3>2, SizeAssumption DEF RoomInv
    <3>4. Len(final') + OrphanOwes("final")' <= 3 * Size
      BY <1>0, <1>a, <3>1, <3>2, SizeAssumption DEF RoomInv
    <3> QED
      BY <3>3, <3>4 DEF RoomInv
  <2> QED
    BY <2>1, <2>2
<1>10. CASE SnapStat \/ SnapEnd \/ IngestGrow \/ IngestCommit \/ IngestAbort \/ IngestStart
  <2>1. UNCHANGED <<pc, partial, final, pos, orphan>>
    BY <1>10 DEF SnapStat, SnapEnd, IngestGrow, IngestCommit, IngestAbort, IngestStart
  <2> QED
    BY <1>0, <2>1 DEF RoomInv, PullerOwes, OrphanOwes, Target
<1>11. CASE SnapOpen
  <2>1. UNCHANGED <<pc, final, pos, orphan>> /\ (partial' = partial \/ partial' = <<>>)
    BY <1>11 DEF SnapOpen
  <2>2. UNCHANGED <<PullerOwes, OrphanOwes("partial"), OrphanOwes("final")>>
    BY <2>1 DEF PullerOwes, OrphanOwes, Target
  <2>3. Len(partial') <= Len(partial)
    BY <1>0, <1>c, <2>1
  <2> QED
    BY <1>0, <1>f, <2>1, <2>2, <2>3
<1>12. CASE SnapCopy
  <2>0. snap.pos \in Nat
    BY <1>0, SizeAssumption DEF TypeOK, Snapshots
  <2>1. /\ UNCHANGED <<pc, pos, orphan>> /\ ingesting /\ snap.pos < ingest
        /\ partial' = partial \/ partial' = WriteAt(partial, snap.pos + 1, TRUE)
        /\ final' = final \/ final' = WriteAt(final, snap.pos + 1, TRUE)
    BY <1>12 DEF SnapCopy
  <2>2. UNCHANGED <<PullerOwes, OrphanOwes("partial"), OrphanOwes("final")>>
    BY <2>1 DEF PullerOwes, OrphanOwes, Target
  <2>3. Len(partial') <= Size \/ Len(partial') <= Len(partial)
    BY <1>e, <2>0, <2>1
  <2>4. Len(final') <= Size \/ Len(final') <= Len(final)
    BY <1>e, <2>0, <2>1
  <2> QED
    BY <1>f, <2>2, <2>3, <2>4
<1>13. CASE OrphanByte
  <2>1. /\ orphan.step = "curl" /\ orphan.pos \in Nat /\ orphan.pos < Size
        /\ orphan' = [orphan EXCEPT !.pos = @ + 1, !.at = Target]
        /\ UNCHANGED <<pc, pos>>
    BY <1>13, OrphansByte
  <2>2. orphan' = [step |-> "curl", from |-> orphan.from, pos |-> orphan.pos + 1, at |-> Target]
    BY <1>0, <2>1 DEF TypeOK, Orphans
  <2>3. PullerOwes' = PullerOwes /\ Target' = Target /\ orphan'.step = "curl" /\ orphan'.pos = orphan.pos + 1
    BY <2>1, <2>2 DEF PullerOwes, Target
  <2>4. /\ OrphanOwes("partial")' = IF Target = "partial" THEN Owed(orphan.pos + 1) ELSE 0
        /\ OrphanOwes("final")' = IF Target = "final" THEN Owed(orphan.pos + 1) ELSE 0
        /\ OrphanOwes("partial") = IF Target = "partial" THEN Owed(orphan.pos) ELSE 0
        /\ OrphanOwes("final") = IF Target = "final" THEN Owed(orphan.pos) ELSE 0
    BY <2>1, <2>3 DEF OrphanOwes, Owed
  <2>5. Len(partial') + PullerOwes' + OrphanOwes("partial")' <= 3 * Size
    <3>1. CASE Target = "partial"
      <4>1. \/ Len(partial') + Owed(orphan.pos + 1) <= Size
            \/ Len(partial') + Owed(orphan.pos + 1) <= Len(partial) + Owed(orphan.pos)
        BY <1>13, <3>1, OrphansByte
      <4>2. \/ Len(partial') + OrphanOwes("partial")' <= Size
            \/ Len(partial') + OrphanOwes("partial")' <= Len(partial) + OrphanOwes("partial")
        BY <2>4, <3>1, <4>1
      <4> QED
        BY <1>0, <1>a, <2>3, <4>2, SizeAssumption DEF RoomInv
    <3>2. CASE Target # "partial"
      <4>1. partial' = partial /\ OrphanOwes("partial")' = OrphanOwes("partial")
        BY <1>13, <2>4, <3>2, OrphansByte
      <4> QED
        BY <1>0, <2>3, <4>1 DEF RoomInv
    <3> QED
      BY <3>1, <3>2
  <2>6. Len(final') + OrphanOwes("final")' <= 3 * Size
    <3>1. CASE Target = "final"
      <4>1. \/ Len(final') + Owed(orphan.pos + 1) <= Size
            \/ Len(final') + Owed(orphan.pos + 1) <= Len(final) + Owed(orphan.pos)
        BY <1>13, <3>1, OrphansByte
      <4>2. \/ Len(final') + OrphanOwes("final")' <= Size
            \/ Len(final') + OrphanOwes("final")' <= Len(final) + OrphanOwes("final")
        BY <2>4, <3>1, <4>1
      <4> QED
        BY <1>0, <1>a, <4>2, SizeAssumption DEF RoomInv
    <3>2. CASE Target # "final"
      <4>1. final' = final /\ OrphanOwes("final")' = OrphanOwes("final")
        BY <1>13, <2>4, <3>2, OrphansByte
      <4> QED
        BY <1>0, <4>1 DEF RoomInv
    <3> QED
      BY <3>1, <3>2
  <2> QED
    BY <2>5, <2>6 DEF RoomInv
<1>14. CASE OrphanRetry
  <2>1. /\ orphan.step = "curl" /\ UNCHANGED <<pc, pos>>
        /\ orphan' = [orphan EXCEPT !.pos = orphan.from]
        /\ partial' = IF orphan.at = "partial" THEN Cut(partial, orphan.from) ELSE partial
        /\ final' = IF orphan.at = "final" THEN Cut(final, orphan.from) ELSE final
        /\ orphan.pos > orphan.from
    BY <1>14 DEF OrphanRetry
  <2>2. orphan.from \in Nat /\ partial \in Files /\ final \in Files
    BY <1>0, SizeAssumption DEF TypeOK, Orphans
  <2>3. /\ Len(Cut(partial, orphan.from)) = IF Len(partial) > orphan.from THEN orphan.from ELSE Len(partial)
        /\ Len(Cut(final, orphan.from)) = IF Len(final) > orphan.from THEN orphan.from ELSE Len(final)
    BY <2>2, CutLeaves
  <2>4. orphan' = [step |-> "curl", from |-> orphan.from, pos |-> orphan.from, at |-> orphan.at]
    BY <1>0, <2>1 DEF TypeOK, Orphans
  <2>5. orphan.at # "none" /\ orphan.pos \in Nat
    BY <1>0, <2>1, <2>2 DEF OrderInv, TypeOK, Orphans
  <2>6. /\ PullerOwes' = PullerOwes
        /\ OrphanOwes("partial")' = IF orphan.at = "partial" THEN Owed(orphan.from) ELSE 0
        /\ OrphanOwes("final")' = IF orphan.at = "final" THEN Owed(orphan.from) ELSE 0
    BY <2>1, <2>4, <2>5 DEF PullerOwes, OrphanOwes, Target, Owed
  <2>7. Len(partial') + PullerOwes' + OrphanOwes("partial")' <= 3 * Size
    <3>1. CASE orphan.at = "partial"
      <4>1. Len(partial') + OrphanOwes("partial")' <= Size \/ Len(partial') + OrphanOwes("partial")' <= Len(partial)
        BY <1>0, <2>1, <2>2, <2>3, <2>6, <3>1, SizeAssumption DEF Owed
      <4> QED
        BY <1>0, <1>a, <2>6, <4>1, SizeAssumption DEF RoomInv
    <3>2. CASE orphan.at # "partial"
      BY <1>0, <1>a, <2>1, <2>6, <3>2, SizeAssumption DEF RoomInv
    <3> QED
      BY <3>1, <3>2
  <2>8. Len(final') + OrphanOwes("final")' <= 3 * Size
    <3>1. CASE orphan.at = "final"
      <4>1. Len(final') + OrphanOwes("final")' <= Size \/ Len(final') + OrphanOwes("final")' <= Len(final)
        BY <1>0, <2>1, <2>2, <2>3, <2>6, <3>1, SizeAssumption DEF Owed
      <4> QED
        BY <1>0, <1>a, <4>1, SizeAssumption DEF RoomInv
    <3>2. CASE orphan.at # "final"
      BY <1>0, <1>a, <2>1, <2>6, <3>2, SizeAssumption DEF RoomInv
    <3> QED
      BY <3>1, <3>2
  <2> QED
    BY <2>7, <2>8 DEF RoomInv
<1>15. CASE OrphanCopy
  <2>0. orphan.pos \in Nat
    BY <1>0, SizeAssumption DEF TypeOK, Orphans
  <2>1. /\ UNCHANGED <<pc, pos>> /\ ingesting /\ orphan.pos < ingest
        /\ orphan.step = "copy" /\ orphan' = [orphan EXCEPT !.pos = @ + 1]
        /\ partial' = partial \/ partial' = WriteAt(partial, orphan.pos + 1, TRUE)
        /\ final' = final \/ final' = WriteAt(final, orphan.pos + 1, TRUE)
    BY <1>15 DEF OrphanCopy
  <2>2. orphan'.step = "copy"
    BY <1>0, <2>1 DEF TypeOK, Orphans
  <2>3. UNCHANGED <<PullerOwes, OrphanOwes("partial"), OrphanOwes("final")>>
    BY <2>1, <2>2 DEF PullerOwes, OrphanOwes
  <2>4. Len(partial') <= Size \/ Len(partial') <= Len(partial)
    BY <1>e, <2>0, <2>1
  <2>5. Len(final') <= Size \/ Len(final') <= Len(final)
    BY <1>e, <2>0, <2>1
  <2> QED
    BY <1>f, <2>3, <2>4, <2>5
<1>16. CASE OrphanEnd
  <2>1. orphan' = Nobody /\ UNCHANGED <<pc, partial, final, pos>>
    BY <1>16 DEF OrphanEnd
  <2>2. OrphanOwes("partial")' = 0 /\ OrphanOwes("final")' = 0 /\ PullerOwes' = PullerOwes
    BY <2>1 DEF OrphanOwes, PullerOwes, Nobody
  <2> QED
    BY <1>0, <1>a, <2>1, <2>2, SizeAssumption DEF RoomInv
<1>17. CASE UNCHANGED vars
  BY <1>0, <1>17 DEF vars, RoomInv, PullerOwes, OrphanOwes, Target
<1> QED
  BY <1>1, <1>2, <1>3, <1>4, <1>5, <1>6, <1>7, <1>8, <1>9, <1>10, <1>11, <1>12, <1>13, <1>14, <1>15,
     <1>16, <1>17
     DEF Next, Puller, Download, Curl, Snapshot, Orphan, Ingest

-----------------------------------------------------------------------------
LEMMA ContentStep == TypeInv /\ ContentInv /\ ResumeExact /\ [Next]_vars => ContentInv' /\ ResumeExact'
<1> SUFFICES ASSUME TypeInv, ContentInv, ResumeExact, [Next]_vars
             PROVE  ContentInv' /\ ResumeExact'
  OBVIOUS
<1>0. /\ partial \in Files /\ Len(partial) \in Nat /\ pos \in Nat /\ from \in Nat
      /\ snap \in Snapshots /\ snap.pos \in Nat
      /\ orphan \in Orphans /\ orphan.pos \in Nat /\ orphan.from \in Nat
      /\ OrderInv /\ (pc = "curl" => from <= pos)
  BY FileLengths, SizeAssumption DEF TypeInv, TypeOK, Snapshots, Orphans, OrderInv
<1>e. Len(<<>>) = 0 /\ Clean(<<>>) /\ 0 <= Size
  BY NewFiles, CleanStart, SizeAssumption
<1> USE DEF ContentInv, ResumeExact
\* Steps that leave the partial and what is open alone.
<1>a. ASSUME UNCHANGED <<partial, snap, orphan, mixed, flipped>>, pc' \notin {"copy", "curl"}
      PROVE  ContentInv' /\ ResumeExact'
  BY <1>a
<1>1. CASE CheckFinal \/ CompareIngest \/ Trim \/ Hash \/ CurlEnd \/ CurlFail \/ Import
  <2>1. UNCHANGED <<partial, snap, orphan, mixed, flipped>> /\ pc' \notin {"copy", "curl"}
    BY <1>1 DEF CheckFinal, CompareIngest, Trim, Hash, HashLeaves, CurlEnd, CurlFail, Import,
                snapshot, history
  <2> QED
    BY <1>a, <2>1
<1>2. CASE Reuse
  <2>1. CASE committed
    <3>1. UNCHANGED <<partial, mixed, flipped>> /\ pc' = "done" /\ Follow("final", "gone")
      BY <1>2, <2>1 DEF Reuse, history
    <3>2. /\ snap'.pos = snap.pos /\ (snap'.at = "partial" <=> snap.at = "partial")
          /\ orphan'.pos = orphan.pos /\ (orphan'.at = "partial" <=> orphan.at = "partial")
      BY <1>0, <3>1 DEF Follow, Snapshots, Orphans
    <3> QED
      BY <3>1, <3>2
  <2>2. CASE ~committed
    BY <1>2, <1>a, <2>2 DEF Reuse, history
  <2> QED
    BY <2>1, <2>2
<1>3. CASE OpenIngest
  <2>1. CASE ingesting
    <3>1. /\ pc' = "copy" /\ partial' = <<>> /\ pos' = 0
          /\ mixed' = (mixed \/ "partial" \in {snap.at, orphan.at}) /\ UNCHANGED <<snap, orphan>>
      BY <1>3, <2>1 DEF OpenIngest, Share, snapshot
    <3> QED
      BY <1>e, <3>1
  <2>2. CASE ~ingesting
    BY <1>3, <1>a, <2>2 DEF OpenIngest, snapshot
  <2> QED
    BY <2>1, <2>2
<1>4. CASE CopyIngest
  <2>1. CASE ingesting /\ pos < ingest
    <3>1. /\ partial' = WriteAt(partial, pos + 1, TRUE) /\ pos' = pos + 1 /\ pc = "copy"
          /\ mixed' = (mixed \/ "partial" \in {snap.at, orphan.at})
          /\ UNCHANGED <<pc, snap, orphan, flipped>>
      BY <1>4, <2>1 DEF CopyIngest, Share, snapshot
    <3> SUFFICES ASSUME ~mixed' PROVE ContentInv' /\ ResumeExact'
      OBVIOUS
    <3>2. ~mixed /\ snap'.at # "partial" /\ orphan'.at # "partial" /\ Len(partial) = pos
      BY <3>1
    <3>3. /\ pos + 1 <= Size /\ Len(partial') = (IF pos < Len(partial) THEN Len(partial) ELSE pos + 1)
          /\ Clean(partial) => Clean(partial')
      <4>1. /\ pos < Size /\ Len(WriteAt(partial, pos + 1, TRUE)) =
                                 (IF pos < Len(partial) THEN Len(partial) ELSE pos + 1)
            /\ pos = Len(partial) /\ Clean(partial) => Clean(WriteAt(partial, pos + 1, TRUE))
        BY <1>0, <2>1, CopiesByte
      <4>2. pos + 1 <= Size
        BY <1>0, <4>1, SizeAssumption
      <4> QED
        BY <3>1, <3>2, <4>1, <4>2
    <3>4. Len(partial') = pos + 1
      BY <1>0, <3>2, <3>3
    <3> QED
      BY <3>1, <3>2, <3>3, <3>4
  <2>2. CASE ~(ingesting /\ pos < ingest)
    <3>1. pc' = "trim" /\ UNCHANGED <<partial, snap, orphan, mixed, flipped>>
      BY <1>4, <2>2 DEF CopyIngest, snapshot
    <3> QED
      BY <1>a, <3>1
  <2> QED
    BY <2>1, <2>2
<1>5. CASE Discard
  <2>1. pc' = "loop" /\ partial' = <<>> /\ Follow("partial", "gone")
    BY <1>5 DEF Discard
  <2>2. snap'.at # "partial" /\ orphan'.at # "partial"
    BY <1>0, <2>1 DEF Follow, Snapshots, Orphans
  <2> QED
    BY <1>e, <2>1, <2>2
<1>6. CASE Loop
  <2>1. /\ UNCHANGED <<partial, snap, orphan, mixed, flipped>> /\ pc' \in {"hash", "curl"}
        /\ pc' = "curl" => pos' = Len(partial)
    BY <1>6 DEF Loop, snapshot, history
  <2> QED
    BY <2>1
<1>7. CASE Move
  <2>1. partial' = <<>> /\ pc' = "done" /\ snap'.at # "partial" /\ orphan'.at # "partial"
    BY <1>0, <1>7 DEF Move, Snapshots, Orphans
  <2> QED
    BY <1>e, <2>1
<1>8. CASE CurlByte
  <2>1. /\ pc = "curl" /\ pc' = "curl" /\ pos < Size /\ pos' = pos + 1
        /\ mixed' = (mixed \/ "partial" \in {snap.at, orphan.at}) /\ UNCHANGED <<snap, orphan>>
    BY <1>8, PullersByte DEF snapshot
  <2> SUFFICES ASSUME ~mixed' PROVE ContentInv' /\ ResumeExact'
    OBVIOUS
  <2>2. ~mixed /\ snap'.at # "partial" /\ orphan'.at # "partial" /\ pos = Len(partial)
    BY <2>1
  <2>3. Len(partial') = pos + 1 /\ (~flipped' /\ (pos # 0 => Clean(partial)) => Clean(partial'))
    BY <1>8, <2>2, PullersByte
  <2>4. ~flipped' => ~flipped
    BY <1>8, PullersByte
  <2>5. pos + 1 <= Size
    BY <1>0, <2>1, SizeAssumption
  <2> QED
    BY <2>1, <2>2, <2>3, <2>4, <2>5
<1>9. CASE CurlRetry
  <2>1. /\ pc = "curl" /\ pos > from /\ pos' = from /\ partial' = Cut(partial, from)
        /\ mixed' = (mixed \/ "partial" \in {snap.at, orphan.at})
        /\ UNCHANGED <<pc, snap, orphan, flipped>>
    BY <1>9 DEF CurlRetry, Share, snapshot
  <2> SUFFICES ASSUME ~mixed' PROVE ContentInv' /\ ResumeExact'
    OBVIOUS
  <2>2. ~mixed /\ snap'.at # "partial" /\ orphan'.at # "partial" /\ Len(partial) = pos
    BY <2>1
  <2>3. Len(partial') = (IF Len(partial) > from THEN from ELSE Len(partial)) /\ (Clean(partial) => Clean(partial'))
    BY <1>0, <2>1, CutLeaves
  <2>4. Len(partial') = from /\ Len(partial') <= Size
    BY <1>0, <2>1, <2>2, <2>3, SizeAssumption
  <2> QED
    BY <2>1, <2>2, <2>3, <2>4
<1>10. CASE Kill
  <2>1. CASE orphan' = orphan
    BY <1>10, <1>a, <2>1 DEF Kill, snapshot, history
  <2>2. CASE orphan' # orphan
    <3>1. /\ pc \in {"curl", "copy"} /\ pc' = "check" /\ UNCHANGED <<partial, snap, mixed, flipped>>
          /\ orphan' = [step |-> pc, from |-> from, pos |-> pos,
                        at |-> IF pc = "curl" /\ pos = 0 THEN "none" ELSE "partial"]
      BY <1>10, <2>2 DEF Kill, snapshot, history
    <3>2. orphan'.pos = pos
      BY <3>1
    <3> QED
      BY <3>1, <3>2
  <2> QED
    BY <2>1, <2>2
<1>11. CASE SnapStat \/ SnapEnd
  <2>1. UNCHANGED <<pc, pos, partial, orphan, mixed, flipped>> /\ snap'.at = "none"
    BY <1>11 DEF SnapStat, SnapEnd, history
  <2> QED
    BY <2>1
<1>12. CASE SnapOpen
  <2>1. CASE ingesting
    <3>1. /\ snap' = [step |-> "copy", pos |-> 0, at |-> "partial"] /\ partial' = <<>>
          /\ mixed' = (mixed \/ (pc \in {"copy", "curl"} \/ orphan.at = "partial"))
          /\ UNCHANGED <<pc, orphan>>
      BY <1>12, <2>1 DEF SnapOpen, Meddle
    <3>2. snap'.pos = 0 /\ snap'.at = "partial"
      BY <3>1
    <3> QED
      BY <1>e, <3>1, <3>2
  <2>2. CASE ~ingesting
    <3>1. UNCHANGED <<pc, pos, partial, orphan, mixed, flipped>> /\ snap' = [snap EXCEPT !.step = "idle"]
      BY <1>12, <2>2 DEF SnapOpen
    <3>2. snap'.pos = snap.pos /\ snap'.at = snap.at
      BY <1>0, <3>1 DEF Snapshots
    <3> QED
      BY <3>1, <3>2
  <2> QED
    BY <2>1, <2>2
<1>13. CASE SnapCopy
  <2>1. /\ ingesting /\ snap.pos < ingest
        /\ snap' = [snap EXCEPT !.pos = @ + 1]
        /\ mixed' = (mixed \/ (snap.at = "partial" /\ (pc \in {"copy", "curl"} \/ orphan.at = "partial")))
        /\ partial' = IF snap.at = "partial" THEN WriteAt(partial, snap.pos + 1, TRUE) ELSE partial
        /\ UNCHANGED <<pc, pos, orphan, flipped>>
    BY <1>13 DEF SnapCopy, Meddle
  <2>2. snap'.at = snap.at /\ snap'.pos = snap.pos + 1
    BY <1>0, <2>1 DEF Snapshots
  <2>3. CASE snap.at # "partial"
    BY <2>1, <2>2, <2>3
  <2>4. CASE snap.at = "partial"
    <3> SUFFICES ASSUME ~mixed' PROVE ContentInv' /\ ResumeExact'
      OBVIOUS
    <3>1. ~mixed /\ pc \notin {"copy", "curl"} /\ orphan.at # "partial" /\ Len(partial) = snap.pos
      BY <2>1, <2>4
    <3>2. partial' = WriteAt(partial, snap.pos + 1, TRUE)
      BY <2>1, <2>4
    <3>3. /\ snap.pos + 1 <= Size
          /\ Len(partial') = (IF snap.pos < Len(partial) THEN Len(partial) ELSE snap.pos + 1)
          /\ Clean(partial) => Clean(partial')
      <4>1. /\ snap.pos < Size /\ Len(WriteAt(partial, snap.pos + 1, TRUE)) =
                                 (IF snap.pos < Len(partial) THEN Len(partial) ELSE snap.pos + 1)
            /\ snap.pos = Len(partial) /\ Clean(partial) => Clean(WriteAt(partial, snap.pos + 1, TRUE))
        BY <1>0, <2>1, CopiesByte
      <4>2. snap.pos + 1 <= Size
        BY <1>0, <4>1, SizeAssumption
      <4> QED
        BY <3>1, <3>2, <4>1, <4>2
    <3>4. Len(partial') = snap.pos + 1
      BY <1>0, <3>1, <3>3
    <3> QED
      BY <2>1, <2>2, <3>1, <3>3, <3>4
  <2> QED
    BY <2>3, <2>4
<1>14. CASE OrphanByte
  <2>1. /\ orphan.pos < Size /\ orphan' = [orphan EXCEPT !.pos = @ + 1, !.at = Target]
        /\ mixed' = (mixed \/ (Target = "partial" /\ (pc \in {"copy", "curl"} \/ snap.at = "partial")))
        /\ UNCHANGED <<pc, pos, snap>> /\ (~flipped' => ~flipped)
        /\ Target # "partial" => partial' = partial
        /\ orphan.step = "curl"
    BY <1>14, OrphansByte DEF Meddle, snapshot
  <2>2. orphan'.at = Target /\ orphan'.pos = orphan.pos + 1
    <3>1. orphan' = [step |-> orphan.step, from |-> orphan.from, pos |-> orphan.pos + 1, at |-> Target]
      BY <1>0, <2>1 DEF Orphans
    <3> QED
      BY <3>1
  <2>3. CASE Target # "partial"
    BY <2>1, <2>2, <2>3
  <2>4. CASE Target = "partial"
    <3> SUFFICES ASSUME ~mixed' PROVE ContentInv' /\ ResumeExact'
      OBVIOUS
    <3>1. ~mixed /\ pc \notin {"copy", "curl"} /\ snap.at # "partial"
      BY <2>1, <2>4
    <3>2. orphan.pos = 0 \/ orphan.pos = Len(partial)
      <4>1. CASE orphan.at = "none"
        BY <1>0, <2>1, <4>1 DEF OrderInv
      <4>2. CASE orphan.at # "none"
        BY <2>4, <3>1, <4>2 DEF Target
      <4> QED
        BY <4>1, <4>2
    <3>3. /\ Len(partial') = orphan.pos + 1
          /\ ~flipped' /\ (orphan.pos # 0 => Clean(partial)) => Clean(partial')
      BY <1>14, <2>4, <3>2, OrphansByte
    <3>4. orphan.pos + 1 <= Size
      BY <1>0, <2>1, SizeAssumption
    <3> QED
      BY <2>1, <2>2, <3>1, <3>3, <3>4
  <2> QED
    BY <2>3, <2>4
<1>15. CASE OrphanRetry
  <2>1. /\ orphan.pos > orphan.from /\ orphan' = [orphan EXCEPT !.pos = orphan.from]
        /\ mixed' = (mixed \/ (orphan.at = "partial" /\ (pc \in {"copy", "curl"} \/ snap.at = "partial")))
        /\ partial' = IF orphan.at = "partial" THEN Cut(partial, orphan.from) ELSE partial
        /\ UNCHANGED <<pc, pos, snap, flipped>>
    BY <1>15 DEF OrphanRetry, Meddle, snapshot
  <2>2. orphan'.at = orphan.at /\ orphan'.pos = orphan.from
    BY <1>0, <2>1 DEF Orphans
  <2>3. CASE orphan.at # "partial"
    BY <2>1, <2>2, <2>3
  <2>4. CASE orphan.at = "partial"
    <3> SUFFICES ASSUME ~mixed' PROVE ContentInv' /\ ResumeExact'
      OBVIOUS
    <3>1. ~mixed /\ pc \notin {"copy", "curl"} /\ snap.at # "partial" /\ Len(partial) = orphan.pos
      BY <2>1, <2>4
    <3>2. partial' = Cut(partial, orphan.from)
      BY <2>1, <2>4
    <3>3. /\ Len(partial') = (IF Len(partial) > orphan.from THEN orphan.from ELSE Len(partial))
          /\ Clean(partial) => Clean(partial')
      BY <1>0, <3>2, CutLeaves
    <3>4. Len(partial') = orphan.from /\ Len(partial') <= Size
      BY <1>0, <2>1, <3>1, <3>3, SizeAssumption
    <3> QED
      BY <2>1, <2>2, <3>1, <3>3, <3>4
  <2> QED
    BY <2>3, <2>4
<1>16. CASE OrphanCopy
  <2>1. /\ ingesting /\ orphan.pos < ingest
        /\ orphan' = [orphan EXCEPT !.pos = @ + 1]
        /\ mixed' = (mixed \/ (orphan.at = "partial" /\ (pc \in {"copy", "curl"} \/ snap.at = "partial")))
        /\ partial' = IF orphan.at = "partial" THEN WriteAt(partial, orphan.pos + 1, TRUE) ELSE partial
        /\ UNCHANGED <<pc, pos, snap, flipped>>
    BY <1>16 DEF OrphanCopy, Meddle, snapshot
  <2>2. orphan'.at = orphan.at /\ orphan'.pos = orphan.pos + 1
    BY <1>0, <2>1 DEF Orphans
  <2>3. CASE orphan.at # "partial"
    BY <2>1, <2>2, <2>3
  <2>4. CASE orphan.at = "partial"
    <3> SUFFICES ASSUME ~mixed' PROVE ContentInv' /\ ResumeExact'
      OBVIOUS
    <3>1. ~mixed /\ pc \notin {"copy", "curl"} /\ snap.at # "partial" /\ Len(partial) = orphan.pos
      BY <2>1, <2>4
    <3>2. partial' = WriteAt(partial, orphan.pos + 1, TRUE)
      BY <2>1, <2>4
    <3>3. /\ orphan.pos + 1 <= Size
          /\ Len(partial') = (IF orphan.pos < Len(partial) THEN Len(partial) ELSE orphan.pos + 1)
          /\ Clean(partial) => Clean(partial')
      <4>1. /\ orphan.pos < Size /\ Len(WriteAt(partial, orphan.pos + 1, TRUE)) =
                                 (IF orphan.pos < Len(partial) THEN Len(partial) ELSE orphan.pos + 1)
            /\ orphan.pos = Len(partial) /\ Clean(partial) => Clean(WriteAt(partial, orphan.pos + 1, TRUE))
        BY <1>0, <2>1, CopiesByte
      <4>2. orphan.pos + 1 <= Size
        BY <1>0, <4>1, SizeAssumption
      <4> QED
        BY <3>1, <3>2, <4>1, <4>2
    <3>4. Len(partial') = orphan.pos + 1
      BY <1>0, <3>1, <3>3
    <3> QED
      BY <2>1, <2>2, <3>1, <3>3, <3>4
  <2> QED
    BY <2>3, <2>4
<1>17. CASE OrphanEnd
  <2>1. UNCHANGED <<pc, pos, partial, snap, mixed, flipped>> /\ orphan'.at = "none"
    BY <1>17 DEF OrphanEnd, Nobody, snapshot, history
  <2> QED
    BY <2>1
<1>18. CASE IngestGrow \/ IngestCommit \/ IngestAbort \/ IngestStart
  <2>1. UNCHANGED <<pc, pos, partial, snap, orphan, mixed, flipped>>
    BY <1>18 DEF IngestGrow, IngestCommit, IngestAbort, IngestStart, snapshot, history
  <2> QED
    BY <2>1
<1>19. CASE UNCHANGED vars
  BY <1>19 DEF vars, snapshot, history
<1> QED
  BY <1>1, <1>2, <1>3, <1>4, <1>5, <1>6, <1>7, <1>8, <1>9, <1>10, <1>11, <1>12, <1>13, <1>14, <1>15,
     <1>16, <1>17, <1>18, <1>19
     DEF Next, Puller, Download, Curl, Snapshot, Orphan, Ingest

-----------------------------------------------------------------------------
\* A step of the others marks what it does to a file.
LEMMA OthersWrite ==
  ASSUME Snapshot \/ Orphan
  PROVE  /\ UNCHANGED <<pc, ingest>>
         /\ ~late' => ~late /\ final' = final /\ (pc = "move" => partial' = partial)
         /\ ~stale' => ~stale /\ (pc \in Checked => partial' = partial)
<1>1. CASE SnapStat \/ SnapEnd \/ OrphanEnd
  BY <1>1 DEF SnapStat, SnapEnd, OrphanEnd, containerd, history
<1>2. CASE SnapOpen
  <2>1. CASE ingesting
    BY <1>2, <2>1 DEF SnapOpen, Meddle, containerd
  <2>2. CASE ~ingesting
    BY <1>2, <2>2 DEF SnapOpen, containerd
  <2> QED
    BY <2>1, <2>2
<1>3. CASE SnapCopy
  BY <1>3 DEF SnapCopy, Meddle, containerd
<1>4. CASE OrphanByte
  <2>1. /\ UNCHANGED <<pc, ingest>> /\ Meddle(Target, snap)
        /\ Target # "partial" => partial' = partial
        /\ Target # "final" => final' = final
    BY <1>4 DEF OrphanByte, containerd
  <2> QED
    BY <2>1 DEF Meddle
<1>5. CASE OrphanRetry
  BY <1>5 DEF OrphanRetry, Meddle, containerd
<1>6. CASE OrphanCopy
  BY <1>6 DEF OrphanCopy, Meddle, containerd
<1> QED
  BY <1>1, <1>2, <1>3, <1>4, <1>5, <1>6 DEF Snapshot, Orphan

LEMMA VerifiedStep == MoveInv /\ VerifiedFinal /\ [Next]_vars => MoveInv' /\ VerifiedFinal'
<1> SUFFICES ASSUME MoveInv, VerifiedFinal, [Next]_vars
             PROVE  MoveInv' /\ VerifiedFinal'
  OBVIOUS
<1> USE DEF MoveInv, VerifiedFinal
<1>1. CASE CheckFinal
  BY <1>1 DEF CheckFinal, Right
<1>2. CASE Reuse
  <2>1. CASE committed
    BY <1>2, <2>1, WholeBlob DEF Reuse
  <2>2. CASE ~committed
    BY <1>2, <2>2 DEF Reuse
  <2> QED
    BY <2>1, <2>2
<1>3. CASE CompareIngest \/ OpenIngest \/ CopyIngest \/ Trim \/ Discard \/ Loop \/ Curl \/ Kill
  <2>1. pc' \notin {"move", "done", "imported"}
    BY <1>3 DEF CompareIngest, OpenIngest, CopyIngest, Trim, Discard, Loop,
                Curl, CurlByte, CurlEnd, CurlFail, CurlRetry, Kill
  <2> QED
    BY <2>1
<1>4. CASE Hash
  <2>1. (pc' = "move" => Right(partial)) /\ partial' = partial /\ pc' \in {"move", "mismatched"}
    BY <1>4 DEF Hash, HashLeaves
  <2>2. Right(partial') <=> Right(partial)
    BY <2>1 DEF Right, Clean
  <2> QED
    BY <2>1, <2>2
<1>5. CASE Move
  <2>1. pc = "move" /\ pc' = "done" /\ final' = partial /\ late' = late
    BY <1>5 DEF Move
  <2>2. Right(final') <=> Right(partial)
    BY <2>1
  <2> QED
    BY <2>1, <2>2
<1>6. CASE Import
  <2>1. /\ pc = "done" /\ pc' \in {"imported", "check"} /\ UNCHANGED <<final, late>>
    BY <1>6 DEF Import, history
  <2>2. Right(final') <=> Right(final)
    BY <2>1
  <2> QED
    BY <2>1, <2>2
<1>7. CASE Snapshot \/ Orphan
  <2>1. /\ pc' = pc
        /\ ~late' => ~late /\ final' = final /\ (pc = "move" => partial' = partial)
    BY <1>7, OthersWrite
  <2>2. ASSUME pc' = "move", ~late' PROVE Right(partial')
    <3>1. pc = "move" /\ ~late /\ partial' = partial
      BY <2>1, <2>2
    <3> QED
      BY <3>1
  <2>3. ASSUME pc' \in {"done", "imported"}, ~late' PROVE Right(final')
    <3>1. pc \in {"done", "imported"} /\ ~late /\ final' = final
      BY <2>1, <2>3
    <3> QED
      BY <3>1
  <2> QED
    BY <2>2, <2>3
<1>8. CASE Ingest \/ UNCHANGED vars
  <2>1. UNCHANGED <<pc, partial, final, late>>
    BY <1>8 DEF Ingest, IngestGrow, IngestCommit, IngestAbort, IngestStart, vars, history
  <2>2. (Right(partial') <=> Right(partial)) /\ (Right(final') <=> Right(final))
    BY <2>1
  <2> QED
    BY <2>1, <2>2
<1> QED
  BY <1>1, <1>2, <1>3, <1>4, <1>5, <1>6, <1>7, <1>8 DEF Next, Puller, Download

LEMMA CheckedStep == TypeInv /\ CheckedInv /\ [Next]_vars => CheckedInv'
<1> SUFFICES ASSUME TypeInv, CheckedInv, [Next]_vars PROVE CheckedInv'
  OBVIOUS
<1> USE DEF CheckedInv
<1>1. CASE \/ CheckFinal \/ Reuse \/ OpenIngest \/ CopyIngest \/ Discard \/ Loop \/ Move \/ Curl
           \/ Import \/ Kill
  <2>1. pc' \notin Checked
    BY <1>1 DEF CheckFinal, Reuse, OpenIngest, CopyIngest, Discard, Loop, Move, Import, Kill,
                Curl, CurlByte, CurlEnd, CurlFail, CurlRetry, Checked
  <2> QED
    BY <2>1 DEF Checked
<1>2. CASE CompareIngest
  <2>1. /\ pc' \in {"open", "trim"} /\ UNCHANGED <<partial, ingest>>
        /\ pc' = "open" => ingest > Len(partial)
    BY <1>2 DEF CompareIngest, containerd
  <2> QED
    BY <2>1
<1>3. CASE Trim
  <2>1. pc' \in {"oversized", "loop"} /\ partial' = partial /\ (pc' = "oversized" => Len(partial) > Size)
    BY <1>3 DEF Trim
  <2> QED
    BY <2>1
<1>4. CASE Hash
  <2>1. pc' \in {"move", "mismatched"} /\ partial' = partial /\ (pc' = "mismatched" => ~Right(partial))
    BY <1>4 DEF Hash, HashLeaves
  <2>2. Right(partial') <=> Right(partial)
    BY <2>1
  <2> QED
    BY <2>1, <2>2
<1>5. CASE Snapshot \/ Orphan
  <2>1. /\ UNCHANGED <<pc, ingest>>
        /\ ~stale' => ~stale /\ (pc \in Checked => partial' = partial)
    BY <1>5, OthersWrite
  <2>2. CASE pc \in Checked
    <3> SUFFICES ASSUME ~stale' PROVE CheckedInv'
      OBVIOUS
    <3>1. UNCHANGED <<pc, ingest, partial>> /\ ~stale
      BY <2>1, <2>2
    <3>2. Right(partial') <=> Right(partial)
      BY <3>1
    <3> QED
      BY <3>1, <3>2
  <2>3. CASE pc \notin Checked
    BY <2>1, <2>3 DEF Checked
  <2> QED
    BY <2>2, <2>3
<1>6. CASE Ingest
  <2>0. Len(partial) \in Nat /\ ingest \in Nat
    BY FileLengths, SizeAssumption DEF TypeInv, TypeOK
  <2>1. CASE IngestStart
    <3>1. stale' = (stale \/ pc \in Checked) /\ pc' = pc
      BY <2>1 DEF IngestStart
    <3>2. CASE pc \in Checked
      BY <3>1, <3>2
    <3>3. CASE pc \notin Checked
      BY <3>1, <3>3 DEF Checked
    <3> QED
      BY <3>2, <3>3
  <2>2. CASE IngestGrow \/ IngestCommit \/ IngestAbort
    <3>1. UNCHANGED <<pc, partial, stale>> /\ (ingest' = ingest \/ ingest' = ingest + 1)
      BY <2>2 DEF IngestGrow, IngestCommit, IngestAbort, history
    <3>2. Right(partial') <=> Right(partial)
      BY <3>1
    <3>3. ingest > Len(partial) => ingest' > Len(partial')
      BY <2>0, <3>1
    <3>4. Len(partial) > Size => Len(partial') > Size
      BY <3>1
    <3> QED
      BY <3>1, <3>2, <3>3, <3>4
  <2> QED
    BY <1>6, <2>1, <2>2 DEF Ingest
<1>7. CASE UNCHANGED vars
  <2>1. UNCHANGED <<pc, partial, ingest, stale>>
    BY <1>7 DEF vars, containerd, history
  <2>2. Right(partial') <=> Right(partial)
    BY <2>1
  <2> QED
    BY <2>1, <2>2
<1> QED
  BY <1>1, <1>2, <1>3, <1>4, <1>5, <1>6, <1>7 DEF Next, Puller, Download

-----------------------------------------------------------------------------
LEMMA Initially == Init => IInv
<1> SUFFICES ASSUME Init PROVE IInv
  OBVIOUS
<1> USE SizeAssumption, BoundsAssumption, NewFiles DEF Init
<1>1. TypeOK
  <2>1. partial \in Files /\ final \in Files
    OBVIOUS
  <2>2. snap \in Snapshots /\ orphan \in Orphans
    BY DEF Snapshots, Orphans, Nobody, Places
  <2>3. /\ pc \in Steps /\ from \in 0..(3 * Size) /\ pos \in 0..(3 * Size)
        /\ ingest \in 0..Size /\ snaps \in 0..MaxSnaps /\ faults \in 0..MaxFaults
    BY DEF Steps
  <2>4. /\ ingesting \in BOOLEAN /\ committed \in BOOLEAN
        /\ mixed \in BOOLEAN /\ late \in BOOLEAN /\ flipped \in BOOLEAN /\ stale \in BOOLEAN
    OBVIOUS
  <2> QED
    BY <2>1, <2>2, <2>3, <2>4 DEF TypeOK
<1>2. RoomInv
  <2>1. PullerOwes = 0 /\ OrphanOwes("partial") = 0 /\ OrphanOwes("final") = 0
    BY DEF PullerOwes, OrphanOwes, Nobody
  <2> QED
    BY <2>1 DEF RoomInv
<1>3. OrderInv
  BY DEF OrderInv, Nobody
<1>4. ContentInv /\ MoveInv /\ VerifiedFinal /\ CheckedInv
  BY DEF ContentInv, MoveInv, VerifiedFinal, CheckedInv, Nobody
<1>5. ResumeExact
  <2>1. Len(partial) = 0 /\ Clean(partial)
    BY CleanStart
  <2> QED
    BY <2>1 DEF ResumeExact
<1> QED
  BY <1>1, <1>2, <1>3, <1>4, <1>5 DEF IInv, TypeInv

LEMMA Invariance == Spec => []IInv
<1>1. IInv /\ [Next]_vars => IInv'
  BY TypeStep, RoomStep, OrderStep, ContentStep, VerifiedStep, CheckedStep DEF IInv, TypeInv
<1> QED
  BY Initially, <1>1, PTL DEF Spec

\* Every variable stays in its type; files stay within three times the blob's
\* size although two curls, a snapshot and a copy may write to one of them.
THEOREM TypeCorrect == Spec => []TypeOK
<1>1. IInv => TypeOK
  BY DEF IInv, TypeInv
<1> QED
  BY Invariance, <1>1, PTL

\* Resuming is exact: as long as no two write at a time and without a wrong
\* byte the partial is a prefix of the blob, after any number of kills, broken
\* transfers, retries and takeovers.
THEOREM ResumesExactly == Spec => []ResumeExact
<1>1. IInv => ResumeExact
  BY DEF IInv
<1> QED
  BY Invariance, <1>1, PTL

\* What download_blob returns is the blob, unless the snapshot or what was left
\* over from a killed puller wrote to it after its checksum.
THEOREM ReturnsTheBlob == Spec => []VerifiedFinal
<1>1. IInv => VerifiedFinal
  BY DEF IInv
<1> QED
  BY Invariance, <1>1, PTL

-----------------------------------------------------------------------------
\* No step of the puller makes its partial shorter but for a longer ingest, for
\* the blob itself, in curl's retry, or because the file is too long or wrong,
\* with the one exception of what others changed between its look and its act.
THEOREM KeepsProgress == Spec => ProgressKept
<1> DEFINE Kept ==
      Puller /\ ~mixed' /\ Len(partial') < Len(partial) =>
        \/ pc = "open" /\ (ingest > Len(partial) \/ stale)
        \/ pc = "oversized" /\ (Len(partial) > Size \/ stale)
        \/ pc = "mismatched" /\ (~Right(partial) \/ stale)
        \/ pc = "move" /\ final' = partial
        \/ pc = "curl" /\ Len(partial') = from
<1>1. IInv /\ [Next]_vars => [Kept]_vars
  <2> SUFFICES ASSUME IInv, Puller, ~mixed', Len(partial') < Len(partial)
               PROVE  \/ pc = "open" /\ (ingest > Len(partial) \/ stale)
                      \/ pc = "oversized" /\ (Len(partial) > Size \/ stale)
                      \/ pc = "mismatched" /\ (~Right(partial) \/ stale)
                      \/ pc = "move" /\ final' = partial
                      \/ pc = "curl" /\ Len(partial') = from
    OBVIOUS
  <2>0. /\ TypeInv /\ ContentInv /\ CheckedInv /\ Len(partial) \in Nat
        /\ partial \in Files /\ from \in Nat /\ pos \in Nat
        /\ ~(Len(partial) < Len(partial))
    BY FileLengths, SizeAssumption DEF IInv, TypeInv, TypeOK
  <2>1. CASE CheckFinal \/ Reuse \/ CompareIngest \/ Trim \/ Loop \/ Hash \/ CurlEnd \/ CurlFail \/ Import
    <3>1. partial' = partial
      BY <2>1 DEF CheckFinal, Reuse, CompareIngest, Trim, Loop, Hash, HashLeaves, CurlEnd, CurlFail, Import
    <3> QED
      BY <2>0, <3>1
  <2>2. CASE OpenIngest
    <3>1. pc = "open"
      BY <2>2 DEF OpenIngest
    <3> QED
      BY <2>0, <3>1 DEF CheckedInv
  <2>3. CASE CopyIngest
    <3>1. CASE ingesting /\ pos < ingest
      <4>1. Len(WriteAt(partial, pos + 1, TRUE)) = IF pos < Len(partial) THEN Len(partial) ELSE pos + 1
        BY <2>0, <3>1, CopiesByte
      <4>2. partial' = WriteAt(partial, pos + 1, TRUE)
        BY <2>3, <3>1 DEF CopyIngest
      <4>3. Len(partial') = IF pos < Len(partial) THEN Len(partial) ELSE pos + 1
        BY <4>1, <4>2
      <4> QED
        BY <2>0, <4>3
    <3>2. CASE ~(ingesting /\ pos < ingest)
      <4>1. partial' = partial
        BY <2>3, <3>2 DEF CopyIngest
      <4> QED
        BY <2>0, <4>1
    <3> QED
      BY <3>1, <3>2
  <2>4. CASE Discard
    <3>1. pc \in {"oversized", "mismatched"}
      BY <2>4 DEF Discard
    <3> QED
      BY <2>0, <3>1 DEF CheckedInv
  <2>5. CASE Move
    BY <2>5 DEF Move
  <2>6. CASE CurlByte
    <3>1. /\ pc = "curl" /\ mixed' = (mixed \/ "partial" \in {snap.at, orphan.at})
          /\ pos # 0 => Len(partial') >= Len(partial)
          /\ Len(partial') \in Nat
      BY <2>0, <2>6, PullersByte
    <3>2. Len(partial) = pos
      BY <2>0, <3>1 DEF ContentInv
    <3> QED
      BY <2>0, <3>1, <3>2
  <2>7. CASE CurlRetry
    <3>1. pc = "curl" /\ partial' = Cut(partial, from)
      BY <2>7 DEF CurlRetry
    <3>2. Len(partial') = IF Len(partial) > from THEN from ELSE Len(partial)
      BY <2>0, <3>1, CutLeaves
    <3> QED
      BY <2>0, <3>1, <3>2
  <2> QED
    BY <2>1, <2>2, <2>3, <2>4, <2>5, <2>6, <2>7 DEF Puller, Download, Curl
<1> QED
  BY Invariance, <1>1, PTL DEF Spec, ProgressKept

=============================================================================
