------------------------- MODULE DiskStorageProofs -------------------------
(***************************************************************************)
(* Proofs about DiskStorage for every set of files and sizes, every page   *)
(* size and every size of the zero buffer.                                 *)
(*                                                                         *)
(* The inductive invariant has one part per concern:                       *)
(*   FillInv      what the zero-fill loop has written,                     *)
(*   ModeInv      which files still wait for O_DIRECT,                     *)
(*   NameInv      who has tried to unlink and what came of it.             *)
(***************************************************************************)
EXTENDS DiskStorage, TLAPS

Aligned(n) == n % PageSize = 0

\* A file is empty before its space is allocated, as long as what was written,
\* in whole pages, during the loop, and exact afterwards.
FillInv ==
  \A f \in Files :
    /\ pc[f] \in {"absent", "created", "opened"} => written[f] = 0 /\ length[f] = 0
    /\ pc[f] = "filling" =>
         length[f] = written[f] /\ Aligned(written[f]) /\ written[f] < size[f] + PageSize
    /\ pc[f] \in InUse => length[f] = size[f]

\* Only the default strategy without the variable that disables O_DIRECT leaves
\* the mode to a second step.
ModeInv ==
  \A f \in Files :
    /\ pc[f] = "created" => ~env.disableODirect
    /\ pc[f] \in {"opened", "filling"} \cup InUse => oDirect[f] = ~env.disableODirect

\* The unlinked flag says that the one unlink was tried; the name is gone then
\* or the call failed.
NameInv ==
  \A f \in Files :
    /\ pc[f] \in BeforeUse \cup {"absent", "failed"} => ~unlinked[f]
    /\ pc[f] = "dropped" => unlinked[f]
    /\ registered[f] => pc[f] = "registering" \/ (pc[f] = "live" /\ unlinked[f])
    /\ pc[f] \in BeforeUse \cup InUse => fdOpen[f] /\ (~unlinked[f] => linked[f])
    /\ unlinked[f] /\ linked[f] => mishap[f] = "unlink"
    /\ pc[f] = "failed" /\ linked[f] => mishap[f] \in {"allocate", "unlink"}
    /\ pc[f] = "orphaned" /\ linked[f] /\ ~unlinked[f] => mishap[f] # "none"

\* The inductive invariant.
IInv == TypeOK /\ FillInv /\ ModeInv /\ NameInv

-----------------------------------------------------------------------------
\* A multiple of the page size is aligned, and so is a sum of aligned lengths.
LEMMA MultipleAligned ==
  ASSUME NEW k \in Nat PROVE Aligned(k * PageSize)
BY DiskStorageAssumption DEF Aligned

LEMMA SumAligned ==
  ASSUME NEW a \in Nat, NEW b \in Nat, Aligned(a), Aligned(b) PROVE Aligned(a + b)
<1>1. PageSize \in Nat \ {0}
  BY DiskStorageAssumption
<1> DEFINE j == a \div PageSize
           k == b \div PageSize
<1>2. j \in Nat /\ a = j * PageSize
  BY <1>1 DEF Aligned
<1>3. k \in Nat /\ b = k * PageSize
  BY <1>1 DEF Aligned
<1> HIDE DEF j, k
<1>4. a + b = (j + k) * PageSize /\ j + k \in Nat
  BY <1>1, <1>2, <1>3
<1>5. Aligned((j + k) * PageSize)
  BY <1>4, MultipleAligned
<1> QED
  BY <1>4, <1>5

\* Rounding up gives the next page multiple.
LEMMA RoundUpFacts ==
  ASSUME NEW n \in Nat
  PROVE  /\ RoundUp(n) \in Nat
         /\ n <= RoundUp(n) /\ RoundUp(n) < n + PageSize
         /\ Aligned(RoundUp(n))
<1>1. PageSize \in Nat \ {0}
  BY DiskStorageAssumption
<1> DEFINE a == n + PageSize - 1
           k == a \div PageSize
<1>2. a \in Nat
  BY <1>1
<1>3. k \in Nat /\ a = k * PageSize + (a % PageSize)
      /\ a % PageSize \in 0..(PageSize - 1)
  BY <1>1, <1>2
<1>4. RoundUp(n) = k * PageSize
  BY DEF RoundUp, DivCeil
<1>5. k * PageSize \in Nat
  BY <1>1, <1>3
<1>6. Aligned(k * PageSize)
  BY <1>3, MultipleAligned
<1> HIDE DEF k
<1> QED
  BY <1>1, <1>3, <1>4, <1>5, <1>6

\* What the loop takes from the zero buffer is a positive page multiple that
\* passes the end of the file by less than a page.
LEMMA ToWriteFacts ==
  ASSUME TypeOK, NEW f \in Files, written[f] < size[f]
  PROVE  /\ ToWrite(f) \in Nat \ {0}
         /\ Aligned(ToWrite(f))
         /\ written[f] + ToWrite(f) < size[f] + PageSize
<1>1. PageSize \in Nat \ {0} /\ ZeroBufSize \in Nat \ {0}
  BY DiskStorageAssumption
<1> DEFINE remaining == size[f] - written[f]
<1>2. remaining \in Nat \ {0} /\ written[f] \in Nat /\ size[f] \in Nat
  BY DEF TypeOK
<1>3. BufLen \in Nat \ {0} /\ Aligned(BufLen)
  BY <1>1, RoundUpFacts DEF BufLen
<1>4. /\ RoundUp(remaining) \in Nat \ {0} /\ Aligned(RoundUp(remaining))
      /\ RoundUp(remaining) < remaining + PageSize
  BY <1>1, <1>2, RoundUpFacts
<1>5. ToWrite(f) = IF remaining >= BufLen THEN BufLen
                   ELSE IF RoundUp(remaining) <= BufLen THEN RoundUp(remaining) ELSE BufLen
  BY DEF ToWrite, Least
<1>6. CASE remaining >= BufLen
  BY <1>1, <1>2, <1>3, <1>5, <1>6
<1>7. CASE remaining < BufLen /\ RoundUp(remaining) <= BufLen
  BY <1>1, <1>2, <1>3, <1>4, <1>5, <1>7
<1>8. CASE remaining < BufLen /\ RoundUp(remaining) > BufLen
  BY <1>1, <1>2, <1>3, <1>4, <1>5, <1>8
<1> QED
  BY <1>2, <1>3, <1>4, <1>6, <1>7, <1>8

-----------------------------------------------------------------------------
\* The empty cache directory.
LEMMA InitIInv == Init => IInv
<1> SUFFICES ASSUME Init PROVE IInv
  OBVIOUS
<1>1. TypeOK
  BY DEF Init, TypeOK, States, BeforeUse, InUse, Mishaps
<1>2. FillInv /\ ModeInv /\ NameInv
  BY DEF Init, FillInv, ModeInv, NameInv, BeforeUse, InUse
<1> QED
  BY <1>1, <1>2 DEF IInv

\* One step per action; what an action leaves alone it cannot disturb.
LEMMA TypeStep == TypeOK /\ [Next]_vars => TypeOK'
<1> SUFFICES ASSUME TypeOK, [Next]_vars PROVE TypeOK'
  OBVIOUS
<1> USE DEF TypeOK, States, BeforeUse, InUse, Mishaps
<1>1. ASSUME NEW f \in Files, NEW n \in Sizes, CreateTempFile(f, n), UNCHANGED env PROVE TypeOK'
  BY <1>1, DiskStorageAssumption DEF CreateTempFile
<1>2. ASSUME NEW f \in Files, SetODirect(f), UNCHANGED env PROVE TypeOK'
  BY <1>2 DEF SetODirect
<1>3. ASSUME NEW f \in Files, SetODirectFails(f), UNCHANGED env PROVE TypeOK'
  BY <1>3 DEF SetODirectFails
<1>4. ASSUME NEW f \in Files, Fallocate(f), UNCHANGED env PROVE TypeOK'
  BY <1>4 DEF Fallocate
<1>5. ASSUME NEW f \in Files, TruncateFallback(f), UNCHANGED env PROVE TypeOK'
  BY <1>5 DEF TruncateFallback
<1>6. ASSUME NEW f \in Files, StartZeroFill(f), UNCHANGED env PROVE TypeOK'
  BY <1>6 DEF StartZeroFill
<1>7. ASSUME NEW f \in Files, ZeroFillWrite(f), UNCHANGED env PROVE TypeOK'
  <2>1. ToWrite(f) \in Nat
    BY <1>7, ToWriteFacts DEF ZeroFillWrite
  <2> QED
    BY <1>7, <2>1 DEF ZeroFillWrite
<1>8. ASSUME NEW f \in Files, ZeroFillFinish(f), UNCHANGED env PROVE TypeOK'
  BY <1>8 DEF ZeroFillFinish
<1>9. ASSUME NEW f \in Files, AllocateFails(f), UNCHANGED env PROVE TypeOK'
  BY <1>9 DEF AllocateFails
<1>10. ASSUME NEW f \in Files, NixlRegister(f), UNCHANGED env PROVE TypeOK'
  BY <1>10 DEF NixlRegister
<1>11. ASSUME NEW f \in Files, Unlink(f), UNCHANGED env PROVE TypeOK'
  BY <1>11 DEF Unlink, UnlinkEffect
<1>12. ASSUME NEW f \in Files, Drop(f), UNCHANGED env PROVE TypeOK'
  BY <1>12 DEF Drop
<1>13. ASSUME NEW f \in Files, NixlRegisterUnlink(f), UNCHANGED env PROVE TypeOK'
  BY <1>13 DEF NixlRegisterUnlink, UnlinkEffect
<1>14. ASSUME NEW f \in Files, DropUnlink(f), UNCHANGED env PROVE TypeOK'
  BY <1>14 DEF DropUnlink, UnlinkEffect
<1>15. CASE ProcessExit /\ UNCHANGED env
  BY <1>15 DEF ProcessExit
<1>16. CASE UNCHANGED vars
  BY <1>16 DEF vars
<1> QED
  BY <1>1, <1>2, <1>3, <1>4, <1>5, <1>6, <1>7, <1>8, <1>9, <1>10, <1>11, <1>12, <1>13, <1>14, <1>15, <1>16
     DEF Next, Step

\* Only the actions of allocate_file write to a file.
LEMMA FillStep == TypeOK /\ FillInv /\ [Next]_vars => FillInv'
<1> SUFFICES ASSUME TypeOK, FillInv, [Next]_vars PROVE FillInv'
  OBVIOUS
<1> USE DEF TypeOK, States, BeforeUse, InUse, FillInv
<1>1. ASSUME NEW f \in Files, NEW n \in Sizes, CreateTempFile(f, n) PROVE FillInv'
  BY <1>1 DEF CreateTempFile
<1>2. ASSUME NEW f \in Files, SetODirect(f) PROVE FillInv'
  BY <1>2 DEF SetODirect
<1>3. ASSUME NEW f \in Files, SetODirectFails(f) PROVE FillInv'
  BY <1>3 DEF SetODirectFails
<1>4. ASSUME NEW f \in Files, Fallocate(f) PROVE FillInv'
  BY <1>4 DEF Fallocate
<1>5. ASSUME NEW f \in Files, TruncateFallback(f) PROVE FillInv'
  BY <1>5 DEF TruncateFallback
<1>6. ASSUME NEW f \in Files, StartZeroFill(f) PROVE FillInv'
  <2>1. Aligned(0) /\ PageSize \in Nat \ {0}
    BY MultipleAligned, DiskStorageAssumption
  <2> QED
    BY <1>6, <2>1 DEF StartZeroFill
<1>7. ASSUME NEW f \in Files, ZeroFillWrite(f) PROVE FillInv'
  <2>1. /\ ToWrite(f) \in Nat /\ Aligned(ToWrite(f))
        /\ written[f] + ToWrite(f) < size[f] + PageSize
    BY <1>7, ToWriteFacts DEF ZeroFillWrite
  <2>2. Aligned(written[f] + ToWrite(f))
    BY <1>7, <2>1, SumAligned DEF ZeroFillWrite
  <2> QED
    BY <1>7, <2>1, <2>2 DEF ZeroFillWrite
<1>8. ASSUME NEW f \in Files, ZeroFillFinish(f) PROVE FillInv'
  <2>1. length'[f] = size[f]
    BY <1>8 DEF ZeroFillFinish
  <2> QED
    BY <1>8, <2>1 DEF ZeroFillFinish
<1>9. ASSUME NEW f \in Files, AllocateFails(f) PROVE FillInv'
  BY <1>9 DEF AllocateFails
<1>10. ASSUME NEW f \in Files, NixlRegister(f) PROVE FillInv'
  BY <1>10 DEF NixlRegister
<1>11. ASSUME NEW f \in Files, Unlink(f) PROVE FillInv'
  BY <1>11 DEF Unlink
<1>12. ASSUME NEW f \in Files, Drop(f) PROVE FillInv'
  BY <1>12 DEF Drop
<1>13. ASSUME NEW f \in Files, NixlRegisterUnlink(f) PROVE FillInv'
  BY <1>13 DEF NixlRegisterUnlink
<1>14. ASSUME NEW f \in Files, DropUnlink(f) PROVE FillInv'
  BY <1>14 DEF DropUnlink
<1>15. CASE ProcessExit
  BY <1>15 DEF ProcessExit
<1>16. CASE UNCHANGED vars
  BY <1>16 DEF vars
<1> QED
  BY <1>1, <1>2, <1>3, <1>4, <1>5, <1>6, <1>7, <1>8, <1>9, <1>10, <1>11, <1>12, <1>13, <1>14, <1>15, <1>16
     DEF Next, Step

\* The mode is set before the space is allocated and not touched again.
LEMMA ModeStep == TypeOK /\ ModeInv /\ [Next]_vars => ModeInv'
<1> SUFFICES ASSUME TypeOK, ModeInv, [Next]_vars PROVE ModeInv'
  OBVIOUS
<1> USE DEF TypeOK, States, BeforeUse, InUse, Environments, ModeInv
<1>1. ASSUME NEW f \in Files, NEW n \in Sizes, CreateTempFile(f, n), UNCHANGED env PROVE ModeInv'
  BY <1>1 DEF CreateTempFile
<1>2. ASSUME NEW f \in Files, SetODirect(f), UNCHANGED env PROVE ModeInv'
  BY <1>2 DEF SetODirect
<1>3. ASSUME NEW f \in Files, SetODirectFails(f), UNCHANGED env PROVE ModeInv'
  BY <1>3 DEF SetODirectFails
<1>4. ASSUME NEW f \in Files, Fallocate(f), UNCHANGED env PROVE ModeInv'
  BY <1>4 DEF Fallocate
<1>5. ASSUME NEW f \in Files, TruncateFallback(f), UNCHANGED env PROVE ModeInv'
  BY <1>5 DEF TruncateFallback
<1>6. ASSUME NEW f \in Files, StartZeroFill(f), UNCHANGED env PROVE ModeInv'
  BY <1>6 DEF StartZeroFill
<1>7. ASSUME NEW f \in Files, ZeroFillWrite(f), UNCHANGED env PROVE ModeInv'
  BY <1>7 DEF ZeroFillWrite
<1>8. ASSUME NEW f \in Files, ZeroFillFinish(f), UNCHANGED env PROVE ModeInv'
  BY <1>8 DEF ZeroFillFinish
<1>9. ASSUME NEW f \in Files, AllocateFails(f), UNCHANGED env PROVE ModeInv'
  BY <1>9 DEF AllocateFails
<1>10. ASSUME NEW f \in Files, NixlRegister(f), UNCHANGED env PROVE ModeInv'
  BY <1>10 DEF NixlRegister
<1>11. ASSUME NEW f \in Files, Unlink(f), UNCHANGED env PROVE ModeInv'
  BY <1>11 DEF Unlink
<1>12. ASSUME NEW f \in Files, Drop(f), UNCHANGED env PROVE ModeInv'
  BY <1>12 DEF Drop
<1>13. ASSUME NEW f \in Files, NixlRegisterUnlink(f), UNCHANGED env PROVE ModeInv'
  BY <1>13 DEF NixlRegisterUnlink
<1>14. ASSUME NEW f \in Files, DropUnlink(f), UNCHANGED env PROVE ModeInv'
  BY <1>14 DEF DropUnlink
<1>15. CASE ProcessExit /\ UNCHANGED env
  BY <1>15 DEF ProcessExit
<1>16. CASE UNCHANGED vars
  BY <1>16 DEF vars
<1> QED
  BY <1>1, <1>2, <1>3, <1>4, <1>5, <1>6, <1>7, <1>8, <1>9, <1>10, <1>11, <1>12, <1>13, <1>14, <1>15, <1>16
     DEF Next, Step

\* A name goes with the flag, or the failure is on record.
LEMMA NameStep == TypeOK /\ NameInv /\ [Next]_vars => NameInv'
<1> SUFFICES ASSUME TypeOK, NameInv, [Next]_vars PROVE NameInv'
  OBVIOUS
<1> USE DEF TypeOK, States, Mishaps, BeforeUse, InUse, NameInv
<1>1. ASSUME NEW f \in Files, NEW n \in Sizes, CreateTempFile(f, n) PROVE NameInv'
  BY <1>1 DEF CreateTempFile
<1>2. ASSUME NEW f \in Files, SetODirect(f) PROVE NameInv'
  BY <1>2 DEF SetODirect
<1>3. ASSUME NEW f \in Files, SetODirectFails(f) PROVE NameInv'
  BY <1>3 DEF SetODirectFails
<1>4. ASSUME NEW f \in Files, Fallocate(f) PROVE NameInv'
  BY <1>4 DEF Fallocate
<1>5. ASSUME NEW f \in Files, TruncateFallback(f) PROVE NameInv'
  BY <1>5 DEF TruncateFallback
<1>6. ASSUME NEW f \in Files, StartZeroFill(f) PROVE NameInv'
  BY <1>6 DEF StartZeroFill
<1>7. ASSUME NEW f \in Files, ZeroFillWrite(f) PROVE NameInv'
  BY <1>7 DEF ZeroFillWrite
<1>8. ASSUME NEW f \in Files, ZeroFillFinish(f) PROVE NameInv'
  BY <1>8 DEF ZeroFillFinish
<1>9. ASSUME NEW f \in Files, AllocateFails(f) PROVE NameInv'
  BY <1>9 DEF AllocateFails
<1>10. ASSUME NEW f \in Files, NixlRegister(f) PROVE NameInv'
  BY <1>10 DEF NixlRegister
<1>11. ASSUME NEW f \in Files, Unlink(f) PROVE NameInv'
  BY <1>11 DEF Unlink, UnlinkEffect
<1>12. ASSUME NEW f \in Files, Drop(f) PROVE NameInv'
  BY <1>12 DEF Drop
<1>13. ASSUME NEW f \in Files, NixlRegisterUnlink(f) PROVE NameInv'
  BY <1>13 DEF NixlRegisterUnlink, UnlinkEffect
<1>14. ASSUME NEW f \in Files, DropUnlink(f) PROVE NameInv'
  BY <1>14 DEF DropUnlink, UnlinkEffect
<1>15. CASE ProcessExit
  BY <1>15 DEF ProcessExit
<1>16. CASE UNCHANGED vars
  BY <1>16 DEF vars
<1> QED
  BY <1>1, <1>2, <1>3, <1>4, <1>5, <1>6, <1>7, <1>8, <1>9, <1>10, <1>11, <1>12, <1>13, <1>14, <1>15, <1>16
     DEF Next, Step

-----------------------------------------------------------------------------
\* The invariant holds in every reachable state.
THEOREM Invariance == Spec => []IInv
<1>1. IInv /\ [Next]_vars => IInv'
  BY TypeStep, FillStep, ModeStep, NameStep DEF IInv
<1> QED
  BY InitIInv, <1>1, PTL DEF Spec

\* Every variable of the disk files keeps its type, for all sizes.
THEOREM TypeCorrect == Spec => []TypeOK
<1>1. IInv => TypeOK
  BY DEF IInv
<1> QED
  BY <1>1, Invariance, PTL

\* Whichever way allocate_file took and however the size lies to the page, a
\* storage in use has the length that was asked for.
THEOREM ExactLength == Spec => []LiveHasExactLength
<1>1. IInv => LiveHasExactLength
  BY DEF IInv, FillInv, LiveHasExactLength
<1> QED
  BY <1>1, Invariance, PTL

\* For every page size and buffer size, the writes of the zero-fill loop are
\* aligned for O_DIRECT, make progress and pass the end by less than a page.
THEOREM AlignedWrites == Spec => []ZeroFillAligned
<1>1. IInv => ZeroFillAligned
  <2> SUFFICES ASSUME IInv, NEW f \in Files, pc[f] = "filling"
               PROVE  /\ written[f] % PageSize = 0
                      /\ written[f] < size[f] + PageSize
                      /\ written[f] < size[f] => ToWrite(f) > 0 /\ ToWrite(f) % PageSize = 0
    BY DEF ZeroFillAligned
  <2>1. Aligned(written[f]) /\ written[f] < size[f] + PageSize
    BY DEF IInv, FillInv
  <2>2. ASSUME written[f] < size[f] PROVE ToWrite(f) > 0 /\ Aligned(ToWrite(f))
    BY <2>2, ToWriteFacts DEF IInv
  <2> QED
    BY <2>1, <2>2 DEF Aligned
<1> QED
  BY <1>1, Invariance, PTL

\* Both strategies end in the mode the environment asks for.
THEOREM ModeHonoured == Spec => []ODirectUnlessDisabled
<1>1. IInv => ODirectUnlessDisabled
  BY DEF IInv, ModeInv, ODirectUnlessDisabled
<1> QED
  BY <1>1, Invariance, PTL

\* Outside nixl_register, a registered file has lost its name unless its one
\* unlink failed.
THEOREM NameGone == Spec => []RegisteredHasNoName
<1>1. IInv => RegisteredHasNoName
  BY DEF IInv, NameInv, RegisteredHasNoName
<1> QED
  BY <1>1, Invariance, PTL

\* A file left in the cache directory has a failed call behind it, or the death
\* of the process before it tried to unlink.
THEOREM Orphans == Spec => []OrphansExplained
<1>1. IInv => OrphansExplained
  BY DEF IInv, TypeOK, Mishaps, NameInv, OrphansExplained
<1> QED
  BY <1>1, Invariance, PTL

\* Every registration finds the file with its name and an open descriptor.
THEOREM RegisteredInTime == Spec => RegisterWhileLinked
<1> DEFINE InTime == \A f \in Files : ~registered[f] /\ registered'[f] => linked[f] /\ fdOpen[f]
<1>1. IInv /\ [Next]_vars => [InTime]_vars
  <2> SUFFICES ASSUME IInv, Next PROVE InTime
    OBVIOUS
  <2> USE DEF IInv, TypeOK
  <2>1. ASSUME NEW f \in Files, NixlRegister(f) PROVE InTime
    BY <2>1 DEF NixlRegister, NameInv, InUse
  <2>2. ASSUME NEW f \in Files, Drop(f) PROVE InTime
    BY <2>2 DEF Drop
  <2>3. CASE UNCHANGED registered
    BY <2>3
  <2>4. CASE ProcessExit
    BY <2>4 DEF ProcessExit
  <2> QED
    BY <2>1, <2>2, <2>3, <2>4
       DEF Next, Step, CreateTempFile, SetODirect, SetODirectFails, Fallocate,
           TruncateFallback, StartZeroFill, ZeroFillWrite, ZeroFillFinish, AllocateFails, Unlink,
           NixlRegisterUnlink, DropUnlink
<1> QED
  BY Invariance, <1>1, PTL DEF Spec, RegisterWhileLinked
=============================================================================
