------------------------- MODULE KvbmStorageProofs -------------------------
(***************************************************************************)
(* What KvbmStorage keeps for every set of storages, every size of memory  *)
(* and every width of usize.                                               *)
(*                                                                         *)
(* TransferDelivers is a fact about the table of strategies.               *)
(* StaleReachExplained rests on SafeInv: storages that occupy memory do    *)
(* not overlap, and the agent knows exactly the memory whose handle was    *)
(* not given back.                                                         *)
(***************************************************************************)
EXTENDS KvbmStorage, TLAPS

SafeInv ==
  /\ \A s \in Storages : region[s] => handle[s] /\ life[s] # "none"
  /\ \A s, t \in Storages : s # t /\ Occupies(s) /\ Occupies(t) => CellsOf(s) \cap CellsOf(t) = {}

-----------------------------------------------------------------------------
(* For every pair of storage types, whichever side asks, the strategy picked *)
(* by transfer-strategy.rs can be carried out by these memories and moves    *)
(* the data from the source to the destination.                              *)
THEOREM StrategiesDeliver ==
  \A s, d \in Local \cup {"Nixl"} :
    ~(s = "Nixl" /\ d = "Nixl") => \A x \in Strategies(s, d) : Delivers(x, s, d)
<1> SUFFICES ASSUME NEW s \in Local \cup {"Nixl"}, NEW d \in Local \cup {"Nixl"},
                    ~(s = "Nixl" /\ d = "Nixl"), NEW x \in Strategies(s, d)
             PROVE  Delivers(x, s, d)
  OBVIOUS
<1>1. CASE s = "Nixl"
  BY <1>1 DEF Strategies, ReadFrom, Delivers
<1>2. CASE s # "Nixl"
  <2>1. x = WriteTo(s, d)
    BY <1>2 DEF Strategies, ReadFrom
  <2> QED
    BY <1>2, <2>1 DEF WriteTo, Delivers, Local, Memory, Host
<1> QED
  BY <1>1, <1>2

LEMMA TypeStep == TypeOK /\ [Next]_vars => TypeOK'
<1> SUFFICES ASSUME TypeOK, [Next]_vars PROVE TypeOK'
  OBVIOUS
<1> USE KvbmStorageAssumption DEF TypeOK, Local, Memory, Host
<1>1. ASSUME NEW s \in Storages, NEW k \in Local, NEW b \in 0 .. MemSize - 1, NEW n \in 1 .. MemSize,
             Allocate(s, k, b, n)
      PROVE  TypeOK'
  BY <1>1 DEF Allocate
<1>2. ASSUME NEW s \in Storages, Fill(s) PROVE TypeOK'
  BY <1>2 DEF Fill
<1>3. ASSUME NEW s \in Storages, NixlRegister(s) PROVE TypeOK'
  BY <1>3 DEF NixlRegister
<1>4. ASSUME NEW s \in Storages, Unlink(s) PROVE TypeOK'
  BY <1>4 DEF Unlink
<1>5. ASSUME NEW s \in Storages, NEW offset \in 0 .. Word - 1, NEW n \in 0 .. Word - 1
      PROVE  Describe(s, offset, n) \in Descriptors
  BY DEF Describe, Descriptors
<1>6. ASSUME NEW s \in Storages, AsNixlDescriptor(s) PROVE TypeOK'
  <2>1. size[s] \in 0 .. Word - 1 /\ 0 \in 0 .. Word - 1
    OBVIOUS
  <2>2. desc' \in Descriptors
    BY <1>5, <1>6, <2>1 DEF AsNixlDescriptor
  <2> QED
    BY <1>6, <2>2 DEF AsNixlDescriptor
<1>7. ASSUME NEW s \in Storages, NEW offset \in 0 .. Word - 1, NEW n \in 0 .. Word - 1,
             FromStorageWithOffset(s, offset, n)
      PROVE  TypeOK'
  BY <1>5, <1>7 DEF FromStorageWithOffset
<1>8. ASSUME NEW s \in Storages, Release(s) PROVE TypeOK'
  BY <1>8 DEF Release
<1>9. ASSUME NEW s \in Storages, Free(s) PROVE TypeOK'
  BY <1>9 DEF Free
<1>10. ASSUME NEW s \in Storages, NEW t \in Storages, Transfer(s, t) PROVE TypeOK'
  BY <1>10 DEF Transfer
<1>11. ASSUME NEW d, PeerWrite(d) PROVE TypeOK'
  BY <1>11 DEF PeerWrite
<1>12. CASE UNCHANGED vars
  BY <1>12 DEF vars
<1> QED
  BY <1>1, <1>2, <1>3, <1>4, <1>6, <1>7, <1>8, <1>9, <1>10, <1>11, <1>12 DEF Next

\* Ranges in different spaces, or apart in one, share no cell.
LEMMA Apart ==
  ASSUME NEW p, NEW q, NEW b \in Nat, NEW m \in Nat, NEW c \in Nat, NEW n \in Nat,
         p = q => b + m <= c \/ c + n <= b
  PROVE  {<<p, a>> : a \in b .. b + m - 1} \cap {<<q, a>> : a \in c .. c + n - 1} = {}
<1> SUFFICES ASSUME NEW x \in b .. b + m - 1, NEW y \in c .. c + n - 1, <<p, x>> = <<q, y>>
             PROVE  FALSE
  OBVIOUS
<1>1. p = q /\ x = y
  OBVIOUS
<1> QED
  BY <1>1

\* Nothing but an allocation moves a storage.
LEMMA StaysPut ==
  ASSUME UNCHANGED <<kind, base, size>>, NEW s
  PROVE  CellsOf(s)' = CellsOf(s)
BY DEF CellsOf, Cells, Space, MemType

LEMMA SafeStep == TypeOK /\ SafeInv /\ [Next]_vars => SafeInv'
<1> SUFFICES ASSUME TypeOK, SafeInv, [Next]_vars PROVE SafeInv'
  OBVIOUS
<1> USE KvbmStorageAssumption DEF Occupies
<1>1. ASSUME NEW s \in Storages, NEW k \in Local, NEW b \in 0 .. MemSize - 1, NEW n \in 1 .. MemSize,
             Allocate(s, k, b, n)
      PROVE  SafeInv'
  <2>1. /\ life[s] = "none"
        /\ kind' = [kind EXCEPT ![s] = k] /\ life' = [life EXCEPT ![s] = "live"]
        /\ base' = [base EXCEPT ![s] = b] /\ size' = [size EXCEPT ![s] = n]
        /\ UNCHANGED <<handle, region>>
    BY <1>1 DEF Allocate
  <2>2. ASSUME NEW t \in Storages, t # s, Occupies(t)
        PROVE  CellsOf(s)' \cap CellsOf(t)' = {}
    <3>1. /\ kind'[s] = k /\ base'[s] = b /\ size'[s] = n
          /\ kind'[t] = kind[t] /\ base'[t] = base[t] /\ size'[t] = size[t]
      BY <2>1, <2>2 DEF TypeOK
    <3>2. MemType(k) # MemType(kind[t]) \/ k = "Disk" \/ b + n <= base[t] \/ base[t] + size[t] <= b
      BY <1>1, <2>2 DEF Allocate
    <3>3. Space(s)' = Space(t)' => b + n <= base[t] \/ base[t] + size[t] <= b
      BY <2>2, <3>1, <3>2 DEF Space, MemType, TypeOK, Local, Memory, Host
    <3>4. /\ base[t] \in Nat /\ size[t] \in Nat /\ b \in Nat /\ n \in Nat
      BY DEF TypeOK
    <3>5. /\ CellsOf(s)' = {<<Space(s)', a>> : a \in b .. b + n - 1}
          /\ CellsOf(t)' = {<<Space(t)', a>> : a \in base[t] .. base[t] + size[t] - 1}
      BY <3>1 DEF CellsOf, Cells
    <3> QED
      BY <3>3, <3>4, <3>5, Apart
  <2>3. ASSUME NEW t \in Storages, t # s
        PROVE  CellsOf(t)' = CellsOf(t)
    BY <2>1, <2>3 DEF CellsOf, Cells, Space, MemType, TypeOK
  <2> QED
    BY <2>1, <2>2, <2>3 DEF SafeInv, TypeOK
<1>2. ASSUME UNCHANGED <<kind, base, size>>,
             \A s \in Storages : /\ region'[s] => handle'[s] /\ life'[s] # "none"
                                 /\ life'[s] \in {"live", "released"} => Occupies(s)
      PROVE  SafeInv'
  BY <1>2, StaysPut DEF SafeInv
<1>3. ASSUME NEW s \in Storages, Fill(s) PROVE SafeInv'
  BY <1>2, <1>3 DEF Fill, SafeInv
<1>4. ASSUME NEW s \in Storages, NixlRegister(s) PROVE SafeInv'
  BY <1>2, <1>4 DEF NixlRegister, SafeInv, TypeOK
<1>5. ASSUME NEW s \in Storages, Unlink(s) PROVE SafeInv'
  BY <1>2, <1>5 DEF Unlink, SafeInv
<1>6. ASSUME NEW s \in Storages, AsNixlDescriptor(s) PROVE SafeInv'
  BY <1>2, <1>6 DEF AsNixlDescriptor, SafeInv
<1>7. ASSUME NEW s \in Storages, NEW offset, NEW n, FromStorageWithOffset(s, offset, n) PROVE SafeInv'
  BY <1>2, <1>7 DEF FromStorageWithOffset, SafeInv
<1>8. ASSUME NEW s \in Storages, Release(s) PROVE SafeInv'
  BY <1>2, <1>8 DEF Release, SafeInv, TypeOK
<1>9. ASSUME NEW s \in Storages, Free(s) PROVE SafeInv'
  BY <1>2, <1>9 DEF Free, SafeInv, TypeOK
<1>10. ASSUME NEW s \in Storages, NEW t \in Storages, Transfer(s, t) PROVE SafeInv'
  BY <1>2, <1>10 DEF Transfer, SafeInv
<1>11. ASSUME NEW d, PeerWrite(d) PROVE SafeInv'
  BY <1>2, <1>11 DEF PeerWrite, SafeInv
<1>12. CASE UNCHANGED vars
  BY <1>2, <1>12 DEF vars, SafeInv
<1> QED
  BY <1>1, <1>3, <1>4, <1>5, <1>6, <1>7, <1>8, <1>9, <1>10, <1>11, <1>12 DEF Next

-----------------------------------------------------------------------------
\* What is left of sums of two numbers below Word.
LEMMA ModLow == ASSUME NEW a \in 0 .. Word - 1 PROVE a % Word = a
BY KvbmStorageAssumption

LEMMA ModHigh == ASSUME NEW a \in Word .. Word + Word - 1 PROVE a % Word = a - Word
<1>1. PICK q \in Int, r \in 0 .. Word - 1 : a = Word * q + r /\ q = a \div Word /\ r = a % Word
  BY KvbmStorageAssumption
<1> QED
  BY <1>1, KvbmStorageAssumption

\* Descriptors are made of allocated storages, which then stay where they are.
DescInv ==
  /\ desc # None => life[desc.owner] # "none"
  /\ DescriptorInside

\* The comparison of from_storage_with_offset, with the sum as usize has it.
LEMMA InsideOrWrapped ==
  ASSUME TypeOK, NEW s \in Storages, NEW o \in 0 .. Word - 1, NEW n \in 0 .. Word - 1,
         (o + n) % Word <= size[s]
  PROVE  IF o + n >= Word
         THEN (((base[s] + o) % Word) + n) % Word \in base[s] .. base[s] + size[s]
         ELSE (base[s] + o) % Word >= base[s] /\ ((base[s] + o) % Word) + n <= base[s] + size[s]
<1> DEFINE b == base[s]
           m == size[s]
<1>0. b \in Nat /\ m \in Nat /\ b + m < Word /\ Word \in Nat
  BY KvbmStorageAssumption DEF TypeOK
<1> HIDE DEF b, m
<1>1. CASE o + n < Word
  <2>1. o + n <= m
    BY <1>0, <1>1, ModLow DEF m
  <2>2. (b + o) % Word = b + o
    BY <1>0, <2>1, ModLow
  <2> QED
    BY <1>0, <1>1, <2>1, <2>2 DEF b, m
<1>2. CASE o + n >= Word
  <2>1. o + n - Word <= m
    BY <1>0, <1>2, ModHigh DEF m
  <2>2. CASE b + o < Word
    <3>1. (b + o) % Word = b + o
      BY <1>0, <2>2, ModLow
    <3>2. (b + o + n) % Word = b + o + n - Word
      BY <1>0, <1>2, <2>1, ModHigh
    <3> QED
      BY <1>0, <1>2, <2>1, <3>1, <3>2 DEF b, m
  <2>3. CASE b + o >= Word
    <3>1. (b + o) % Word = b + o - Word
      BY <1>0, <2>1, <2>3, ModHigh
    <3>2. (b + o - Word + n) % Word = b + o - Word + n
      BY <1>0, <1>2, <2>1, ModLow
    <3> QED
      BY <1>0, <1>2, <2>1, <3>1, <3>2 DEF b, m
  <2> QED
    BY <1>0, <2>2, <2>3
<1> QED
  BY <1>0, <1>1, <1>2

LEMMA DescStep == TypeOK /\ DescInv /\ [Next]_vars => DescInv'
<1> SUFFICES ASSUME TypeOK, DescInv, [Next]_vars PROVE DescInv'
  OBVIOUS
<1> USE KvbmStorageAssumption
<1>1. ASSUME NEW s \in Storages, NEW k, NEW b, NEW n, Allocate(s, k, b, n) PROVE DescInv'
  <2>1. /\ life[s] = "none" /\ desc' = desc
        /\ life' = [life EXCEPT ![s] = "live"]
        /\ base' = [base EXCEPT ![s] = b] /\ size' = [size EXCEPT ![s] = n]
    BY <1>1 DEF Allocate
  <2>2. desc # None => desc.owner # s /\ desc.owner \in Storages
    BY <2>1 DEF DescInv, TypeOK, Descriptors
  <2> QED
    BY <2>1, <2>2 DEF DescInv, DescriptorInside, TypeOK
<1>2. ASSUME UNCHANGED <<base, size, desc>>, \A s \in Storages : life[s] # "none" => life'[s] # "none"
      PROVE  DescInv'
  BY <1>2 DEF DescInv, DescriptorInside, TypeOK, Descriptors
<1>3. ASSUME NEW s \in Storages, NEW o \in 0 .. Word - 1, NEW n \in 0 .. Word - 1,
             life[s] = "live", (o + n) % Word <= size[s],
             desc' = Describe(s, o, n), UNCHANGED <<life, base, size>>
      PROVE  DescInv'
  <2>1. desc'.owner = s /\ desc'.addr = (base[s] + o) % Word /\ desc'.size = n
        /\ desc'.wrapped = (o + n >= Word)
    BY <1>3 DEF Describe
  <2>2. IF o + n >= Word
        THEN (((base[s] + o) % Word) + n) % Word \in base[s] .. base[s] + size[s]
        ELSE (base[s] + o) % Word >= base[s] /\ ((base[s] + o) % Word) + n <= base[s] + size[s]
    BY <1>3, InsideOrWrapped
  <2> QED
    BY <1>3, <2>1, <2>2 DEF DescInv, DescriptorInside
<1>4. ASSUME NEW s \in Storages, AsNixlDescriptor(s) PROVE DescInv'
  <2>1. size[s] \in 0 .. Word - 1 /\ 0 \in 0 .. Word - 1
    BY DEF TypeOK
  <2>2. (0 + size[s]) % Word <= size[s]
    BY <2>1, ModLow
  <2> QED
    BY <1>3, <1>4, <2>1, <2>2 DEF AsNixlDescriptor
<1>5. ASSUME NEW s \in Storages, NEW o \in 0 .. Word - 1, NEW n \in 0 .. Word - 1,
             FromStorageWithOffset(s, o, n)
      PROVE  DescInv'
  BY <1>3, <1>5 DEF FromStorageWithOffset
<1>6. ASSUME NEW s \in Storages, Fill(s) \/ NixlRegister(s) \/ Unlink(s) PROVE DescInv'
  BY <1>2, <1>6 DEF Fill, NixlRegister, Unlink
<1>7. ASSUME NEW s \in Storages, Release(s) \/ Free(s) PROVE DescInv'
  BY <1>2, <1>7 DEF Release, Free, TypeOK
<1>8. ASSUME NEW s \in Storages, NEW t \in Storages, Transfer(s, t) PROVE DescInv'
  BY <1>2, <1>8 DEF Transfer
<1>9. ASSUME NEW d, PeerWrite(d) PROVE DescInv'
  BY <1>2, <1>9 DEF PeerWrite
<1>10. CASE UNCHANGED vars
  BY <1>2, <1>10 DEF vars
<1> QED
  BY <1>1, <1>4, <1>5, <1>6, <1>7, <1>8, <1>9, <1>10 DEF Next

-----------------------------------------------------------------------------
IInv == TypeOK /\ SafeInv /\ DescInv

LEMMA Invariance == Spec => []IInv
<1>1. Init => IInv
  BY KvbmStorageAssumption DEF Init, IInv, TypeOK, SafeInv, DescInv, DescriptorInside, Occupies, Local, Memory, Host
<1>2. IInv /\ [Next]_vars => IInv'
  BY TypeStep, SafeStep, DescStep DEF IInv
<1> QED
  BY <1>1, <1>2, PTL DEF Spec

(* Every variable keeps its type. *)
THEOREM TypeCorrect == Spec => []TypeOK
BY Invariance, PTL DEF IInv

(* A descriptor lies within its storage, or its offset and size wrapped.    *)
THEOREM DescriptorsInside == Spec => []DescriptorInside
BY Invariance, PTL DEF IInv, DescInv

(* A peer with an old descriptor reaches an unregistered storage only where *)
(* a dropped one could not be deregistered.                                 *)
THEOREM StaleReach == Spec => []StaleReachExplained
<1>1. IInv => StaleReachExplained
  <2> SUFFICES ASSUME IInv, desc # None, Admitted(desc), NEW t \in Reached(desc), ~handle[t]
               PROVE  Haunted(t)
    BY DEF StaleReachExplained
  <2>1. PICK r \in Storages : region[r] /\ Named(desc) \subseteq CellsOf(r)
    BY DEF Admitted
  <2>2. t \in Storages /\ life[t] = "live" /\ CellsOf(r) \cap CellsOf(t) # {}
    BY <2>1 DEF Reached
  <2>3. r # t /\ life[r] # "none"
    BY <2>1, <2>2 DEF IInv, SafeInv
  <2>4. ~Occupies(r)
    BY <2>2, <2>3 DEF IInv, SafeInv, Occupies
  <2>5. life[r] = "gone"
    BY <2>3, <2>4 DEF IInv, TypeOK, Occupies
  <2> QED
    BY <2>1, <2>2, <2>5 DEF Haunted, IInv, SafeInv
<1> QED
  BY <1>1, Invariance, PTL

(* Every transfer leaves the destination with what the source holds.        *)
THEOREM TransfersDeliver == Spec => TransferDelivers
<1>1. IInv /\ [Next]_vars =>
        [\A s, t \in Storages : Transfer(s, t) => data'[t] = data[s] /\ data'[s] = data[s]]_vars
  <2> SUFFICES ASSUME IInv, NEW s \in Storages, NEW t \in Storages, Transfer(s, t)
               PROVE  data'[t] = data[s] /\ data'[s] = data[s]
    OBVIOUS
  <2>1. PICK x \in Strategies(kind[s], kind[t]) :
          data' = [data EXCEPT ![t] = IF Delivers(x, kind[s], kind[t]) THEN data[s] ELSE "torn"]
    BY DEF Transfer
  <2>2. kind[s] \in Local /\ kind[t] \in Local /\ kind[s] # "Nixl"
    BY DEF IInv, TypeOK, Local, Memory, Host
  <2>3. Delivers(x, kind[s], kind[t])
    BY <2>1, <2>2, StrategiesDeliver
  <2>4. s # t
    BY DEF Transfer
  <2> QED
    BY <2>1, <2>3, <2>4 DEF IInv, TypeOK
<1> QED
  BY <1>1, Invariance, PTL DEF Spec, TransferDelivers
=============================================================================
