------------------------- MODULE KvbmMetricsProofs -------------------------
(***************************************************************************)
(* The safety of KvbmMetrics for every finite set of values, every set of  *)
(* registries and every number of metrics.                                 *)
(*                                                                         *)
(* WholeRegistry rests on RegInv: the names a value has registered are     *)
(* exactly those below its `next`, and no other value is past the first    *)
(* name of the same registry.  NotBeforeLast rests on CountInv: a value    *)
(* that read a count of 2 while the server held its Arc is the only holder *)
(* left, and stays it, because a clone needs another live value.           *)
(* LastIsNotMissed rests on HeldInv: a value that read a higher count left *)
(* another value behind.                                                   *)
(***************************************************************************)
EXTENDS KvbmMetrics, FiniteSetTheorems, TLAPS

\* A value between reading 2 and notifying is the only one left to a server
\* that runs, and a server that was told to stop has no value left in use.
CountInv ==
  /\ \A i, j \in Instances :
        /\ life[i] = "notifying" /\ server[notify[i]] \in TaskHolds
        /\ notify[j] = notify[i] /\ life[j] \in Holding
        => j = i
  /\ NotBeforeLast
  \* Only `new` gives a server its first value.
  /\ \A i, s \in Instances : notify[i] = s => server[s] # "none"
  /\ \A i \in Instances : life[i] \in {"unborn", "registering", "panicked"} => notify[i] = None
  /\ \A s \in Instances : life[s] \in {"unborn", "registering"} => server[s] = "none"

\* A running server has a value that is in use or about to notify it, unless two
\* values were dropped at once or it was notified before it waited.
HeldInv ==
  \A s \in Instances : server[s] \in TaskHolds /\ s \notin overlapped \cup early =>
    \E i \in Instances : notify[i] = s /\ life[i] \in {"live", "notifying"}

\* Who registers in a registry has all its names so far, and alone.
RegInv ==
  /\ \A r \in Registries : \A n \in Names :
        owner[r][n] # None => registry[owner[r][n]] = r /\ n < next[owner[r][n]]
  /\ \A i \in Instances : registry[i] # None =>
        /\ registry[i] \in Registries
        /\ \A n \in Names : n < next[i] => owner[registry[i]][n] = i
  /\ \A i \in Instances :
        registry[i] # None /\ life[i] \in Holding => next[i] = NumNames + 1
  /\ \A i \in Instances : registry[i] = None => next[i] = 1
  /\ \A i \in Instances : life[i] = "unborn" => registry[i] = None

\* An element that is there when the cardinality is 1 is the only one.
LEMMA OnlyHolder ==
  ASSUME NEW S, IsFiniteSet(S), NEW i \in S, Cardinality(S) = 1
  PROVE  S = {i}
BY FS_Singleton

LEMMA HoldersFinite ==
  ASSUME NEW s
  PROVE  IsFiniteSet(Holders(s)) /\ Cardinality(Holders(s)) \in Nat
<1>1. Holders(s) \in SUBSET Instances
  BY DEF Holders
<1>2. IsFiniteSet(Holders(s))
  BY <1>1, KvbmMetricsAssumption, FS_Subset
<1> QED
  BY <1>2, FS_CardinalityType

-----------------------------------------------------------------------------
LEMMA TypeStep == TypeOK /\ [Next]_vars => TypeOK'
<1> SUFFICES ASSUME TypeOK, [Next]_vars PROVE TypeOK'
  OBVIOUS
<1> USE KvbmMetricsAssumption DEF TypeOK, Lives, ServerStates, Names
<1>1. ASSUME NEW i \in Instances, NEW r \in Registries, New(i, r) PROVE TypeOK'
  BY <1>1 DEF New
<1>2. ASSUME NEW i \in Instances, NEW j \in Instances, Clone(i, j) PROVE TypeOK'
  BY <1>2 DEF Clone
<1>3. ASSUME NEW i \in Instances, Register(i) PROVE TypeOK'
  <2>1. registry[i] \in Registries
    BY <1>3 DEF Register, Taken
  <2>2. CASE owner[registry[i]][next[i]] = None
    <3>1. owner' = [owner EXCEPT ![registry[i]] = [owner[registry[i]] EXCEPT ![next[i]] = i]]
      BY <1>3, <2>2 DEF Register, Taken
    <3>2. owner' \in [Registries -> [Names -> Instances \cup {None}]]
      BY <3>1, <2>1
    <3>3. /\ next' = [next EXCEPT ![i] = @ + 1] /\ next[i] \in 1 .. NumNames
          /\ UNCHANGED <<life, registry, notify, server, ownRuntime, hostUp, overlapped, early>>
      BY <1>3, <2>2 DEF Register, Taken
    <3>4. next' \in [Instances -> 1 .. NumNames + 1]
      BY <3>3
    <3> QED
      BY <3>2, <3>3, <3>4
  <2>3. CASE owner[registry[i]][next[i]] # None
    BY <1>3, <2>3 DEF Register, Taken
  <2> QED
    BY <2>2, <2>3
<1>4. ASSUME NEW i \in Instances, NewWithoutEndpoint(i) PROVE TypeOK'
  BY <1>4 DEF NewWithoutEndpoint
<1>5. ASSUME NEW i \in Instances, NewWithEndpoint(i) PROVE TypeOK'
  BY <1>5 DEF NewWithEndpoint
<1>6. ASSUME NEW i \in Instances, Bind(i) \/ BindFails(i) \/ AwaitNotified(i) \/ Stop(i) PROVE TypeOK'
  <2>1. CASE Bind(i)
    BY <2>1 DEF Bind
  <2>2. CASE BindFails(i)
    BY <2>2 DEF BindFails
  <2>3. CASE AwaitNotified(i)
    BY <2>3 DEF AwaitNotified
  <2>4. CASE Stop(i)
    BY <2>4 DEF Stop
  <2> QED
    BY <1>6, <2>1, <2>2, <2>3, <2>4
<1>7. ASSUME NEW i \in Instances, Drop(i) PROVE TypeOK'
  BY <1>7 DEF Drop
<1>8. ASSUME NEW i \in Instances, Notify(i) PROVE TypeOK'
  BY <1>8 DEF Notify
<1>9. ASSUME NEW i \in Instances, Release(i) PROVE TypeOK'
  BY <1>9 DEF Release
<1>10. CASE HostShutdown
  BY <1>10 DEF HostShutdown
<1>11. CASE UNCHANGED vars
  BY <1>11 DEF vars
<1> QED
  BY <1>1, <1>2, <1>3, <1>4, <1>5, <1>6, <1>7, <1>8, <1>9, <1>10, <1>11 DEF Next

-----------------------------------------------------------------------------
LEMMA RegStep == TypeOK /\ RegInv /\ [Next]_vars => RegInv'
<1> SUFFICES ASSUME TypeOK, RegInv, [Next]_vars PROVE RegInv'
  OBVIOUS
<1> USE KvbmMetricsAssumption DEF TypeOK, RegInv, Names, Lives, Holding
<1>1. ASSUME NEW i \in Instances, NEW r \in Registries, New(i, r) PROVE RegInv'
  BY <1>1 DEF New
<1>2. ASSUME NEW i \in Instances, NEW j \in Instances, Clone(i, j) PROVE RegInv'
  BY <1>2 DEF Clone
<1>3. ASSUME NEW i \in Instances, Register(i) PROVE RegInv'
  <2> DEFINE r == registry[i]
             k == next[i]
  <2>1. r \in Registries /\ k \in Names
    BY <1>3 DEF Register, Taken
  <2>2. CASE owner[r][k] = None
    <3>1. /\ owner' = [owner EXCEPT ![r] = [owner[r] EXCEPT ![k] = i]]
          /\ next' = [next EXCEPT ![i] = k + 1]
          /\ UNCHANGED <<life, registry>>
          /\ life[i] = "registering"
      BY <1>3, <2>2 DEF Register, Taken
    <3>2. ASSUME NEW q \in Registries, NEW n \in Names
          PROVE  owner'[q][n] = IF q = r /\ n = k THEN i ELSE owner[q][n]
      BY <3>1, <2>1
    <3>3. ASSUME NEW j \in Instances
          PROVE  next'[j] = IF j = i THEN k + 1 ELSE next[j]
      BY <3>1
    <3>4. ASSUME NEW q \in Registries, NEW n \in Names, owner'[q][n] # None
          PROVE  registry'[owner'[q][n]] = q /\ n < next'[owner'[q][n]]
      <4>1. CASE q = r /\ n = k
        BY <3>1, <3>2, <3>3, <4>1, <2>1
      <4>2. CASE ~(q = r /\ n = k)
        <5>1. owner'[q][n] = owner[q][n] /\ owner[q][n] \in Instances
          BY <3>2, <3>4, <4>2
        <5> QED
          BY <5>1, <3>1, <3>3, <3>4
      <4> QED
        BY <4>1, <4>2
    <3>5. ASSUME NEW j \in Instances, registry'[j] # None, NEW n \in Names, n < next'[j]
          PROVE  owner'[registry'[j]][n] = j
      <4>1. CASE j = i
        BY <3>1, <3>2, <3>3, <3>5, <4>1, <2>1
      <4>2. CASE j # i
        <5>1. registry[j] \in Registries /\ owner[registry[j]][n] = j
          BY <3>1, <3>3, <3>5, <4>2
        <5>2. ~(registry[j] = r /\ n = k)
          BY <5>1, <2>2
        <5> QED
          BY <5>1, <5>2, <3>1, <3>2
      <4> QED
        BY <4>1, <4>2
    <3> QED
      BY <3>1, <3>3, <3>4, <3>5, <2>1
  <2>3. CASE owner[r][k] # None
    BY <1>3, <2>3 DEF Register, Taken
  <2> QED
    BY <2>2, <2>3
<1>4. ASSUME NEW i \in Instances, NewWithoutEndpoint(i) PROVE RegInv'
  BY <1>4 DEF NewWithoutEndpoint
<1>5. ASSUME NEW i \in Instances, NewWithEndpoint(i) PROVE RegInv'
  BY <1>5 DEF NewWithEndpoint
<1>6. ASSUME NEW i \in Instances, Bind(i) \/ BindFails(i) \/ AwaitNotified(i) \/ Stop(i) PROVE RegInv'
  BY <1>6 DEF Bind, BindFails, AwaitNotified, Stop
<1>7. ASSUME NEW i \in Instances, Drop(i) PROVE RegInv'
  BY <1>7 DEF Drop
<1>8. ASSUME NEW i \in Instances, Notify(i) PROVE RegInv'
  BY <1>8 DEF Notify
<1>9. ASSUME NEW i \in Instances, Release(i) PROVE RegInv'
  BY <1>9 DEF Release
<1>10. CASE HostShutdown
  BY <1>10 DEF HostShutdown
<1>11. CASE UNCHANGED vars
  BY <1>11 DEF vars
<1> QED
  BY <1>1, <1>2, <1>3, <1>4, <1>5, <1>6, <1>7, <1>8, <1>9, <1>10, <1>11 DEF Next

\* A count of 2 beside a server that runs leaves the reader as only holder.
LEMMA LastOfTwo ==
  ASSUME TypeOK, NEW i \in Instances, life[i] \in Holding, notify[i] \in Instances,
         server[notify[i]] \in TaskHolds, StrongCount(notify[i]) = 2
  PROVE  Holders(notify[i]) = {i}
<1>1. i \in Holders(notify[i])
  BY DEF Holders
<1>2. Cardinality(Holders(notify[i])) = 1
  BY HoldersFinite DEF StrongCount
<1> QED
  BY <1>1, <1>2, HoldersFinite, OnlyHolder

LEMMA CountStep == TypeOK /\ CountInv /\ [Next]_vars => CountInv'
<1> SUFFICES ASSUME TypeOK, CountInv, [Next]_vars PROVE CountInv'
  OBVIOUS
<1> USE KvbmMetricsAssumption DEF TypeOK, CountInv, NotBeforeLast, Lives, ServerStates, Holding, TaskHolds
<1>1. ASSUME NEW i \in Instances, NEW r \in Registries, New(i, r) PROVE CountInv'
  BY <1>1 DEF New
<1>2. ASSUME NEW i \in Instances, NEW j \in Instances, Clone(i, j) PROVE CountInv'
  BY <1>2 DEF Clone
<1>3. ASSUME NEW i \in Instances, Register(i) PROVE CountInv'
  BY <1>3 DEF Register, Taken
<1>4. ASSUME NEW i \in Instances, NewWithoutEndpoint(i) PROVE CountInv'
  BY <1>4 DEF NewWithoutEndpoint
<1>5. ASSUME NEW i \in Instances, NewWithEndpoint(i) PROVE CountInv'
  BY <1>5 DEF NewWithEndpoint
<1>6. ASSUME NEW i \in Instances, Bind(i) \/ BindFails(i) \/ AwaitNotified(i) \/ Stop(i) PROVE CountInv'
  BY <1>6 DEF Bind, BindFails, AwaitNotified, Stop
<1>7. ASSUME NEW i \in Instances, Drop(i) PROVE CountInv'
  <2>1. ASSUME notify[i] \in Instances, server[notify[i]] \in TaskHolds, life'[i] = "notifying"
        PROVE  \A j \in Instances : notify[j] = notify[i] /\ life[j] \in Holding => j = i
    <3>1. life[i] = "live" /\ StrongCount(notify[i]) = 2
      BY <1>7, <2>1 DEF Drop
    <3>2. Holders(notify[i]) = {i}
      BY <2>1, <3>1, LastOfTwo
    <3> QED
      BY <3>2 DEF Holders
  <2>2. /\ life[i] = "live"
        /\ life' = [life EXCEPT ![i] = life'[i]]
        /\ life'[i] \in {"notifying", "releasing"}
        /\ life'[i] = "notifying" => notify[i] # None
        /\ UNCHANGED <<notify, server>>
    BY <1>7 DEF Drop
  <2> QED
    BY <2>1, <2>2
<1>8. ASSUME NEW i \in Instances, Notify(i) PROVE CountInv'
  <2>1. /\ life[i] = "notifying" /\ notify[i] \in Instances
        /\ life' = [life EXCEPT ![i] = "releasing"]
        /\ server' = [server EXCEPT ![notify[i]] = IF @ = "waiting" THEN "signalled" ELSE @]
        /\ UNCHANGED notify
    BY <1>8 DEF Notify
  <2>2. NotBeforeLast'
    <3> SUFFICES ASSUME NEW s \in Instances, NEW j \in Instances,
                        server'[s] \in {"signalled", "stopped"}, notify[j] = s
                 PROVE  life'[j] \in {"releasing", "gone"}
      BY <2>1
    <3>1. CASE s = notify[i] /\ server[s] = "waiting"
      <4>1. life[j] \in Holding => j = i
        BY <2>1, <3>1
      <4>2. life[j] \notin {"unborn", "registering", "panicked"}
        OBVIOUS
      <4> QED
        BY <2>1, <4>1, <4>2
    <3>2. CASE ~(s = notify[i] /\ server[s] = "waiting")
      BY <2>1, <3>2
    <3> QED
      BY <3>1, <3>2
  <2> QED
    BY <2>1, <2>2
<1>9. ASSUME NEW i \in Instances, Release(i) PROVE CountInv'
  BY <1>9 DEF Release
<1>10. CASE HostShutdown
  BY <1>10 DEF HostShutdown, Listening
<1>11. CASE UNCHANGED vars
  BY <1>11 DEF vars
<1> QED
  BY <1>1, <1>2, <1>3, <1>4, <1>5, <1>6, <1>7, <1>8, <1>9, <1>10, <1>11 DEF Next

\* A count other than 2 beside a server that runs means another holder.
LEMMA AnotherHolder ==
  ASSUME TypeOK, NEW i \in Instances, life[i] \in Holding, notify[i] \in Instances,
         server[notify[i]] \in TaskHolds, StrongCount(notify[i]) # 2
  PROVE  \E j \in Instances \ {i} : notify[j] = notify[i] /\ life[j] \in Holding
<1>1. Cardinality(Holders(notify[i])) # 1
  BY HoldersFinite DEF StrongCount
<1>2. Holders(notify[i]) # {i}
  BY <1>1, FS_Singleton
<1> QED
  BY <1>2 DEF Holders

LEMMA HeldStep == TypeOK /\ CountInv /\ HeldInv /\ [Next]_vars => HeldInv'
<1> SUFFICES ASSUME TypeOK, CountInv, HeldInv, [Next]_vars PROVE HeldInv'
  OBVIOUS
<1> USE KvbmMetricsAssumption DEF TypeOK, HeldInv, Lives, ServerStates, TaskHolds
<1>1. ASSUME NEW i \in Instances, NEW r \in Registries, New(i, r) PROVE HeldInv'
  BY <1>1 DEF New
<1>2. ASSUME NEW i \in Instances, NEW j \in Instances, Clone(i, j) PROVE HeldInv'
  <2> SUFFICES ASSUME NEW s \in Instances, server[s] \in TaskHolds, s \notin overlapped \cup early
               PROVE  \E k \in Instances : notify'[k] = s /\ life'[k] \in {"live", "notifying"}
    BY <1>2 DEF Clone
  <2>1. PICK k \in Instances : notify[k] = s /\ life[k] \in {"live", "notifying"}
    OBVIOUS
  <2> QED
    BY <1>2, <2>1 DEF Clone
<1>3. ASSUME NEW i \in Instances, Register(i) PROVE HeldInv'
  BY <1>3 DEF Register, Taken
<1>4. ASSUME NEW i \in Instances, NewWithoutEndpoint(i) PROVE HeldInv'
  BY <1>4 DEF NewWithoutEndpoint
<1>5. ASSUME NEW i \in Instances, NewWithEndpoint(i) PROVE HeldInv'
  BY <1>5 DEF NewWithEndpoint
<1>6. ASSUME NEW i \in Instances, Bind(i) \/ BindFails(i) \/ AwaitNotified(i) \/ Stop(i) PROVE HeldInv'
  BY <1>6 DEF Bind, BindFails, AwaitNotified, Stop
<1>7. ASSUME NEW i \in Instances, Drop(i) PROVE HeldInv'
  <2> SUFFICES ASSUME NEW s \in Instances, server[s] \in TaskHolds, s \notin overlapped' \cup early
               PROVE  \E k \in Instances : notify[k] = s /\ life'[k] \in {"live", "notifying"}
    BY <1>7 DEF Drop
  <2>1. life[i] = "live" /\ life'[i] \in {"notifying", "releasing"}
    BY <1>7 DEF Drop
  <2>2. ASSUME NEW k \in Instances, k # i PROVE life'[k] = life[k]
    BY <1>7, <2>2 DEF Drop
  <2>3. s \notin overlapped
    BY <1>7 DEF Drop
  <2>4. PICK k \in Instances : notify[k] = s /\ life[k] \in {"live", "notifying"}
    BY <2>3
  <2>5. CASE k # i
    BY <2>2, <2>4, <2>5
  <2>6. CASE k = i /\ StrongCount(s) = 2
    BY <1>7, <2>1, <2>4, <2>6 DEF Drop
  <2>7. CASE k = i /\ StrongCount(s) # 2
    <3>1. PICK j \in Instances \ {i} : notify[j] = s /\ life[j] \in Holding
      BY <2>1, <2>4, <2>7, AnotherHolder DEF Holding
    <3>2. ~Overlapping(i)
      BY <1>7, <2>4, <2>7 DEF Drop
    <3>3. life[j] = "live"
      BY <2>4, <2>7, <3>1, <3>2 DEF Overlapping, Holding
    <3> QED
      BY <2>2, <3>1, <3>3
  <2> QED
    BY <2>5, <2>6, <2>7
<1>8. ASSUME NEW i \in Instances, Notify(i) PROVE HeldInv'
  <2> SUFFICES ASSUME NEW s \in Instances, server'[s] \in TaskHolds, s \notin overlapped \cup early'
               PROVE  \E k \in Instances : notify[k] = s /\ life'[k] \in {"live", "notifying"}
    BY <1>8 DEF Notify
  <2>1. server[s] \in TaskHolds /\ s \notin early
    BY <1>8 DEF Notify
  <2>2. PICK k \in Instances : notify[k] = s /\ life[k] \in {"live", "notifying"}
    BY <2>1
  <2>3. notify[i] # s
    BY <1>8, <2>1 DEF Notify
  <2> QED
    BY <1>8, <2>2, <2>3 DEF Notify
<1>9. ASSUME NEW i \in Instances, Release(i) PROVE HeldInv'
  BY <1>9 DEF Release
<1>10. CASE HostShutdown
  BY <1>10 DEF HostShutdown, Listening
<1>11. CASE UNCHANGED vars
  BY <1>11 DEF vars
<1> QED
  BY <1>1, <1>2, <1>3, <1>4, <1>5, <1>6, <1>7, <1>8, <1>9, <1>10, <1>11 DEF Next
-----------------------------------------------------------------------------
IInv == TypeOK /\ RegInv /\ CountInv /\ HeldInv

LEMMA Invariance == Spec => []IInv
<1>1. Init => IInv
  BY KvbmMetricsAssumption
  DEF Init, IInv, TypeOK, RegInv, CountInv, HeldInv, NotBeforeLast, Names, Lives, ServerStates,
      Holding, TaskHolds
<1>2. IInv /\ [Next]_vars => IInv'
  BY TypeStep, RegStep, CountStep, HeldStep DEF IInv
<1> QED
  BY <1>1, <1>2, PTL DEF Spec

(* Every variable keeps its type. *)
THEOREM TypeCorrect == Spec => []TypeOK
BY Invariance, PTL DEF IInv

(* No interleaving of `new` splits a registry, however many metrics there   *)
(* are, and a value in use owns all metrics of its registry.                *)
THEOREM RegistryWhole == Spec => []WholeRegistry
<1>1. IInv => WholeRegistry
  <2> SUFFICES ASSUME IInv PROVE WholeRegistry
    OBVIOUS
  <2> USE KvbmMetricsAssumption DEF IInv, TypeOK, RegInv, Names
  <2>1. ASSUME NEW r \in Registries, NEW m \in Names, NEW n \in Names, m < n, owner[r][n] # None
        PROVE  owner[r][n] = owner[r][m]
    <3>1. owner[r][n] \in Instances /\ registry[owner[r][n]] = r /\ n < next[owner[r][n]]
      BY <2>1
    <3>2. m < next[owner[r][n]]
      BY <2>1, <3>1
    <3> QED
      BY <3>1, <3>2
  <2>2. ASSUME NEW i \in Instances, registry[i] # None, life[i] \in Holding, NEW n \in Names
        PROVE  owner[registry[i]][n] = i
    BY <2>2
  <2> QED
    BY <2>1, <2>2 DEF WholeRegistry
<1> QED
  BY <1>1, Invariance, PTL

(* No server is told to stop while a value that shares it is in use.        *)
THEOREM OnlyLastStops == Spec => []NotBeforeLast
<1>1. IInv => NotBeforeLast
  BY DEF IInv, CountInv
<1> QED
  BY <1>1, Invariance, PTL

(* A server whose values are all gone was told to stop, failed or was       *)
(* killed, but for the two ways in which its last value goes unnoticed.     *)
THEOREM LastNotMissed == Spec => []LastIsNotMissed
<1>1. IInv => LastIsNotMissed
  BY DEF IInv, HeldInv, LastIsNotMissed, LastNoticed, Holders, Holding
<1> QED
  BY <1>1, Invariance, PTL
=============================================================================
