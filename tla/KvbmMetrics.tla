---------------------------- MODULE KvbmMetrics ----------------------------
(***************************************************************************)
(* KvbmMetrics (runtime-kvbm-metrics.rs): a value whose `new` registers    *)
(* its metrics in a registry and may start an HTTP server, which the last  *)
(* clone to be dropped is to stop through a Notify.  The Notify is shared  *)
(* by the clones and the server task, and "last" is read off its strong    *)
(* count, with nothing that keeps two drops apart.                         *)
(*                                                                         *)
(* A server is named after the value whose `new` started it.  All servers  *)
(* of the process are given the same port.  A name of the registry is a    *)
(* number: `new` registers 1 .. NumNames in this order.                    *)
(***************************************************************************)
EXTENDS Integers, FiniteSets

CONSTANTS
  Instances,   \* KvbmMetrics values, one for each `new` or clone
  Registries,  \* KvbmMetricsRegistry values
  NumNames,    \* number of metrics `new` registers
  None

ASSUME KvbmMetricsAssumption ==
  /\ IsFiniteSet(Instances)
  /\ NumNames \in Nat \ {0}
  /\ None \notin Instances /\ None \notin Registries

VARIABLES
  life,      \* where each value is between `new` or clone and its release
  registry,  \* the registry `new` was given
  next,      \* the metric `new` registers next
  owner,     \* for each registry and name, the value that registered it
  notify,    \* the server whose Notify the value shares
  server,    \* where the server task is
  ownRuntime,\* the server has a thread and runtime of its own
  hostUp,    \* the runtime that callers of `new` may run on
  overlapped,\* history: servers two of whose values were dropped at once
  early      \* history: servers that were notified before they waited

vars == <<life, registry, next, owner, notify, server, ownRuntime, hostUp, overlapped, early>>

Names == 1 .. NumNames
Lives == {"unborn", "registering", "panicked", "live", "notifying", "releasing", "gone"}
\* Lives in which the value holds its Arc of the Notify.
Holding == {"live", "notifying", "releasing"}
ServerStates == {"none", "starting", "bound", "waiting", "signalled", "stopped", "failed", "killed"}
\* Server states in which the task holds its Arc of the Notify.
TaskHolds == {"starting", "bound", "waiting"}
Listening == {"bound", "waiting", "signalled"}

Init ==
  /\ life = [i \in Instances |-> "unborn"]
  /\ registry = [i \in Instances |-> None]
  /\ next = [i \in Instances |-> 1]
  /\ owner = [r \in Registries |-> [n \in Names |-> None]]
  /\ notify = [i \in Instances |-> None]
  /\ server = [i \in Instances |-> "none"]
  /\ ownRuntime = [i \in Instances |-> FALSE]
  /\ hostUp = TRUE
  /\ overlapped = {}
  /\ early = {}

Holders(s) == {i \in Instances : notify[i] = s /\ life[i] \in Holding}

\* Mutant: the Arc of the server task is not counted.
StrongCountOfValues(s) == Cardinality(Holders(s))

\* Arc::strong_count of the Notify of server s.
StrongCount(s) == Cardinality(Holders(s)) + IF server[s] \in TaskHolds THEN 1 ELSE 0

(***************************************************************************)
(* new: registration                                                       *)
(***************************************************************************)
\* Mutant: the registry is not remembered.
NewDetached(i, r) ==
  /\ life[i] = "unborn" /\ r \in Registries
  /\ life' = [life EXCEPT ![i] = "registering"]
  /\ UNCHANGED <<registry, next, owner, notify, server, ownRuntime, hostUp, overlapped, early>>

New(i, r) ==
  /\ life[i] = "unborn"
  /\ life' = [life EXCEPT ![i] = "registering"]
  /\ registry' = [registry EXCEPT ![i] = r]
  /\ UNCHANGED <<next, owner, notify, server, ownRuntime, hostUp, overlapped, early>>

\* Registry::register refuses a name it has.
Taken(r, n) == owner[r][n] # None

\* Mutant: a name that is taken is skipped instead of unwrapped.
RegisterOrSkip(i) ==
  /\ life[i] = "registering" /\ next[i] \in Names
  /\ owner' = [owner EXCEPT ![registry[i]][next[i]] = IF @ = None THEN i ELSE @]
  /\ next' = [next EXCEPT ![i] = @ + 1]
  /\ UNCHANGED <<life, registry, notify, server, ownRuntime, hostUp, overlapped, early>>

\* create_intcounter or create_gauge, whose error `new` unwraps.
Register(i) ==
  /\ life[i] = "registering" /\ next[i] \in Names
  /\ IF ~Taken(registry[i], next[i])
     THEN /\ owner' = [owner EXCEPT ![registry[i]][next[i]] = i]
          /\ next' = [next EXCEPT ![i] = @ + 1]
          /\ UNCHANGED life
     ELSE /\ life' = [life EXCEPT ![i] = "panicked"]
          /\ UNCHANGED <<owner, next>>
  /\ UNCHANGED <<registry, notify, server, ownRuntime, hostUp, overlapped, early>>

(***************************************************************************)
(* new: the end, with and without an endpoint; clone                       *)
(***************************************************************************)
\* The early return: no endpoint, no Notify.
NewWithoutEndpoint(i) ==
  /\ life[i] = "registering" /\ next[i] \notin Names
  /\ life' = [life EXCEPT ![i] = "live"]
  /\ UNCHANGED <<registry, next, owner, notify, server, ownRuntime, hostUp, overlapped, early>>

\* The server goes to the runtime of the caller if it has one.
NewWithEndpoint(i) ==
  /\ life[i] = "registering" /\ next[i] \notin Names
  /\ life' = [life EXCEPT ![i] = "live"]
  /\ notify' = [notify EXCEPT ![i] = i]
  /\ server' = [server EXCEPT ![i] = "starting"]
  /\ \E own \in BOOLEAN :
        /\ own \/ hostUp
        /\ ownRuntime' = [ownRuntime EXCEPT ![i] = own]
  /\ UNCHANGED <<registry, next, owner, hostUp, overlapped, early>>

Clone(i, j) ==
  /\ life[i] = "live" /\ life[j] = "unborn"
  /\ life' = [life EXCEPT ![j] = "live"]
  /\ notify' = [notify EXCEPT ![j] = notify[i]]
  /\ UNCHANGED <<registry, next, owner, server, ownRuntime, hostUp, overlapped, early>>

(***************************************************************************)
(* The server task                                                         *)
(***************************************************************************)
Bind(s) ==
  /\ server[s] = "starting"
  /\ \A t \in Instances : server[t] \notin Listening
  /\ server' = [server EXCEPT ![s] = "bound"]
  /\ UNCHANGED <<life, registry, next, owner, notify, ownRuntime, hostUp, overlapped, early>>

\* The port is taken, here or by another process: the task panics.
BindFails(s) ==
  /\ server[s] = "starting"
  /\ server' = [server EXCEPT ![s] = "failed"]
  /\ UNCHANGED <<life, registry, next, owner, notify, ownRuntime, hostUp, overlapped, early>>

\* axum::serve polls the shutdown future, which only now calls notified().
AwaitNotified(s) ==
  /\ server[s] = "bound"
  /\ server' = [server EXCEPT ![s] = "waiting"]
  /\ UNCHANGED <<life, registry, next, owner, notify, ownRuntime, hostUp, overlapped, early>>

\* The graceful shutdown closes the listener.
Stop(s) ==
  /\ server[s] = "signalled"
  /\ server' = [server EXCEPT ![s] = "stopped"]
  /\ UNCHANGED <<life, registry, next, owner, notify, ownRuntime, hostUp, overlapped, early>>

\* The runtime of the callers ends and takes the tasks on it along.
HostShutdown ==
  /\ hostUp
  /\ hostUp' = FALSE
  /\ server' = [s \in Instances |->
                  IF server[s] \in TaskHolds \cup Listening /\ ~ownRuntime[s] THEN "killed" ELSE server[s]]
  /\ UNCHANGED <<life, registry, next, owner, notify, ownRuntime, overlapped, early>>

(***************************************************************************)
(* drop: the count is read, the waiters may be notified, and only then is  *)
(* the Arc of the value released.                                          *)
(***************************************************************************)
Overlapping(i) == \E j \in Instances \ {i} : notify[j] = notify[i] /\ life[j] \in {"notifying", "releasing"}

\* Mutant: the count of the last value is off by one.
DropAtThree(i) ==
  /\ life[i] = "live"
  /\ life' = [life EXCEPT ![i] =
                IF notify[i] # None /\ StrongCount(notify[i]) = 3 THEN "notifying" ELSE "releasing"]
  /\ overlapped' = IF notify[i] # None /\ Overlapping(i) THEN overlapped \cup {notify[i]} ELSE overlapped
  /\ UNCHANGED <<registry, next, owner, notify, server, ownRuntime, hostUp, early>>

Drop(i) ==
  /\ life[i] = "live"
  /\ life' = [life EXCEPT ![i] =
                IF notify[i] # None /\ StrongCount(notify[i]) = 2 THEN "notifying" ELSE "releasing"]
  /\ overlapped' = IF notify[i] # None /\ Overlapping(i) THEN overlapped \cup {notify[i]} ELSE overlapped
  /\ UNCHANGED <<registry, next, owner, notify, server, ownRuntime, hostUp, early>>

\* notify_waiters reaches a future that exists and stores nothing for others.
Notify(i) ==
  /\ life[i] = "notifying"
  /\ life' = [life EXCEPT ![i] = "releasing"]
  /\ server' = [server EXCEPT ![notify[i]] = IF @ = "waiting" THEN "signalled" ELSE @]
  /\ early' = IF server[notify[i]] \in {"starting", "bound"} THEN early \cup {notify[i]} ELSE early
  /\ UNCHANGED <<registry, next, owner, notify, ownRuntime, hostUp, overlapped>>

Release(i) ==
  /\ life[i] = "releasing"
  /\ life' = [life EXCEPT ![i] = "gone"]
  /\ UNCHANGED <<registry, next, owner, notify, server, ownRuntime, hostUp, overlapped, early>>

Next ==
  \/ \E i \in Instances, r \in Registries : New(i, r)
  \/ \E i, j \in Instances : Clone(i, j)
  \/ \E i \in Instances :
        \/ Register(i) \/ NewWithoutEndpoint(i) \/ NewWithEndpoint(i)
        \/ Bind(i) \/ BindFails(i) \/ AwaitNotified(i) \/ Stop(i)
        \/ Drop(i) \/ Notify(i) \/ Release(i)
  \/ HostShutdown

\* Threads inside drop and server tasks keep running; nobody has to call new,
\* clone or drop, and the runtime of the callers need not end.
Fairness ==
  \A i \in Instances :
    /\ WF_vars(Bind(i) \/ BindFails(i)) /\ WF_vars(AwaitNotified(i)) /\ WF_vars(Stop(i))
    /\ WF_vars(Notify(i)) /\ WF_vars(Release(i))

Spec == Init /\ [][Next]_vars /\ Fairness

-----------------------------------------------------------------------------
(* Every variable has its type. *)
TypeOK ==
  /\ life \in [Instances -> Lives]
  /\ registry \in [Instances -> Registries \cup {None}]
  /\ next \in [Instances -> 1 .. NumNames + 1]
  /\ owner \in [Registries -> [Names -> Instances \cup {None}]]
  /\ notify \in [Instances -> Instances \cup {None}]
  /\ server \in [Instances -> ServerStates]
  /\ ownRuntime \in [Instances -> BOOLEAN]
  /\ hostUp \in BOOLEAN
  /\ overlapped \subseteq Instances /\ early \subseteq Instances
  /\ \A i \in Instances :
        /\ life[i] = "registering" => registry[i] \in Registries
        /\ life[i] = "notifying" => notify[i] \in Instances

(* Two calls of `new` on one registry, however their registrations          *)
(* interleave, never end up with a part each: a value that `new` returned   *)
(* owns every metric of its registry, and no registry is left split or with *)
(* a gap by a call that panicked.                                           *)
WholeRegistry ==
  /\ \A r \in Registries : \A m, n \in Names :
        m < n /\ owner[r][n] # None => owner[r][m] = owner[r][n]
  /\ \A i \in Instances :
        registry[i] # None /\ life[i] \in Holding => \A n \in Names : owner[registry[i]][n] = i

(* A server is never told to stop while a value that shares it is in use:   *)
(* a strong count of 2 really means the last value, whatever clones, drops  *)
(* and failures of servers come between reading the count and notifying.    *)
NotBeforeLast ==
  \A s, i \in Instances :
    server[s] \in {"signalled", "stopped"} /\ notify[i] = s => life[i] \in {"releasing", "gone"}

\* No value of server s is left, and nothing kept the last one from being
\* noticed: no two drops at once, no notification before the server waited.
LastNoticed(s) ==
  /\ server[s] # "none" /\ Holders(s) = {}
  /\ s \notin overlapped \cup early

(* What StopsAfterLast rests on: the last value of a server that runs is    *)
(* never taken for one of several, so the server was told to stop unless it *)
(* failed or was killed.                                                    *)
LastIsNotMissed ==
  \A s \in Instances : LastNoticed(s) => server[s] \notin TaskHolds

(* Once its values are gone a server gives its port back, unless two of     *)
(* them were dropped at the same time (both read a count of 3) or the last  *)
(* one was dropped before the server waited: those are the only two ways in *)
(* which the port stays taken.                                              *)
StopsAfterLast ==
  \A s \in Instances : LastNoticed(s) ~> server[s] \in {"stopped", "failed", "killed"}
=============================================================================
