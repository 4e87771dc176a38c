---------------------------- MODULE KvbmManager ----------------------------
(***************************************************************************)
(* Configuration of a block manager (runtime-kvbm-config.rs) and the       *)
(* resources made from it (runtime-kvbm-resources.rs): builders whose      *)
(* setters are called in any order and any number of times, and a          *)
(* constructor that creates an event manager, a NIXL agent with a backend  *)
(* and finds a runtime, each of which may be missing or fail.              *)
(***************************************************************************)
EXTENDS Integers

CONSTANT MaxCalls   \* setters called before build

ASSUME KvbmManagerAssumption == MaxCalls \in Nat

VARIABLES
  step,     \* configuring, refused, validate, events, agent, backend, runtime, up or failed
  calls,    \* setters called so far
  source,   \* KvManagerLayoutConfigBuilder: unset, none (Some(None)) or some, for each source of blocks
  nixl,     \* NixlOptions of the runtime config
  given,    \* the rest of KvBlockManagerConfig and of the process
  events,   \* the event manager: absent, null, dynamo or explicit
  agent,    \* the NIXL agent: absent, own or provided
  backend,  \* is there a GDS_MT backend?
  mishap    \* history: creating the consolidator failed

mvars == <<step, calls, source, nixl, given, events, agent, backend, mishap>>

Sources == {"storage", "allocator", "logical"}

\* goodModel: the ranges of KvManagerModelConfig hold.  disk: the layout is
\* the disk layout.  runtime: one is given, or current.
Givens == [goodModel: BOOLEAN, disk: BOOLEAN, explicitEvents: BOOLEAN, consolidator: BOOLEAN,
           plugin: BOOLEAN, runtime: BOOLEAN]

ManagerInit ==
  /\ step = "configuring"
  /\ calls = 0
  /\ source = [x \in Sources |-> "unset"]
  /\ nixl = "Enabled"
  /\ given \in Givens
  /\ events = "absent" /\ agent = "absent" /\ backend = FALSE /\ mishap = FALSE

Configuring == step = "configuring" /\ calls < MaxCalls /\ calls' = calls + 1

\* storage and logical take an Option, which the builder wraps in another;
\* the setter of the allocator takes the allocator itself.
SetSource(x) ==
  /\ Configuring
  /\ \E v \in {"none", "some"} :
        /\ x = "allocator" => v = "some"
        /\ source' = [source EXCEPT ![x] = v]
  /\ UNCHANGED <<step, nixl, given, events, agent, backend, mishap>>

\* enable_nixl, use_nixl_agent and disable_nixl overwrite each other.
SetNixl ==
  /\ Configuring
  /\ nixl' \in {"Enabled", "EnabledWithAgent", "Disabled"}
  /\ UNCHANGED <<step, source, given, events, agent, backend, mishap>>

\* Mutant: the sources are not exclusive.
AnyIsSet == \E x \in Sources : source[x] # "unset"

\* validate of the layout builder: exactly one field has been set.
OneIsSet == \E x \in Sources : source[x] # "unset" /\ \A y \in Sources \ {x} : source[y] = "unset"

Build ==
  /\ step = "configuring"
  /\ step' = IF OneIsSet THEN "validate" ELSE "refused"
  /\ UNCHANGED <<calls, source, nixl, given, events, agent, backend, mishap>>

(***************************************************************************)
(* Resources::new                                                          *)
(***************************************************************************)
ValidateModel ==
  /\ step = "validate"
  /\ step' = IF given.goodModel THEN "events" ELSE "failed"
  /\ UNCHANGED <<calls, source, nixl, given, events, agent, backend, mishap>>

\* A consolidator that cannot be created is replaced by the null manager.
ChooseEvents ==
  /\ step = "events" /\ step' = "agent"
  /\ \/ given.explicitEvents /\ events' = "explicit" /\ UNCHANGED mishap
     \/ /\ ~given.explicitEvents /\ given.consolidator
        /\ \/ events' = "dynamo" /\ UNCHANGED mishap
           \/ events' = "null" /\ mishap' = TRUE
     \/ ~given.explicitEvents /\ ~given.consolidator /\ events' = "null" /\ UNCHANGED mishap
  /\ UNCHANGED <<calls, source, nixl, given, agent, backend>>

CreateAgent ==
  /\ step = "agent"
  /\ CASE nixl = "Disabled" -> step' = "runtime" /\ UNCHANGED agent
       [] nixl = "EnabledWithAgent" -> step' = "runtime" /\ agent' = "provided"
       [] nixl = "Enabled" -> \/ step' = "backend" /\ agent' = "own"
                              \/ step' = "failed" /\ UNCHANGED agent
  /\ UNCHANGED <<calls, source, nixl, given, events, backend, mishap>>

\* Mutant: a backend that cannot be created is treated like a missing plugin.
CreateBackendOrNot ==
  /\ step = "backend" /\ step' = "runtime"
  /\ backend' \in {FALSE, given.disk /\ given.plugin}
  /\ UNCHANGED <<calls, source, nixl, given, events, agent, mishap>>

\* Only for a disk layout; a missing plugin is a warning, a failure an error.
CreateBackend ==
  /\ step = "backend"
  /\ \/ step' = "runtime" /\ backend' = (given.disk /\ given.plugin)
     \/ given.disk /\ given.plugin /\ step' = "failed" /\ UNCHANGED backend
  /\ UNCHANGED <<calls, source, nixl, given, events, agent, mishap>>

FindRuntime ==
  /\ step = "runtime"
  /\ step' = IF given.runtime THEN "up" ELSE "failed"
  /\ UNCHANGED <<calls, source, nixl, given, events, agent, backend, mishap>>

ManagerNext ==
  \/ \E x \in Sources : SetSource(x)
  \/ SetNixl \/ Build \/ ValidateModel \/ ChooseEvents \/ CreateAgent \/ CreateBackend \/ FindRuntime

-----------------------------------------------------------------------------
Actual == {x \in Sources : source[x] = "some"}

(* However often and in whatever order the setters are called, a layout that *)
(* is built takes its blocks from one source, and a layout with one source   *)
(* is built.  Both fail in one way only: a source that was set to None       *)
(* counts as chosen, so alone it passes for a source, and beside a real one  *)
(* it makes a good configuration look ambiguous.                             *)
OneSource ==
  /\ step \notin {"configuring", "refused"} /\ Actual = {} => \E x \in Sources : source[x] = "none"
  /\ \A x, y \in Actual : step \notin {"configuring", "refused"} => x = y
  /\ step = "refused" /\ (\E x \in Sources : Actual = {x}) => \E y \in Sources : source[y] = "none"

(* A manager that comes up without what its configuration asks for does so   *)
(* for one of the reasons the constructor tolerates: no events although a    *)
(* consolidator is configured, because it could not be created or another    *)
(* event manager was given; no GDS backend for a disk layout, because the    *)
(* plugin is missing or NIXL was left to the caller or to nobody by the last *)
(* setter called.                                                            *)
DegradedExplained ==
  step = "up" =>
    /\ given.consolidator /\ events # "dynamo" => mishap \/ given.explicitEvents
    /\ given.explicitEvents => events = "explicit"
    /\ given.disk /\ ~backend => ~given.plugin \/ nixl # "Enabled"
    /\ backend => agent = "own" /\ given.disk
    /\ (agent = "absent") = (nixl = "Disabled")
=============================================================================
