--------------------------- MODULE LeaderBarrier ---------------------------
(***************************************************************************)
(* What the KVBM handshake promises, without messages, handlers or tasks:  *)
(* every worker becomes able to serve on its own or fails for good, the    *)
(* leader comes up once when all of them are able, and from then on every  *)
(* transfer is served.  KvbmWorker implements this.                        *)
(***************************************************************************)
CONSTANT Workers

VARIABLES
  up,       \* has the leader come up?
  worker,   \* "idle", "serving" or "failed"
  answers   \* what the transfer requests of each worker ended in

vars == <<up, worker, answers>>

Init ==
  /\ up = FALSE
  /\ worker = [w \in Workers |-> "idle"]
  /\ answers = [w \in Workers |-> {}]

\* A worker has published its transfer handler.
Serve(w) ==
  /\ worker[w] = "idle"
  /\ worker' = [worker EXCEPT ![w] = "serving"]
  /\ UNCHANGED <<up, answers>>

\* A worker could not allocate its blocks.
Fail(w) ==
  /\ worker[w] = "idle"
  /\ worker' = [worker EXCEPT ![w] = "failed"]
  /\ UNCHANGED <<up, answers>>

ComeUp ==
  /\ ~up
  /\ \A w \in Workers : worker[w] = "serving"
  /\ up' = TRUE
  /\ UNCHANGED <<worker, answers>>

Transfer(w) ==
  /\ up
  /\ answers' = [answers EXCEPT ![w] = @ \cup {"served"}]
  /\ UNCHANGED <<up, worker>>

Next == ComeUp \/ \E w \in Workers : Serve(w) \/ Fail(w) \/ Transfer(w)

Spec == Init /\ [][Next]_vars
=============================================================================
