--------------------------- MODULE SupervisorProps --------------------------
(***************************************************************************)
(* What makes the supervisor of pkg/worker correct.                        *)
(***************************************************************************)
EXTENDS Supervisor

Fates == {"idle", "running", "completed", "cancelled", "failed", "requested",
          "abandoned", "dropped", "denied", "stopped"}
Stamps == [by : Goroutines, at : Nat]

(* The shape of the state of Supervisor and its handleRestarts.            *)
TypeOK ==
  /\ workers \subseteq Workers /\ toStart \subseteq workers
  /\ start \in {"idle", "spawning", "done"}
  /\ stop \in {"idle", "waiting", "done"}
  /\ ctxDone \in BOOLEAN
  /\ wg \in Int
  /\ Live \subseteq Goroutines
  /\ pc \in [Live -> {"fn", "idle", "req", "exit"}]
  /\ spawned \in [Workers -> Nat]
  /\ restartCh \in Seq(Goroutines) /\ Len(restartCh) <= QueueCap
  /\ handler \in {"none", "select", "wait", "exited"}
  /\ pending \subseteq Goroutines
  /\ wakeAt \in Nat
  /\ restartTimestamps \in [Names -> SUBSET Stamps]
  /\ now \in Nat
  /\ fate \in [Workers -> Fates]
  /\ grants \subseteq Stamps

(* A worker has one instance: it never runs twice at the same time, nor    *)
(* while a request to restart it is queued or being served, nor are two    *)
(* requests of it on their way (runWorker, requestRestart and the handler  *)
(* hand one token round; a goroutine in its deferred wg.Done is past it).  *)
Tokens == Active \cup Queued \cup pending
OneInstance ==
  /\ \A g, h \in Tokens : g[1] = h[1] => g = h
  /\ \A i, j \in 1..Len(restartCh) : restartCh[i] = restartCh[j] => i = j
  /\ Active \cap Queued = {} /\ Active \cap pending = {}
  /\ Queued \cap pending = {}

(* What became of a worker last is where the worker is: a request accepted *)
(* by requestRestart stays in the channel or with the handler until it is  *)
(* answered, so none is lost between the goroutines.                       *)
NothingForgotten ==
  \A w \in Workers :
    /\ fate[w] = "requested" <=> Latest(w) \in Queued \cup pending
    /\ fate[w] \in {"running", "failed"} <=> Latest(w) \in Active

(* s.wg counts exactly the goroutines that have still to call Done.        *)
HandlerAlive == handler \in {"select", "wait"}
WaitGroupExact == wg = Cardinality(Live) + (IF HandlerAlive THEN 1 ELSE 0)

(* When Stop has returned, no worker, no handler and no restart is left,   *)
(* provided Stop was not called before Start had returned.                 *)
StopQuiescent ==
  (stop = "done" /\ ~EarlyStop) => (Live = {} /\ ~HandlerAlive /\ pending = {})

(* Sliding window of handleRestarts: at each grant, no more than           *)
(* MaxRestarts grants of that name lie in the window that ends there.      *)
WindowOf(s) == {r \in grants : /\ Name(r.by) = Name(s.by)
                               /\ r.at <= s.at /\ r.at >= s.at - RestartWindow}
Budget == \A s \in grants : Cardinality(WindowOf(s)) <= MaxRestarts

(* A worker reported "permanently stopped" is never run again.             *)
DeniedIsFinal ==
  [][\A w \in Workers : fate[w] = "denied"
       => fate'[w] = "denied" /\ spawned'[w] = spawned[w]]_vars

(* restartCh cannot overflow while the workers that may ask for a restart  *)
(* fit in it: only then is a request never dropped by requestRestart.      *)
NoDropWhenSmall ==
  Cardinality(Workers \ Interval) <= QueueCap
    => \A w \in Workers : fate[w] # "dropped"

(* Each worker has a restart limit of its own (RestartLimiter), which the  *)
(* code provides when names are not shared.                                *)
Limiter == INSTANCE RestartLimiter WITH
  Max     <- MaxRestarts,
  Window  <- RestartWindow,
  granted <- [w \in Workers |-> {s.at : s \in {r \in grants : r.by[1] = w}}],
  denied  <- {w \in Workers : fate[w] = "denied"}
PerWorkerLimit == Limiter!LimiterSpec

-----------------------------------------------------------------------------
(* What the documentation says and the code does not do; each is refuted   *)
(* by a configuration of its own.                                          *)

(* "Automatic restart on panic/error (up to MaxRestarts)" (pkg/README.md): *)
(* a failure is never left unserved for want of room in restartCh.         *)
EveryFailureServed == \A w \in Workers : fate[w] # "dropped"

(* "If execution fails before supervisor shutdown/cancel, request restart" *)
(* (runWorker): only a cancelled supervisor lets a worker go on that score.*)
CancelledMeansCancelled == \A w \in Workers : fate[w] = "cancelled" => ctxDone

(* "Stop stops all workers gracefully" (Stop): once called, it returns.    *)
StopReturns == stop = "waiting" ~> stop = "done"

-----------------------------------------------------------------------------
(* Liveness, under FairSpec.                                               *)

ShuttingDown == ctxDone \/ StopClosed

(* A worker that failed is run again, stopped permanently or dropped; the  *)
(* handler leaves no request behind before the shutdown begins.            *)
FailureAnswered ==
  \A w \in Workers :
    fate[w] \in {"failed", "requested"}
      ~> (fate[w] \notin {"failed", "requested"} \/ ShuttingDown)

(* Stop returns once the context is cancelled as well.                     *)
StopAfterCancel == (stop = "waiting" /\ ctxDone) ~> stop = "done"
=============================================================================
