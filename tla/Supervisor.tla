----------------------------- MODULE Supervisor -----------------------------
(***************************************************************************)
(* pkg/worker/supervisor.go: worker goroutines, the restart channel, the   *)
(* restart handler with its sliding window, and the Start/Stop life cycle. *)
(*                                                                         *)
(* A definition whose comment begins with "Bug:" is a mutant of the one    *)
(* that follows: no behaviour of the model, it shows that the properties   *)
(* of SupervisorProps notice the mistake.                                  *)
(*                                                                         *)
(* A goroutine running runWorker is a pair <<w, k>>: the k-th incarnation  *)
(* of worker w.  A step ends where another goroutine can see its effect    *)
(* (a channel operation, a WaitGroup update, a spawn); a return followed   *)
(* by the deferred wg.Done is one step, unless a message was sent before   *)
(* it, when the two are separate (pc "exit").  A panic of Fn is an error   *)
(* return: safeExecute turns the first into the second.                    *)
(***************************************************************************)
EXTENDS Integers, Sequences, FiniteSets

CONSTANTS
  Workers,              \* the Worker values the program may add
  Interval,             \* those with Worker.Interval > 0
  Continuous,           \* those whose Fn returns only once ctx is done
  NameOf,               \* Worker.Name
  ConfigMaxRestarts,    \* SupervisorConfig, before the defaults
  ConfigRestartWait,
  ConfigRestartWindow,
  QueueCap,             \* capacity of restartCh (10 in the code)
  EarlyStop,            \* may Stop be called before Start has returned?
  Horizon               \* bound: the clock at which Fn stops failing

ASSUME WorkersAssumption ==
  /\ IsFiniteSet(Workers)
  /\ Interval \subseteq Workers
  /\ Continuous \subseteq Workers \ Interval
ASSUME NamesAssumption   == DOMAIN NameOf = Workers
ASSUME ConfigAssumption  == /\ ConfigMaxRestarts \in Nat
                            /\ ConfigRestartWait \in Nat
                            /\ ConfigRestartWindow \in Nat
ASSUME QueueAssumption   == QueueCap \in Nat \ {0}
ASSUME StopAssumption    == EarlyStop \in BOOLEAN
ASSUME HorizonAssumption == Horizon \in Nat

(* NewSupervisor replaces a zero by the default (ticks are seconds).       *)
OrDefault(value, default) == IF value = 0 THEN default ELSE value
MaxRestarts   == OrDefault(ConfigMaxRestarts, 5)
RestartWait   == OrDefault(ConfigRestartWait, 5)
RestartWindow == OrDefault(ConfigRestartWindow, 300)

Goroutines == Workers \X (Nat \ {0})
Names      == {NameOf[w] : w \in Workers}

VARIABLES
  workers,            \* s.workers
  start,              \* Start: "idle", "spawning" (in its loop), "done"
  toStart,            \* the workers the loop of Start has still to spawn
  stop,               \* Stop: "idle", "waiting" (in wg.Wait), "done"
  ctxDone,            \* is the context given to Start cancelled?
  wg,                 \* the counter of s.wg
  pc,                 \* pc[g] for each live goroutine g: "fn" (in Fn),
                      \* "idle" (select of runIntervalWorker), "req"
                      \* (select of requestRestart), "exit" (wg.Done left)
  spawned,            \* spawned[w]: incarnations of w so far
  restartCh,          \* s.restartCh: the goroutines that sent a request
  handler,            \* handleRestarts: "none", "select", "wait", "exited"
  pending,            \* the request the handler waits for, {} if none
  wakeAt,             \* when the handler's timer fires
  restartTimestamps,  \* per name, the stamps kept by the handler
  now,                \* s.nowFunc(), in ticks
  fate,               \* history: fate[w] is what became of w last
  grants              \* history: every "restarted" counted so far

vars == <<workers, start, toStart, stop, ctxDone, wg, pc, spawned, restartCh,
          handler, pending, wakeAt, restartTimestamps, now, fate, grants>>

lifecycle    == <<workers, start, toStart, stop, ctxDone>>
handlerState == <<handler, pending, wakeAt, restartTimestamps, grants>>

Live     == DOMAIN pc
Active   == {g \in Live : pc[g] \in {"fn", "idle", "req"}}
Queued   == {restartCh[i] : i \in 1..Len(restartCh)}
Latest(w) == <<w, spawned[w]>>
StopClosed == stop # "idle"          \* stopCh is closed

Without(g)     == [h \in Live \ {g} |-> pc[h]]
Moved(g, to)   == [pc EXCEPT ![g] = to]
Fate(w, what)  == [fate EXCEPT ![w] = what]

(* Bug: the goroutine is not added to the WaitGroup.                       *)
SpawnUncounted(w) ==
  LET new == <<w, spawned[w] + 1>>
  IN /\ spawned' = [spawned EXCEPT ![w] = @ + 1]
     /\ pc' = [g \in Live \cup {new} |-> IF g = new THEN "fn" ELSE pc[g]]
     /\ wg' = wg
     /\ fate' = Fate(w, "running")

(* wg.Add(1); go s.runWorker(ctx, w), with the channel left as it is.      *)
Spawn(w) ==
  LET new == <<w, spawned[w] + 1>>
  IN /\ spawned' = [spawned EXCEPT ![w] = @ + 1]
     /\ pc' = [g \in Live \cup {new} |-> IF g = new THEN "fn" ELSE pc[g]]
     /\ wg' = wg + 1
     /\ fate' = Fate(w, "running")

(* Goroutine g returns: its deferred wg.Done runs and it is gone.          *)
Gone(g) == pc' = Without(g) /\ wg' = wg - 1

Init ==
  /\ workers = {} /\ toStart = {}
  /\ start = "idle" /\ stop = "idle" /\ ctxDone = FALSE
  /\ wg = 0 /\ pc = [g \in {} |-> "fn"]
  /\ spawned = [w \in Workers |-> 0]
  /\ restartCh = <<>>
  /\ handler = "none" /\ pending = {} /\ wakeAt = 0
  /\ restartTimestamps = [n \in Names |-> {}]
  /\ now = 0
  /\ fate = [w \in Workers |-> "idle"]
  /\ grants = {}

-----------------------------------------------------------------------------
(* The application: AddWorker (before Start, as its comment asks), Start,  *)
(* cancellation of the context, Stop.                                      *)

AddWorker(w) ==
  /\ start = "idle"
  /\ w \notin workers
  /\ workers' = workers \cup {w}
  /\ UNCHANGED <<start, toStart, stop, ctxDone, wg, pc, spawned, restartCh,
                 handlerState, now, fate>>

(* Bug: Stop does not wait for the handler.                                *)
StartHandlerUntracked ==
  /\ start = "idle"
  /\ start' = "spawning" /\ toStart' = workers
  /\ handler' = "select"
  /\ UNCHANGED <<workers, stop, ctxDone, wg, pc, spawned, restartCh, pending,
                 wakeAt, restartTimestamps, grants, now, fate>>

StartHandler ==
  /\ start = "idle"
  /\ start' = "spawning" /\ toStart' = workers
  /\ handler' = "select" /\ wg' = wg + 1
  /\ UNCHANGED <<workers, stop, ctxDone, pc, spawned, restartCh, pending,
                 wakeAt, restartTimestamps, grants, now, fate>>

(* The workers are spawned in the order of the slice; the order in which   *)
(* spawned goroutines get to run is the scheduler's, so it is left open.   *)
StartWorker(w) ==
  /\ start = "spawning" /\ w \in toStart
  /\ toStart' = toStart \ {w}
  /\ Spawn(w)
  /\ UNCHANGED <<workers, start, stop, ctxDone, restartCh, handlerState, now>>

StartReturn ==
  /\ start = "spawning" /\ toStart = {}
  /\ start' = "done"
  /\ UNCHANGED <<workers, toStart, stop, ctxDone, wg, pc, spawned, restartCh,
                 handlerState, now, fate>>

Cancel ==
  /\ ~ctxDone
  /\ ctxDone' = TRUE
  /\ UNCHANGED <<workers, start, toStart, stop, wg, pc, spawned, restartCh,
                 handlerState, now, fate>>

StopCall ==
  /\ stop = "idle"
  /\ EarlyStop \/ start = "done"
  /\ stop' = "waiting"
  /\ UNCHANGED <<workers, start, toStart, ctxDone, wg, pc, spawned, restartCh,
                 handlerState, now, fate>>

StopReturn ==
  /\ stop = "waiting" /\ wg = 0
  /\ stop' = "done"
  /\ UNCHANGED <<workers, start, toStart, ctxDone, wg, pc, spawned, restartCh,
                 handlerState, now, fate>>

-----------------------------------------------------------------------------
(* runWorker, for a worker without an interval.  The comparison of err     *)
(* with context.Canceled and DeadlineExceeded does not ask whose context   *)
(* it was: "ctxErr" may come from a context Fn derived itself.             *)

Errors == {"ctxErr", "err"}
InFn(g)      == pc[g] = "fn" /\ g[1] \notin Interval
MayFail      == now < Horizon \/ ctxDone
Cancels(err) == ctxDone \/ err = "ctxErr"

FnCompletes(g) ==
  /\ InFn(g)
  /\ Gone(g)
  /\ fate' = Fate(g[1], "completed")
  /\ UNCHANGED <<lifecycle, spawned, restartCh, handlerState, now>>

FnCancelled(g, err) ==
  /\ InFn(g) /\ MayFail /\ Cancels(err)
  /\ Gone(g)
  /\ fate' = Fate(g[1], "cancelled")
  /\ UNCHANGED <<lifecycle, spawned, restartCh, handlerState, now>>

FnFails(g, err) ==
  /\ InFn(g) /\ MayFail /\ ~Cancels(err)
  /\ pc' = Moved(g, "req")
  /\ fate' = Fate(g[1], "failed")
  /\ UNCHANGED <<lifecycle, wg, spawned, restartCh, handlerState, now>>

(* requestRestart: a select between the closed stopCh and a send; when     *)
(* both are ready Go picks either, when neither is the request is dropped. *)

(* Bug: no return after the send, the select is entered again.             *)
RequestSentTwice(g) ==
  /\ pc[g] = "req" /\ Len(restartCh) < QueueCap
  /\ restartCh' = Append(restartCh, g)
  /\ fate' = Fate(g[1], "requested")
  /\ UNCHANGED <<lifecycle, wg, pc, spawned, handlerState, now>>

(* Bug: a queue without a bound in place of the channel.                   *)
RequestSentBlind(g) ==
  /\ pc[g] = "req"
  /\ restartCh' = Append(restartCh, g)
  /\ pc' = Moved(g, "exit")
  /\ fate' = Fate(g[1], "requested")
  /\ UNCHANGED <<lifecycle, wg, spawned, handlerState, now>>

RequestSent(g) ==
  /\ pc[g] = "req" /\ Len(restartCh) < QueueCap
  /\ restartCh' = Append(restartCh, g)
  /\ pc' = Moved(g, "exit")
  /\ fate' = Fate(g[1], "requested")
  /\ UNCHANGED <<lifecycle, wg, spawned, handlerState, now>>

RequestStopped(g) ==
  /\ pc[g] = "req" /\ StopClosed
  /\ Gone(g)
  /\ fate' = Fate(g[1], "abandoned")
  /\ UNCHANGED <<lifecycle, spawned, restartCh, handlerState, now>>

(* Bug: the last slot of the channel is never used.                        *)
RequestDroppedEarly(g) ==
  /\ pc[g] = "req" /\ ~StopClosed /\ Len(restartCh) >= QueueCap - 1
  /\ Gone(g)
  /\ fate' = Fate(g[1], "dropped")
  /\ UNCHANGED <<lifecycle, spawned, restartCh, handlerState, now>>

RequestDropped(g) ==
  /\ pc[g] = "req" /\ ~StopClosed /\ Len(restartCh) = QueueCap
  /\ Gone(g)
  /\ fate' = Fate(g[1], "dropped")
  /\ UNCHANGED <<lifecycle, spawned, restartCh, handlerState, now>>

Exit(g) ==
  /\ pc[g] = "exit"
  /\ Gone(g)
  /\ UNCHANGED <<lifecycle, spawned, restartCh, handlerState, now, fate>>

-----------------------------------------------------------------------------
(* runIntervalWorker: Fn once, then a select of ctx, stopCh and the ticker.*)
(* An error is logged and the loop goes on, so such a worker never asks    *)
(* for a restart.                                                          *)

IntervalReturn(g) ==
  /\ g[1] \in Interval /\ pc[g] = "fn"
  /\ pc' = Moved(g, "idle")
  /\ UNCHANGED <<lifecycle, wg, spawned, restartCh, handlerState, now, fate>>

IntervalTick(g) ==
  /\ pc[g] = "idle"
  /\ pc' = Moved(g, "fn")
  /\ UNCHANGED <<lifecycle, wg, spawned, restartCh, handlerState, now, fate>>

(* Bug: break in place of return leaves the select, not the loop.          *)
IntervalStopBreaks(g) ==
  /\ pc[g] = "idle" /\ (ctxDone \/ StopClosed)
  /\ UNCHANGED vars

IntervalStop(g) ==
  /\ pc[g] = "idle" /\ (ctxDone \/ StopClosed)
  /\ Gone(g)
  /\ fate' = Fate(g[1], "stopped")
  /\ UNCHANGED <<lifecycle, spawned, restartCh, handlerState, now>>

-----------------------------------------------------------------------------
(* handleRestarts.  The slice of stamps of a name is a set of records: its *)
(* order is never used, and two stamps differ in the goroutine they are of.*)

Name(g)  == NameOf[g[1]]
Stamp(g) == [by |-> g, at |-> now]

(* Bug: a stamp exactly RestartWindow old is forgotten.                    *)
PrunedAtCutoff(g) == {s \in restartTimestamps[Name(g)] \cup {Stamp(g)} :
                        s.at > now - RestartWindow}

Pruned(g) == {s \in restartTimestamps[Name(g)] \cup {Stamp(g)} :
                s.at >= now - RestartWindow}

(* Bug: one restart fewer than configured.                                 *)
ExhaustedEarly(g) == Cardinality(Pruned(g)) >= MaxRestarts

Exhausted(g) == Cardinality(Pruned(g)) > MaxRestarts

HandlerTake(g) ==
  /\ handler = "select" /\ restartCh # <<>> /\ g = Head(restartCh)
  /\ restartCh' = Tail(restartCh)
  /\ restartTimestamps' = [restartTimestamps EXCEPT ![Name(g)] = Pruned(g)]

(* Bug: without its continue the denial falls through to the restart.      *)
HandlerDenyThrough(g) ==
  /\ HandlerTake(g)
  /\ Exhausted(g)
  /\ fate' = Fate(g[1], "denied")
  /\ handler' = "wait" /\ pending' = {g} /\ wakeAt' = now + RestartWait
  /\ UNCHANGED <<lifecycle, wg, pc, spawned, now, grants>>

(* Bug: return in place of continue ends the handler.                      *)
HandlerDenyReturns(g) ==
  /\ HandlerTake(g)
  /\ Exhausted(g)
  /\ fate' = Fate(g[1], "denied")
  /\ handler' = "exited" /\ wg' = wg - 1
  /\ UNCHANGED <<lifecycle, pc, spawned, pending, wakeAt, now, grants>>

HandlerDeny(g) ==
  /\ HandlerTake(g)
  /\ Exhausted(g)
  /\ fate' = Fate(g[1], "denied")
  /\ UNCHANGED <<lifecycle, wg, pc, spawned, handler, pending, wakeAt, now,
                 grants>>

HandlerGrant(g) ==
  /\ HandlerTake(g)
  /\ ~Exhausted(g)
  /\ handler' = "wait" /\ pending' = {g} /\ wakeAt' = now + RestartWait
  /\ grants' = grants \cup {Stamp(g)}
  /\ UNCHANGED <<lifecycle, wg, pc, spawned, now, fate>>

(* Bug: the timer fires and no goroutine is spawned.                       *)
HandlerRestartLost(g) ==
  /\ handler = "wait" /\ g \in pending /\ now >= wakeAt
  /\ handler' = "select" /\ pending' = {} /\ wakeAt' = 0
  /\ UNCHANGED <<lifecycle, wg, pc, spawned, fate, restartCh,
                 restartTimestamps, now, grants>>

HandlerRestart(g) ==
  /\ handler = "wait" /\ g \in pending /\ now >= wakeAt
  /\ handler' = "select" /\ pending' = {} /\ wakeAt' = 0
  /\ Spawn(g[1])
  /\ UNCHANGED <<lifecycle, restartCh, restartTimestamps, now, grants>>

HandlerAbort(g) ==
  /\ handler = "wait" /\ g \in pending /\ (ctxDone \/ StopClosed)
  /\ handler' = "exited" /\ pending' = {} /\ wakeAt' = 0
  /\ wg' = wg - 1
  /\ fate' = Fate(g[1], "abandoned")
  /\ UNCHANGED <<lifecycle, pc, spawned, restartCh, restartTimestamps, now,
                 grants>>

HandlerShutdown ==
  /\ handler = "select" /\ (ctxDone \/ StopClosed)
  /\ handler' = "exited"
  /\ wg' = wg - 1
  /\ UNCHANGED <<lifecycle, pc, spawned, restartCh, pending, wakeAt,
                 restartTimestamps, now, grants, fate>>

(* Time passes; past the horizon only as far as a running timer needs.     *)
Tick ==
  /\ now < Horizon \/ (handler = "wait" /\ now < wakeAt)
  /\ now' = now + 1
  /\ UNCHANGED <<lifecycle, wg, pc, spawned, restartCh, handlerState, fate>>

(* Not a deadlock: Stop has returned and nothing is left to run.           *)
Terminated == stop = "done" /\ Live = {} /\ UNCHANGED vars

-----------------------------------------------------------------------------
LifecycleStep ==
  \/ \E w \in Workers : AddWorker(w) \/ StartWorker(w)
  \/ StartHandler \/ StartReturn \/ Cancel \/ StopCall \/ StopReturn

WorkerStep(g) ==
  \/ FnCompletes(g) \/ \E err \in Errors : FnCancelled(g, err) \/ FnFails(g, err)
  \/ RequestSent(g) \/ RequestStopped(g) \/ RequestDropped(g) \/ Exit(g)
  \/ IntervalReturn(g) \/ IntervalTick(g) \/ IntervalStop(g)

HandlerStep ==
  \/ \E g \in Queued : HandlerDeny(g) \/ HandlerGrant(g)
  \/ \E g \in pending : HandlerRestart(g) \/ HandlerAbort(g)
  \/ HandlerShutdown

Next ==
  \/ LifecycleStep
  \/ \E g \in Live : WorkerStep(g)
  \/ HandlerStep
  \/ Tick
  \/ Terminated

Spec == Init /\ [][Next]_vars

(* Fairness: the scheduler runs every goroutine that can run, time passes, *)
(* and Fn returns, except that a Continuous worker owes a return only once *)
(* ctx is done.  A select whose cases stay ready picks each of them sooner *)
(* or later (Go chooses uniformly), hence SF where the competing case may  *)
(* keep winning.  Nothing obliges the application to cancel or to stop.    *)
ReturnOf(w) ==
  \E g \in Live : /\ g[1] = w
                  /\ w \notin Continuous \/ ctxDone
                  /\ \/ IntervalReturn(g) \/ FnCompletes(g)
                     \/ \E err \in Errors : FnCancelled(g, err) \/ FnFails(g, err)
RequestOf(w) ==
  \E g \in Live : /\ g[1] = w
                  /\ RequestSent(g) \/ RequestStopped(g) \/ RequestDropped(g)
ExitOf(w) == \E g \in Live : g[1] = w /\ Exit(g)
IntervalStopOf(w) == \E g \in Live : g[1] = w /\ IntervalStop(g)
HandlerQuit == HandlerShutdown \/ \E g \in pending : HandlerAbort(g)

Fairness ==
  /\ WF_vars(StartReturn \/ \E w \in Workers : StartWorker(w))
  /\ WF_vars(StopReturn)
  /\ \A w \in Workers : /\ WF_vars(ReturnOf(w))
                        /\ WF_vars(RequestOf(w))
                        /\ WF_vars(ExitOf(w))
                        /\ SF_vars(IntervalStopOf(w))
  /\ WF_vars(HandlerStep)
  /\ SF_vars(HandlerQuit)
  /\ WF_vars(Tick)

FairSpec == Spec /\ Fairness
=============================================================================
