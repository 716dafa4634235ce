------------------------- MODULE SupervisedConsumer -------------------------
(***************************************************************************)
(* A Consumer run by a worker.Supervisor, as the comment of Consumer       *)
(* intends: runWorker (pkg/worker) calls Run, and when Run fails or        *)
(* panics requests a restart, which handleRestarts grants within the       *)
(* budget of its sliding window, delays by RestartWait, or refuses for     *)
(* good.                                                                   *)
(*                                                                         *)
(* Of the Supervisor only what this worker meets is here: module           *)
(* Supervisor has its channel, its handler and Stop, and is shown to       *)
(* implement RestartLimiter, whose window is abstracted here to the number *)
(* of restarts that lie in it.  Time passes whenever it likes, so that the *)
(* window may slide before, while and after a restart waits.               *)
(*                                                                         *)
(* A definition whose comment begins with "Bug:" is a mutant of the one    *)
(* that follows.                                                           *)
(***************************************************************************)
EXTENDS Consumer

CONSTANT MaxRestarts   \* cfg.MaxRestarts, after its default

ASSUME RestartsAssumption == MaxRestarts \in Nat

VARIABLES
  worker,  \* "idle" (before Start), "running", "failed" (a restart is
           \* requested), "waiting" (RestartWait), "denied", "over",
           \* "mistaken" (for a cancelled one)
  recent   \* how many of its restarts lie in the window that ends now

supervised == <<worker, recent>>
allVars    == <<vars, supervised>>

SupervisedInit == Init /\ worker = "idle" /\ recent = 0

-----------------------------------------------------------------------------
(* Start runs the worker; the timer of a granted restart fires.  Its       *)
(* select may prefer the timer to a cancelled context.                     *)
CallRun ==
  /\ worker \in {"idle", "waiting"}
  /\ RunCalled
  /\ worker' = "running"
  /\ UNCHANGED recent

(* Bug: a Run that fails ends the worker as one that returns nil does.     *)
AfterRunEnds == IF run' \in {"off", "returned"} THEN "over" ELSE "running"

(* runWorker, when Run comes back: nil ends the worker, and so does an     *)
(* error once the context is cancelled.  An error that is that of a        *)
(* context is taken for it: Run wraps its own, but safeExecute returns as  *)
(* it is what the handler has panicked with.  Any other is a request.      *)
AfterRun ==
  CASE run' = "returned" \/ (run' = "off" /\ ctxDone)   -> "over"
    [] run' = "off" /\ ~ctxDone /\ run = "abandon"      -> "mistaken"
    [] run' = "off" /\ ~ctxDone /\ run # "abandon"      -> "failed"
    [] OTHER                                            -> "running"

Works ==
  /\ worker = "running"
  /\ RunStep
  /\ worker' = AfterRun
  /\ UNCHANGED recent

Grant ==
  /\ worker = "failed" /\ recent < MaxRestarts
  /\ worker' = "waiting" /\ recent' = recent + 1
  /\ UNCHANGED vars

(* Bug: the refused request is forgotten, the worker stays failed.         *)
DenyForgets ==
  /\ worker = "failed" /\ recent >= MaxRestarts
  /\ UNCHANGED allVars

Deny ==
  /\ worker = "failed" /\ recent >= MaxRestarts
  /\ worker' = "denied"
  /\ UNCHANGED <<vars, recent>>

(* handleRestarts returns, with the request in the channel or in its hand. *)
HandlerReturnsOnCancel ==
  /\ worker \in {"failed", "waiting"} /\ ctxDone
  /\ worker' = "over"
  /\ UNCHANGED <<vars, recent>>

(* The oldest restart of the window comes to lie outside of it.            *)
WindowSlides ==
  /\ recent > 0
  /\ recent' = recent - 1
  /\ UNCHANGED <<vars, worker>>

SupervisorStep == CallRun \/ Grant \/ Deny \/ HandlerReturnsOnCancel

SupervisedNext ==
  \/ Works \/ SupervisorStep \/ WindowSlides
  \/ (BrokerStep \/ Cancel) /\ UNCHANGED supervised
  \/ worker \in {"denied", "over", "mistaken"} /\ UNCHANGED allVars

SupervisedSpec == SupervisedInit /\ [][SupervisedNext]_allVars

(* Start is called, the goroutines of Run and of the restart handler go    *)
(* on, and the handler of a message returns or panics; one that asks for a *)
(* requeue again and again, as ErrRequeue is for transient errors, gives a *)
(* verdict in the end (SF).  The broker delivers and reads verdicts, and a *)
(* select does not ignore a cancelled context for ever (SF).  Nothing      *)
(* obliges anybody to publish, lose or cancel, nor the window to slide.    *)
Proceeds == \/ Dial \/ DeclareTopology \/ Consume \/ Take
            \/ LoopSeesLoss \/ CloseReturns
            \/ (conn = "lost" /\ RunFails)
            \/ \E err \in Errors : HandlerReturns(err)
            \/ (handling \in Poison /\ HandlerPanics)

Fairness ==
  /\ WF_allVars(SupervisorStep)
  /\ WF_allVars(Works /\ Proceeds) /\ SF_allVars(Works /\ LoopSeesCancel)
  /\ \A m \in Msgs \ Poison :
       SF_allVars(handling = m /\ Works /\
                  (HandlerReturns("nil") \/ HandlerReturns("error")))
  /\ WF_allVars(Deliver /\ UNCHANGED supervised)
  /\ WF_allVars(BrokerSettles /\ UNCHANGED supervised)

SupervisedFairSpec == SupervisedSpec /\ Fairness
=============================================================================
