------------------------- MODULE ProbeManagerProps --------------------------
(***************************************************************************)
(* What makes the probe manager and the health endpoints correct.          *)
(***************************************************************************)
EXTENDS ProbeManager

Errors == {"none", "down", "cancelled", "empty"}

(* The shape of the state of Manager, its goroutines and a request.        *)
TypeOK ==
  /\ registered \in 0..Len(Config) /\ wired \in 0..registered
  /\ starts \in 0..MaxStarts /\ cancel \in 0..starts
  /\ cancelled \subseteq 1..starts /\ parentDone \in BOOLEAN
  /\ wg \in Nat /\ stop \in {"idle", "waiting", "done"}
  /\ status \in [Names -> [healthy : BOOLEAN, lastError : Errors, checked : BOOLEAN]]
  /\ pc \in [Runs -> {"none", "check", "record", "half", "wait"}]
  /\ got \in [Runs -> Errors]
  /\ up \in [Probes -> BOOLEAN]
  /\ request \in [at : 0..Len(Config) + 1,
                  step : {"look", "healthy", "error", "reason"},
                  critFail : BOOLEAN, degraded : BOOLEAN, torn : BOOLEAN]
  /\ seen \in [Names -> SUBSET BOOLEAN]
  /\ last \in [Probes -> {"unchecked", "pass", "fail"}]

(* When Stop has returned no probe goroutine is left to change a status    *)
(* (Start counts them in m.wg, runProbe uncounts itself, Stop waits).      *)
StopQuiescent == stop = "done" => Alive = {}

(* A request reads fields that change under it, yet its answer is one the  *)
(* service could have given at some moment of the request: it reports a    *)
(* failure only if such a probe was failing, and readiness only if no      *)
(* critical probe was failing throughout (closure of                       *)
(* RegisterWithHealthHandler, runProbes).  The closure takes a probe whose *)
(* LastError is empty for healthy: this holds when every error has a text  *)
(* (Mute = {}), and is refuted otherwise.                                  *)
SawFailing(critical) ==
  \E i \in 1..wired : Config[i].critical = critical /\ TRUE \in seen[Config[i].name]
AnswerHonest ==
  (Answered /\ ~request.torn) =>
    /\ request.critFail => SawFailing(TRUE)
    /\ request.degraded => SawFailing(FALSE)
    /\ ~request.critFail =>
         \A i \in 1..wired : Config[i].critical => seen[Config[i].name] # {TRUE}

(* IsHealthy: every name whose last registration is critical is healthy.   *)
CriticalName(n) ==
  \E i \in 1..registered :
    /\ Config[i].name = n /\ Config[i].critical
    /\ \A j \in i + 1..registered : Config[j].name # n
IsHealthy == \A n \in Names : CriticalName(n) => status[n].healthy

-----------------------------------------------------------------------------
(* Refuted: /ready answers 200 only when all critical probes pass          *)
(* (documented at ReadyHandler); before the first check has returned no    *)
(* critical probe has passed, and it answers 200.                          *)
ReadyMeansPassing ==
  (Answered /\ ~request.critFail /\ ~request.torn) =>
    \A i \in 1..wired : Config[i].critical => status[Config[i].name].checked

(* Refuted: the status records are protected by mu (the comment at         *)
(* Manager): no request reads one while executeProbe is writing it.        *)
ProtectedByMu == ~request.torn

(* Refuted when two probes share a name: IsHealthy only if all critical    *)
(* probes are passing (its comment).                                       *)
IsHealthyOnlyIfPassing ==
  (MuFree /\ registered > 0 /\ IsHealthy) =>
    \A i \in 1..registered : Config[i].critical => last[i] # "fail"

-----------------------------------------------------------------------------
Running == starts > 0 /\ ~parentDone /\ cancelled = {}

(* A dependency that stays down, or stays up, is eventually reported so,   *)
(* for as long as the manager runs (runProbe's loop, Timeout).             *)
StatusConverges ==
  \A i \in Probes :
    /\ <>[](Running /\ i <= registered /\ ~up[i]) => <>[]~status[Config[i].name].healthy
    /\ <>[](Running /\ i <= registered /\ up[i]) => <>[]status[Config[i].name].healthy

(* Stop returns: the probe goroutines notice the cancelled context.        *)
StopReturns == stop = "waiting" ~> stop = "done"
=============================================================================
