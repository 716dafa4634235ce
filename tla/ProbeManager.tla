---------------------------- MODULE ProbeManager ----------------------------
(***************************************************************************)
(* pkg/probe/manager.go and the part of pkg/health/handler.go it feeds:    *)
(* the probe goroutines, their shared Status records, Start and Stop, and  *)
(* a request to /ready or /health, which reads the records.                *)
(*                                                                         *)
(* A probe is its place in m.probes; a goroutine of runProbe is a pair     *)
(* <<g, i>> of the call of Start that made it and the probe it runs.  Time *)
(* is left out: a ticker may fire whenever its goroutine waits.  A check   *)
(* that runs into its timeout returns an error like any other failure, if  *)
(* the check honours its context at all.  The dependencies are external.   *)
(*                                                                         *)
(* A request takes m.mu only to look the record up and reads its fields    *)
(* afterwards, so the writes of executeProbe, which holds m.mu, are two    *)
(* steps here: Healthy, then LastError.                                    *)
(*                                                                         *)
(* A definition whose comment begins with "Bug:" is a mutant of the one    *)
(* that follows.                                                           *)
(***************************************************************************)
EXTENDS Integers, Sequences, FiniteSets

CONSTANTS Config,     \* what is registered, in order: <<[name, critical], ...>>
          MaxStarts,  \* bound on the calls of Start
          Overlap,    \* may Start be called again without a Stop between?
          Hanging,    \* the probes whose Check does not look at its context
          Mute        \* those whose error may have an empty text

ASSUME ConfigAssumption  ==
  Len(Config) \in Nat /\ \A i \in 1..Len(Config) : Config[i].critical \in BOOLEAN
ASSUME BoundsAssumption  == MaxStarts \in Nat /\ Overlap \in BOOLEAN
ASSUME HangingAssumption == Hanging \subseteq 1..Len(Config)
ASSUME MuteAssumption    == Mute \subseteq 1..Len(Config)

Probes == 1..Len(Config)
Names  == {Config[i].name : i \in Probes}
Starts == 1..MaxStarts
Runs   == Starts \X Probes

VARIABLES
  registered, \* Len(m.probes)
  wired,      \* Len(h.probes): how many the health handler knows
  status,     \* m.status
  starts,     \* how often Start has been called
  cancel,     \* the Start whose context m.cancel cancels, 0 when nil
  cancelled,  \* the Starts whose context m.cancel() has cancelled
  parentDone, \* is the context given to Start cancelled?
  wg,         \* m.wg
  stop,       \* the call of Stop: "idle", "waiting", "done"
  pc,         \* pc[r]: "none", "check", "record", "half", "wait"
  got,        \* got[r]: err in executeProbe: "none" for nil, "empty" for an
              \* error whose text is empty
  up,         \* up[i]: does the dependency answer?  (external)
  request,    \* the request being answered
  seen,       \* history: seen[n]: was n failing, at times, in the request?
  last        \* history: last[i]: the outcome of i recorded last

manager == <<registered, wired, starts, cancel, cancelled, parentDone, wg, stop>>
http    == <<request, seen>>
vars    == <<manager, status, pc, got, up, http, last>>

NewStatus == [healthy |-> FALSE, lastError |-> "none", checked |-> FALSE]
NoRequest == [at |-> 0, step |-> "look", critFail |-> FALSE, degraded |-> FALSE,
              torn |-> FALSE]

Init ==
  /\ registered = 0 /\ wired = 0 /\ starts = 0 /\ cancel = 0
  /\ cancelled = {} /\ parentDone = FALSE /\ wg = 0 /\ stop = "idle"
  /\ status = [n \in Names |-> NewStatus]
  /\ pc = [r \in Runs |-> "none"]
  /\ got = [r \in Runs |-> "none"]
  /\ up \in [Probes -> BOOLEAN]
  /\ request = NoRequest
  /\ seen = [n \in Names |-> {}]
  /\ last = [i \in Probes |-> "unchecked"]

NameOf(r)    == Config[r[2]].name
Cancelled(r) == parentDone \/ r[1] \in cancelled
MuFree       == \A r \in Runs : pc[r] # "half"
Alive        == {r \in Runs : pc[r] # "none"}

Failing(s)   == s.checked /\ ~s.healthy

Answering == request.at \in 1..wired
Answered  == wired > 0 /\ request.at = wired + 1

-----------------------------------------------------------------------------
(* Register, documented to precede Start, and RegisterWithHealthHandler,   *)
(* documented not to overlap a request.                                    *)

Register ==
  /\ registered < Len(Config) /\ starts = 0
  /\ registered' = registered + 1
  /\ status' = [status EXCEPT ![Config[registered + 1].name] = NewStatus]
  /\ UNCHANGED <<wired, starts, cancel, cancelled, parentDone, wg, stop, pc, got,
                 up, http, last>>

RegisterWithHealthHandler ==
  /\ wired = 0 /\ registered > 0
  /\ wired' = registered
  /\ UNCHANGED <<registered, starts, cancel, cancelled, parentDone, wg, stop,
                 status, pc, got, up, http, last>>

(* Start overwrites m.cancel.                                              *)
Start ==
  /\ starts < MaxStarts /\ stop # "waiting"
  /\ Overlap \/ starts = 0 \/ stop = "done"
  /\ starts' = starts + 1
  /\ cancel' = starts + 1
  /\ wg' = wg + registered
  /\ pc' = [r \in Runs |-> IF r[1] = starts + 1 /\ r[2] <= registered
                             THEN "check" ELSE pc[r]]
  /\ stop' = "idle"
  /\ UNCHANGED <<registered, wired, cancelled, parentDone, status, got, up, http,
                 last>>

(* Bug: Stop waits without having cancelled the context.                   *)
StopCallWaits ==
  /\ stop # "waiting"
  /\ stop' = "waiting"
  /\ UNCHANGED <<registered, wired, starts, cancel, cancelled, parentDone, wg,
                 status, pc, got, up, http, last>>

StopCall ==
  /\ stop # "waiting"
  /\ stop' = "waiting"
  /\ cancelled' = IF cancel = 0 THEN cancelled ELSE cancelled \cup {cancel}
  /\ UNCHANGED <<registered, wired, starts, cancel, parentDone, wg, status, pc,
                 got, up, http, last>>

(* Bug: Stop cancels and does not wait.                                    *)
StopReturnAtOnce ==
  /\ stop = "waiting"
  /\ stop' = "done"
  /\ UNCHANGED <<registered, wired, starts, cancel, cancelled, parentDone, wg,
                 status, pc, got, up, http, last>>

StopReturn ==
  /\ stop = "waiting" /\ wg = 0
  /\ stop' = "done"
  /\ UNCHANGED <<registered, wired, starts, cancel, cancelled, parentDone, wg,
                 status, pc, got, up, http, last>>

ParentCancel ==
  /\ ~parentDone
  /\ parentDone' = TRUE
  /\ UNCHANGED <<registered, wired, starts, cancel, cancelled, wg, stop, status,
                 pc, got, up, http, last>>

-----------------------------------------------------------------------------
(* runProbe and executeProbe.                                              *)

(* p.Check returns: a dependency that answers may still be given up when   *)
(* the context is cancelled; one that does not answer holds a check that   *)
(* ignores its context for as long as it is silent.                        *)
CheckReturns(r) ==
  /\ pc[r] = "check"
  /\ ~up[r[2]] => r[2] \notin Hanging
  /\ \E err \in (IF up[r[2]] THEN {"none"} ELSE {"down"})
                 \cup (IF ~up[r[2]] /\ r[2] \in Mute THEN {"empty"} ELSE {})
                 \cup (IF Cancelled(r) THEN {"cancelled"} ELSE {}) :
       got' = [got EXCEPT ![r] = err]
  /\ pc' = [pc EXCEPT ![r] = "record"]
  /\ UNCHANGED <<manager, status, up, http, last>>

(* Under m.mu: LastCheck and Healthy...                                    *)
Record(r) ==
  LET n == NameOf(r)
      s == [status[n] EXCEPT !.checked = TRUE, !.healthy = got[r] = "none"]
  IN /\ pc[r] = "record" /\ MuFree
     /\ status' = [status EXCEPT ![n] = s]
     /\ seen' = IF Answering THEN [seen EXCEPT ![n] = @ \cup {Failing(s)}]
                             ELSE seen
     /\ last' = [last EXCEPT ![r[2]] = IF got[r] = "none" THEN "pass" ELSE "fail"]
     /\ pc' = [pc EXCEPT ![r] = "half"]
     /\ UNCHANGED <<manager, got, up, request>>

(* ... and LastError, err.Error() or the empty text, here "none".          *)
TextOf(err) == IF err = "empty" THEN "none" ELSE err

RecordError(r) ==
  /\ pc[r] = "half"
  /\ status' = [status EXCEPT ![NameOf(r)].lastError = TextOf(got[r])]
  /\ got' = [got EXCEPT ![r] = "none"]
  /\ pc' = [pc EXCEPT ![r] = "wait"]
  /\ UNCHANGED <<manager, up, http, last>>

(* Bug: runProbe has no loop: each probe is checked once.                  *)
TickOnce(r) ==
  /\ pc[r] = "wait" /\ last[r[2]] = "unchecked"
  /\ pc' = [pc EXCEPT ![r] = "check"]
  /\ UNCHANGED <<manager, status, got, up, http, last>>

(* The ticker may win the select even when the context is cancelled.       *)
Tick(r) ==
  /\ pc[r] = "wait"
  /\ pc' = [pc EXCEPT ![r] = "check"]
  /\ UNCHANGED <<manager, status, got, up, http, last>>

(* Bug: wg.Done is called twice, by the loop and by the defer.             *)
RunReturnsTwice(r) ==
  /\ pc[r] = "wait" /\ Cancelled(r)
  /\ pc' = [pc EXCEPT ![r] = "none"]
  /\ wg' = wg - 2
  /\ UNCHANGED <<registered, wired, starts, cancel, cancelled, parentDone, stop,
                 status, got, up, http, last>>

RunReturns(r) ==
  /\ pc[r] = "wait" /\ Cancelled(r)
  /\ pc' = [pc EXCEPT ![r] = "none"]
  /\ wg' = wg - 1
  /\ UNCHANGED <<registered, wired, starts, cancel, cancelled, parentDone, stop,
                 status, got, up, http, last>>

(* The dependency fails or recovers.                                       *)
Turn(i) ==
  /\ up' = [up EXCEPT ![i] = ~@]
  /\ UNCHANGED <<manager, status, pc, got, http, last>>

-----------------------------------------------------------------------------
(* runProbes of the health handler, calling the closure that               *)
(* RegisterWithHealthHandler made for each probe.                          *)

Asked == Config[request.at]

RequestBegins ==
  /\ wired > 0 /\ ~Answering
  /\ request' = [NoRequest EXCEPT !.at = 1]
  /\ seen' = [n \in Names |-> {Failing(status[n])}]
  /\ UNCHANGED <<manager, status, pc, got, up, last>>

At(step)   == Answering /\ request.step = step
Step(step) == request' = [request EXCEPT !.step = step]
Passes     == request' = [request EXCEPT !.at = @ + 1, !.step = "look"]

(* Bug: every failing probe makes the service not ready.                   *)
FailsAny ==
  request' = [request EXCEPT !.at = @ + 1, !.step = "look",
                             !.critFail = TRUE]

Fails ==
  request' = [request EXCEPT !.at = @ + 1, !.step = "look",
                             !.critFail = @ \/ Asked.critical,
                             !.degraded = @ \/ ~Asked.critical]

(* The record is looked up under the lock, which is then released.         *)
RequestLooks ==
  /\ At("look") /\ MuFree
  /\ Step("healthy")
  /\ UNCHANGED <<manager, status, pc, got, up, seen, last>>

RequestReadsHealthy ==
  /\ At("healthy")
  /\ IF status[Asked.name].healthy THEN Passes ELSE Step("error")
  /\ UNCHANGED <<manager, status, pc, got, up, seen, last>>

RequestReadsError ==
  /\ At("error")
  /\ IF status[Asked.name].lastError = "none" THEN Passes ELSE Step("reason")
  /\ UNCHANGED <<manager, status, pc, got, up, seen, last>>

(* LastError is read again for the answer: two words, which a writer may   *)
(* be changing.  The bytes are then whatever memory the mixture names.     *)
RequestReadsReason ==
  /\ At("reason")
  /\ \/ Fails
     \/ /\ \E r \in Runs : pc[r] = "half" /\ NameOf(r) = Asked.name
        /\ request' = [request EXCEPT !.at = wired + 1, !.torn = TRUE]
  /\ UNCHANGED <<manager, status, pc, got, up, seen, last>>

-----------------------------------------------------------------------------
RunStep(r) ==
  \/ CheckReturns(r) \/ Record(r) \/ RecordError(r) \/ Tick(r) \/ RunReturns(r)

RequestStep ==
  \/ RequestLooks \/ RequestReadsHealthy \/ RequestReadsError \/ RequestReadsReason

Next ==
  \/ Register \/ RegisterWithHealthHandler
  \/ Start \/ StopCall \/ StopReturn \/ ParentCancel
  \/ \E r \in Runs : RunStep(r)
  \/ \E i \in Probes : Turn(i)
  \/ RequestBegins \/ RequestStep

Spec == Init /\ [][Next]_vars

(* A goroutine that can run does, and a ticker fires; the select of        *)
(* runProbe does not ignore a cancelled context for ever, and m.mu starves *)
(* nobody: SF.  Nothing obliges the application or the dependencies.       *)
Fairness ==
  /\ \A r \in Runs : /\ WF_vars(CheckReturns(r)) /\ SF_vars(Record(r))
                     /\ WF_vars(RecordError(r)) /\ WF_vars(Tick(r))
                     /\ SF_vars(RunReturns(r))
  /\ WF_vars(StopReturn)

FairSpec == Spec /\ Fairness
=============================================================================
