------------------------- MODULE ConfigWatcherProps -------------------------
(***************************************************************************)
(* What makes the config watcher correct.                                  *)
(***************************************************************************)
EXTENDS ConfigWatcher

(* The shape of the state of the watcher and of what surrounds it.         *)
TypeOK ==
  /\ values \in [Keys -> 0..changes]
  /\ loop \in {"load", "answer", "select", "returned"}
  /\ loaded \in [Answered -> 0..changes]
  /\ ctxDone \in BOOLEAN /\ failedEmpty \in BOOLEAN
  /\ sub \in {"setup", "live", "lost", "failed", "denied", "returned"}
  /\ recent \in 0..MaxRestarts /\ bound \in BOOLEAN
  /\ taken \in 0..Len(queue) /\ held \in 0..Len(queue)
  /\ queue \in Seq([key : Keys \cup {Nobody}, value : Versions])
  /\ changes \in 0..MaxChanges
  /\ source \in [Keys -> 0..changes] /\ pushed \in [Keys -> 0..changes]
  /\ known \subseteq Keys /\ current \subseteq Keys

(* Both paths agree once they are quiet.  When a reload that began after   *)
(* the last change of a watched key has been applied and no message is     *)
(* left to apply, the watcher has what the source has.  (A removal is not  *)
(* published, so an older message may still bring a removed key back.)     *)
(* And a key that no answer names and the application does not set, which  *)
(* reload must leave alone, then has the value that came into the queue    *)
(* last; what was published before the first subscription had bound it     *)
(* (SubscribeRabbitMQ) never comes.                                        *)
Pushed == Keys \ (Answered \cup Settable)
CaughtUp ==
  queue = <<>> =>
    /\ \A k \in Watched \cap current : source[k] # 0 => values[k] = source[k]
    /\ \A k \in Pushed : values[k] = pushed[k]

-----------------------------------------------------------------------------
(* Refuted: the copy is live, updated in real time by pushes (comment of   *)
(* Watcher): a published value, once seen, does not give way to an older   *)
(* one.  Load runs outside the lock, and its answer may be older.          *)
NoRegress ==
  [][\A k \in Keys : (values[k] = pushed[k] /\ source[k] = pushed[k])
                        => (values'[k] # 0 => values'[k] >= values[k])]_vars

(* Refuted: Start returns an error on source failure with no previous      *)
(* values (its comment).                                                   *)
FailureReported == ~(failedEmpty /\ loop = "select" /\ \A k \in Keys : values[k] = 0)

(* Refuted: GetBool returns def on an unrecognised value (its comment).    *)
GetBoolFallsBack == \A k \in Keys : Get(k) = "maybe" => GetBool(k, TRUE)

(* Refuted: the Watcher receives real-time push updates (its comment):     *)
(* what is published before the first subscription goes nowhere.           *)
Steady == [](~ctxDone /\ changes = MaxChanges)
PushesArrive ==
  <>Steady => \/ <>(sub = "denied")
              \/ <>[](\A k \in Pushed : source[k] # 0 => values[k] = source[k])

-----------------------------------------------------------------------------
(* Once the service no longer changes, every watched key has for ever the  *)
(* value of the source, whatever loads and subscriptions fail, messages    *)
(* come again or connections are lost, even when the Supervisor has given  *)
(* the subscription up; a removed key is gone.  Every message that came    *)
(* into the queue for another key has been applied, junk notwithstanding,  *)
(* unless the subscription has used up its restarts.                       *)
Converges ==
  <>Steady => /\ <>[](\A k \in Watched : values[k] = source[k])
              /\ \/ <>(sub = "denied")
                 \/ <>[](\A k \in Pushed : values[k] = pushed[k])

(* Refuted when the service answers more than it was asked: keys that have *)
(* disappeared from the source are removed (comment in reload); only those *)
(* of w.keys are, although every key of an answer is taken in.             *)
Disappears ==
  <>Steady => <>[](\A k \in Answered : source[k] = 0 => values[k] = 0)
=============================================================================
