----------------------------- MODULE WorkQueue ------------------------------
(***************************************************************************)
(* What pkg/rabbitmq promises of a message in a queue, with no connection, *)
(* channel or goroutine in it: the message is handed out, to be handled    *)
(* any number of times, until the verdict given last settles it for good.  *)
(* Module SupervisedConsumer is shown to implement this specification.     *)
(***************************************************************************)
EXTENDS Integers, FiniteSets

CONSTANTS Msgs,      \* the messages there may be
          Limit,     \* how many are handed out at a time
          HasDLX     \* is there a dead-letter exchange?

VARIABLES place,     \* place[m]: "none", "ready", "handed", or settled
          verdicts   \* verdicts[m]: what the handler has returned last

queueVars == <<place, verdicts>>

Settled == {"acked", "dead", "dropped"}
Handed  == {m \in Msgs : place[m] = "handed"}

QueueInit ==
  /\ place = [m \in Msgs |-> "none"]
  /\ verdicts = [m \in Msgs |-> "none"]

Move(m, to) == place' = [place EXCEPT ![m] = to] /\ UNCHANGED verdicts

(* A message for which there is no queue yet goes nowhere.                 *)
Arrive(m) == place[m] = "none" /\ (Move(m, "ready") \/ Move(m, "dropped"))

Hand(m) == place[m] = "ready" /\ Cardinality(Handed) < Limit /\ Move(m, "handed")

(* The handler returns, perhaps for a delivery that has been taken back    *)
(* meanwhile, but never for a message that is settled.                     *)
Answer(m, err) ==
  /\ place[m] \in {"ready", "handed"}
  /\ verdicts' = [verdicts EXCEPT ![m] = err]
  /\ UNCHANGED place

(* The last verdict decides what becomes of the message.                   *)
Settle(m) ==
  /\ place[m] = "handed"
  /\ \/ verdicts[m] = "nil" /\ Move(m, "acked")
     \/ verdicts[m] = "error" /\ Move(m, IF HasDLX THEN "dead" ELSE "dropped")
     \/ verdicts[m] = "ErrRequeue" /\ Move(m, "ready")

(* All that is handed out is taken back when the connection ends.          *)
TakeBack ==
  /\ place' = [m \in Msgs |-> IF m \in Handed THEN "ready" ELSE place[m]]
  /\ UNCHANGED verdicts

QueueNext ==
  \/ \E m \in Msgs :
       \/ Arrive(m) \/ Hand(m) \/ Settle(m)
       \/ \E err \in {"nil", "ErrRequeue", "error"} : Answer(m, err)
  \/ TakeBack

QueueSpec == QueueInit /\ [][QueueNext]_queueVars
=============================================================================
