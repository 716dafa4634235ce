---------------------------- MODULE MongoConnect ----------------------------
(***************************************************************************)
(* pkg/mongo: Connect with its attempts and its backoff, and Disconnect.   *)
(*                                                                         *)
(* The driver is external: mongo.Connect makes a client, whose goroutines  *)
(* live until its Disconnect, or refuses the URL; Ping asks the server and *)
(* fails under a context that is done.                                     *)
(*                                                                         *)
(* A definition whose comment begins with "Bug:" is a mutant of the one    *)
(* that follows.                                                           *)
(***************************************************************************)
EXTENDS Process

CONSTANT MaxRetries   \* cfg.MaxRetries, as it is given

ASSUME RetriesAssumption == MaxRetries \in Int

VARIABLES
  connect,   \* Connect: "off", "attempt", "ping", "backoff", "nil", "error",
             \* and "disconnected" after Disconnect
  attempt,   \* the attempt under way
  wait,      \* the next wait, in seconds
  clients    \* how many clients were made and not disconnected

mongo == <<connect, attempt, wait, clients>>

MongoInit == connect = "off" /\ attempt = 0 /\ wait = 1 /\ clients = 0

(* applyDefaults.                                                          *)
Retries == IF MaxRetries = 0 THEN 10 ELSE MaxRetries

ConnectCalled ==
  /\ connect = "off"
  /\ attempt' = 1
  /\ connect' = IF 1 <= Retries THEN "attempt" ELSE "error"
  /\ UNCHANGED <<wait, clients>>

(* mongo.Connect.                                                          *)
MakesClient ==
  /\ connect = "attempt"
  /\ connect' = "ping" /\ clients' = clients + 1
  /\ UNCHANGED <<attempt, wait>>

PingAnswers ==
  /\ connect = "ping" /\ ~ctxDone
  /\ connect' = "nil"
  /\ UNCHANGED <<attempt, wait, clients>>

(* Bug: the loop ends one attempt early.                                   *)
LastButOne == attempt >= Retries - 1

Last == attempt = Retries

(* The URL is refused, or the ping fails.                                  *)
AttemptFails ==
  /\ connect \in {"attempt", "ping"}
  /\ connect' = IF Last THEN "error" ELSE "backoff"
  /\ UNCHANGED <<attempt, wait, clients>>

BackoffSeesCancel ==
  /\ connect = "backoff" /\ ctxDone
  /\ connect' = "error"
  /\ UNCHANGED <<attempt, wait, clients>>

(* Bug: the wait is doubled without end.                                   *)
Doubled == 2 * wait

NextWait == IF wait < 30 THEN 2 * wait ELSE wait

(* The select may prefer the timer to a cancelled context.                 *)
BackoffEnds ==
  /\ connect = "backoff"
  /\ connect' = "attempt"
  /\ attempt' = attempt + 1 /\ wait' = NextWait
  /\ UNCHANGED clients

ConnectStep == \/ ConnectCalled \/ MakesClient \/ PingAnswers \/ AttemptFails
               \/ BackoffSeesCancel \/ BackoffEnds

(* The driver's Disconnect may fail, which leaves the client behind.       *)
Disconnect ==
  /\ connect = "nil"
  /\ connect' = "disconnected" /\ clients' \in {clients, clients - 1}
  /\ UNCHANGED <<attempt, wait>>
=============================================================================
