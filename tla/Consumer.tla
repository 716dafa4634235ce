------------------------------ MODULE Consumer ------------------------------
(***************************************************************************)
(* pkg/rabbitmq/consumer.go: Run with its topology, its select loop and    *)
(* handleDelivery, and the life of a message between the broker's queue    *)
(* and the verdict of the handler.                                         *)
(*                                                                         *)
(* The broker and the amqp091 library are external: the queue is durable,  *)
(* delivers at most the prefetch count ahead of the verdicts it has read,  *)
(* reads verdicts in the order they were sent, and puts what is            *)
(* unacknowledged back at the front when the connection ends.  Who calls   *)
(* Run, and calls it again when it fails, is module SupervisedConsumer.    *)
(*                                                                         *)
(* A definition whose comment begins with "Bug:" is a mutant of the one    *)
(* that follows.                                                           *)
(***************************************************************************)
EXTENDS Integers, Sequences, FiniteSets

CONSTANTS MaxMsgs,        \* bound on the messages published
          Poison,         \* the messages the handler panics on each time
          PrefetchCount,  \* cfg.PrefetchCount, after its default of 1
          HasDLX,         \* cfg.DLXExchange # ""
          MaxLosses       \* bound on connections lost, not made or
                          \* given up in a passing panic

ASSUME MsgsAssumption     == MaxMsgs \in Nat
ASSUME PrefetchAssumption == PrefetchCount \in Nat \ {0} /\ HasDLX \in BOOLEAN
ASSUME LossAssumption     == MaxLosses \in Nat

(* A message is the number of its publication.                             *)
Msgs    == 1..MaxMsgs
Nothing == 0

ASSUME PoisonAssumption == Poison \subseteq Msgs

VARIABLES
  run,       \* Run: "off", "dial", "declare", "consume", "loop", "handle",
             \* "unwind" (a panic), "abandon" (one with a context error),
             \* "stop" (ctx), "returned" (nil)
  ctxDone,   \* is the context of Run cancelled?
  conn,      \* "none", "up", "lost"
  msgs,      \* deliveries in the library's channel, not yet taken
  handling,  \* the delivery handleDelivery works on
  losses,    \* how many connections were lost, not made or given up so far
  sent,      \* verdicts on their way to the broker: <<[msg, verdict], ...>>
  declared,  \* are exchange, queue and binding there?
  queue,     \* messages ready in the queue
  unacked,   \* messages delivered on the connection without a verdict
  acked,     \* messages the broker has removed as acknowledged
  dead,      \* messages sent on to the dead-letter exchange
  dropped,   \* messages discarded for want of one
  published, \* messages published so far
  verdicts   \* history: what the handler has returned last for each message

client  == <<run, msgs, handling>>
broker  == <<declared, queue, unacked, acked, dead, dropped, published>>
network == <<conn, losses, sent>>
vars    == <<client, ctxDone, network, broker, verdicts>>

Init ==
  /\ run = "off" /\ ctxDone = FALSE /\ conn = "none" /\ losses = 0
  /\ msgs = <<>> /\ handling = Nothing /\ sent = <<>>
  /\ declared = FALSE /\ queue = <<>> /\ unacked = <<>>
  /\ acked = {} /\ dead = {} /\ dropped = {} /\ published = {}
  /\ verdicts = [m \in Msgs |-> "none"]

(* A message among those of s, which are all different, and the others.    *)
At(s, m)      == {i \in 1..Len(s) : s[i] = m}
Only(s, m)    == IF At(s, m) = {} THEN <<>> ELSE <<m>>
Without(s, m) == IF At(s, m) = {} THEN s
                 ELSE LET i == CHOOSE i \in At(s, m) : TRUE
                      IN SubSeq(s, 1, i - 1) \o SubSeq(s, i + 1, Len(s))

-----------------------------------------------------------------------------
(* Run up to its loop.                                                     *)

RunCalled ==
  /\ run = "off"
  /\ run' = "dial"
  /\ UNCHANGED <<msgs, handling, ctxDone, network, broker, verdicts>>

Dial ==
  /\ run = "dial"
  /\ run' = "declare" /\ conn' = "up"
  /\ UNCHANGED <<msgs, handling, ctxDone, losses, sent, broker, verdicts>>

DeclareTopology ==
  /\ run = "declare" /\ conn = "up"
  /\ run' = "consume" /\ declared' = TRUE
  /\ UNCHANGED <<msgs, handling, ctxDone, network, queue, unacked, acked, dead,
                 dropped, published, verdicts>>

(* Qos and Consume.                                                        *)
Consume ==
  /\ run = "consume" /\ conn = "up"
  /\ run' = "loop"
  /\ UNCHANGED <<msgs, handling, ctxDone, network, broker, verdicts>>

(* A step of it fails; the deferred Close of what is open leaves nothing.  *)
RunFails ==
  /\ run \in {"dial", "declare", "consume"}
  /\ IF conn = "lost" THEN UNCHANGED losses
                      ELSE losses < MaxLosses /\ losses' = losses + 1
  /\ run' = "off" /\ conn' = "none"
  /\ UNCHANGED <<msgs, handling, ctxDone, sent, broker, verdicts>>

-----------------------------------------------------------------------------
(* The loop.  Its select takes any of what is ready.                       *)

(* Bug: a message is acknowledged before it is handled.                    *)
TakeAcks ==
  /\ run = "loop" /\ msgs # <<>>
  /\ run' = "handle"
  /\ handling' = Head(msgs) /\ msgs' = Tail(msgs)
  /\ sent' = IF conn = "up"
               THEN Append(sent, [msg |-> Head(msgs), verdict |-> "ack"]) ELSE sent
  /\ UNCHANGED <<ctxDone, conn, losses, broker, verdicts>>

Take ==
  /\ run = "loop" /\ msgs # <<>>
  /\ run' = "handle"
  /\ handling' = Head(msgs) /\ msgs' = Tail(msgs)
  /\ UNCHANGED <<ctxDone, network, broker, verdicts>>

(* connClose, or msgs closed once it is empty.                             *)
LoopSeesLoss ==
  /\ run = "loop" /\ conn = "lost"
  /\ run' = "off" /\ conn' = "none" /\ msgs' = <<>>
  /\ UNCHANGED <<handling, ctxDone, losses, sent, broker, verdicts>>

(* Bug: break in place of return leaves the select, not the loop.          *)
LoopSeesCancelBreaks ==
  /\ run = "loop" /\ ctxDone
  /\ UNCHANGED vars

LoopSeesCancel ==
  /\ run = "loop" /\ ctxDone
  /\ run' = "stop"
  /\ UNCHANGED <<msgs, handling, ctxDone, network, broker, verdicts>>

(* Bug: a failed delivery is logged and neither acked nor nacked.          *)
SettleAcksOnly(verdict) ==
  sent' = IF conn = "up" /\ verdict = "ack"
            THEN Append(sent, [msg |-> handling, verdict |-> verdict]) ELSE sent

(* Ack and Nack fail, and are logged, when the connection is gone.         *)
Settle(verdict) ==
  sent' = IF conn = "up"
            THEN Append(sent, [msg |-> handling, verdict |-> verdict]) ELSE sent

Verdict(err) ==
  CASE err = "nil" -> "ack" [] err = "ErrRequeue" -> "requeue" [] OTHER -> "discard"

(* Bug: the delivery is kept after its verdict.                            *)
HandlerReturnsKeeps(err) ==
  /\ run = "handle" /\ handling \notin Poison
  /\ verdicts' = [verdicts EXCEPT ![handling] = err]
  /\ Settle(Verdict(err))
  /\ run' = "loop"
  /\ UNCHANGED <<msgs, handling, ctxDone, conn, losses, broker>>

HandlerReturns(err) ==
  /\ run = "handle" /\ handling \notin Poison
  /\ verdicts' = [verdicts EXCEPT ![handling] = err]
  /\ Settle(Verdict(err))
  /\ run' = "loop" /\ handling' = Nothing
  /\ UNCHANGED <<msgs, ctxDone, conn, losses, broker>>

(* A panic of the handler unwinds Run; its deferred Close calls run.  What *)
(* it panics with may be context.Canceled or context.DeadlineExceeded.     *)
HandlerPanics ==
  /\ run = "handle"
  /\ IF handling \in Poison THEN UNCHANGED losses
                            ELSE losses < MaxLosses /\ losses' = losses + 1
  /\ run' \in {"unwind", "abandon"} /\ handling' = Nothing
  /\ UNCHANGED <<msgs, ctxDone, conn, sent, broker, verdicts>>

(* ch.Close and conn.Close: the verdicts sent before are read first.       *)
CloseReturns ==
  /\ run \in {"unwind", "abandon", "stop"}
  /\ conn = "up" => sent = <<>>
  /\ run' = IF run = "stop" THEN "returned" ELSE "off"
  /\ conn' = "none" /\ msgs' = <<>>
  /\ queue' = unacked \o queue /\ unacked' = <<>>
  /\ UNCHANGED <<handling, ctxDone, losses, sent, declared, acked, dead, dropped, published,
                 verdicts>>

-----------------------------------------------------------------------------
(* The broker, and the network.                                            *)

(* A message published before the queue is bound goes nowhere.             *)
Publish(m) ==
  /\ m = Cardinality(published) + 1
  /\ published' = published \cup {m}
  /\ IF declared THEN queue' = Append(queue, m) /\ UNCHANGED dropped
                 ELSE dropped' = dropped \cup {m} /\ UNCHANGED queue
  /\ UNCHANGED <<client, ctxDone, network, declared, unacked, acked, dead,
                 verdicts>>

(* Bug: Run does not call Qos.                                             *)
NoQos == MaxMsgs + 1

(* How far the broker delivers ahead: what Run has told Qos.               *)
Ahead == PrefetchCount

(* Bug: Consume is called with autoAck.                                    *)
AutoAckOn == TRUE

(* The autoAck of Consume: the broker forgets what it has delivered.       *)
AutoAck == FALSE

Deliver ==
  /\ conn = "up" /\ run \in {"loop", "handle"} /\ queue # <<>>
  /\ Len(unacked) < Ahead
  /\ msgs' = Append(msgs, Head(queue))
  /\ unacked' = IF AutoAck THEN unacked ELSE Append(unacked, Head(queue))
  /\ queue' = Tail(queue)
  /\ UNCHANGED <<run, handling, ctxDone, network, declared, acked, dead,
                 dropped, published, verdicts>>

BrokerSettles ==
  /\ conn = "up" /\ sent # <<>>
  /\ LET m == Head(sent).msg
         verdict == Head(sent).verdict
     IN /\ unacked' = Without(unacked, m)
        /\ queue' = IF verdict = "requeue" THEN Only(unacked, m) \o queue ELSE queue
        /\ acked' = IF verdict = "ack" THEN acked \cup {m} ELSE acked
        /\ dead' = IF verdict = "discard" /\ HasDLX THEN dead \cup {m} ELSE dead
        /\ dropped' = IF verdict = "discard" /\ ~HasDLX THEN dropped \cup {m}
                                                        ELSE dropped
  /\ sent' = Tail(sent)
  /\ UNCHANGED <<client, ctxDone, conn, losses, declared, published, verdicts>>

ConnectionLost ==
  /\ conn = "up" /\ losses < MaxLosses
  /\ conn' = "lost" /\ losses' = losses + 1 /\ sent' = <<>>
  /\ queue' = unacked \o queue /\ unacked' = <<>>
  /\ UNCHANGED <<client, ctxDone, declared, acked, dead, dropped, published,
                 verdicts>>

Cancel ==
  /\ ~ctxDone
  /\ ctxDone' = TRUE
  /\ UNCHANGED <<client, network, broker, verdicts>>

-----------------------------------------------------------------------------
Errors == {"nil", "ErrRequeue", "error"}

(* Run once it has been called.                                            *)
RunStep ==
  \/ Dial \/ DeclareTopology \/ Consume \/ RunFails
  \/ Take \/ LoopSeesLoss \/ LoopSeesCancel
  \/ \E err \in Errors : HandlerReturns(err)
  \/ HandlerPanics \/ CloseReturns

BrokerStep == \/ \E m \in Msgs : Publish(m)
              \/ Deliver \/ BrokerSettles \/ ConnectionLost
=============================================================================
