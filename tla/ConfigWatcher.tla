---------------------------- MODULE ConfigWatcher ---------------------------
(***************************************************************************)
(* pkg/config/client.go: the Watcher, its periodic reload from a           *)
(* ConfigSource (Start), its push updates from RabbitMQ                    *)
(* (SubscribeRabbitMQ) and Set, all writing one map under w.mu.            *)
(*                                                                         *)
(* A config value is the number of the change that made it; 0 stands for   *)
(* an absent key.  The configuration service and the broker are external:  *)
(* the service numbers its changes and publishes each new value, not a     *)
(* removal (the message format has none), to config.events; once the first *)
(* subscription has bound it, the durable queue keeps a message until its  *)
(* Ack arrives and delivers what is not acknowledged again, in order, to   *)
(* the next subscription.  The Supervisor runs the two functions and calls *)
(* the subscription again when it fails, within its restart budget (module *)
(* Supervisor, of which SupervisedConsumer says more).                     *)
(*                                                                         *)
(* A definition whose comment begins with "Bug:" is a mutant of the one    *)
(* that follows.                                                           *)
(***************************************************************************)
EXTENDS Integers, Sequences, FiniteSets

CONSTANTS Keys,        \* the keys the service has
          Watched,     \* w.keys
          Answered,    \* the keys source.Load may answer
          Text,        \* the text of each change, as the getters tell it apart
          Nobody,      \* the key of a message applyUpdate ignores
          MaxChanges,  \* bound on the changes of the service and on Set
          MaxRestarts, \* cfg.MaxRestarts of the Supervisor
          Settable     \* the keys the application calls Set for

ASSUME KeysAssumption   == /\ Watched \subseteq Keys /\ Settable \subseteq Keys
                           /\ Watched \subseteq Answered /\ Answered \subseteq Keys
                           /\ Nobody \notin Keys
ASSUME ChangeAssumption == MaxChanges \in Nat /\ MaxRestarts \in Nat

Versions == 1..MaxChanges

(* A true word, a numeral that is no true word, any other text, no text.   *)
ASSUME TextAssumption == Text \in [Versions -> {"yes", "7", "maybe", ""}]

VARIABLES
  values,   \* w.values: 0 for an absent key
  loop,     \* Start: "load", "answer", "select", "returned"
  loaded,   \* vals in reload: the answer of source.Load
  ctxDone,  \* is the context of both functions cancelled?
  sub,      \* SubscribeRabbitMQ: "setup" (up to Consume), "live", "lost" (the
            \* connection is gone, the select has not noticed), "failed" (a
            \* restart is requested), "denied" (for good), "returned" (ctx)
  recent,   \* how many of its restarts lie in the Supervisor's window
  taken,    \* how many messages at the head of the queue this subscription
            \* has applied and acknowledged, the Acks still under way
  held,     \* how many the library had of a connection now lost
  bound,    \* is the queue declared and bound to config.events?
  queue,    \* the messages the broker holds: <<[key, value], ...>>  (external)
  source,   \* what the service would answer                         (external)
  changes,  \* the number of changes so far                          (external)
  pushed,   \* history: pushed[k]: the last value that came into the queue
  known,    \* history: keys not changed since the reload under way began
  current,  \* history: keys not changed since the last completed reload began
  failedEmpty \* history: a load failed while there were no values

watcher == <<values, loop, loaded, failedEmpty>>
rabbit  == <<sub, recent, taken, held, bound, queue>>
service == <<source, changes, pushed>>
vars    == <<watcher, ctxDone, rabbit, service, known, current>>

Init ==
  /\ values = [k \in Keys |-> 0] /\ loaded = [k \in Answered |-> 0]
  /\ loop = "load" /\ ctxDone = FALSE /\ failedEmpty = FALSE
  /\ sub = "setup" /\ recent = 0 /\ taken = 0 /\ held = 0
  /\ bound = FALSE /\ queue = <<>>
  /\ source = [k \in Keys |-> 0] /\ changes = 0
  /\ pushed = [k \in Keys |-> 0]
  /\ known = Keys /\ current = {}

-----------------------------------------------------------------------------
(* The configuration service.                                              *)

(* What is published to an exchange that nothing is bound to is lost.      *)
Enqueue(msg) == queue' = IF bound THEN Append(queue, msg) ELSE queue

(* The key gets a new value, which is published.                           *)
SourceChanges(k) ==
  /\ changes < MaxChanges
  /\ changes' = changes + 1
  /\ source' = [source EXCEPT ![k] = changes + 1]
  /\ Enqueue([key |-> k, value |-> changes + 1])
  /\ pushed' = IF bound THEN [pushed EXCEPT ![k] = changes + 1] ELSE pushed
  /\ known' = known \ {k} /\ current' = current \ {k}
  /\ UNCHANGED <<watcher, ctxDone, sub, recent, taken, held, bound>>

SourceRemoves(k) ==
  /\ changes < MaxChanges /\ source[k] # 0
  /\ changes' = changes + 1
  /\ source' = [source EXCEPT ![k] = 0]
  /\ known' = known \ {k} /\ current' = current \ {k}
  /\ UNCHANGED <<watcher, ctxDone, rabbit, pushed>>

(* A message that is malformed or has no key.                              *)
SourcePublishesJunk ==
  /\ changes < MaxChanges
  /\ changes' = changes + 1
  /\ Enqueue([key |-> Nobody, value |-> changes + 1])
  /\ UNCHANGED <<watcher, ctxDone, sub, recent, taken, held, bound, source, pushed,
                 known, current>>

-----------------------------------------------------------------------------
(* Start and reload.  Load (HTTPSource, StaticSource) runs without the     *)
(* lock; over HTTP it answers what the service sends, whatever was asked.  *)

LoadAnswers ==
  /\ loop = "load"
  /\ loaded' = [k \in Answered |-> source[k]]
  /\ loop' = "answer"
  /\ UNCHANGED <<values, failedEmpty, ctxDone, rabbit, service, known, current>>

(* Load fails (a request not answered in 5 s, a status that is not 200, a  *)
(* body that does not decode): the error is logged, and the loop goes on.  *)
LoadFails ==
  /\ loop = "load"
  /\ loop' = "select"
  /\ failedEmpty' = (failedEmpty \/ \A k \in Keys : values[k] = 0)
  /\ UNCHANGED <<values, loaded, ctxDone, rabbit, service, known, current>>

Overwritten(k) == k \in Answered /\ loaded[k] # 0
Gone(k)        == k \in Watched /\ loaded[k] = 0

(* Bug: keys that have disappeared from the source are left in the map.    *)
ReloadKeeps ==
  /\ loop = "answer"
  /\ values' = [k \in Keys |-> IF Overwritten(k) THEN loaded[k] ELSE values[k]]
  /\ current' = known
  /\ loaded' = [k \in Answered |-> 0]
  /\ loop' = "select"
  /\ UNCHANGED <<failedEmpty, ctxDone, rabbit, service, known>>

(* Bug: a value present in the map is not overwritten.                     *)
ReloadAddsOnly ==
  /\ loop = "answer"
  /\ values' = [k \in Keys |-> IF Gone(k) \/ (Overwritten(k) /\ values[k] = 0)
                                 THEN loaded[k] ELSE values[k]]
  /\ current' = known
  /\ loaded' = [k \in Answered |-> 0]
  /\ loop' = "select"
  /\ UNCHANGED <<failedEmpty, ctxDone, rabbit, service, known>>

(* Under the lock: the keys of w.keys absent from the answer are deleted,  *)
(* and every key of the answer, of w.keys or not, is set.                  *)
Reload ==
  /\ loop = "answer"
  /\ values' = [k \in Keys |-> IF Gone(k) \/ Overwritten(k) THEN loaded[k]
                                                            ELSE values[k]]
  /\ current' = known
  /\ loaded' = [k \in Answered |-> 0]
  /\ loop' = "select"
  /\ UNCHANGED <<failedEmpty, ctxDone, rabbit, service, known>>

Tick ==
  /\ loop = "select"
  /\ loop' = "load"
  /\ known' = Keys
  /\ UNCHANGED <<values, loaded, failedEmpty, ctxDone, rabbit, service, current>>

StartReturns ==
  /\ loop = "select" /\ ctxDone
  /\ loop' = "returned"
  /\ UNCHANGED <<values, loaded, failedEmpty, ctxDone, rabbit, service, known,
                 current>>

-----------------------------------------------------------------------------
(* SubscribeRabbitMQ and applyUpdate.                                      *)

(* The connection, ExchangeDeclare, QueueDeclare, QueueBind and Consume.   *)
Subscribe ==
  /\ sub = "setup"
  /\ sub' = "live" /\ bound' = TRUE
  /\ UNCHANGED <<watcher, ctxDone, recent, taken, held, queue, service, known, current>>

CanReceive == \/ sub = "live" /\ taken < Len(queue)
              \/ sub = "lost" /\ taken < held

(* Bug: a message with no key stops the loop.                              *)
ReceiveSkips ==
  /\ CanReceive
  /\ LET msg == queue[taken + 1]
     IN /\ msg.key \in Keys
        /\ values' = [values EXCEPT ![msg.key] = msg.value]
  /\ taken' = taken + 1
  /\ UNCHANGED <<loop, loaded, failedEmpty, ctxDone, sub, recent, held, bound, queue,
                 service, known, current>>

(* A delivery is taken from msgs, applied unless it is junk, and           *)
(* acknowledged.  The library may hold deliveries of a lost connection.    *)
Receive ==
  /\ CanReceive
  /\ LET msg == queue[taken + 1]
     IN IF msg.key \in Keys THEN values' = [values EXCEPT ![msg.key] = msg.value]
                            ELSE UNCHANGED values
  /\ taken' = taken + 1
  /\ UNCHANGED <<loop, loaded, failedEmpty, ctxDone, sub, recent, held, bound, queue,
                 service, known, current>>

(* Bug: autoAck: the broker forgets a message when it sends it.            *)
AckArrivesAuto ==
  /\ sub = "live" /\ queue # <<>>
  /\ queue' = Tail(queue)
  /\ taken' = IF taken > 0 THEN taken - 1 ELSE 0
  /\ UNCHANGED <<watcher, ctxDone, sub, recent, held, bound, service, known, current>>

(* Bug: Acks and deliveries are counted apart.                             *)
AckArrivesUncounted ==
  /\ sub = "live" /\ taken > 0
  /\ queue' = Tail(queue)
  /\ UNCHANGED <<watcher, ctxDone, sub, recent, taken, held, bound, service, known,
                 current>>

AckArrives ==
  /\ sub = "live" /\ taken > 0
  /\ queue' = Tail(queue)
  /\ taken' = taken - 1
  /\ UNCHANGED <<watcher, ctxDone, sub, recent, held, bound, service, known, current>>

ConnectionLost ==
  /\ sub = "live"
  /\ sub' = "lost"
  /\ held' \in taken..Len(queue)
  /\ UNCHANGED <<watcher, ctxDone, recent, taken, bound, queue, service, known,
                 current>>

(* A step of the set-up fails, before the queue is bound or behind it, or  *)
(* the select sees NotifyClose or msgs closed: an error for runWorker.     *)
SubscribeFails ==
  /\ \/ sub = "setup" /\ bound' \in {bound, TRUE}
     \/ sub = "lost" /\ bound' = bound
  /\ sub' = IF ctxDone THEN "returned" ELSE "failed"
  /\ taken' = 0 /\ held' = 0
  /\ UNCHANGED <<watcher, ctxDone, recent, queue, service, known, current>>

(* The select sees the context, or handleRestarts does.                    *)
SubscribeReturns ==
  /\ sub \in {"live", "lost", "failed"} /\ ctxDone
  /\ sub' = "returned" /\ taken' = 0 /\ held' = 0
  /\ UNCHANGED <<watcher, ctxDone, recent, bound, queue, service, known, current>>

(* handleRestarts grants the restart, waits and calls the function again,  *)
(* or stops it for good.                                                   *)
Restart ==
  /\ sub = "failed" /\ recent < MaxRestarts
  /\ sub' = "setup" /\ recent' = recent + 1
  /\ UNCHANGED <<watcher, ctxDone, taken, held, bound, queue, service, known, current>>

Deny ==
  /\ sub = "failed" /\ recent >= MaxRestarts
  /\ sub' = "denied"
  /\ UNCHANGED <<watcher, ctxDone, recent, taken, held, bound, queue, service, known,
                 current>>

(* The oldest restart of the window comes to lie outside of it.            *)
WindowSlides ==
  /\ recent > 0
  /\ recent' = recent - 1
  /\ UNCHANGED <<watcher, ctxDone, sub, taken, held, bound, queue, service, known,
                 current>>

-----------------------------------------------------------------------------
Set(k) ==
  /\ k \in Settable /\ changes < MaxChanges
  /\ changes' = changes + 1
  /\ values' = [values EXCEPT ![k] = changes + 1]
  /\ current' = current \ {k}
  /\ UNCHANGED <<loop, loaded, failedEmpty, ctxDone, rabbit, source, pushed, known>>

(* The getters, under the read lock.  An absent key reads as "".           *)
Get(k)            == IF values[k] = 0 THEN "" ELSE Text[values[k]]
GetString(k, def) == IF Get(k) = "" THEN def ELSE Get(k)
GetInt(k, def)    == IF Get(k) = "7" THEN 7 ELSE def
GetBool(k, def)   == IF Get(k) = "" THEN def ELSE Get(k) = "yes"

Cancel ==
  /\ ~ctxDone
  /\ ctxDone' = TRUE
  /\ UNCHANGED <<watcher, rabbit, service, known, current>>

ReloadStep    == LoadAnswers \/ LoadFails \/ Reload \/ Tick \/ StartReturns
SubscribeStep == Subscribe \/ Receive \/ AckArrives \/ ConnectionLost
                   \/ SubscribeFails \/ SubscribeReturns
                   \/ Restart \/ Deny \/ WindowSlides

Next ==
  \/ \E k \in Keys : SourceChanges(k) \/ SourceRemoves(k) \/ Set(k)
  \/ SourcePublishesJunk
  \/ ReloadStep \/ SubscribeStep \/ Cancel
  \/ (loop = "returned" /\ sub \in {"returned", "denied"} /\ UNCHANGED vars)

Spec == Init /\ [][Next]_vars

(* The two functions run, the ticker fires, a source asked again and again *)
(* answers, and a broker that keeps being subscribed to accepts, delivers  *)
(* and gets an Ack (SF: neither is down at every attempt).  Nothing        *)
(* obliges the service to change, the context to be cancelled, or the      *)
(* window to slide; the select sees a cancelled context in the end (SF).   *)
Fairness ==
  /\ SF_vars(LoadAnswers) /\ WF_vars(Reload) /\ WF_vars(Tick)
  /\ SF_vars(StartReturns)
  /\ SF_vars(Subscribe) /\ WF_vars(sub = "lost" /\ SubscribeFails)
  /\ WF_vars(Restart \/ Deny) /\ SF_vars(SubscribeReturns)
  /\ SF_vars(sub = "live" /\ Receive) /\ SF_vars(AckArrives)

FairSpec == Spec /\ Fairness
=============================================================================
