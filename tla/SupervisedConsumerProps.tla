----------------------- MODULE SupervisedConsumerProps ----------------------
(***************************************************************************)
(* What makes a supervised consumer correct.                               *)
(***************************************************************************)
EXTENDS SupervisedConsumer

Elems(s) == {s[i] : i \in 1..Len(s)}

(* The shape of the state of Run, of the broker and of the worker: Run is  *)
(* under way exactly while the worker runs.                                *)
TypeOK ==
  /\ run \in {"off", "dial", "declare", "consume", "loop", "handle", "unwind",
              "abandon", "stop", "returned"}
  /\ ctxDone \in BOOLEAN /\ declared \in BOOLEAN
  /\ conn \in {"none", "up", "lost"}
  /\ msgs \in Seq(Msgs) /\ queue \in Seq(Msgs) /\ unacked \in Seq(Msgs)
  /\ handling \in Msgs \cup {Nothing}
  /\ (run = "handle") <=> (handling # Nothing)
  /\ sent \in Seq([msg : Msgs, verdict : {"ack", "requeue", "discard"}])
  /\ acked \subseteq Msgs /\ dead \subseteq Msgs /\ dropped \subseteq Msgs
  /\ published \subseteq Msgs
  /\ verdicts \in [Msgs -> Errors \cup {"none"}]
  /\ worker \in {"idle", "running", "failed", "waiting", "denied", "over",
                 "mistaken"}
  /\ worker = "running" <=> run \notin {"off", "returned"}
  /\ recent \in 0..MaxRestarts

(* Every message published is in one place: nothing is lost and nothing    *)
(* doubled by crashes, panics, lost connections, restarts or requeues.     *)
Held == queue \o unacked
Conserved ==
  /\ published = Elems(Held) \cup acked \cup dead \cup dropped
  /\ Len(Held) = Cardinality(Elems(Held))
  /\ Elems(Held) \cap (acked \cup dead \cup dropped) = {}

(* Consumer and Supervisor together are a WorkQueue: whatever connections, *)
(* calls of Run and restarts come between, a message is settled once, by   *)
(* the verdict of the handler that had it last (handleDelivery), is never  *)
(* handled again after that, and no more than the prefetch count are       *)
(* handed out.                                                             *)
Place(m) == CASE m \in acked          -> "acked"
              [] m \in dead           -> "dead"
              [] m \in dropped        -> "dropped"
              [] m \in Elems(unacked) -> "handed"
              [] m \in Elems(queue)   -> "ready"
              [] OTHER                -> "none"
Abstract == INSTANCE WorkQueue WITH
  Limit <- PrefetchCount,
  place <- [m \in Msgs |-> Place(m)]
ImplementsQueue == Abstract!QueueSpec

(* Run never has more messages in hand than the prefetch count, stale ones *)
(* of a lost connection included, and on a live connection it works on     *)
(* messages the broker still counts as delivered to it.                    *)
InHand == Len(msgs) + (IF handling = Nothing THEN 0 ELSE 1)
WithinPrefetch ==
  /\ InHand <= PrefetchCount
  /\ conn = "up" => Elems(msgs) \cup ({handling} \ {Nothing}) \subseteq Elems(unacked)

-----------------------------------------------------------------------------
(* Refuted: Run processes messages until ctx is cancelled or the           *)
(* connection is lost (its comment): the select may prefer a delivery.     *)
NoTakeAfterCancel ==
  [][ctxDone \/ conn = "lost" => handling' = Nothing \/ handling' = handling]_allVars

(* Refuted: if execution fails before shutdown or cancel, a restart is     *)
(* requested (comment in runWorker): a panic with the error of a context,  *)
(* one the handler made itself perhaps, ends the worker instead.           *)
FailureRequested == worker # "mistaken"

-----------------------------------------------------------------------------
(* Liveness, under SupervisedFairSpec.                                     *)

SettledMsgs == acked \cup dead \cup dropped

(* A message the handler panics on each time is put back in front of the   *)
(* others and brings the worker down again and again.  Either the restart  *)
(* budget ends that, or the failures are so far apart that the window      *)
(* slides for ever; otherwise every message is settled in the end, as long *)
(* as runWorker does not mistake a panic for a cancellation.               *)
SlidesForEver == []<><<WindowSlides>>_allVars
SettledOrStopped ==
  \/ SlidesForEver
  \/ \A m \in Msgs :
       [](m \in published => <>(\/ ctxDone \/ m \in SettledMsgs
                               \/ worker \in {"denied", "mistaken"}))

(* After a cancellation the worker comes to an end, whatever Run, the      *)
(* restart handler or RestartWait were about, and keeps nothing back: the  *)
(* broker has again what was not settled.                                  *)
StopsOnCancel ==
  ctxDone ~> (worker \in {"over", "denied", "mistaken"} /\ conn = "none" /\ unacked = <<>>)
=============================================================================
