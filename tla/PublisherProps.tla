--------------------------- MODULE PublisherProps ---------------------------
(***************************************************************************)
(* What makes the publisher of pkg/rabbitmq correct, and what its comments *)
(* promise.                                                                *)
(***************************************************************************)
EXTENDS Publisher

Labels  == {"idle", "send", "confirm", "reconnect", "close", "dial",
            "install", "done"}
Results == {"none", "nil", "error", "already closed", "panic"}
Frames  == [kind : {"return", "confirm"}, msg : Msgs, ack : BOOLEAN]

(* The shape of the state of Publisher and of its sessions.                *)
TypeOK ==
  /\ pc \in [Msgs -> Labels]
  /\ attempt \in [Msgs -> 1..2]
  /\ result \in [Msgs -> Results]
  /\ dialled \in Sessions /\ current \in 0..dialled
  /\ mu \in {"free", "reconnect", "Close"}
  /\ closed \in BOOLEAN /\ closing \in {"idle", "locked", "done"}
  /\ status \in [Sessions -> {"none", "open", "lost", "closed"}]
  /\ inbox \in [Sessions -> Seq(Msgs)]
  /\ wire \in [Sessions -> Seq(Frames)]
  /\ retCh \in [Sessions -> Seq(Frames)] /\ ackCh \in [Sessions -> Seq(Frames)]
  /\ \A s \in Sessions : Len(retCh[s]) <= 1 /\ Len(ackCh[s]) <= 1
  /\ routed \in [Msgs -> Nat]

(* reconnect and connect leak no connection: an open one is the current    *)
(* session, or is about to become it.                                      *)
NoLeakedSession ==
  \A s \in Sessions :
    status[s] = "open" => \/ s = current
                          \/ s = dialled /\ \E m \in Msgs : pc[m] = "install"

(* The broker queues the message of a Publish twice at the most            *)
(* (publishOnce, one reconnect, publishOnce), whatever times out, is       *)
(* returned or is lost on the way.                                         *)
AtMostTwice == \A m \in Msgs : routed[m] <= 2

(* "Publisher confirms ensure broker acceptance; NotifyReturn catches      *)
(* unroutable mandatory messages" (publishOnce): nil means it is queued.   *)
TruthfulSuccess == \A m \in Msgs : result[m] = "nil" => routed[m] > 0

(* The open session a call finds is clean: no frame of an earlier call is  *)
(* left in it that publishOnce could take for the answer to its message.   *)
CleanSession ==
  (PubMuFree /\ current # 0 /\ status[current] = "open") =>
    /\ inbox[current] = <<>> /\ wire[current] = <<>>
    /\ retCh[current] = <<>> /\ ackCh[current] = <<>>

(* "Publisher reconnects on failure" (package comment): it never panics.   *)
NeverPanics == \A m \in Msgs : result[m] # "panic"

(* "Close shuts down the channel and connection gracefully" (Close): once  *)
(* it has returned, no connection is open or is being opened.              *)
ClosedForGood ==
  closing = "done" => \A s \in Sessions : status[s] # "open"

-----------------------------------------------------------------------------
(* Liveness, under FairSpec.                                               *)

(* "It performs a single reconnect attempt on transient channel errors"    *)
(* (Publisher), "Close shuts down the channel and connection gracefully":  *)
(* every call of Publish and of Close returns in the end.                  *)
CallsReturn ==
  /\ \A m \in Msgs : pc[m] # "idle" ~> pc[m] = "done"
  /\ closing = "locked" ~> closing = "done"
=============================================================================
