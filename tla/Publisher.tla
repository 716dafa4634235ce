----------------------------- MODULE Publisher ------------------------------
(***************************************************************************)
(* pkg/rabbitmq/publisher.go: Publish with its confirm, its one reconnect  *)
(* and its second attempt, Close, and the two mutexes.                     *)
(*                                                                         *)
(* A call Publish(m) is identified with the message m it sends, so a       *)
(* message is published by one call; calls overlap freely.  conn, ch,      *)
(* retCh and ackCh are always replaced together: they are one session, and *)
(* session 0 is their nil value.  A call dials at most once, so sessions   *)
(* are bounded by the calls.  The amqp091 library and the broker are       *)
(* external, modelled as the code relies on them: a library goroutine      *)
(* hands the frames of a session on in order and blocks on a Go channel    *)
(* whose buffer (of one) is full; ch.Close returns when the answer to it,  *)
(* which is behind the frames sent before it, has been read; the loss or   *)
(* the end of a session closes retCh and ackCh.  For an unroutable message *)
(* the broker sends basic.return and then, all the same, basic.ack.        *)
(*                                                                         *)
(* A definition whose comment begins with "Bug:" is a mutant of the one    *)
(* that follows.                                                           *)
(***************************************************************************)
EXTENDS Integers, Sequences, FiniteSets

CONSTANTS Msgs,        \* the messages, one per call of Publish
          Unroutable,  \* those no queue is bound for
          MayTimeout   \* may the confirm timeout of 5s expire?

ASSUME MsgsAssumption    == IsFiniteSet(Msgs) /\ Unroutable \subseteq Msgs
ASSUME TimeoutAssumption == MayTimeout \in BOOLEAN

Sessions == 1..(Cardinality(Msgs) + 1)

VARIABLES
  pc,       \* pc[m]: "idle", "send", "confirm", "reconnect", "close",
            \* "dial", "install", "done"
  attempt,  \* attempt[m]: which publishOnce of Publish(m) this is
  result,   \* result[m]: what Publish(m) returned
  current,  \* p.conn, p.ch, p.retCh, p.ackCh: a session, 0 when nil
  mu,       \* holder of p.mu for writing: "free", "reconnect", "Close"
  closed,   \* p.closed
  closing,  \* the call of Close: "idle", "locked", "done"
  dialled,  \* the sessions dialled so far
  status,   \* status[s]: "none", "open", "lost", "closed"
  inbox,    \* inbox[s]: publishings the broker has not handled yet
  wire,     \* wire[s]: frames for the client the library has not handed on
  retCh,    \* the buffer of NotifyReturn's channel
  ackCh,    \* the buffer of NotifyPublish's channel
  routed    \* routed[m]: how often the broker put m into a queue

caller  == <<pc, attempt, result>>
amqp    == <<dialled, status, inbox, wire, retCh, ackCh>>
vars    == <<caller, current, mu, closed, closing, amqp, routed>>

Init ==
  /\ pc = [m \in Msgs |-> "idle"]
  /\ attempt = [m \in Msgs |-> 1]
  /\ result = [m \in Msgs |-> "none"]
  /\ current = 1 /\ dialled = 1
  /\ mu = "free" /\ closed = FALSE /\ closing = "idle"
  /\ status = [s \in Sessions |-> IF s = 1 THEN "open" ELSE "none"]
  /\ inbox = [s \in Sessions |-> <<>>] /\ wire = [s \in Sessions |-> <<>>]
  /\ retCh = [s \in Sessions |-> <<>>] /\ ackCh = [s \in Sessions |-> <<>>]
  /\ routed = [m \in Msgs |-> 0]

PubMuFree == \A m \in Msgs : pc[m] \in {"idle", "done"}
Goto(m, label)  == pc' = [pc EXCEPT ![m] = label]
Return(m, what) == /\ Goto(m, "done")
                   /\ result' = [result EXCEPT ![m] = what]

-----------------------------------------------------------------------------
(* Publish and publishOnce.  pubMu is held from PublishCall to Return, so  *)
(* that nobody else changes the current session in between.                *)

PublishCall(m) ==
  /\ pc[m] = "idle" /\ PubMuFree /\ mu = "free"
  /\ IF closed THEN Return(m, "already closed")
               ELSE Goto(m, "send") /\ UNCHANGED result
  /\ UNCHANGED <<attempt, current, mu, closed, closing, amqp, routed>>

(* Bug: the error of the second attempt is logged and swallowed.           *)
FailedQuietly(m) ==
  IF attempt[m] = 1 THEN Goto(m, "reconnect") /\ UNCHANGED result
                    ELSE Return(m, "nil")

(* publishOnce has failed: the first time Publish reconnects, the second   *)
(* time it returns the error.                                              *)
Failed(m) ==
  IF attempt[m] = 1 THEN Goto(m, "reconnect") /\ UNCHANGED result
                    ELSE Return(m, "error")

(* Bug: publishOnce does not wait for the confirm.                         *)
SendForget(m) ==
  /\ pc[m] = "send" /\ mu = "free" /\ current # 0
  /\ IF status[current] = "open"
       THEN /\ inbox' = [inbox EXCEPT ![current] = Append(@, m)]
            /\ Return(m, "nil")
       ELSE Failed(m) /\ UNCHANGED inbox
  /\ UNCHANGED <<attempt, current, mu, closed, closing, dialled, status, wire,
                 retCh, ackCh, routed>>

Send(m) ==
  /\ pc[m] = "send" /\ mu = "free" /\ current # 0
  /\ IF status[current] = "open"
       THEN /\ inbox' = [inbox EXCEPT ![current] = Append(@, m)]
            /\ Goto(m, "confirm") /\ UNCHANGED result
       ELSE Failed(m) /\ UNCHANGED inbox
  /\ UNCHANGED <<attempt, current, mu, closed, closing, dialled, status, wire,
                 retCh, ackCh, routed>>

(* ch.Publish on a nil channel panics; the deferred Unlock still runs.     *)
SendOnNil(m) ==
  /\ pc[m] = "send" /\ mu = "free" /\ current = 0
  /\ Return(m, "panic")
  /\ UNCHANGED <<attempt, current, mu, closed, closing, amqp, routed>>

(* The select of publishOnce: whichever is ready, and the delivery tag of  *)
(* a confirmation is not looked at.                                        *)
ConfirmReturned(m) ==
  /\ pc[m] = "confirm" /\ retCh[current] # <<>>
  /\ retCh' = [retCh EXCEPT ![current] = Tail(@)]
  /\ Failed(m)
  /\ UNCHANGED <<attempt, current, mu, closed, closing, dialled, status, inbox,
                 wire, ackCh, routed>>

(* Bug: a nack goes round the loop again.                                  *)
ConfirmAckedSkips(m) ==
  /\ pc[m] = "confirm" /\ ackCh[current] # <<>>
  /\ ackCh' = [ackCh EXCEPT ![current] = Tail(@)]
  /\ IF Head(ackCh[current]).ack THEN Return(m, "nil") ELSE UNCHANGED <<pc, result>>
  /\ UNCHANGED <<attempt, current, mu, closed, closing, dialled, status, inbox,
                 wire, retCh, routed>>

ConfirmAcked(m) ==
  /\ pc[m] = "confirm" /\ ackCh[current] # <<>>
  /\ ackCh' = [ackCh EXCEPT ![current] = Tail(@)]
  /\ IF Head(ackCh[current]).ack THEN Return(m, "nil") ELSE Failed(m)
  /\ UNCHANGED <<attempt, current, mu, closed, closing, dialled, status, inbox,
                 wire, retCh, routed>>

ConfirmClosed(m) ==
  /\ pc[m] = "confirm" /\ status[current] # "open"
  /\ retCh[current] = <<>> \/ ackCh[current] = <<>>
  /\ Failed(m)
  /\ UNCHANGED <<attempt, current, mu, closed, closing, amqp, routed>>

(* Bug: a timeout sends again on the same session.                         *)
ConfirmTimeoutResends(m) ==
  /\ pc[m] = "confirm" /\ MayTimeout
  /\ Goto(m, "send")
  /\ UNCHANGED <<attempt, result, current, mu, closed, closing, amqp, routed>>

ConfirmTimeout(m) ==
  /\ pc[m] = "confirm" /\ MayTimeout
  /\ Failed(m)
  /\ UNCHANGED <<attempt, current, mu, closed, closing, amqp, routed>>

-----------------------------------------------------------------------------
(* The library: what Close of a channel waits for and does.                *)

CanClose(s) == status[s] = "open" => inbox[s] = <<>> /\ wire[s] = <<>>
Closed(s)   == [status EXCEPT ![s] = "closed"]

(* reconnect, then connect.                                                *)
ReconnectLock(m) ==
  /\ pc[m] = "reconnect" /\ mu = "free"
  /\ mu' = "reconnect"
  /\ Goto(m, "close")
  /\ UNCHANGED <<attempt, result, current, closed, closing, amqp, routed>>

ReconnectClose(m) ==
  /\ pc[m] = "close" /\ CanClose(current)
  /\ status' = Closed(current)
  /\ current' = 0
  /\ mu' = "free"
  /\ Goto(m, "dial")
  /\ UNCHANGED <<attempt, result, closed, closing, dialled, inbox, wire, retCh,
                 ackCh, routed>>

Dial(m) ==
  /\ pc[m] = "dial"
  /\ dialled' = dialled + 1
  /\ status' = [status EXCEPT ![dialled + 1] = "open"]
  /\ Goto(m, "install")
  /\ UNCHANGED <<attempt, result, current, mu, closed, closing, inbox, wire,
                 retCh, ackCh, routed>>

(* Bug: connect leaves the connection open when its channel fails.         *)
DialFailsOpen(m) ==
  /\ pc[m] = "dial"
  /\ dialled' = dialled + 1
  /\ status' = [status EXCEPT ![dialled + 1] = "open"]
  /\ Return(m, "error")
  /\ UNCHANGED <<attempt, current, mu, closed, closing, inbox, wire, retCh,
                 ackCh, routed>>

(* Any step of connect fails; what it has opened is closed again.          *)
DialFails(m) ==
  /\ pc[m] = "dial"
  /\ Return(m, "error")
  /\ UNCHANGED <<attempt, current, mu, closed, closing, amqp, routed>>

Install(m) ==
  /\ pc[m] = "install" /\ mu = "free"
  /\ current' = dialled
  /\ attempt' = [attempt EXCEPT ![m] = 2]
  /\ Goto(m, "send")
  /\ UNCHANGED <<result, mu, closed, closing, amqp, routed>>

(* Close holds p.mu while the library closes channel and connection; it    *)
(* does not take pubMu.                                                    *)
CloseCall ==
  /\ closing = "idle" /\ mu = "free"
  /\ closing' = "locked" /\ mu' = "Close" /\ closed' = TRUE
  /\ UNCHANGED <<caller, current, amqp, routed>>

CloseReturn ==
  /\ closing = "locked"
  /\ \/ current = 0 /\ UNCHANGED status
     \/ current # 0 /\ CanClose(current) /\ status' = Closed(current)
  /\ closing' = "done" /\ mu' = "free"
  /\ UNCHANGED <<caller, current, closed, dialled, inbox, wire, retCh, ackCh,
                 routed>>

-----------------------------------------------------------------------------
(* The broker and the library's reader, per session.                       *)

(* The capacity of the channels connect gives to the library.              *)
Buffer == 1

Frame(kind, m, ack) == [kind |-> kind, msg |-> m, ack |-> ack]

BrokerHandles(s, ack) ==
  /\ status[s] = "open" /\ inbox[s] # <<>>
  /\ LET m == Head(inbox[s])
         confirm == Frame("confirm", m, ack)
     IN IF m \in Unroutable
          THEN /\ wire' = [wire EXCEPT ![s] =
                             @ \o <<Frame("return", m, FALSE), confirm>>]
               /\ UNCHANGED routed
          ELSE /\ wire' = [wire EXCEPT ![s] = Append(@, confirm)]
               /\ routed' = [routed EXCEPT ![m] = IF ack THEN @ + 1 ELSE @]
  /\ inbox' = [inbox EXCEPT ![s] = Tail(@)]
  /\ UNCHANGED <<caller, current, mu, closed, closing, dialled, status, retCh,
                 ackCh>>

Blocked(s) ==
  /\ wire[s] # <<>>
  /\ Buffer = Len(IF Head(wire[s]).kind = "return" THEN retCh[s] ELSE ackCh[s])

Deliver(s) ==
  /\ status[s] = "open" /\ wire[s] # <<>> /\ ~Blocked(s)
  /\ wire' = [wire EXCEPT ![s] = Tail(@)]
  /\ LET frame == Head(wire[s])
     IN IF frame.kind = "return"
          THEN retCh' = [retCh EXCEPT ![s] = Append(@, frame)] /\ UNCHANGED ackCh
          ELSE ackCh' = [ackCh EXCEPT ![s] = Append(@, frame)] /\ UNCHANGED retCh
  /\ UNCHANGED <<caller, current, mu, closed, closing, dialled, status, inbox,
                 routed>>

(* The connection breaks; a blocked reader does not notice.                *)
Lose(s) ==
  /\ status[s] = "open" /\ ~Blocked(s)
  /\ status' = [status EXCEPT ![s] = "lost"]
  /\ inbox' = [inbox EXCEPT ![s] = <<>>]
  /\ wire' = [wire EXCEPT ![s] = <<>>]
  /\ UNCHANGED <<caller, current, mu, closed, closing, dialled, retCh, ackCh,
                 routed>>

Terminated ==
  /\ \A m \in Msgs : pc[m] = "done"
  /\ closing \in {"idle", "done"}
  /\ UNCHANGED vars

-----------------------------------------------------------------------------
CallStep(m) ==
  \/ PublishCall(m) \/ Send(m) \/ SendOnNil(m)
  \/ ConfirmReturned(m) \/ ConfirmAcked(m) \/ ConfirmClosed(m) \/ ConfirmTimeout(m)
  \/ ReconnectLock(m) \/ ReconnectClose(m) \/ Dial(m) \/ DialFails(m) \/ Install(m)

SessionStep(s) ==
  \/ \E ack \in BOOLEAN : BrokerHandles(s, ack)
  \/ Deliver(s) \/ Lose(s)

Next ==
  \/ \E m \in Msgs : CallStep(m)
  \/ CloseCall \/ CloseReturn
  \/ \E s \in Sessions : SessionStep(s)
  \/ Terminated

Spec == Init /\ [][Next]_vars

(* Goroutines that can run do, the library hands frames on and the broker  *)
(* answers; nothing obliges the application to call Publish or Close, nor  *)
(* the network to fail.  The lock of p.mu is not starved: SF.              *)
Fairness ==
  /\ \A m \in Msgs : SF_vars(pc[m] # "idle" /\ CallStep(m))
  /\ WF_vars(CloseReturn)
  /\ \A s \in Sessions : /\ WF_vars(\E ack \in BOOLEAN : BrokerHandles(s, ack))
                         /\ WF_vars(Deliver(s))

FairSpec == Spec /\ Fairness
=============================================================================
