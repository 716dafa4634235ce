-------------------------- MODULE PublisherProofs ---------------------------
(***************************************************************************)
(* Theorems about Publisher, for any finite set of messages.               *)
(***************************************************************************)
EXTENDS PublisherProps, FiniteSetTheorems, TLAPS

(* pubMu admits one call at a time.                                        *)
Busy(m) == pc[m] \notin {"idle", "done"}
OneCall == \A m, p \in Msgs : Busy(m) /\ Busy(p) => m = p

(* A call reconnects in its first attempt only; it has a session until it  *)
(* has closed it, and none from then until it installs the next.           *)
Attempts ==
  \A m \in Msgs :
    /\ pc[m] \in {"idle", "reconnect", "close", "dial", "install"} => attempt[m] = 1
    /\ pc[m] \in {"confirm", "reconnect", "close"} => current # 0
    /\ pc[m] \in {"dial", "install"} => current = 0

Mutex ==
  /\ mu = "Close" <=> closing = "locked"
  /\ mu = "reconnect" <=> \E m \in Msgs : pc[m] = "close"

(* Each call dials at most once.                                           *)
Dialled == {m \in Msgs : pc[m] = "install" \/ attempt[m] = 2}
Dials ==
  /\ dialled = Cardinality(Dialled) + 1
  /\ \A s \in Sessions : s > dialled => status[s] = "none"

(* What the broker has not handled yet is in the open current session, no  *)
(* message twice; each attempt sends once.                                 *)
InInbox(m) == \E s \in Sessions : \E i \in 1..Len(inbox[s]) : inbox[s][i] = m
Sent(m) == (IF attempt[m] = 2 THEN 1 ELSE 0) + (IF pc[m] \in {"idle", "send"} THEN 0 ELSE 1)
SendInv ==
  /\ \A s \in Sessions : inbox[s] # <<>> => s = current /\ status[s] = "open"
  /\ \A s \in Sessions : \A i, j \in 1..Len(inbox[s]) :
       inbox[s][i] = inbox[s][j] => i = j
  /\ \A m \in Msgs : pc[m] = "send" => ~InInbox(m)
  /\ \A m \in Msgs : routed[m] <= Sent(m) /\ (InInbox(m) => routed[m] < Sent(m))

(* When every message is routable and no confirm times out: a frame is a   *)
(* confirm, an ack only of a message that has been queued; what is in the  *)
(* current session is of the call that waits for its confirm; for as long  *)
(* as the session is open that is one publishing or its confirm, and       *)
(* nothing when no call waits.                                             *)
Calm     == Unroutable = {} /\ ~MayTimeout
Sound(f) == f.kind = "confirm" /\ (f.ack => routed[f.msg] > 0)
Empty(s) == inbox[s] = <<>> /\ wire[s] = <<>> /\ ackCh[s] = <<>>
One(s)   == \/ Len(inbox[s]) = 1 /\ wire[s] = <<>> /\ ackCh[s] = <<>>
            \/ inbox[s] = <<>> /\ Len(wire[s]) = 1 /\ ackCh[s] = <<>>
            \/ inbox[s] = <<>> /\ wire[s] = <<>> /\ Len(ackCh[s]) = 1
About(s, m) ==
  /\ \A i \in 1..Len(inbox[s]) : inbox[s][i] = m
  /\ \A i \in 1..Len(wire[s]) : wire[s][i].msg = m
  /\ \A i \in 1..Len(ackCh[s]) : ackCh[s][i].msg = m
Fresh(s) == s > dialled \/ (s = dialled /\ \E m \in Msgs : pc[m] = "install")
CalmInv ==
  /\ \A s \in Sessions :
       /\ retCh[s] = <<>>
       /\ \A i \in 1..Len(wire[s]) : Sound(wire[s][i])
       /\ \A i \in 1..Len(ackCh[s]) : Sound(ackCh[s][i])
       /\ Fresh(s) => Empty(s)
  /\ \A m \in Msgs : pc[m] = "confirm" => About(current, m)
  /\ (current # 0 /\ status[current] = "open") =>
       IF \E m \in Msgs : pc[m] = "confirm" THEN One(current) ELSE Empty(current)
  /\ TruthfulSuccess

Shape   == OneCall /\ Attempts /\ Mutex /\ Dials /\ NoLeakedSession
TypeInv == TypeOK /\ Shape

-----------------------------------------------------------------------------
LEMMA AppendFacts ==
  ASSUME NEW M, NEW q \in Seq(M), NEW m \in M
  PROVE  /\ Append(q, m) \in Seq(M) /\ Len(Append(q, m)) = Len(q) + 1
         /\ Append(q, m)[Len(q) + 1] = m
         /\ \A i \in 1..Len(q) : Append(q, m)[i] = q[i]
  OBVIOUS

LEMMA PairFacts ==
  ASSUME NEW M, NEW q \in Seq(M), NEW m \in M, NEW p \in M
  PROVE  q \o <<m, p>> \in Seq(M)
  OBVIOUS

LEMMA HeadTailFacts ==
  ASSUME NEW M, NEW q \in Seq(M), q # <<>>
  PROVE  /\ Head(q) \in M /\ Head(q) = q[1] /\ Len(q) > 0
         /\ Tail(q) \in Seq(M) /\ Len(Tail(q)) = Len(q) - 1
         /\ \A i \in 1..Len(Tail(q)) : Tail(q)[i] = q[i + 1]
  OBVIOUS

LEMMA EmptyFacts ==
  ASSUME NEW M, NEW q \in Seq(M)
  PROVE  /\ Len(q) \in Nat /\ (q = <<>> <=> Len(q) = 0)
  OBVIOUS

LEMMA SessionFacts ==
  /\ Cardinality(Msgs) \in Nat /\ 1 \in Sessions
  /\ \A s \in Sessions : s \in Nat /\ s # 0
  /\ IsFiniteSet(Dialled) /\ Cardinality(Dialled) \in Nat
<1>1. Cardinality(Msgs) \in Nat
  BY MsgsAssumption, FS_CardinalityType
<1>2. IsFiniteSet(Dialled) /\ Cardinality(Dialled) \in Nat
  BY MsgsAssumption, FS_Subset, FS_CardinalityType DEF Dialled
<1> QED BY <1>1, <1>2 DEF Sessions

(* A call that has not dialled may: there is a session left for it.        *)
LEMMA RoomToDial ==
  ASSUME TypeInv, NEW m \in Msgs, m \notin Dialled
  PROVE  /\ dialled + 1 \in Sessions
         /\ Cardinality(Dialled \cup {m}) = Cardinality(Dialled) + 1
<1>1. Cardinality(Dialled \cup {m}) = Cardinality(Dialled) + 1
  BY SessionFacts, FS_AddElement
<1>2. Dialled \cup {m} \subseteq Msgs
  BY DEF Dialled
<1>3. Cardinality(Dialled \cup {m}) <= Cardinality(Msgs)
  BY <1>2, MsgsAssumption, FS_Subset
<1> QED BY <1>1, <1>3, SessionFacts DEF TypeInv, Shape, Dials, Sessions

LEMMA TypeInit == Init => TypeInv
<1> SUFFICES ASSUME Init PROVE TypeInv
  OBVIOUS
<1>1. TypeOK
  <2>1. dialled \in Sessions /\ current \in 0..dialled
    BY SessionFacts DEF Init
  <2>2. /\ inbox \in [Sessions -> Seq(Msgs)] /\ wire \in [Sessions -> Seq(Frames)]
        /\ retCh \in [Sessions -> Seq(Frames)] /\ ackCh \in [Sessions -> Seq(Frames)]
        /\ \A s \in Sessions : Len(retCh[s]) <= 1 /\ Len(ackCh[s]) <= 1
    BY DEF Init
  <2>3. 1 \in 1..2 /\ 0 \in Nat
    OBVIOUS
  <2>4. pc \in [Msgs -> Labels] /\ result \in [Msgs -> Results]
    BY DEF Init, Labels, Results
  <2>5. attempt \in [Msgs -> 1..2] /\ routed \in [Msgs -> Nat]
    BY <2>3 DEF Init
  <2>6. status \in [Sessions -> {"none", "open", "lost", "closed"}]
    BY DEF Init
  <2> QED BY <2>1, <2>2, <2>4, <2>5, <2>6 DEF Init, TypeOK
<1>2. Dialled = {}
  BY DEF Init, Dialled
<1>3. Dials
  BY <1>2, FS_EmptySet, SessionFacts DEF Init, Dials
<1> QED BY <1>1, <1>3 DEF Init, TypeInv, Shape, OneCall, Busy, Attempts, Mutex,
                          NoLeakedSession

-----------------------------------------------------------------------------
(* The types.                                                              *)

LEMMA TypeStep == TypeInv /\ [Next]_vars => TypeOK'
<1> SUFFICES ASSUME TypeInv, [Next]_vars PROVE TypeOK'
  OBVIOUS
<1> USE DEF caller, amqp, vars
<1>0. TypeOK
  BY DEF TypeInv
<1>1. ASSUME NEW m \in Msgs, NEW what \in Results, Return(m, what)
      PROVE  pc' \in [Msgs -> Labels] /\ result' \in [Msgs -> Results]
  BY <1>0, <1>1 DEF Return, Goto, TypeOK, Labels
<1>2. ASSUME NEW m \in Msgs, NEW l \in Labels, Goto(m, l)
      PROVE  pc' \in [Msgs -> Labels]
  BY <1>0, <1>2 DEF Goto, TypeOK
<1>3. ASSUME NEW m \in Msgs, Failed(m)
      PROVE  pc' \in [Msgs -> Labels] /\ result' \in [Msgs -> Results]
  <2>1. "reconnect" \in Labels /\ "error" \in Results
    BY DEF Labels, Results
  <2> QED BY <1>0, <1>1, <1>2, <1>3, <2>1 DEF Failed, TypeOK
<1>4. /\ "already closed" \in Results /\ "nil" \in Results /\ "panic" \in Results
      /\ "send" \in Labels /\ "confirm" \in Labels /\ "close" \in Labels
      /\ "dial" \in Labels /\ "install" \in Labels /\ "error" \in Results
  BY DEF Labels, Results
<1>5. /\ \A s \in Sessions : s \in Nat /\ s # 0
      /\ dialled \in Nat /\ 1..dialled \subseteq Sessions
      /\ current # 0 => current \in Sessions
  BY <1>0, SessionFacts DEF TypeOK, Sessions
<1>6. \A m \in Msgs : pc[m] \in {"confirm", "close"} => current \in Sessions
  BY <1>5 DEF TypeInv, Shape, Attempts
<1>7. ASSUME NEW f, NEW s \in Sessions, NEW M, f \in [Sessions -> Seq(M)], f[s] # <<>>
      PROVE  /\ Tail(f[s]) \in Seq(M) /\ Head(f[s]) \in M
             /\ [f EXCEPT ![s] = Tail(@)] \in [Sessions -> Seq(M)]
             /\ (\A t \in Sessions : Len(f[t]) <= 1) =>
                  \A t \in Sessions : Len([f EXCEPT ![s] = Tail(@)][t]) <= 1
  <2>1. f[s] \in Seq(M)
    BY <1>7
  <2>2. Head(f[s]) \in M /\ Tail(f[s]) \in Seq(M) /\ Len(Tail(f[s])) = Len(f[s]) - 1
    BY <1>7, <2>1, HeadTailFacts
  <2>3. Len(f[s]) \in Nat
    BY <2>1
  <2> QED BY <1>7, <2>2, <2>3
<1>8. ASSUME NEW m \in Msgs, PublishCall(m) PROVE TypeOK'
  BY <1>0, <1>1, <1>2, <1>4, <1>8 DEF PublishCall, TypeOK
<1>9. ASSUME NEW m \in Msgs, Send(m) PROVE TypeOK'
  <2>1. pc' \in [Msgs -> Labels] /\ result' \in [Msgs -> Results]
    BY <1>0, <1>2, <1>3, <1>4, <1>9 DEF Send, TypeOK
  <2>2. inbox' \in [Sessions -> Seq(Msgs)]
    <3>1. Append(inbox[current], m) \in Seq(Msgs)
      BY <1>0, <1>5, <1>9, AppendFacts DEF TypeOK, Send
    <3> QED BY <1>0, <1>9, <3>1 DEF TypeOK, Send
  <2> QED BY <1>0, <1>9, <2>1, <2>2 DEF Send, TypeOK
<1>10. ASSUME NEW m \in Msgs, SendOnNil(m) PROVE TypeOK'
  BY <1>0, <1>1, <1>4, <1>10 DEF SendOnNil, TypeOK
<1>11. ASSUME NEW m \in Msgs, ConfirmReturned(m) PROVE TypeOK'
  <2>1. /\ retCh' \in [Sessions -> Seq(Frames)]
        /\ \A s \in Sessions : Len(retCh'[s]) <= 1
    BY <1>0, <1>6, <1>7, <1>11 DEF ConfirmReturned, TypeOK
  <2> QED BY <1>0, <1>3, <1>11, <2>1 DEF ConfirmReturned, TypeOK
<1>12. ASSUME NEW m \in Msgs, ConfirmAcked(m) PROVE TypeOK'
  <2>1. /\ ackCh' \in [Sessions -> Seq(Frames)]
        /\ \A s \in Sessions : Len(ackCh'[s]) <= 1
    BY <1>0, <1>6, <1>7, <1>12 DEF ConfirmAcked, TypeOK
  <2> QED BY <1>0, <1>1, <1>3, <1>4, <1>12, <2>1 DEF ConfirmAcked, TypeOK
<1>13. ASSUME NEW m \in Msgs, ConfirmClosed(m) \/ ConfirmTimeout(m) PROVE TypeOK'
  BY <1>0, <1>3, <1>13 DEF ConfirmClosed, ConfirmTimeout, TypeOK
<1>14. ASSUME NEW m \in Msgs, ReconnectLock(m) PROVE TypeOK'
  BY <1>0, <1>2, <1>4, <1>14 DEF ReconnectLock, TypeOK
<1>15. ASSUME NEW m \in Msgs, ReconnectClose(m) PROVE TypeOK'
  <2>1. current' \in 0..dialled
    BY <1>5, <1>15 DEF ReconnectClose
  <2> QED BY <1>0, <1>2, <1>4, <1>15, <2>1 DEF ReconnectClose, Closed, TypeOK
<1>16. ASSUME NEW m \in Msgs, Dial(m) PROVE TypeOK'
  <2>1. m \notin Dialled
    BY <1>16 DEF Dial, Dialled, TypeInv, Shape, Attempts
  <2>2. dialled' \in Sessions /\ current' \in 0..dialled'
    <3>1. dialled' = dialled + 1 /\ current' = current /\ current \in 0..dialled
      BY <1>0, <1>16 DEF Dial, TypeOK
    <3>2. dialled + 1 \in Sessions
      BY <2>1, RoomToDial
    <3> QED BY <1>5, <3>1, <3>2
  <2> QED BY <1>0, <1>2, <1>4, <1>16, <2>2 DEF Dial, TypeOK
<1>17. ASSUME NEW m \in Msgs, DialFails(m) PROVE TypeOK'
  BY <1>0, <1>1, <1>4, <1>17 DEF DialFails, TypeOK
<1>18. ASSUME NEW m \in Msgs, Install(m) PROVE TypeOK'
  <2>1. current' \in 0..dialled
    BY <1>5, <1>18 DEF Install
  <2>2. attempt' \in [Msgs -> 1..2]
    BY <1>0, <1>18 DEF Install, TypeOK
  <2> QED BY <1>0, <1>2, <1>4, <1>18, <2>1, <2>2 DEF Install, TypeOK
<1>19. CASE CloseCall \/ CloseReturn
  BY <1>0, <1>19 DEF CloseCall, CloseReturn, Closed, TypeOK
<1>20. ASSUME NEW s \in Sessions, NEW ack \in BOOLEAN, BrokerHandles(s, ack)
       PROVE  TypeOK'
  <2> DEFINE m == Head(inbox[s])
             confirm == Frame("confirm", m, ack)
  <2>1. /\ inbox' \in [Sessions -> Seq(Msgs)] /\ m \in Msgs
    BY <1>0, <1>7, <1>20 DEF BrokerHandles, TypeOK
  <2>2. confirm \in Frames /\ Frame("return", m, FALSE) \in Frames
    BY <2>1 DEF Frame, Frames
  <2>3. /\ Append(wire[s], confirm) \in Seq(Frames)
        /\ wire[s] \o <<Frame("return", m, FALSE), confirm>> \in Seq(Frames)
    <3>1. wire[s] \in Seq(Frames)
      BY <1>0 DEF TypeOK
    <3> HIDE DEF confirm
    <3> QED BY <2>2, <3>1, AppendFacts, PairFacts
  <2>4. wire' \in [Sessions -> Seq(Frames)]
    BY <1>0, <1>20, <2>3 DEF BrokerHandles, TypeOK
  <2>5. routed' \in [Msgs -> Nat]
    <3>1. routed \in [Msgs -> Nat]
      BY <1>0 DEF TypeOK
    <3>2. \/ routed' = routed
          \/ routed' = [routed EXCEPT ![m] = IF ack THEN @ + 1 ELSE @]
      BY <1>20 DEF BrokerHandles
    <3> QED BY <2>1, <3>1, <3>2, SMTT(30)
  <2> QED BY <1>0, <1>20, <2>1, <2>4, <2>5 DEF BrokerHandles, TypeOK
<1>21. ASSUME NEW s \in Sessions, Deliver(s) PROVE TypeOK'
  <2>1. Head(wire[s]) \in Frames /\ wire' \in [Sessions -> Seq(Frames)]
    BY <1>0, <1>7, <1>21 DEF Deliver, TypeOK
  <2>2. ASSUME NEW q \in Seq(Frames), Len(q) = 0
        PROVE  /\ Append(q, Head(wire[s])) \in Seq(Frames)
               /\ Len(Append(q, Head(wire[s]))) <= 1
    BY <2>1, <2>2, AppendFacts
  <2>a. \A n \in Nat : n <= 1 /\ n # 1 => n = 0
    OBVIOUS
  <2>b. Len(retCh[s]) \in Nat /\ Len(ackCh[s]) \in Nat
    BY <1>0, EmptyFacts DEF TypeOK
  <2>3. CASE Head(wire[s]).kind = "return"
    <3>1. Len(retCh[s]) = 0
      <4>1. Len(retCh[s]) # 1
        BY <1>21, <2>3 DEF Deliver, Blocked, Buffer
      <4> QED BY <1>0, <2>a, <2>b, <4>1 DEF TypeOK
    <3>2. /\ retCh' = [retCh EXCEPT ![s] = Append(retCh[s], Head(wire[s]))]
          /\ UNCHANGED ackCh
      BY <1>0, <1>21, <2>3 DEF Deliver, TypeOK
    <3>3. /\ retCh' \in [Sessions -> Seq(Frames)]
          /\ \A t \in Sessions : Len(retCh'[t]) <= 1
      BY <1>0, <2>2, <3>1, <3>2 DEF TypeOK
    <3> QED BY <1>0, <1>21, <2>1, <3>2, <3>3 DEF Deliver, TypeOK
  <2>4. CASE Head(wire[s]).kind # "return"
    <3>1. Len(ackCh[s]) = 0
      <4>1. Len(ackCh[s]) # 1
        BY <1>21, <2>4 DEF Deliver, Blocked, Buffer
      <4> QED BY <1>0, <2>a, <2>b, <4>1 DEF TypeOK
    <3>2. /\ ackCh' = [ackCh EXCEPT ![s] = Append(ackCh[s], Head(wire[s]))]
          /\ UNCHANGED retCh
      BY <1>0, <1>21, <2>4 DEF Deliver, TypeOK
    <3>3. /\ ackCh' \in [Sessions -> Seq(Frames)]
          /\ \A t \in Sessions : Len(ackCh'[t]) <= 1
      BY <1>0, <2>2, <3>1, <3>2 DEF TypeOK
    <3> QED BY <1>0, <1>21, <2>1, <3>2, <3>3 DEF Deliver, TypeOK
  <2> QED BY <2>3, <2>4
<1>22. ASSUME NEW s \in Sessions, Lose(s) PROVE TypeOK'
  <2>1. <<>> \in Seq(Msgs) /\ <<>> \in Seq(Frames)
    OBVIOUS
  <2> QED BY <1>0, <1>22, <2>1 DEF Lose, TypeOK
<1>23. CASE UNCHANGED vars
  BY <1>0, <1>23 DEF TypeOK
<1> QED
  BY <1>8, <1>9, <1>10, <1>11, <1>12, <1>13, <1>14, <1>15, <1>16, <1>17, <1>18,
     <1>19, <1>20, <1>21, <1>22, <1>23 DEF Next, CallStep, SessionStep, Terminated

-----------------------------------------------------------------------------
(* The mutexes, the attempts and the sessions.                             *)

LEMMA ShapeStep == TypeInv /\ [Next]_vars => Shape'
<1> SUFFICES ASSUME TypeInv, [Next]_vars PROVE Shape'
  OBVIOUS
<1> USE DEF caller, amqp, vars
<1>0. TypeOK /\ OneCall /\ Attempts /\ Mutex /\ Dials /\ NoLeakedSession
  BY DEF TypeInv, Shape
<1>1. /\ \A s \in Sessions : s \in Nat /\ s # 0
      /\ dialled \in Nat /\ dialled \in Sessions /\ current \in 0..dialled
      /\ current # 0 => current \in Sessions
  BY <1>0, SessionFacts DEF TypeOK, Sessions
(* One call takes a step: nobody else is in a call.                        *)
<1>2. ASSUME NEW m \in Msgs, NEW l \in Labels, pc' = [pc EXCEPT ![m] = l],
             Busy(m) \/ PubMuFree
      PROVE  /\ OneCall'
             /\ \A p \in Msgs \ {m} : ~Busy(p) /\ pc'[p] = pc[p]
             /\ pc'[m] = l
  <2>1. pc'[m] = l /\ \A p \in Msgs \ {m} : ~Busy(p) /\ pc'[p] = pc[p]
    BY <1>0, <1>2 DEF OneCall, Busy, PubMuFree, TypeOK
  <2> QED BY <2>1 DEF OneCall, Busy
(* A step of a call that changes no mutex and no session.                  *)
<1>3. ASSUME NEW m \in Msgs, NEW l \in {"send", "confirm", "reconnect", "done"},
             Goto(m, l), Busy(m) \/ PubMuFree, pc[m] \notin {"close", "install"},
             l = "reconnect" => attempt[m] = 1 /\ current # 0,
             l = "confirm" => current # 0,
             UNCHANGED <<attempt, current, mu, closing, dialled, status>>
      PROVE  Shape'
  <2>1. l \in Labels /\ pc' = [pc EXCEPT ![m] = l]
    BY <1>3 DEF Goto, Labels
  <2>2. /\ OneCall' /\ pc'[m] = l
        /\ \A p \in Msgs \ {m} : ~Busy(p) /\ pc'[p] = pc[p]
    BY <1>2, <1>3, <2>1
  <2>3. Attempts'
    BY <1>0, <1>3, <2>2 DEF Attempts, Busy
  <2>4. \A p \in Msgs : /\ pc'[p] = "close" <=> pc[p] = "close"
                        /\ pc'[p] = "install" <=> pc[p] = "install"
    BY <1>3, <2>2
  <2>5. Mutex'
    BY <1>0, <1>3, <2>4 DEF Mutex
  <2>6. Dialled' = Dialled
    BY <1>3, <2>4 DEF Dialled
  <2>7. Dials'
    BY <1>0, <1>3, <2>6 DEF Dials
  <2>8. NoLeakedSession'
    BY <1>0, <1>3, <2>4 DEF NoLeakedSession
  <2> QED BY <2>2, <2>3, <2>5, <2>7, <2>8 DEF Shape
<1>4. ASSUME NEW m \in Msgs, Failed(m), pc[m] \in {"send", "confirm"}, current # 0,
             UNCHANGED <<attempt, current, mu, closing, dialled, status>>
      PROVE  Shape'
  <2>1. \E l \in {"reconnect", "done"} :
           Goto(m, l) /\ (l = "reconnect" => attempt[m] = 1)
    BY <1>4 DEF Failed, Return
  <2> QED BY <1>3, <1>4, <2>1 DEF Busy
<1>5. ASSUME NEW m \in Msgs,
             PublishCall(m) \/ SendOnNil(m) \/ DialFails(m)
      PROVE  Shape'
  <2>1. \E l \in {"send", "done"} : Goto(m, l)
    BY <1>5 DEF PublishCall, SendOnNil, DialFails, Return
  <2>2. /\ Busy(m) \/ PubMuFree
        /\ pc[m] \notin {"close", "install"}
        /\ UNCHANGED <<attempt, current, mu, closing, dialled, status>>
    BY <1>5 DEF PublishCall, SendOnNil, DialFails, Busy
  <2> QED BY <1>3, <2>1, <2>2
<1>6. ASSUME NEW m \in Msgs, Send(m) PROVE Shape'
  <2>1. CASE status[current] = "open"
    <3>1. /\ Goto(m, "confirm") /\ Busy(m) /\ pc[m] = "send" /\ current # 0
          /\ UNCHANGED <<attempt, current, mu, closing, dialled, status>>
      BY <1>6, <2>1 DEF Send, Busy
    <3> QED BY <1>3, <3>1
  <2>2. CASE status[current] # "open"
    BY <1>4, <1>6, <2>2 DEF Send
  <2> QED BY <2>1, <2>2
<1>7. ASSUME NEW m \in Msgs,
             ConfirmReturned(m) \/ ConfirmAcked(m) \/ ConfirmClosed(m)
             \/ ConfirmTimeout(m)
      PROVE  Shape'
  <2>1. /\ pc[m] = "confirm" /\ current # 0 /\ Busy(m)
        /\ UNCHANGED <<attempt, current, mu, closing, dialled, status>>
        /\ Failed(m) \/ Goto(m, "done")
    BY <1>0, <1>7 DEF ConfirmReturned, ConfirmAcked, ConfirmClosed, ConfirmTimeout,
                      Attempts, Busy, Return
  <2>2. CASE Failed(m)
    BY <1>4, <2>1, <2>2
  <2>3. CASE Goto(m, "done")
    BY <1>3, <2>1, <2>3
  <2> QED BY <2>1, <2>2, <2>3
<1>8. ASSUME NEW m \in Msgs, ReconnectLock(m) PROVE Shape'
  <2>1. "close" \in Labels /\ pc' = [pc EXCEPT ![m] = "close"] /\ Busy(m)
    BY <1>8 DEF ReconnectLock, Goto, Labels, Busy
  <2>2. /\ OneCall' /\ pc'[m] = "close"
        /\ \A p \in Msgs \ {m} : ~Busy(p) /\ pc'[p] = pc[p]
    BY <1>2, <2>1
  <2>3. Attempts'
    BY <1>0, <1>8, <2>2 DEF Attempts, ReconnectLock, Busy
  <2>4. Mutex'
    BY <1>0, <1>8, <2>2 DEF Mutex, ReconnectLock
  <2>5. \A p \in Msgs : pc'[p] = "install" <=> pc[p] = "install"
    BY <1>8, <2>2 DEF ReconnectLock
  <2>6. Dialled' = Dialled
    BY <1>8, <2>5 DEF Dialled, ReconnectLock
  <2>7. Dials' /\ NoLeakedSession'
    BY <1>0, <1>8, <2>5, <2>6 DEF Dials, NoLeakedSession, ReconnectLock
  <2> QED BY <2>2, <2>3, <2>4, <2>7 DEF Shape
<1>9. ASSUME NEW m \in Msgs, ReconnectClose(m) PROVE Shape'
  <2>1. "dial" \in Labels /\ pc' = [pc EXCEPT ![m] = "dial"] /\ Busy(m)
    BY <1>9 DEF ReconnectClose, Goto, Labels, Busy
  <2>2. /\ OneCall' /\ pc'[m] = "dial"
        /\ \A p \in Msgs \ {m} : ~Busy(p) /\ pc'[p] = pc[p]
    BY <1>2, <2>1
  <2>3. Attempts'
    BY <1>0, <1>9, <2>2 DEF Attempts, ReconnectClose, Busy
  <2>4. mu = "reconnect"
    BY <1>0, <1>9 DEF Mutex, ReconnectClose
  <2>5. \A p \in Msgs : pc'[p] # "close" /\ pc'[p] # "install" /\ pc[p] # "install"
    BY <1>9, <2>2 DEF ReconnectClose, Busy
  <2>6. Mutex'
    BY <1>0, <1>9, <2>4, <2>5 DEF Mutex, ReconnectClose
  <2>7. Dialled' = Dialled
    BY <1>9, <2>5 DEF Dialled, ReconnectClose
  <2>8. /\ current \in Sessions
        /\ \A s \in Sessions : status'[s] = IF s = current THEN "closed" ELSE status[s]
    BY <1>0, <1>1, <1>9 DEF Attempts, ReconnectClose, Closed, TypeOK
  <2>9. Dials'
    BY <1>0, <1>1, <1>9, <2>7, <2>8 DEF Dials, ReconnectClose
  <2>10. NoLeakedSession'
    BY <1>0, <2>5, <2>8 DEF NoLeakedSession
  <2> QED BY <2>2, <2>3, <2>6, <2>9, <2>10 DEF Shape
<1>10. ASSUME NEW m \in Msgs, Dial(m) PROVE Shape'
  <2>1. "install" \in Labels /\ pc' = [pc EXCEPT ![m] = "install"] /\ Busy(m)
    BY <1>10 DEF Dial, Goto, Labels, Busy
  <2>2. /\ OneCall' /\ pc'[m] = "install"
        /\ \A p \in Msgs \ {m} : ~Busy(p) /\ pc'[p] = pc[p]
    BY <1>2, <2>1
  <2>3. Attempts'
    BY <1>0, <1>10, <2>2 DEF Attempts, Dial, Busy
  <2>4. Mutex'
    BY <1>0, <1>10, <2>2 DEF Mutex, Dial
  <2>5. m \notin Dialled /\ Dialled' = Dialled \cup {m}
    BY <1>0, <1>10, <2>2 DEF Dialled, Dial, Attempts
  <2>6. dialled' = dialled + 1 /\ dialled + 1 \in Sessions
    BY <1>10, <2>5, RoomToDial DEF Dial
  <2>7. \A s \in Sessions :
          status'[s] = IF s = dialled + 1 THEN "open" ELSE status[s]
    BY <1>0, <1>10 DEF Dial, TypeOK
  <2>8. Dials'
    <3>1. dialled' = Cardinality(Dialled') + 1
      BY <1>0, <2>5, <2>6, RoomToDial DEF Dials
    <3> QED BY <1>0, <1>1, <2>6, <2>7, <3>1 DEF Dials
  <2>9. NoLeakedSession'
    <3>1. \A p \in Msgs : pc[p] # "install"
      BY <1>10, <2>2 DEF Dial, Busy
    <3>2. current' = current
      BY <1>10 DEF Dial
    <3> QED BY <1>0, <2>2, <2>6, <2>7, <3>1, <3>2 DEF NoLeakedSession
  <2> QED BY <2>2, <2>3, <2>4, <2>8, <2>9 DEF Shape
<1>11. ASSUME NEW m \in Msgs, Install(m) PROVE Shape'
  <2>1. "send" \in Labels /\ pc' = [pc EXCEPT ![m] = "send"] /\ Busy(m)
    BY <1>11 DEF Install, Goto, Labels, Busy
  <2>2. /\ OneCall' /\ pc'[m] = "send" /\ attempt'[m] = 2
        /\ \A p \in Msgs \ {m} : /\ ~Busy(p) /\ pc'[p] = pc[p]
                                 /\ attempt'[p] = attempt[p]
    BY <1>0, <1>2, <1>11, <2>1 DEF Install, TypeOK
  <2>3. Attempts'
    BY <1>0, <2>2 DEF Attempts, Busy
  <2>4. Mutex'
    BY <1>0, <1>11, <2>2 DEF Mutex, Install
  <2>5. Dialled' = Dialled
    BY <1>11, <2>2 DEF Dialled, Install
  <2>6. Dials'
    BY <1>0, <1>11, <2>5 DEF Dials, Install
  <2>7. NoLeakedSession'
    <3>1. current = 0 /\ current' = dialled /\ status' = status
      BY <1>0, <1>11 DEF Install, Attempts
    <3> QED BY <1>0, <1>1, <3>1 DEF NoLeakedSession
  <2> QED BY <2>2, <2>3, <2>4, <2>6, <2>7 DEF Shape
<1>12. CASE CloseCall
  <2>1. mu' = "Close" /\ closing' = "locked" /\ mu = "free"
        /\ UNCHANGED <<pc, attempt, current, dialled, status>>
    BY <1>12 DEF CloseCall
  <2>2. Mutex' /\ Dialled' = Dialled
    BY <1>0, <2>1 DEF Mutex, Dialled
  <2> QED BY <1>0, <2>1, <2>2 DEF Shape, OneCall, Busy, Attempts, Dials, NoLeakedSession
<1>13. CASE CloseReturn
  <2>1. mu = "Close" /\ mu' = "free" /\ closing' = "done"
        /\ UNCHANGED <<pc, attempt, current, dialled>>
    BY <1>0, <1>13 DEF CloseReturn, Mutex
  <2>2. Mutex' /\ Dialled' = Dialled
    BY <1>0, <2>1 DEF Mutex, Dialled
  <2>3. \A s \in Sessions :
          /\ status'[s] = "open" => status[s] = "open"
          /\ status[s] = "none" => status'[s] = "none" \/ s = current
    BY <1>0, <1>13 DEF CloseReturn, Closed, TypeOK
  <2>4. Dials' /\ NoLeakedSession'
    BY <1>0, <1>1, <2>1, <2>2, <2>3 DEF Dials, NoLeakedSession
  <2> QED BY <1>0, <2>1, <2>2, <2>4 DEF Shape, OneCall, Busy, Attempts
<1>14. ASSUME NEW s \in Sessions, SessionStep(s) PROVE Shape'
  <2>1. /\ UNCHANGED <<pc, attempt, current, mu, closing, dialled>>
        /\ \A t \in Sessions :
             /\ status'[t] = "open" => status[t] = "open"
             /\ status[t] = "none" => status'[t] = "none"
    BY <1>0, <1>14 DEF SessionStep, BrokerHandles, Deliver, Lose, TypeOK
  <2>2. Dialled' = Dialled
    BY <2>1 DEF Dialled
  <2>3. Dials'
    <3>1. dialled' = dialled
      BY <2>1
    <3>2. ASSUME NEW t \in Sessions, t > dialled PROVE status'[t] = "none"
      BY <1>0, <2>1, <3>2 DEF Dials
    <3> QED BY <1>0, <2>2, <3>1, <3>2 DEF Dials
  <2>4. NoLeakedSession'
    <3>1. ASSUME NEW t \in Sessions, status'[t] = "open"
          PROVE  \/ t = current
                 \/ t = dialled /\ \E m \in Msgs : pc[m] = "install"
      BY <1>0, <2>1, <3>1 DEF NoLeakedSession
    <3> QED BY <2>1, <3>1 DEF NoLeakedSession
  <2> QED BY <1>0, <2>1, <2>3, <2>4 DEF Shape, OneCall, Busy, Attempts, Mutex
<1>15. CASE UNCHANGED vars
  <2>1. Dialled' = Dialled
    BY <1>15 DEF Dialled
  <2> QED BY <1>0, <1>15, <2>1 DEF Shape, OneCall, Busy, Attempts, Mutex, Dials,
                                   NoLeakedSession
<1> QED
  BY <1>5, <1>6, <1>7, <1>8, <1>9, <1>10, <1>11, <1>12, <1>13, <1>14, <1>15
     DEF Next, CallStep, Terminated

LEMMA TypeInvariant == Spec => []TypeInv
BY TypeInit, TypeStep, ShapeStep, PTL DEF Spec, TypeInv

(* The publisher and its sessions keep their shape.                        *)
THEOREM TypeCorrect == Spec => []TypeOK
<1>1. TypeInv => TypeOK
  BY DEF TypeInv
<1> QED BY <1>1, TypeInvariant, PTL

(* An open session is the current one or is about to become it.            *)
THEOREM NoLeak == Spec => []NoLeakedSession
<1>1. TypeInv => NoLeakedSession
  BY DEF TypeInv, Shape
<1> QED BY <1>1, TypeInvariant, PTL

-----------------------------------------------------------------------------
(* How often a message is sent.                                            *)

LEMMA SendInit == Init => SendInv
<1> SUFFICES ASSUME Init PROVE SendInv
  OBVIOUS
<1>1. \A s \in Sessions : inbox[s] = <<>> /\ 1..Len(inbox[s]) = {}
  BY DEF Init
<1>2. \A m : ~InInbox(m)
  BY <1>1 DEF InInbox
<1>3. \A m \in Msgs : routed[m] = 0 /\ Sent(m) = 0
  BY DEF Init, Sent
<1> QED BY <1>1, <1>2, <1>3 DEF SendInv

LEMMA SendStep == TypeInv /\ SendInv /\ [Next]_vars => SendInv'
<1> SUFFICES ASSUME TypeInv, SendInv, [Next]_vars PROVE SendInv'
  OBVIOUS
<1> USE DEF caller, amqp, vars
<1>0. /\ TypeOK /\ Attempts
      /\ \A m \in Msgs : Sent(m) \in 0..2 /\ routed[m] \in Nat
      /\ current # 0 => current \in Sessions
      /\ \A s \in Sessions : s # 0
      /\ \A m \in Msgs : Sent(m) = 0 => ~InInbox(m)
  <2>1. TypeOK /\ Attempts
    BY DEF TypeInv, Shape
  <2>2. \A m \in Msgs : Sent(m) \in 0..2 /\ routed[m] \in Nat
    BY <2>1 DEF Sent, TypeOK
  <2>3. \A m \in Msgs : Sent(m) = 0 => ~InInbox(m)
    BY <2>2 DEF SendInv
  <2> QED BY <2>1, <2>2, <2>3, SessionFacts DEF TypeOK, Sessions
(* A step that neither sends nor handles anything.                         *)
<1>1. ASSUME UNCHANGED <<inbox, routed>>,
             \A s \in Sessions : inbox[s] # <<>> => s = current' /\ status'[s] = "open",
             \A m \in Msgs : Sent(m)' \in Nat /\ Sent(m)' >= Sent(m),
             \A m \in Msgs : pc'[m] = "send" => ~InInbox(m)
      PROVE  SendInv'
  <2>1. \A m : InInbox(m)' <=> InInbox(m)
    BY <1>1 DEF InInbox
  <2>2. \A m \in Msgs : routed'[m] <= Sent(m)' /\ (InInbox(m)' => routed'[m] < Sent(m)')
    BY <1>0, <1>1, <2>1 DEF SendInv
  <2> QED BY <1>1, <2>1, <2>2 DEF SendInv
<1>2. ASSUME NEW m \in Msgs, NEW l \in {"confirm", "reconnect", "close", "dial", "done"},
             Goto(m, l), UNCHANGED <<inbox, routed, attempt, current, status>>
      PROVE  SendInv'
  <2>1. pc'[m] = l /\ \A p \in Msgs \ {m} : pc'[p] = pc[p]
    BY <1>0, <1>2 DEF Goto, TypeOK
  <2>2. \A p \in Msgs : Sent(p)' \in Nat /\ Sent(p)' >= Sent(p)
    BY <1>0, <1>2, <2>1 DEF Sent, TypeOK
  <2>3. \A p \in Msgs : pc'[p] = "send" => ~InInbox(p)
    BY <1>2, <2>1 DEF SendInv
  <2> QED BY <1>1, <1>2, <2>2, <2>3 DEF SendInv
<1>3. ASSUME NEW m \in Msgs, Failed(m) \/ Return(m, "nil"),
             UNCHANGED <<inbox, routed, attempt, current, status>>
      PROVE  SendInv'
  <2>1. Goto(m, "reconnect") \/ Goto(m, "done")
    BY <1>3 DEF Failed, Return
  <2> QED BY <1>2, <1>3, <2>1
<1>4. ASSUME NEW m \in Msgs, PublishCall(m) PROVE SendInv'
  <2>1. CASE Goto(m, "send")
    <3>1. pc'[m] = "send" /\ \A p \in Msgs \ {m} : pc'[p] = pc[p]
      BY <1>0, <2>1 DEF Goto, TypeOK
    <3>2. /\ UNCHANGED <<inbox, routed, attempt, current, status>>
          /\ pc[m] = "idle" /\ attempt[m] = 1
      BY <1>0, <1>4 DEF PublishCall, Attempts
    <3>3. Sent(m) = 0 /\ \A p \in Msgs : Sent(p)' = Sent(p)
      BY <3>1, <3>2 DEF Sent
    <3>4. \A p \in Msgs : pc'[p] = "send" => ~InInbox(p)
      BY <1>0, <3>1, <3>3 DEF SendInv
    <3> QED BY <1>0, <1>1, <3>2, <3>3, <3>4 DEF SendInv
  <2>2. CASE ~Goto(m, "send")
    BY <1>2, <1>4, <2>2 DEF PublishCall, Return
  <2> QED BY <2>1, <2>2
<1>5. ASSUME NEW m \in Msgs, Send(m) PROVE SendInv'
  <2>1. CASE status[current] # "open"
    BY <1>3, <1>5, <2>1 DEF Send
  <2>2. CASE status[current] = "open"
    <3> DEFINE c == current
    <3>1. /\ c \in Sessions /\ pc[m] = "send" /\ ~InInbox(m) /\ current' = c
          /\ inbox' = [inbox EXCEPT ![c] = Append(inbox[c], m)]
          /\ UNCHANGED <<attempt, status, routed>> /\ Goto(m, "confirm")
      BY <1>0, <1>5, <2>2 DEF Send, SendInv
    <3>2. pc'[m] = "confirm" /\ \A p \in Msgs \ {m} : pc'[p] = pc[p]
      BY <1>0, <3>1 DEF Goto, TypeOK
    <3>3. /\ inbox[c] \in Seq(Msgs) /\ Len(inbox[c]) \in Nat
          /\ inbox'[c] = Append(inbox[c], m) /\ Len(inbox'[c]) = Len(inbox[c]) + 1
          /\ inbox'[c][Len(inbox[c]) + 1] = m
          /\ \A i \in 1..Len(inbox[c]) : inbox'[c][i] = inbox[c][i]
          /\ \A s \in Sessions \ {c} : inbox'[s] = inbox[s]
      BY <1>0, <3>1, AppendFacts, EmptyFacts DEF TypeOK
    <3> HIDE DEF c
    <3>4. \A i \in 1..Len(inbox'[c]) : i = Len(inbox[c]) + 1 \/ i \in 1..Len(inbox[c])
      BY <3>3
    <3>5. \A p : InInbox(p)' => InInbox(p) \/ p = m
      BY <3>3, <3>4 DEF InInbox
    <3>6. \A i \in 1..Len(inbox[c]) : inbox[c][i] # m
      BY <3>1 DEF InInbox
    <3>7. \A i, j \in 1..Len(inbox'[c]) : inbox'[c][i] = inbox'[c][j] => i = j
      BY <3>1, <3>3, <3>4, <3>6 DEF SendInv
    <3>8. Sent(m)' = Sent(m) + 1 /\ \A p \in Msgs \ {m} : Sent(p)' = Sent(p)
      BY <1>0, <3>1, <3>2 DEF Sent, TypeOK
    <3>9. \A s \in Sessions : inbox'[s] # <<>> => s = current' /\ status'[s] = "open"
      BY <2>2, <3>1, <3>3 DEF SendInv, c
    <3>10. \A s \in Sessions : \A i, j \in 1..Len(inbox'[s]) :
             inbox'[s][i] = inbox'[s][j] => i = j
      BY <3>3, <3>7 DEF SendInv
    <3>11. \A p \in Msgs : pc'[p] = "send" => ~InInbox(p)'
      BY <3>2, <3>5 DEF SendInv
    <3>12. \A p \in Msgs : /\ routed'[p] <= Sent(p)'
                           /\ InInbox(p)' => routed'[p] < Sent(p)'
      BY <1>0, <3>1, <3>5, <3>8 DEF SendInv
    <3> QED BY <3>9, <3>10, <3>11, <3>12 DEF SendInv
  <2> QED BY <2>1, <2>2
<1>6. ASSUME NEW m \in Msgs,
             SendOnNil(m) \/ DialFails(m) \/ ReconnectLock(m)
      PROVE  SendInv'
  BY <1>2, <1>6 DEF SendOnNil, DialFails, ReconnectLock, Return
<1>7. ASSUME NEW m \in Msgs,
             ConfirmReturned(m) \/ ConfirmAcked(m) \/ ConfirmClosed(m)
             \/ ConfirmTimeout(m)
      PROVE  SendInv'
  BY <1>3, <1>7 DEF ConfirmReturned, ConfirmAcked, ConfirmClosed, ConfirmTimeout
(* Nothing is left in a session that has been closed.                      *)
<1>8. ASSUME CanClose(current), current # 0
      PROVE  \A s \in Sessions : inbox[s] = <<>>
  BY <1>8 DEF CanClose, SendInv
<1>9. ASSUME NEW m \in Msgs, ReconnectClose(m) \/ Dial(m) \/ Install(m)
      PROVE  SendInv'
  <2>1. /\ \A s \in Sessions : inbox[s] = <<>>
        /\ UNCHANGED <<inbox, routed>> /\ attempt[m] = 1
        /\ pc[m] \in {"close", "dial", "install"}
    BY <1>0, <1>8, <1>9 DEF ReconnectClose, Dial, Install, Attempts, SendInv
  <2>2. \A p : ~InInbox(p)
    BY <2>1, EmptyFacts DEF InInbox
  <2>3. /\ \A p \in Msgs \ {m} : pc'[p] = pc[p] /\ attempt'[p] = attempt[p]
        /\ \/ pc'[m] \in {"dial", "install"} /\ attempt'[m] = 1
           \/ pc'[m] = "send" /\ attempt'[m] = 2
    BY <1>0, <1>9, <2>1 DEF ReconnectClose, Dial, Install, Goto, TypeOK
  <2>4. \A p \in Msgs : Sent(p)' \in Nat /\ Sent(p)' >= Sent(p)
    BY <1>0, <2>1, <2>3 DEF Sent
  <2> QED BY <1>1, <2>1, <2>2, <2>4
<1>10. CASE CloseCall
  BY <1>0, <1>1, <1>10 DEF CloseCall, SendInv, Sent
<1>11. CASE CloseReturn
  <2>1. /\ UNCHANGED <<inbox, routed, pc, attempt, current>>
        /\ \/ status' = status
           \/ \A s \in Sessions : inbox[s] = <<>>
    BY <1>8, <1>11 DEF CloseReturn
  <2>2. \A p \in Msgs : Sent(p)' = Sent(p)
    BY <2>1 DEF Sent
  <2>3. \A p \in Msgs : pc'[p] = "send" => ~InInbox(p)
    BY <2>1 DEF SendInv
  <2>4. \A s \in Sessions : inbox[s] # <<>> => s = current' /\ status'[s] = "open"
    BY <2>1 DEF SendInv
  <2> QED BY <1>0, <1>1, <2>1, <2>2, <2>3, <2>4
<1>12. ASSUME NEW s \in Sessions, NEW ack \in BOOLEAN, BrokerHandles(s, ack)
       PROVE  SendInv'
  <2>0. PICK m \in Msgs : m = Head(inbox[s])
    BY <1>0, <1>12, HeadTailFacts DEF BrokerHandles, TypeOK
  <2>1. /\ UNCHANGED <<pc, attempt, current, status>>
        /\ inbox' = [inbox EXCEPT ![s] = Tail(inbox[s])] /\ inbox[s] # <<>>
        /\ inbox[s] \in Seq(Msgs) /\ Len(inbox[s]) \in Nat
    BY <1>0, <1>12, EmptyFacts DEF BrokerHandles, TypeOK
  <2>2. /\ m \in Msgs /\ m = inbox[s][1] /\ Len(inbox[s]) > 0
        /\ Len(inbox'[s]) = Len(inbox[s]) - 1
        /\ \A i \in 1..Len(inbox'[s]) : inbox'[s][i] = inbox[s][i + 1]
        /\ \A t \in Sessions \ {s} : inbox'[t] = inbox[t]
    BY <1>0, <2>0, <2>1, HeadTailFacts DEF TypeOK
  <2>3. \A p \in Msgs \ {m} : routed'[p] = routed[p]
    BY <1>0, <1>12, <2>0 DEF BrokerHandles, TypeOK
  <2>4. routed'[m] <= routed[m] + 1 /\ routed'[m] \in Nat
    <3>1. \/ routed' = routed
          \/ routed' = [routed EXCEPT ![m] = IF ack THEN routed[m] + 1 ELSE routed[m]]
      BY <1>12, <2>0 DEF BrokerHandles
    <3>2. routed \in [Msgs -> Nat] /\ routed[m] \in Nat
      BY <1>0 DEF TypeOK
    <3>3. routed'[m] \in {routed[m], routed[m] + 1}
      BY <3>1, <3>2
    <3> QED BY <3>2, <3>3
  <2>5. \A t \in Sessions : t # s => inbox[t] = <<>> /\ 1..Len(inbox[t]) = {}
    <3>1. \A t \in Sessions : t # s => inbox[t] = <<>>
      BY <2>1 DEF SendInv
    <3> QED BY <3>1
  <2>6. \A i \in 1..Len(inbox'[s]) : i + 1 \in 1..Len(inbox[s]) /\ inbox[s][i + 1] # m
    BY <2>1, <2>2 DEF SendInv
  <2>7. InInbox(m) /\ ~InInbox(m)'
    <3>1. InInbox(m)
      BY <2>2, <2>1 DEF InInbox
    <3>2. \A i \in 1..Len(inbox'[s]) : inbox'[s][i] # m
      BY <2>2, <2>6
    <3>3. \A t \in Sessions : \A i \in 1..Len(inbox'[t]) : inbox'[t][i] # m
      BY <2>2, <2>5, <3>2
    <3> QED BY <3>1, <3>3 DEF InInbox
  <2>8. \A p : InInbox(p)' => InInbox(p)
    BY <2>2, <2>5, <2>6 DEF InInbox
  <2>9. \A p \in Msgs : Sent(p)' = Sent(p)
    BY <2>1 DEF Sent
  <2>10. \A t \in Sessions : inbox'[t] # <<>> => t = current' /\ status'[t] = "open"
    BY <2>1, <2>2 DEF SendInv
  <2>11. \A t \in Sessions : \A i, j \in 1..Len(inbox'[t]) :
           inbox'[t][i] = inbox'[t][j] => i = j
    <3>1. \A i, j \in 1..Len(inbox'[s]) : inbox'[s][i] = inbox'[s][j] => i = j
      <4> SUFFICES ASSUME NEW i \in 1..Len(inbox'[s]), NEW j \in 1..Len(inbox'[s]),
                          inbox'[s][i] = inbox'[s][j]
                   PROVE  i = j
        OBVIOUS
      <4>1. i + 1 = j + 1
        BY <2>2, <2>6 DEF SendInv
      <4> QED BY <4>1
    <3> QED BY <2>2, <3>1 DEF SendInv
  <2>12. \A p \in Msgs : pc'[p] = "send" => ~InInbox(p)'
    BY <2>1, <2>8 DEF SendInv
  <2>13. \A p \in Msgs : /\ routed'[p] <= Sent(p)'
                         /\ InInbox(p)' => routed'[p] < Sent(p)'
    <3>1. routed'[m] <= Sent(m)'
      BY <1>0, <2>2, <2>4, <2>7, <2>9 DEF SendInv
    <3> QED BY <2>2, <2>3, <2>7, <2>8, <2>9, <3>1 DEF SendInv
  <2> QED BY <2>10, <2>11, <2>12, <2>13 DEF SendInv
<1>13. ASSUME NEW s \in Sessions, Deliver(s) PROVE SendInv'
  BY <1>0, <1>1, <1>13 DEF Deliver, SendInv, Sent
<1>14. ASSUME NEW s \in Sessions, Lose(s) PROVE SendInv'
  <2>1. /\ UNCHANGED <<pc, attempt, current, routed>>
        /\ \A t \in Sessions : \/ t = s /\ inbox'[t] = <<>> /\ 1..Len(inbox'[t]) = {}
                               \/ inbox'[t] = inbox[t] /\ status'[t] = status[t]
    BY <1>0, <1>14 DEF Lose, TypeOK
  <2>2. \A p : InInbox(p)' => InInbox(p)
    BY <2>1 DEF InInbox
  <2>3. \A p \in Msgs : Sent(p)' = Sent(p)
    BY <2>1 DEF Sent
  <2> QED BY <2>1, <2>2, <2>3 DEF SendInv
<1>15. CASE UNCHANGED vars
  BY <1>0, <1>1, <1>15 DEF SendInv, Sent
<1> QED
  BY <1>4, <1>5, <1>6, <1>7, <1>9, <1>10, <1>11, <1>12, <1>13, <1>14, <1>15
     DEF Next, CallStep, SessionStep, Terminated

(* The broker queues the message of a Publish twice at the most.           *)
THEOREM AtMostTwiceHolds == Spec => []AtMostTwice
<1>1. Init => TypeInv /\ SendInv
  BY TypeInit, SendInit
<1>2. TypeInv /\ SendInv /\ [Next]_vars => (TypeInv /\ SendInv)'
  BY TypeStep, ShapeStep, SendStep DEF TypeInv
<1>3. TypeInv /\ SendInv => AtMostTwice
  <2> SUFFICES ASSUME TypeInv, SendInv, NEW m \in Msgs PROVE routed[m] <= 2
    BY DEF AtMostTwice
  <2>1. Sent(m) \in 0..2 /\ routed[m] \in Nat
    BY DEF TypeInv, TypeOK, Sent
  <2> QED BY <2>1 DEF SendInv
<1> QED BY <1>1, <1>2, <1>3, PTL DEF Spec

-----------------------------------------------------------------------------
(* The sessions when every message is routable and no confirm times out.   *)

LEMMA CalmInit == Init => CalmInv
<1> SUFFICES ASSUME Init PROVE CalmInv
  OBVIOUS
<1>1. \A s \in Sessions : /\ retCh[s] = <<>> /\ Empty(s)
                          /\ 1..Len(wire[s]) = {} /\ 1..Len(ackCh[s]) = {}
  BY DEF Init, Empty
<1>2. 1 \in Sessions
  BY SessionFacts
<1> QED BY <1>1, <1>2 DEF Init, CalmInv, TruthfulSuccess

LEMMA CalmStep ==
  Calm => (TypeInv /\ SendInv /\ CalmInv /\ [Next]_vars => CalmInv')
<1> SUFFICES ASSUME Calm, TypeInv, SendInv, CalmInv, [Next]_vars PROVE CalmInv'
  OBVIOUS
<1> USE DEF caller, amqp, vars
<1>0. /\ TypeOK /\ OneCall /\ Attempts
      /\ dialled \in Nat /\ dialled \in Sessions /\ current \in 0..dialled
      /\ current # 0 => current \in Sessions
      /\ \A s \in Sessions : s \in Nat /\ s # 0
  BY SessionFacts DEF TypeInv, Shape, TypeOK, Sessions
(* What CalmInv says of the current session, given a name for it.          *)
<1>1. ASSUME NEW c, c = current',
             \A m \in Msgs : pc'[m] = "confirm" => About(c, m)',
             (c # 0 /\ status'[c] = "open") =>
               IF \E m \in Msgs : pc'[m] = "confirm" THEN One(c)' ELSE Empty(c)',
             \A s \in Sessions :
               /\ retCh'[s] = <<>>
               /\ \A i \in 1..Len(wire'[s]) : Sound(wire[s][i])'
               /\ \A i \in 1..Len(ackCh'[s]) : Sound(ackCh[s][i])'
               /\ Fresh(s)' => Empty(s)',
             TruthfulSuccess'
      PROVE  CalmInv'
  <2>1. \A m \in Msgs : pc'[m] = "confirm" => About(current, m)'
    BY <1>1 DEF About
  <2>2. (current' # 0 /\ status'[current'] = "open") =>
          IF \E m \in Msgs : pc'[m] = "confirm" THEN One(current)' ELSE Empty(current)'
    BY <1>1 DEF One, Empty
  <2> QED BY <1>1, <2>1, <2>2 DEF CalmInv
(* A step that touches no session's queues.                                *)
<1>2. ASSUME UNCHANGED <<inbox, wire, retCh, ackCh, routed>>,
             \A s \in Sessions : Fresh(s)' => Fresh(s),
             \A m \in Msgs : pc'[m] = "confirm" => pc[m] = "confirm" /\ current' = current,
             (current' # 0 /\ status'[current'] = "open") =>
               \/ /\ current' = current /\ status[current] = "open"
                  /\ \A m \in Msgs : pc[m] = "confirm" => pc'[m] = "confirm"
               \/ Empty(current') /\ \A m \in Msgs : pc'[m] # "confirm",
             \A m \in Msgs : result'[m] = "nil" => result[m] = "nil"
      PROVE  CalmInv'
  <2>1. PICK c : c = current'
    OBVIOUS
  <2>2. \A m \in Msgs : pc'[m] = "confirm" => About(c, m)'
    BY <1>2, <2>1 DEF CalmInv, About
  <2>3. (c # 0 /\ status'[c] = "open") =>
          IF \E m \in Msgs : pc'[m] = "confirm" THEN One(c)' ELSE Empty(c)'
    BY <1>2, <2>1 DEF CalmInv, One, Empty
  <2>4. \A s \in Sessions :
          /\ retCh'[s] = <<>>
          /\ \A i \in 1..Len(wire'[s]) : Sound(wire[s][i])'
          /\ \A i \in 1..Len(ackCh'[s]) : Sound(ackCh[s][i])'
          /\ Fresh(s)' => Empty(s)'
    BY <1>2 DEF CalmInv, Sound, Empty
  <2>5. TruthfulSuccess'
    BY <1>2 DEF CalmInv, TruthfulSuccess
  <2> QED BY <1>1, <2>1, <2>2, <2>3, <2>4, <2>5
(* A call fails, or goes on without having sent.                           *)
<1>3. ASSUME NEW m \in Msgs, NEW l \in {"send", "reconnect", "close", "dial", "done"},
             pc' = [pc EXCEPT ![m] = l], pc[m] # "install",
             pc[m] # "confirm" \/ status[current] # "open",
             \A p \in Msgs : result'[p] = "nil" => result[p] = "nil",
             UNCHANGED <<inbox, wire, retCh, ackCh, routed, dialled>>,
             (current' = 0 /\ Busy(m)) \/ UNCHANGED <<current, status>>
      PROVE  CalmInv'
  <2>1. pc'[m] = l /\ \A p \in Msgs \ {m} : pc'[p] = pc[p]
    BY <1>0, <1>3 DEF TypeOK
  <2>2. \A s \in Sessions : Fresh(s)' => Fresh(s)
    BY <1>3, <2>1 DEF Fresh
  <2>3. ASSUME current' # current PROVE \A p \in Msgs : pc'[p] # "confirm"
    <3>1. current' = 0 /\ current # 0
      BY <1>3, <2>3
    <3> QED BY <1>0, <1>3, <2>1, <2>3 DEF Attempts, OneCall, Busy
  <2>4. CASE current' = 0
    <3>1. \A p \in Msgs : pc'[p] = "confirm" => pc[p] = "confirm" /\ current' = current
      BY <2>1, <2>3
    <3> QED BY <1>2, <1>3, <2>2, <2>4, <3>1
  <2>5. CASE UNCHANGED <<current, status>>
    BY <1>2, <1>3, <2>1, <2>2, <2>5
  <2> QED BY <1>3, <2>4, <2>5
<1>4. ASSUME NEW m \in Msgs, Failed(m), pc[m] # "install",
             pc[m] # "confirm" \/ status[current] # "open",
             UNCHANGED <<inbox, wire, retCh, ackCh, routed, dialled, current, status>>
      PROVE  CalmInv'
  <2>1. \A p \in Msgs : result'[p] = "nil" => result[p] = "nil"
    BY <1>0, <1>4 DEF Failed, Return, TypeOK
  <2>2. pc' = [pc EXCEPT ![m] = "reconnect"] \/ pc' = [pc EXCEPT ![m] = "done"]
    BY <1>4 DEF Failed, Return, Goto
  <2> QED BY <1>3, <1>4, <2>1, <2>2
<1>5. ASSUME NEW m \in Msgs,
             PublishCall(m) \/ SendOnNil(m) \/ DialFails(m) \/ ReconnectLock(m)
             \/ ReconnectClose(m)
      PROVE  CalmInv'
  <2>1. /\ pc[m] # "install" /\ pc[m] # "confirm"
        /\ UNCHANGED <<inbox, wire, retCh, ackCh, routed, dialled>>
        /\ (current' = 0 /\ Busy(m)) \/ UNCHANGED <<current, status>>
    BY <1>5 DEF PublishCall, SendOnNil, DialFails, ReconnectLock, ReconnectClose, Busy
  <2>2. \A p \in Msgs : result'[p] = "nil" => result[p] = "nil"
    BY <1>0, <1>5 DEF PublishCall, SendOnNil, DialFails, ReconnectLock, ReconnectClose,
                      Return, TypeOK
  <2>3. \E l \in {"send", "reconnect", "close", "dial", "done"} :
          pc' = [pc EXCEPT ![m] = l]
    BY <1>5 DEF PublishCall, SendOnNil, DialFails, ReconnectLock, ReconnectClose,
                Return, Goto
  <2> QED BY <1>3, <2>1, <2>2, <2>3
<1>6. ASSUME NEW m \in Msgs, Dial(m) PROVE CalmInv'
  <2>1. /\ current = 0 /\ current' = 0 /\ dialled' = dialled + 1
        /\ UNCHANGED <<inbox, wire, retCh, ackCh, routed, result>>
    BY <1>0, <1>6 DEF Dial, Attempts
  <2>2. pc[m] = "dial" /\ pc'[m] = "install" /\ \A p \in Msgs \ {m} : pc'[p] = pc[p]
    BY <1>0, <1>6 DEF Dial, Goto, TypeOK
  <2>3. \A s \in Sessions : Fresh(s)' => Fresh(s)
    BY <1>0, <2>1 DEF Fresh
  <2>4. \A p \in Msgs : pc'[p] # "confirm"
    BY <1>0, <2>1, <2>2 DEF Attempts
  <2> QED BY <1>2, <2>1, <2>3, <2>4
<1>7. ASSUME NEW m \in Msgs, Install(m) PROVE CalmInv'
  <2>1. /\ current = 0 /\ current' = dialled /\ dialled' = dialled
        /\ UNCHANGED <<inbox, wire, retCh, ackCh, routed, result, status>>
    BY <1>0, <1>7 DEF Install, Attempts
  <2>2. pc[m] = "install" /\ pc'[m] = "send" /\ \A p \in Msgs \ {m} : pc'[p] = pc[p]
    BY <1>0, <1>7 DEF Install, Goto, TypeOK
  <2>3. \A s \in Sessions : Fresh(s)' => Fresh(s)
    BY <1>0, <2>1, <2>2 DEF Fresh
  <2>4. \A p \in Msgs : pc'[p] # "confirm"
    BY <1>0, <2>1, <2>2 DEF Attempts
  <2>5. Empty(current')
    BY <1>0, <2>1, <2>2 DEF CalmInv, Fresh, Empty
  <2> QED BY <1>2, <2>1, <2>3, <2>4, <2>5
<1>8. CASE CloseCall \/ CloseReturn \/ UNCHANGED vars
  <2>1. UNCHANGED <<inbox, wire, retCh, ackCh, routed, result, pc, current, dialled>>
    BY <1>8 DEF CloseCall, CloseReturn
  <2>2. current # 0 /\ status'[current] = "open" => status[current] = "open"
    BY <1>0, <1>8 DEF CloseCall, CloseReturn, Closed, TypeOK
  <2>3. \A s \in Sessions : Fresh(s)' => Fresh(s)
    BY <2>1 DEF Fresh
  <2> QED BY <1>2, <2>1, <2>2, <2>3
(* The steps that move a message or a frame, in the open session s.        *)
<1>9. ASSUME NEW m \in Msgs, Send(m) PROVE CalmInv'
  <2>1. CASE status[current] # "open"
    BY <1>4, <1>9, <2>1 DEF Send
  <2>2. CASE status[current] = "open"
    <3>0. PICK c \in Sessions : c = current
      BY <1>0, <1>9 DEF Send
    <3>1. /\ pc[m] = "send" /\ current' = c /\ status[c] = "open" /\ c # 0
          /\ inbox' = [inbox EXCEPT ![c] = Append(inbox[c], m)]
          /\ UNCHANGED <<wire, retCh, ackCh, routed, dialled, status, result>>
          /\ pc'[m] = "confirm" /\ \A p \in Msgs \ {m} : pc'[p] = pc[p]
      BY <1>0, <1>9, <2>2, <3>0 DEF Send, Goto, TypeOK
    <3>2. \A p \in Msgs : pc[p] # "confirm"
      BY <1>0, <3>1 DEF OneCall, Busy
    <3>3. Empty(c)
      BY <3>0, <3>1, <3>2 DEF CalmInv
    <3>4. /\ inbox'[c] = Append(inbox[c], m) /\ Len(inbox'[c]) = 1
          /\ inbox'[c][1] = m
          /\ \A s \in Sessions \ {c} : inbox'[s] = inbox[s]
      BY <1>0, <3>1, <3>3, AppendFacts, EmptyFacts DEF TypeOK, Empty
    <3>5. ~Fresh(c) /\ \A s \in Sessions : Fresh(s)' <=> Fresh(s)
      BY <1>0, <3>0, <3>1, <3>2 DEF Fresh, Attempts
    <3>6. One(c)' /\ \A s \in Sessions \ {c} : Empty(s)' <=> Empty(s)
      BY <3>1, <3>3, <3>4 DEF One, Empty
    <3>7. About(c, m)'
      BY <3>1, <3>3, <3>4 DEF About, Empty
    <3>8. \A s \in Sessions :
            /\ retCh'[s] = <<>>
            /\ \A i \in 1..Len(wire'[s]) : Sound(wire[s][i])'
            /\ \A i \in 1..Len(ackCh'[s]) : Sound(ackCh[s][i])'
            /\ Fresh(s)' => Empty(s)'
      BY <3>1, <3>5, <3>6 DEF CalmInv, Sound
    <3>9. \A p \in Msgs : pc'[p] = "confirm" => About(c, p)'
      BY <3>1, <3>2, <3>7
    <3>10. TruthfulSuccess'
      BY <3>1 DEF CalmInv, TruthfulSuccess
    <3> QED BY <1>1, <3>1, <3>6, <3>8, <3>9, <3>10
  <2> QED BY <2>1, <2>2
<1>10. ASSUME NEW m \in Msgs,
              ConfirmReturned(m) \/ ConfirmClosed(m) \/ ConfirmTimeout(m)
       PROVE  CalmInv'
  <2>1. ConfirmClosed(m) /\ status[current] # "open"
    BY <1>0, <1>10 DEF ConfirmReturned, ConfirmClosed, ConfirmTimeout, CalmInv, Calm, Attempts
  <2> QED BY <1>4, <2>1 DEF ConfirmClosed
<1>11. ASSUME NEW m \in Msgs, ConfirmAcked(m) PROVE CalmInv'
  <2>0. PICK c \in Sessions : c = current
    BY <1>0, <1>11 DEF ConfirmAcked, Attempts
  <2>1. /\ pc[m] = "confirm" /\ current' = c /\ ackCh[c] # <<>> /\ c # 0
        /\ ackCh' = [ackCh EXCEPT ![c] = Tail(ackCh[c])]
        /\ UNCHANGED <<inbox, wire, retCh, routed, dialled, status>>
    BY <1>0, <1>11, <2>0 DEF ConfirmAcked
  <2>2. PICK f : f = Head(ackCh[c])
    OBVIOUS
  <2>3. /\ pc'[m] \in {"reconnect", "done"}
        /\ \A p \in Msgs \ {m} : pc'[p] = pc[p] /\ result'[p] = result[p]
        /\ result'[m] = "nil" => result[m] = "nil" \/ f.ack
    BY <1>0, <1>11, <2>0, <2>2 DEF ConfirmAcked, Failed, Return, Goto, TypeOK
  <2>4. /\ f = ackCh[c][1] /\ Len(ackCh[c]) > 0 /\ Len(ackCh'[c]) = Len(ackCh[c]) - 1
        /\ Len(ackCh'[c]) \in Nat /\ Len(ackCh[c]) \in Nat
        /\ (Len(ackCh'[c]) = 0 => ackCh'[c] = <<>>)
        /\ \A i \in 1..Len(ackCh'[c]) : ackCh'[c][i] = ackCh[c][i + 1]
        /\ \A s \in Sessions \ {c} : ackCh'[s] = ackCh[s]
    BY <1>0, <2>1, <2>2, HeadTailFacts, EmptyFacts DEF TypeOK
  <2>5. Sound(f) /\ f.msg = m
    BY <2>0, <2>1, <2>4 DEF CalmInv, About
  <2>6. \A s \in Sessions : (Fresh(s)' => Fresh(s)) /\ (Empty(s) => Empty(s)')
    BY <2>1, <2>3, <2>4 DEF Fresh, Empty
  <2>7. \A p \in Msgs : pc'[p] # "confirm"
    BY <1>0, <2>1, <2>3 DEF OneCall, Busy
  <2>8. status'[c] = "open" => Empty(c)'
    <3>1. status[c] = "open" => One(c)
      BY <2>0, <2>1 DEF CalmInv
    <3> QED BY <2>1, <2>4, <3>1 DEF One, Empty
  <2>9. \A s \in Sessions : \A i \in 1..Len(ackCh'[s]) :
          \E j \in 1..Len(ackCh[s]) : ackCh'[s][i] = ackCh[s][j]
    <3>1. \A i \in 1..Len(ackCh'[c]) : i + 1 \in 1..Len(ackCh[c])
      BY <2>4
    <3> QED BY <2>4, <3>1
  <2>10. \A s \in Sessions :
           /\ retCh'[s] = <<>>
           /\ \A i \in 1..Len(wire'[s]) : Sound(wire[s][i])'
           /\ \A i \in 1..Len(ackCh'[s]) : Sound(ackCh[s][i])'
           /\ Fresh(s)' => Empty(s)'
    BY <2>1, <2>6, <2>9 DEF CalmInv, Sound
  <2>11. TruthfulSuccess'
    BY <2>1, <2>3, <2>5 DEF CalmInv, TruthfulSuccess, Sound
  <2> QED BY <1>1, <2>1, <2>7, <2>8, <2>10, <2>11
<1>12. ASSUME NEW s \in Sessions, NEW ack \in BOOLEAN, BrokerHandles(s, ack)
       PROVE  CalmInv'
  <2>1. s = current /\ s # 0 /\ status[s] = "open" /\ inbox[s] # <<>> /\ current' = s
    BY <1>0, <1>12 DEF BrokerHandles, SendInv
  <2>2. PICK m \in Msgs : pc[m] = "confirm" /\ One(s)
    BY <2>1 DEF CalmInv, Empty
  <2>3. /\ Len(inbox[s]) = 1 /\ wire[s] = <<>> /\ ackCh[s] = <<>>
        /\ inbox[s] \in Seq(Msgs)
    BY <1>0, <2>1, <2>2 DEF One, TypeOK
  <2>4. Head(inbox[s]) = m
    BY <2>1, <2>2, <2>3, HeadTailFacts DEF CalmInv, About
  <2>5. PICK f \in Frames : f = Frame("confirm", m, ack)
    BY DEF Frame, Frames
  <2>6. /\ wire' = [wire EXCEPT ![s] = Append(wire[s], f)]
        /\ routed' = [routed EXCEPT ![m] = IF ack THEN @ + 1 ELSE @]
        /\ inbox' = [inbox EXCEPT ![s] = Tail(inbox[s])]
        /\ UNCHANGED <<retCh, ackCh, dialled, status, pc, result>>
    BY <1>12, <2>4, <2>5 DEF BrokerHandles, Calm
  <2>7. f.kind = "confirm" /\ f.msg = m /\ f.ack = ack
    BY <2>5 DEF Frame
  <2>8. /\ inbox'[s] = <<>> /\ Len(wire'[s]) = 1 /\ wire'[s][1] = f
        /\ \A t \in Sessions \ {s} : inbox'[t] = inbox[t] /\ wire'[t] = wire[t]
    <3>1. Len(Tail(inbox[s])) = 0 /\ Tail(inbox[s]) \in Seq(Msgs)
      BY <2>1, <2>3, HeadTailFacts
    <3>2. wire[s] \in Seq(Frames) /\ Len(wire[s]) = 0
      BY <1>0, <2>3 DEF TypeOK
    <3>3. Len(Append(wire[s], f)) = 1 /\ Append(wire[s], f)[1] = f
      BY <3>2, AppendFacts
    <3> QED BY <1>0, <2>6, <3>1, <3>3, EmptyFacts DEF TypeOK
  <2>9. /\ ack => routed'[m] > 0
        /\ \A p \in Msgs : routed[p] > 0 => routed'[p] > 0
    BY <1>0, <2>6 DEF TypeOK
  <2>10. Sound(f)'
    BY <2>7, <2>9 DEF Sound
  <2>11. \A t \in Sessions : Fresh(t)' <=> Fresh(t)
    BY <2>6 DEF Fresh
  <2>12. ~Fresh(s) /\ \A t \in Sessions \ {s} : Empty(t)' <=> Empty(t)
    <3>1. ~Empty(s)
      BY <2>1 DEF Empty
    <3> QED BY <2>6, <2>8, <3>1 DEF CalmInv, Empty
  <2>13. \A t \in Sessions :
           /\ retCh'[t] = <<>>
           /\ \A i \in 1..Len(wire'[t]) : Sound(wire[t][i])'
           /\ \A i \in 1..Len(ackCh'[t]) : Sound(ackCh[t][i])'
           /\ Fresh(t)' => Empty(t)'
    <3>1. ASSUME NEW g \in Frames, Sound(g) PROVE Sound(g)'
      BY <2>9, <3>1 DEF Sound, Frames
    <3>2. ASSUME NEW t \in Sessions, NEW i \in 1..Len(wire'[t])
          PROVE  Sound(wire[t][i])'
      <4>1. CASE t = s
        <5>1. wire'[t][i] = f
          BY <2>8, <4>1
        <5> QED BY <2>10, <5>1 DEF Sound
      <4>2. CASE t # s
        <5>1. PICK g \in Frames : g = wire[t][i] /\ Sound(g)
          <6>1. wire[t] \in Seq(Frames) /\ i \in 1..Len(wire[t])
            BY <1>0, <2>8, <3>2, <4>2 DEF TypeOK
          <6>2. Sound(wire[t][i])
            BY <6>1 DEF CalmInv
          <6> QED BY <6>1, <6>2
        <5>2. wire'[t][i] = g
          BY <2>8, <4>2, <5>1
        <5> QED BY <3>1, <5>1, <5>2 DEF Sound
      <4> QED BY <4>1, <4>2
    <3>3. ASSUME NEW t \in Sessions, NEW i \in 1..Len(ackCh'[t])
          PROVE  Sound(ackCh[t][i])'
      <4>1. PICK g \in Frames : g = ackCh[t][i] /\ Sound(g)
        BY <1>0, <2>6, <3>3 DEF CalmInv, TypeOK
      <4>2. ackCh'[t][i] = g
        BY <2>6, <4>1
      <4> QED BY <3>1, <4>1, <4>2 DEF Sound
    <3> QED BY <2>6, <2>11, <2>12, <3>2, <3>3 DEF CalmInv
  <2>14. One(s)' /\ About(s, m)'
    BY <2>3, <2>6, <2>7, <2>8 DEF One, About
  <2>15. \A p \in Msgs : pc'[p] = "confirm" => p = m
    BY <1>0, <2>2, <2>6 DEF OneCall, Busy
  <2>16. TruthfulSuccess'
    BY <2>6, <2>9 DEF CalmInv, TruthfulSuccess
  <2> QED BY <1>1, <2>1, <2>2, <2>6, <2>13, <2>14, <2>15, <2>16
<1>13. ASSUME NEW s \in Sessions, Deliver(s) PROVE CalmInv'
  <2>1. /\ status[s] = "open" /\ wire[s] # <<>> /\ s # 0
        /\ wire' = [wire EXCEPT ![s] = Tail(wire[s])]
        /\ UNCHANGED <<inbox, routed, current, dialled, status, pc, result>>
    BY <1>0, <1>13 DEF Deliver
  <2>2. s = current
    BY <2>1 DEF TypeInv, Shape, NoLeakedSession, CalmInv, Fresh, Empty
  <2>3. PICK m \in Msgs : pc[m] = "confirm" /\ One(s)
    BY <2>1, <2>2 DEF CalmInv, Empty
  <2>4. Len(wire[s]) = 1 /\ inbox[s] = <<>> /\ ackCh[s] = <<>>
    BY <1>0, <2>1, <2>3 DEF One, TypeOK
  <2>5. PICK f \in Frames : f = Head(wire[s]) /\ f = wire[s][1]
    BY <1>0, <2>1, HeadTailFacts DEF TypeOK
  <2>6. Sound(f) /\ f.msg = m
    BY <2>2, <2>3, <2>4, <2>5 DEF CalmInv, About
  <2>7. ackCh' = [ackCh EXCEPT ![s] = Append(ackCh[s], f)] /\ retCh' = retCh
    BY <1>13, <2>5, <2>6 DEF Deliver, Sound
  <2>8. /\ wire'[s] = <<>> /\ Len(ackCh'[s]) = 1 /\ ackCh'[s][1] = f
        /\ \A t \in Sessions \ {s} : ackCh'[t] = ackCh[t] /\ wire'[t] = wire[t]
    <3>1. Len(Tail(wire[s])) = 0 /\ Tail(wire[s]) \in Seq(Frames)
      BY <1>0, <2>1, <2>4, HeadTailFacts DEF TypeOK
    <3>2. ackCh[s] \in Seq(Frames) /\ Len(ackCh[s]) = 0
      BY <1>0, <2>4 DEF TypeOK
    <3>3. Len(Append(ackCh[s], f)) = 1 /\ Append(ackCh[s], f)[1] = f
      BY <3>2, AppendFacts
    <3> QED BY <1>0, <2>1, <2>7, <3>1, <3>3, EmptyFacts DEF TypeOK
  <2>9. \A t \in Sessions :
          /\ retCh'[t] = <<>>
          /\ \A i \in 1..Len(wire'[t]) : Sound(wire[t][i])'
          /\ \A i \in 1..Len(ackCh'[t]) : Sound(ackCh[t][i])'
          /\ Fresh(t)' => Empty(t)'
    <3>1. /\ \A i \in 1..Len(wire'[s]) : FALSE
          /\ \A i \in 1..Len(ackCh'[s]) : ackCh'[s][i] = f
      BY <2>8
    <3>2. ~Fresh(s) /\ \A t \in Sessions : Fresh(t)' <=> Fresh(t)
      BY <2>1 DEF CalmInv, Fresh, Empty
    <3>3. ASSUME NEW t \in Sessions
          PROVE  /\ \A i \in 1..Len(wire'[t]) : Sound(wire[t][i])'
                 /\ \A i \in 1..Len(ackCh'[t]) : Sound(ackCh[t][i])'
      <4>1. CASE t = s
        BY <2>1, <2>6, <3>1, <4>1 DEF Sound
      <4>2. CASE t # s
        BY <2>1, <2>8, <4>2 DEF CalmInv, Sound
      <4> QED BY <4>1, <4>2
    <3>4. \A t \in Sessions : Fresh(t)' => Empty(t)'
      BY <2>1, <2>8, <3>2 DEF CalmInv, Empty
    <3> QED BY <2>7, <3>3, <3>4 DEF CalmInv
  <2>10. One(s)' /\ About(s, m)'
    BY <2>1, <2>4, <2>6, <2>8 DEF One, About
  <2>11. \A p \in Msgs : pc'[p] = "confirm" => p = m
    BY <1>0, <2>1, <2>3 DEF OneCall, Busy
  <2>12. TruthfulSuccess' /\ s = current' /\ pc'[m] = "confirm"
    BY <2>1, <2>2, <2>3 DEF CalmInv, TruthfulSuccess
  <2> QED BY <1>1, <2>9, <2>10, <2>11, <2>12
<1>14. ASSUME NEW s \in Sessions, Lose(s) PROVE CalmInv'
  <2>1. /\ UNCHANGED <<retCh, ackCh, routed, current, dialled, pc, result>>
        /\ \A t \in Sessions \ {s} :
             inbox'[t] = inbox[t] /\ wire'[t] = wire[t] /\ status'[t] = status[t]
        /\ inbox'[s] = <<>> /\ wire'[s] = <<>> /\ status'[s] = "lost"
    BY <1>0, <1>14 DEF Lose, TypeOK
  <2>2. PICK c : c = current
    OBVIOUS
  <2>3. (c # 0 /\ status'[c] = "open") =>
          IF \E m \in Msgs : pc'[m] = "confirm" THEN One(c)' ELSE Empty(c)'
    BY <1>0, <2>1, <2>2 DEF CalmInv, One, Empty
  <2>4. \A t \in Sessions : \A i \in 1..Len(wire'[t]) :
          i \in 1..Len(wire[t]) /\ wire'[t][i] = wire[t][i]
    BY <2>1
  <2>5. \A t \in Sessions : \A i \in 1..Len(inbox'[t]) :
          i \in 1..Len(inbox[t]) /\ inbox'[t][i] = inbox[t][i]
    BY <2>1
  <2>6. \A m \in Msgs : pc'[m] = "confirm" => About(c, m)'
    BY <1>0, <2>1, <2>2, <2>4, <2>5 DEF CalmInv, About, Attempts
  <2>7. \A t \in Sessions :
          /\ retCh'[t] = <<>>
          /\ \A i \in 1..Len(wire'[t]) : Sound(wire[t][i])'
          /\ \A i \in 1..Len(ackCh'[t]) : Sound(ackCh[t][i])'
          /\ Fresh(t)' => Empty(t)'
    <3>1. \A t \in Sessions : (Fresh(t)' => Fresh(t)) /\ (Empty(t) => Empty(t)')
      BY <2>1 DEF Fresh, Empty
    <3> SUFFICES ASSUME NEW t \in Sessions
                 PROVE  /\ retCh'[t] = <<>>
                        /\ \A i \in 1..Len(wire'[t]) : Sound(wire[t][i])'
                        /\ \A i \in 1..Len(ackCh'[t]) : Sound(ackCh[t][i])'
                        /\ Fresh(t)' => Empty(t)'
      OBVIOUS
    <3>2. retCh'[t] = <<>> /\ ackCh' = ackCh /\ routed' = routed
      BY <2>1 DEF CalmInv
    <3>3. ASSUME NEW i \in 1..Len(wire'[t]) PROVE Sound(wire[t][i])'
      <4>1. Sound(wire[t][i]) /\ wire'[t][i] = wire[t][i]
        BY <2>4 DEF CalmInv
      <4> QED BY <3>2, <4>1 DEF Sound
    <3>4. ASSUME NEW i \in 1..Len(ackCh'[t]) PROVE Sound(ackCh[t][i])'
      <4>1. Sound(ackCh[t][i])
        BY <3>2 DEF CalmInv
      <4> QED BY <3>2, <4>1 DEF Sound
    <3>5. Fresh(t)' => Empty(t)'
      BY <3>1 DEF CalmInv
    <3> QED BY <3>2, <3>3, <3>4, <3>5
  <2>8. TruthfulSuccess' /\ c = current'
    BY <2>1, <2>2 DEF CalmInv, TruthfulSuccess
  <2> QED BY <1>1, <2>3, <2>6, <2>7, <2>8
<1> QED
  BY <1>5, <1>6, <1>7, <1>8, <1>9, <1>10, <1>11, <1>12, <1>13, <1>14
     DEF Next, CallStep, SessionStep, Terminated

LEMMA CalmInvariant ==
  ASSUME Calm PROVE Spec => [](TypeInv /\ CalmInv)
<1> DEFINE IInv == TypeInv /\ SendInv /\ CalmInv
<1>1. Init => IInv
  BY TypeInit, SendInit, CalmInit
<1>2. IInv /\ [Next]_vars => IInv'
  BY TypeStep, ShapeStep, SendStep, CalmStep DEF TypeInv
<1> QED BY <1>1, <1>2, PTL DEF Spec

(* When every message is routable and no confirm times out, a call never   *)
(* finds a frame of an earlier call in the open session it uses.           *)
THEOREM CleanSessionHolds ==
  ASSUME Unroutable = {}, MayTimeout = FALSE
  PROVE  Spec => []CleanSession
<1>1. Calm
  BY DEF Calm
<1>2. TypeInv /\ CalmInv => CleanSession
  <2> SUFFICES ASSUME TypeInv, CalmInv, PubMuFree, current # 0, status[current] = "open"
               PROVE  Empty(current) /\ retCh[current] = <<>>
    BY DEF CleanSession, Empty
  <2>1. current \in Sessions
    BY SessionFacts DEF TypeInv, TypeOK, Sessions
  <2>2. \A m \in Msgs : pc[m] # "confirm"
    BY DEF PubMuFree
  <2> QED BY <2>1, <2>2 DEF CalmInv
<1> QED BY <1>1, <1>2, CalmInvariant, PTL

(* Under the same conditions nil means that the message is queued.         *)
THEOREM TruthfulSuccessHolds ==
  ASSUME Unroutable = {}, MayTimeout = FALSE
  PROVE  Spec => []TruthfulSuccess
<1>1. Calm
  BY DEF Calm
<1>2. CalmInv => TruthfulSuccess
  BY DEF CalmInv
<1> QED BY <1>1, <1>2, CalmInvariant, PTL
=============================================================================
