------------------------ MODULE ConfigWatcherProofs -------------------------
(***************************************************************************)
(* Theorems about ConfigWatcher, for every set of keys, watched, answered  *)
(* or settable, and every number of changes.                               *)
(*                                                                         *)
(* CaughtUp speaks of a moment at which the queue is empty; what is true   *)
(* at every moment is Caught: a key has the right value, or a message for  *)
(* it is still to be applied, and the last one of these has it (Newest).   *)
(***************************************************************************)
EXTENDS ConfigWatcherProps, TLAPS

(* A message for k has not been applied, or must be applied once more.     *)
Pending(k) == \E i \in 1..Len(queue) : i > taken /\ queue[i].key = k

(* The last message in the queue for a key has the value that came last;   *)
(* so has the source, unless the key was last changed before the queue was *)
(* bound, and nothing has come before that.                                *)
IsLast(i) == \A j \in 1..Len(queue) : j > i => queue[j].key # queue[i].key
Newest ==
  /\ \A i \in 1..Len(queue) :
       queue[i].key \in Keys /\ IsLast(i) => queue[i].value = pushed[queue[i].key]
  /\ \A k \in Keys : source[k] # 0 => source[k] = pushed[k] \/ pushed[k] = 0
  /\ bound \/ \A k \in Keys : pushed[k] = 0

(* The answer under way is that of the source for keys not changed since.  *)
Fresh == loop = "answer" => \A k \in Watched \cap known : loaded[k] = source[k]

Caught ==
  /\ \A k \in Watched \cap current :
       source[k] # 0 => values[k] = source[k] \/ Pending(k)
  /\ \A k \in Pushed : values[k] = pushed[k] \/ Pending(k)

CaughtInv == Newest /\ Fresh /\ Caught

-----------------------------------------------------------------------------
(* What the queue is after a message has been added, or removed.           *)

LEMMA AppendFacts ==
  ASSUME NEW M, NEW q \in Seq(M), NEW m \in M
  PROVE  /\ Append(q, m) \in Seq(M) /\ Len(Append(q, m)) = Len(q) + 1
         /\ Append(q, m)[Len(q) + 1] = m
         /\ \A i \in 1..Len(q) : Append(q, m)[i] = q[i]
  OBVIOUS

LEMMA TailFacts ==
  ASSUME NEW M, NEW q \in Seq(M), q # <<>>
  PROVE  /\ Tail(q) \in Seq(M) /\ Len(Tail(q)) = Len(q) - 1
         /\ \A i \in 1..Len(Tail(q)) : Tail(q)[i] = q[i + 1]
  OBVIOUS

(* Type correctness: no message is newer than the changes, and the library *)
(* holds messages of a lost connection only.                               *)
Message == [key : Keys \cup {Nobody}, value : Versions]
TypeInv ==
  /\ TypeOK
  /\ \A i \in 1..Len(queue) : queue[i].value <= changes
  /\ sub # "lost" => held = 0

LEMMA TypeInit == Init => TypeInv
<1> SUFFICES ASSUME Init PROVE TypeInv
  OBVIOUS
<1>1. queue \in Seq(Message) /\ Len(queue) = 0
  BY DEF Init
<1>2. 0 \in 0..0 /\ 0 \in 0..MaxChanges
  BY ChangeAssumption
<1>3. /\ values \in [Keys -> 0..changes] /\ loaded \in [Answered -> 0..changes]
      /\ source \in [Keys -> 0..changes] /\ pushed \in [Keys -> 0..changes]
      /\ changes \in 0..MaxChanges
  BY <1>2 DEF Init
<1>4. /\ taken \in 0..Len(queue) /\ held \in 0..Len(queue)
      /\ \A i \in 1..Len(queue) : queue[i].value <= changes
  BY <1>1 DEF Init
<1>5. /\ loop = "load" /\ sub = "setup" /\ ctxDone = FALSE /\ failedEmpty = FALSE
      /\ known \subseteq Keys /\ current \subseteq Keys /\ held = 0
      /\ recent \in 0..MaxRestarts /\ bound = FALSE
  BY ChangeAssumption DEF Init
<1> QED BY <1>1, <1>3, <1>4, <1>5 DEF TypeOK, TypeInv, Message

LEMMA TypeStep == TypeInv /\ [Next]_vars => TypeInv'
<1> SUFFICES ASSUME TypeInv, [Next]_vars PROVE TypeInv'
  OBVIOUS
<1> USE DEF watcher, rabbit, service, TypeInv
<1>0. /\ changes \in Nat /\ MaxChanges \in Nat
      /\ 0..changes \subseteq 0..(changes + 1)
      /\ queue \in Seq(Message) /\ Len(queue) \in Nat
      /\ \A i \in 1..Len(queue) : queue[i] \in Message
  <2>1. queue \in Seq(Message)
    BY DEF TypeOK, Message
  <2> QED BY <2>1, ChangeAssumption DEF TypeOK
<1>1. ASSUME changes < MaxChanges
      PROVE  changes + 1 \in Versions /\ changes + 1 \in 0..MaxChanges
  BY <1>0, <1>1 DEF Versions
<1>a. ASSUME NEW m \in Message, m.value = changes + 1, Enqueue(m),
             changes' = changes + 1
      PROVE  /\ queue' \in Seq(Message) /\ Len(queue') >= Len(queue)
             /\ Len(queue') \in Nat
             /\ \A i \in 1..Len(queue') : queue'[i].value <= changes'
  <2>1. CASE ~bound
    <3>1. queue' = queue /\ changes' = changes + 1
      BY <1>a, <2>1 DEF Enqueue
    <3>2. ASSUME NEW i \in 1..Len(queue) PROVE queue[i].value <= changes + 1
      <4>1. queue[i].value \in Nat /\ queue[i].value <= changes
        BY <1>0 DEF Message, Versions
      <4> QED BY <1>0, <4>1
    <3> QED BY <1>0, <3>1, <3>2
  <2>2. CASE bound
    <3>1. /\ queue' \in Seq(Message) /\ Len(queue') = Len(queue) + 1
          /\ queue'[Len(queue) + 1] = m
          /\ \A i \in 1..Len(queue) : queue'[i] = queue[i]
      BY <1>0, <1>a, <2>2, AppendFacts DEF Enqueue
    <3>2. ASSUME NEW i \in 1..Len(queue) PROVE queue'[i].value <= changes'
      <4>1. queue[i].value \in Nat /\ queue[i].value <= changes
        BY <1>0 DEF Message, Versions
      <4> QED BY <1>0, <1>a, <3>1, <4>1
    <3> QED BY <1>0, <1>a, <3>1, <3>2
  <2> QED BY <2>1, <2>2
<1>2. ASSUME NEW k \in Keys, SourceChanges(k) PROVE TypeInv'
  <2>1. [key |-> k, value |-> changes + 1] \in Message
    BY <1>1, <1>2 DEF SourceChanges, Message
  <2>2. /\ queue' \in Seq(Message) /\ Len(queue') >= Len(queue)
        /\ Len(queue') \in Nat
        /\ \A i \in 1..Len(queue') : queue'[i].value <= changes'
    BY <1>2, <1>a, <2>1 DEF SourceChanges
  <2> QED BY <1>0, <1>1, <1>2, <2>2 DEF SourceChanges, TypeOK, Message
<1>3. ASSUME NEW k \in Keys, SourceRemoves(k) PROVE TypeInv'
  BY <1>0, <1>1, <1>3, SMTT(30) DEF SourceRemoves, TypeOK, Message, Versions
<1>4. CASE SourcePublishesJunk
  <2>1. [key |-> Nobody, value |-> changes + 1] \in Message
    BY <1>1, <1>4 DEF SourcePublishesJunk, Message
  <2>2. /\ queue' \in Seq(Message) /\ Len(queue') >= Len(queue)
        /\ Len(queue') \in Nat
        /\ \A i \in 1..Len(queue') : queue'[i].value <= changes'
    BY <1>4, <1>a, <2>1 DEF SourcePublishesJunk
  <2> QED BY <1>0, <1>1, <1>4, <2>2 DEF SourcePublishesJunk, TypeOK, Message
<1>5. ASSUME NEW k \in Keys, Set(k) PROVE TypeInv'
  <2>1. /\ values' \in [Keys -> 0..changes'] /\ changes' \in 0..MaxChanges
        /\ changes' = changes + 1
    BY <1>0, <1>1, <1>5 DEF Set, TypeOK
  <2> QED BY <1>0, <1>1, <1>5, <2>1, SMTT(30) DEF Set, TypeOK, Message, Versions
<1>6. CASE LoadAnswers
  BY <1>6, KeysAssumption DEF LoadAnswers, TypeOK
<1>7. CASE LoadFails
  BY <1>7 DEF LoadFails, TypeOK
<1>8. CASE Reload
  BY <1>0, <1>8, KeysAssumption DEF Reload, Gone, Overwritten, TypeOK
<1>9. CASE Tick
  BY <1>9 DEF Tick, TypeOK
<1>10. CASE StartReturns
  BY <1>10 DEF StartReturns, TypeOK
<1>11. CASE Subscribe
  BY <1>11 DEF Subscribe, TypeOK
<1>12. CASE Receive
  <2>1. taken' \in 0..Len(queue) /\ taken + 1 \in 1..Len(queue)
    <3>1. taken \in 0..Len(queue) /\ taken < Len(queue) /\ taken' = taken + 1
      BY <1>12 DEF Receive, CanReceive, TypeOK
    <3> QED BY <1>0, <3>1
  <2>2. queue[taken + 1].value \in 0..changes
    BY <1>0, <2>1 DEF Message, Versions
  <2> QED BY <1>12, <2>1, <2>2 DEF Receive, TypeOK
<1>13. CASE AckArrives
  <2>1. Len(queue) > 0 /\ queue # <<>>
    BY <1>0, <1>13 DEF AckArrives, TypeOK
  <2>2. /\ queue' \in Seq(Message) /\ Len(queue') = Len(queue) - 1
        /\ \A i \in 1..Len(queue') : queue'[i] = queue[i + 1]
    BY <1>0, <1>13, <2>1, TailFacts DEF AckArrives
  <2>3. \A i \in 1..Len(queue') : queue'[i].value <= changes'
    BY <1>0, <1>13, <2>2 DEF AckArrives
  <2> QED BY <1>0, <1>13, <2>2, <2>3 DEF AckArrives, TypeOK, Message
<1>14. CASE ConnectionLost
  BY <1>0, <1>14 DEF ConnectionLost, TypeOK
<1>15. CASE SubscribeFails
  <2>1. /\ bound' \in BOOLEAN /\ sub' \in {"returned", "failed"}
        /\ taken' = 0 /\ held' = 0
    BY <1>15 DEF SubscribeFails, TypeOK
  <2>2. taken' \in 0..Len(queue) /\ held' \in 0..Len(queue)
    BY <1>0, <2>1
  <2> QED BY <1>15, <2>1, <2>2 DEF SubscribeFails, TypeOK
<1>16. CASE SubscribeReturns
  BY <1>0, <1>16 DEF SubscribeReturns, TypeOK
<1>17. CASE Cancel
  BY <1>17 DEF Cancel, TypeOK
<1>18. CASE UNCHANGED vars
  BY <1>18 DEF vars, TypeOK
<1>19. CASE Restart \/ Deny \/ WindowSlides
  <2>1. recent' \in 0..MaxRestarts
    BY <1>19, ChangeAssumption DEF Restart, Deny, WindowSlides, TypeOK
  <2> QED BY <1>19, <2>1 DEF Restart, Deny, WindowSlides, TypeOK
<1> QED
  BY <1>2, <1>3, <1>4, <1>5, <1>6, <1>7, <1>8, <1>9, <1>10, <1>11, <1>12, <1>13,
     <1>14, <1>15, <1>16, <1>17, <1>18, <1>19 DEF Next, ReloadStep, SubscribeStep

(* The state of the watcher keeps its shape.                               *)
THEOREM TypeCorrect == Spec => []TypeOK
<1>1. Spec => []TypeInv
  BY TypeInit, TypeStep, PTL DEF Spec
<1>2. TypeInv => TypeOK
  BY DEF TypeInv
<1> QED BY <1>1, <1>2, PTL

-----------------------------------------------------------------------------
(* CaughtUp.                                                               *)

LEMMA CaughtInit == Init => CaughtInv
<1> SUFFICES ASSUME Init PROVE CaughtInv
  OBVIOUS
<1>1. Len(queue) = 0 /\ current = {} /\ loop = "load"
  BY DEF Init
<1>2. \A k \in Keys : source[k] = 0 /\ values[k] = pushed[k] /\ pushed[k] = 0
  BY DEF Init
<1> QED BY <1>1, <1>2 DEF CaughtInv, Newest, Fresh, Caught, Pushed

(* Steps that leave the queue and the source alone keep Newest.            *)
LEMMA NewestKept ==
  ASSUME Newest, UNCHANGED <<queue, source, pushed>>, bound => bound'
  PROVE  Newest'
  BY DEF Newest, IsLast

(* Nothing is pending any less if the subscription starts anew.            *)
LEMMA PendingKept ==
  ASSUME TypeInv, UNCHANGED queue, taken' \in Nat, taken' <= taken, NEW k, Pending(k)
  PROVE  Pending(k)'
  BY DEF Pending, TypeInv, TypeOK

(* A message is added behind the others.                                   *)
LEMMA Published ==
  ASSUME TypeInv, NEW m \in Message, queue' = Append(queue, m), UNCHANGED taken
  PROVE  /\ Pending(m.key)'
         /\ \A k : Pending(k) => Pending(k)'
         /\ Len(queue') = Len(queue) + 1 /\ queue'[Len(queue) + 1] = m
         /\ \A i \in 1..Len(queue) : queue'[i] = queue[i]
         /\ \A i \in 1..Len(queue') : IsLast(i)' =>
              \/ i = Len(queue) + 1
              \/ i \in 1..Len(queue) /\ IsLast(i) /\ queue[i].key # m.key
<1>1. queue \in Seq(Message) /\ Len(queue) \in Nat /\ taken \in 0..Len(queue)
  BY DEF TypeInv, TypeOK, Message
<1>2. /\ Len(queue') = Len(queue) + 1 /\ queue'[Len(queue) + 1] = m
      /\ \A i \in 1..Len(queue) : queue'[i] = queue[i]
  BY <1>1, AppendFacts
<1>3. Pending(m.key)'
  <2>1. Len(queue) + 1 \in 1..Len(queue') /\ Len(queue) + 1 > taken'
    BY <1>1, <1>2
  <2> QED BY <1>2, <2>1 DEF Pending
<1>4. ASSUME NEW k, Pending(k) PROVE Pending(k)'
  <2>1. PICK i \in 1..Len(queue) : i > taken /\ queue[i].key = k
    BY <1>4 DEF Pending
  <2>2. i \in 1..Len(queue') /\ i > taken' /\ queue'[i].key = k
    BY <1>1, <1>2, <2>1
  <2> QED BY <2>2 DEF Pending
<1>5. ASSUME NEW i \in 1..Len(queue'), IsLast(i)', i # Len(queue) + 1
      PROVE  i \in 1..Len(queue) /\ IsLast(i) /\ queue[i].key # m.key
  <2>1. i \in 1..Len(queue) /\ queue'[i] = queue[i]
    BY <1>1, <1>2, <1>5
  <2>2. Len(queue) + 1 \in 1..Len(queue') /\ Len(queue) + 1 > i
    BY <1>1, <1>2, <2>1
  <2>3. queue[i].key # m.key
    BY <1>2, <1>5, <2>1, <2>2 DEF IsLast
  <2>4. ASSUME NEW j \in 1..Len(queue), j > i PROVE queue[j].key # queue[i].key
    <3>1. j \in 1..Len(queue') /\ queue'[j] = queue[j]
      BY <1>1, <1>2
    <3> QED BY <1>5, <2>1, <2>4, <3>1 DEF IsLast
  <2> QED BY <2>1, <2>3, <2>4 DEF IsLast
<1> QED BY <1>2, <1>3, <1>4, <1>5

LEMMA CaughtStep == TypeInv /\ CaughtInv /\ [Next]_vars => CaughtInv'
<1> SUFFICES ASSUME TypeInv, CaughtInv, [Next]_vars PROVE CaughtInv'
  OBVIOUS
<1> USE DEF watcher, rabbit, service
<1>0. /\ Newest /\ Fresh /\ Caught
      /\ queue \in Seq(Message) /\ Len(queue) \in Nat
      /\ taken \in 0..Len(queue) /\ changes \in Nat
      /\ source \in [Keys -> 0..changes] /\ pushed \in [Keys -> 0..changes]
      /\ values \in [Keys -> 0..changes]
  BY ChangeAssumption DEF CaughtInv, TypeInv, TypeOK, Message
<1>2. ASSUME NEW k \in Keys, SourceChanges(k) PROVE CaughtInv'
  <2>1. /\ source'[k] = changes + 1
        /\ \A j \in Keys \ {k} : source'[j] = source[j]
        /\ current' \subseteq current \ {k} /\ known' = known \ {k}
        /\ UNCHANGED <<values, loop, loaded, taken, bound>>
    BY <1>0, <1>2 DEF SourceChanges
  <2>2. Fresh'
    BY <1>0, <2>1, KeysAssumption DEF Fresh
  <2>3. CASE ~bound
    <3>1. UNCHANGED <<queue, pushed>>
      BY <1>2, <2>3 DEF SourceChanges, Enqueue
    <3>2. \A j : Pending(j)' = Pending(j)
      BY <2>1, <3>1 DEF Pending
    <3>3. Newest'
      BY <1>0, <2>1, <2>3, <3>1 DEF Newest, IsLast
    <3>4. Caught'
      BY <1>0, <2>1, <3>1, <3>2, KeysAssumption DEF Caught, Pushed
    <3> QED BY <2>2, <3>3, <3>4 DEF CaughtInv
  <2>4. CASE bound
    <3> DEFINE m == [key |-> k, value |-> changes + 1]
    <3>1. m \in Message
      <4>1. changes + 1 \in Versions
        BY <1>0, <1>2, ChangeAssumption DEF SourceChanges, Versions
      <4> QED BY <4>1 DEF Message
    <3>2. queue' = Append(queue, m) /\ m.key = k /\ m.value = changes + 1
      BY <1>2, <2>4 DEF SourceChanges, Enqueue
    <3> HIDE DEF m
    <3>3. /\ Pending(k)' /\ \A j : Pending(j) => Pending(j)'
          /\ Len(queue') = Len(queue) + 1 /\ queue'[Len(queue) + 1] = m
          /\ \A i \in 1..Len(queue) : queue'[i] = queue[i]
          /\ \A i \in 1..Len(queue') : IsLast(i)' =>
               \/ i = Len(queue) + 1
               \/ i \in 1..Len(queue) /\ IsLast(i) /\ queue[i].key # k
      BY <2>1, <3>1, <3>2, Published
    <3>4. /\ pushed'[k] = changes + 1
          /\ \A j \in Keys \ {k} : pushed'[j] = pushed[j]
      BY <1>0, <1>2, <2>4 DEF SourceChanges
    <3>5. Newest'
      <4>1. ASSUME NEW i \in 1..Len(queue'), queue'[i].key \in Keys, IsLast(i)'
            PROVE  queue'[i].value = pushed'[queue'[i].key]
        BY <1>0, <3>2, <3>3, <3>4, <4>1 DEF Newest
      <4>2. ASSUME NEW j \in Keys, source'[j] # 0
            PROVE  source'[j] = pushed'[j] \/ pushed'[j] = 0
        BY <1>0, <2>1, <3>4, <4>2 DEF Newest
      <4> QED BY <2>1, <2>4, <4>1, <4>2 DEF Newest
    <3>6. Caught'
      BY <1>0, <2>1, <3>3, <3>4, KeysAssumption DEF Caught, Pushed
    <3> QED BY <2>2, <3>5, <3>6 DEF CaughtInv
  <2> QED BY <2>3, <2>4
<1>3. ASSUME NEW k \in Keys, SourceRemoves(k) PROVE CaughtInv'
  <2>1. /\ source'[k] = 0 /\ \A j \in Keys \ {k} : source'[j] = source[j]
        /\ current' = current \ {k} /\ known' = known \ {k}
        /\ UNCHANGED <<values, loop, loaded, queue, taken, pushed, bound>>
    BY <1>0, <1>3 DEF SourceRemoves
  <2>2. \A j : Pending(j)' = Pending(j)
    BY <2>1 DEF Pending
  <2>3. Newest'
    BY <1>0, <2>1 DEF Newest, IsLast
  <2>4. Fresh' /\ Caught'
    BY <1>0, <2>1, <2>2, KeysAssumption DEF Fresh, Caught, Pushed
  <2> QED BY <2>3, <2>4 DEF CaughtInv
<1>4. CASE SourcePublishesJunk
  <2>1. UNCHANGED <<source, pushed, known, current, values, loop, loaded, taken, bound>>
    BY <1>4 DEF SourcePublishesJunk
  <2>2. CASE ~bound
    <3>1. UNCHANGED queue
      BY <1>4, <2>2 DEF SourcePublishesJunk, Enqueue
    <3>2. \A j : Pending(j)' = Pending(j)
      BY <2>1, <3>1 DEF Pending
    <3>3. Newest'
      BY <1>0, <2>1, <3>1, NewestKept
    <3>4. Fresh' /\ Caught'
      BY <1>0, <2>1, <3>2 DEF Fresh, Caught, Pushed
    <3> QED BY <3>3, <3>4 DEF CaughtInv
  <2>3. CASE bound
    <3> DEFINE m == [key |-> Nobody, value |-> changes + 1]
    <3>1. m \in Message
      <4>1. changes + 1 \in Versions
        BY <1>0, <1>4, ChangeAssumption DEF SourcePublishesJunk, Versions
      <4> QED BY <4>1 DEF Message
    <3>2. queue' = Append(queue, m) /\ m.key = Nobody
      BY <1>4, <2>3 DEF SourcePublishesJunk, Enqueue
    <3> HIDE DEF m
    <3>3. /\ \A j : Pending(j) => Pending(j)'
          /\ Len(queue') = Len(queue) + 1 /\ queue'[Len(queue) + 1] = m
          /\ \A i \in 1..Len(queue) : queue'[i] = queue[i]
          /\ \A i \in 1..Len(queue') : IsLast(i)' =>
               i = Len(queue) + 1 \/ (i \in 1..Len(queue) /\ IsLast(i))
      BY <2>1, <3>1, <3>2, Published
    <3>4. Newest'
      BY <1>0, <2>1, <3>2, <3>3, KeysAssumption DEF Newest
    <3>5. Fresh' /\ Caught'
      BY <1>0, <2>1, <3>3 DEF Fresh, Caught, Pushed
    <3> QED BY <3>4, <3>5 DEF CaughtInv
  <2> QED BY <2>2, <2>3
<1>5. ASSUME NEW k \in Keys, Set(k) PROVE CaughtInv'
  <2>1. /\ k \in Settable /\ current' = current \ {k}
        /\ \A j \in Keys \ {k} : values'[j] = values[j]
        /\ UNCHANGED <<queue, taken, source, pushed, known, loop, loaded, bound>>
    BY <1>0, <1>5 DEF Set
  <2>2. \A j : Pending(j)' = Pending(j)
    BY <2>1 DEF Pending
  <2>3. Newest'
    BY <1>0, <2>1, NewestKept
  <2>4. Fresh' /\ Caught'
    BY <1>0, <2>1, <2>2, KeysAssumption DEF Fresh, Caught, Pushed
  <2> QED BY <2>3, <2>4 DEF CaughtInv
<1>6. CASE LoadAnswers
  <2>1. /\ \A j \in Watched : loaded'[j] = source[j]
        /\ UNCHANGED <<values, queue, taken, source, pushed, known, current, bound>>
    BY <1>6, KeysAssumption DEF LoadAnswers
  <2>2. \A j : Pending(j)' = Pending(j)
    BY <2>1 DEF Pending
  <2>3. Newest'
    BY <1>0, <2>1, NewestKept
  <2>4. Fresh' /\ Caught'
    BY <1>0, <2>1, <2>2 DEF Fresh, Caught
  <2> QED BY <2>3, <2>4 DEF CaughtInv
<1>7. CASE Reload
  <2>1. /\ current' = known /\ loop' = "select"
        /\ \A j \in Watched \cap known : values'[j] = loaded[j] /\ loaded[j] = source[j]
        /\ \A j \in Pushed : values'[j] = values[j]
        /\ UNCHANGED <<queue, taken, source, pushed, bound>>
    BY <1>0, <1>7, KeysAssumption DEF Reload, Fresh, Gone, Overwritten, Pushed
  <2>2. \A j : Pending(j)' = Pending(j)
    BY <2>1 DEF Pending
  <2>3. Newest'
    BY <1>0, <2>1, NewestKept
  <2>4. Fresh' /\ Caught'
    BY <1>0, <2>1, <2>2 DEF Fresh, Caught
  <2> QED BY <2>3, <2>4 DEF CaughtInv
<1>8. CASE LoadFails \/ Tick \/ StartReturns
  <2>1. /\ loop' # "answer"
        /\ UNCHANGED <<values, queue, taken, source, pushed, current, bound>>
    BY <1>8 DEF LoadFails, Tick, StartReturns
  <2>2. \A j : Pending(j)' = Pending(j)
    BY <2>1 DEF Pending
  <2>3. Newest'
    BY <1>0, <2>1, NewestKept
  <2>4. Fresh' /\ Caught'
    BY <1>0, <2>1, <2>2 DEF Fresh, Caught
  <2> QED BY <2>3, <2>4 DEF CaughtInv
<1>9. CASE Receive
  <2> DEFINE n == taken + 1
  <2>1. n \in 1..Len(queue) /\ n > taken /\ taken' = n /\ UNCHANGED queue
    BY <1>0, <1>9 DEF Receive, CanReceive, TypeInv, TypeOK
  <2>2. UNCHANGED <<source, pushed, known, current, loop, loaded, bound>>
    BY <1>9 DEF Receive
  <2>3. \A k \in Keys : values'[k] = IF k = queue[n].key THEN queue[n].value
                                                         ELSE values[k]
    BY <1>0, <1>9 DEF Receive
  <2>4. ASSUME NEW k \in Keys, Pending(k), ~Pending(k)'
        PROVE  queue[n].key = k /\ IsLast(n)
    <3>1. PICK i \in 1..Len(queue) : i > taken /\ queue[i].key = k
      BY <2>4 DEF Pending
    <3>2. \A j \in 1..Len(queue) : j > n => queue[j].key # k
      BY <2>1, <2>4 DEF Pending
    <3>3. i = n
      BY <1>0, <2>1, <3>1, <3>2
    <3> QED BY <3>1, <3>2, <3>3 DEF IsLast
  <2>5. ASSUME NEW k \in Keys, ~Pending(k) PROVE values'[k] = values[k]
    BY <2>1, <2>3, <2>5 DEF Pending
  <2>6. ASSUME NEW k \in Keys, Pending(k), ~Pending(k)' PROVE values'[k] = pushed[k]
    BY <1>0, <2>1, <2>3, <2>4, <2>6 DEF Newest
  <2>7. Newest' /\ Fresh'
    BY <1>0, <2>1, <2>2, NewestKept DEF Fresh
  <2>8. Caught'
    <3>1. ASSUME NEW k \in Watched \cap current', source'[k] # 0, ~Pending(k)'
          PROVE  values'[k] = source'[k]
      <4>1. k \in Keys /\ (source[k] = pushed[k] \/ pushed[k] = 0)
        BY <1>0, <2>2, <3>1, KeysAssumption DEF Newest
      <4>2. CASE Pending(k)
        <5>1. queue[n].key = k /\ queue[n].value = pushed[k] /\ queue[n].value # 0
          <6>1. queue[n].key = k /\ IsLast(n) /\ queue[n] \in Message
            BY <1>0, <2>1, <2>4, <3>1, <4>1, <4>2
          <6>2. queue[n].value # 0
            BY <6>1 DEF Message, Versions
          <6> QED BY <1>0, <2>1, <4>1, <6>1, <6>2 DEF Newest
        <5> QED BY <2>2, <2>6, <3>1, <4>1, <4>2, <5>1
      <4>3. CASE ~Pending(k)
        BY <1>0, <2>2, <2>5, <3>1, <4>1, <4>3 DEF Caught
      <4> QED BY <4>2, <4>3
    <3>2. ASSUME NEW k \in Pushed, ~Pending(k)' PROVE values'[k] = pushed'[k]
      <4>1. k \in Keys
        BY DEF Pushed
      <4>2. CASE Pending(k)
        BY <2>2, <2>6, <3>2, <4>1, <4>2
      <4>3. CASE ~Pending(k)
        BY <1>0, <2>2, <2>5, <4>1, <4>3 DEF Caught
      <4> QED BY <4>2, <4>3
    <3> QED BY <3>1, <3>2 DEF Caught
  <2> QED BY <2>7, <2>8 DEF CaughtInv
<1>10. CASE AckArrives
  <2>1. /\ taken > 0 /\ taken' = taken - 1 /\ queue # <<>> /\ queue' = Tail(queue)
        /\ UNCHANGED <<values, loop, loaded, source, pushed, known, current, bound>>
    BY <1>0, <1>10 DEF AckArrives
  <2>2. /\ Len(queue') = Len(queue) - 1
        /\ \A i \in 1..Len(queue') : queue'[i] = queue[i + 1]
    BY <1>0, <2>1, TailFacts
  <2>3. ASSUME NEW k, Pending(k) PROVE Pending(k)'
    <3>1. PICK i \in 1..Len(queue) : i > taken /\ queue[i].key = k
      BY <2>3 DEF Pending
    <3>2. i - 1 \in 1..Len(queue') /\ i - 1 > taken' /\ queue'[i - 1] = queue[i]
      BY <1>0, <2>1, <2>2, <3>1
    <3> QED BY <3>1, <3>2 DEF Pending
  <2>4. ASSUME NEW i \in 1..Len(queue'), IsLast(i)'
        PROVE  i + 1 \in 1..Len(queue) /\ IsLast(i + 1)
    <3>1. i + 1 \in 1..Len(queue)
      BY <1>0, <2>2
    <3>2. ASSUME NEW j \in 1..Len(queue), j > i + 1
          PROVE  queue[j].key # queue[i + 1].key
      <4>1. j - 1 \in 1..Len(queue') /\ j - 1 > i /\ queue'[j - 1] = queue[j]
        BY <1>0, <2>2, <3>2
      <4> QED BY <2>2, <2>4, <4>1 DEF IsLast
    <3> QED BY <3>1, <3>2 DEF IsLast
  <2>5. Newest'
    BY <1>0, <2>1, <2>2, <2>4 DEF Newest
  <2>6. Fresh' /\ Caught'
    BY <1>0, <2>1, <2>3 DEF Fresh, Caught
  <2> QED BY <2>5, <2>6 DEF CaughtInv
<1>11. CASE \/ Subscribe \/ ConnectionLost \/ SubscribeFails \/ SubscribeReturns
            \/ Restart \/ Deny \/ WindowSlides \/ Cancel \/ UNCHANGED vars
  <2>1. /\ UNCHANGED <<values, loop, loaded, queue, source, pushed, known, current>>
        /\ taken' \in Nat /\ taken' <= taken
    <3>1. /\ UNCHANGED <<values, loop, loaded, queue, source, pushed, known, current>>
          /\ taken' = taken \/ taken' = 0
      BY <1>11 DEF Subscribe, ConnectionLost, SubscribeFails, SubscribeReturns,
                   Restart, Deny, WindowSlides, Cancel, vars
    <3>2. taken \in Nat
      BY <1>0
    <3> QED BY <3>1, <3>2
  <2>5. bound => bound'
    BY <1>11 DEF Subscribe, ConnectionLost, SubscribeFails, SubscribeReturns,
                 Restart, Deny, WindowSlides, Cancel, vars
  <2>2. \A j : Pending(j) => Pending(j)'
    BY <2>1, PendingKept
  <2>3. Newest'
    BY <1>0, <2>1, <2>5, NewestKept
  <2>4. Fresh' /\ Caught'
    BY <1>0, <2>1, <2>2 DEF Fresh, Caught
  <2> QED BY <2>3, <2>4 DEF CaughtInv
<1> QED
  BY <1>2, <1>3, <1>4, <1>5, <1>6, <1>7, <1>8, <1>9, <1>10, <1>11
  DEF Next, ReloadStep, SubscribeStep

(* When nothing is left to apply, nothing is pending.                      *)
LEMMA CaughtInvImplies == CaughtInv => CaughtUp
<1> SUFFICES ASSUME CaughtInv, queue = <<>> PROVE CaughtUp
  BY DEF CaughtUp
<1>1. \A k : ~Pending(k)
  <2>1. Len(queue) = 0
    OBVIOUS
  <2> QED BY <2>1 DEF Pending
<1> QED BY <1>1 DEF CaughtInv, Caught, CaughtUp

(* However loads, pushes, redeliveries and calls of Set fall: once both    *)
(* paths are quiet, the watcher has what the source has.                   *)
THEOREM CaughtUpHolds == Spec => []CaughtUp
<1>1. Spec => [](TypeInv /\ CaughtInv)
  BY TypeInit, TypeStep, CaughtInit, CaughtStep, PTL DEF Spec
<1> QED BY <1>1, CaughtInvImplies, PTL
=============================================================================
