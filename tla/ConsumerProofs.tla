--------------------------- MODULE ConsumerProofs ---------------------------
(***************************************************************************)
(* Theorems about SupervisedConsumer, for any number of messages, any set  *)
(* of poisonous ones and any prefetch count.                               *)
(***************************************************************************)
EXTENDS SupervisedConsumerProps, FiniteSetTheorems, TLAPS

Sent    == [msg : Msgs, verdict : {"ack", "requeue", "discard"}]
Gone    == acked \cup dead \cup dropped
Inj(s)  == \A i, j \in 1..Len(s) : s[i] = s[j] => i = j

(* The deliveries u of a connection, in the order the broker made them,    *)
(* are those with a verdict s on its way, then g that are handled, or were *)
(* when the handler panicked, and then those q nobody has taken.           *)
Follows(u, s, g, q) ==
  /\ Len(u) = Len(s) + g + Len(q)
  /\ \A i \in 1..Len(s) : u[i] = s[i].msg
  /\ \A i \in 1..Len(q) : u[Len(s) + g + i] = q[i]

Taken == IF run \in {"handle", "unwind", "abandon"} THEN 1 ELSE 0

(* A message is in one place, and those published are the first ones.      *)
Apart ==
  /\ Inj(queue) /\ Inj(unacked)
  /\ Elems(queue) \cap Elems(unacked) = {}
  /\ (Elems(queue) \cup Elems(unacked)) \cap Gone = {}
  /\ acked \cap dead = {} /\ acked \cap dropped = {} /\ dead \cap dropped = {}
  /\ published = Elems(queue) \cup Elems(unacked) \cup Gone
  /\ \E k \in 0..MaxMsgs : published = 1..k

(* There is a connection from Dial until Run is over.                      *)
Connected ==
  /\ conn # "up" => unacked = <<>> /\ sent = <<>>
  /\ run \in {"off", "dial", "returned"} => conn = "none" /\ msgs = <<>>
  /\ run \in {"declare", "consume"} =>
       conn # "none" /\ msgs = <<>> /\ sent = <<>> /\ unacked = <<>>
  /\ run \in {"loop", "handle", "unwind", "abandon", "stop"} => conn # "none"

(* On a live connection its deliveries follow one another; of a lost one   *)
(* all is back in the queue.                                               *)
InOrder ==
  /\ conn = "up" => Follows(unacked, sent, Taken, msgs)
  /\ conn = "up" /\ run = "handle" => unacked[Len(sent) + 1] = handling
  /\ conn = "lost" => Elems(msgs) \cup ({handling} \ {Nothing}) \subseteq Elems(queue)

Bounded ==
  /\ Len(unacked) <= PrefetchCount /\ Len(msgs) <= PrefetchCount
  /\ run \in {"handle", "unwind", "abandon"} => Len(msgs) < PrefetchCount

(* A verdict on its way is what the handler returned last for its message. *)
LastWord ==
  \A i \in 1..Len(sent) :
    /\ verdicts[sent[i].msg] \in Errors
    /\ sent[i].verdict = Verdict(verdicts[sent[i].msg])

QueueInv == TypeOK /\ Apart /\ Connected /\ InOrder /\ Bounded /\ LastWord

-----------------------------------------------------------------------------
(* Sequences.                                                              *)

LEMMA ElemsOf ==
  ASSUME NEW M, NEW q \in Seq(M)
  PROVE  /\ Elems(q) \subseteq M /\ Len(q) \in Nat
         /\ \A i \in 1..Len(q) : q[i] \in Elems(q)
         /\ \A x \in Elems(q) : \E i \in 1..Len(q) : q[i] = x
         /\ (q = <<>> <=> Len(q) = 0)
         /\ q # <<>> => 1 \in 1..Len(q)
<1>1. /\ Len(q) \in Nat /\ (q = <<>> <=> Len(q) = 0)
      /\ \A i \in 1..Len(q) : q[i] \in M
  OBVIOUS
<1> QED BY <1>1 DEF Elems

LEMMA AppendElems ==
  ASSUME NEW M, NEW q \in Seq(M), NEW m \in M
  PROVE  /\ Append(q, m) \in Seq(M) /\ Len(Append(q, m)) = Len(q) + 1
         /\ Append(q, m)[Len(q) + 1] = m
         /\ \A i \in 1..Len(q) : Append(q, m)[i] = q[i]
         /\ Elems(Append(q, m)) = Elems(q) \cup {m}
         /\ Inj(q) /\ m \notin Elems(q) => Inj(Append(q, m))
<1>1. /\ Append(q, m) \in Seq(M) /\ Len(Append(q, m)) = Len(q) + 1
      /\ Append(q, m)[Len(q) + 1] = m
      /\ \A i \in 1..Len(q) : Append(q, m)[i] = q[i]
  OBVIOUS
<1>2. 1..(Len(q) + 1) = 1..Len(q) \cup {Len(q) + 1}
  OBVIOUS
<1>3. Elems(Append(q, m)) = Elems(q) \cup {m}
  BY <1>1, <1>2 DEF Elems
<1>4. Inj(q) /\ m \notin Elems(q) => Inj(Append(q, m))
  BY <1>1, <1>2 DEF Elems, Inj
<1> QED BY <1>1, <1>3, <1>4

LEMMA HeadTailElems ==
  ASSUME NEW M, NEW q \in Seq(M), q # <<>>
  PROVE  /\ Head(q) \in M /\ Head(q) = q[1] /\ Len(q) > 0
         /\ Tail(q) \in Seq(M) /\ Len(Tail(q)) = Len(q) - 1
         /\ \A i \in 1..Len(Tail(q)) : Tail(q)[i] = q[i + 1]
         /\ Elems(q) = {Head(q)} \cup Elems(Tail(q))
         /\ Inj(q) => Inj(Tail(q)) /\ Head(q) \notin Elems(Tail(q))
<1>1. /\ Head(q) \in M /\ Head(q) = q[1] /\ Len(q) > 0 /\ Len(q) \in Nat
      /\ Tail(q) \in Seq(M) /\ Len(Tail(q)) = Len(q) - 1
      /\ \A i \in 1..Len(Tail(q)) : Tail(q)[i] = q[i + 1]
  OBVIOUS
<1>2. ASSUME NEW x \in Elems(q) PROVE x \in {Head(q)} \cup Elems(Tail(q))
  <2>1. PICK i \in 1..Len(q) : x = q[i]
    BY DEF Elems
  <2>2. CASE i = 1
    BY <1>1, <2>1, <2>2
  <2>3. CASE i # 1
    <3>1. i - 1 \in 1..Len(Tail(q)) /\ Tail(q)[i - 1] = q[i]
      BY <1>1, <2>1, <2>3
    <3> QED BY <2>1, <3>1 DEF Elems
  <2> QED BY <2>2, <2>3
<1>3. ASSUME NEW x \in {Head(q)} \cup Elems(Tail(q)) PROVE x \in Elems(q)
  BY <1>1 DEF Elems
<1>4. Elems(q) = {Head(q)} \cup Elems(Tail(q))
  BY <1>2, <1>3
<1>5. ASSUME Inj(q) PROVE Inj(Tail(q)) /\ Head(q) \notin Elems(Tail(q))
  BY <1>1, <1>5 DEF Inj, Elems
<1> QED BY <1>1, <1>4, <1>5

LEMMA JoinElems ==
  ASSUME NEW M, NEW q \in Seq(M), NEW r \in Seq(M)
  PROVE  /\ q \o r \in Seq(M) /\ Len(q \o r) = Len(q) + Len(r)
         /\ Elems(q \o r) = Elems(q) \cup Elems(r)
         /\ Inj(q) /\ Inj(r) /\ Elems(q) \cap Elems(r) = {} => Inj(q \o r)
<1>1. /\ q \o r \in Seq(M) /\ Len(q \o r) = Len(q) + Len(r)
      /\ Len(q) \in Nat /\ Len(r) \in Nat
      /\ \A i \in 1..Len(q) : (q \o r)[i] = q[i]
      /\ \A i \in 1..Len(r) : (q \o r)[Len(q) + i] = r[i]
  OBVIOUS
<1>2. ASSUME NEW i \in 1..Len(q \o r)
      PROVE  \/ i \in 1..Len(q) /\ (q \o r)[i] = q[i]
             \/ \E j \in 1..Len(r) : i = Len(q) + j /\ (q \o r)[i] = r[j]
  <2>1. CASE i <= Len(q)
    BY <1>1, <2>1
  <2>2. CASE i > Len(q)
    <3>1. i - Len(q) \in 1..Len(r) /\ i = Len(q) + (i - Len(q))
      BY <1>1, <2>2
    <3> QED BY <1>1, <3>1
  <2> QED BY <1>1, <2>1, <2>2
<1>3. \A i \in 1..Len(q) : i \in 1..Len(q \o r)
  BY <1>1
<1>4. \A i \in 1..Len(r) : Len(q) + i \in 1..Len(q \o r)
  BY <1>1
<1>5. Elems(q \o r) = Elems(q) \cup Elems(r)
  <2>1. ASSUME NEW x \in Elems(q \o r) PROVE x \in Elems(q) \cup Elems(r)
    BY <1>2 DEF Elems
  <2>2. ASSUME NEW x \in Elems(q) PROVE x \in Elems(q \o r)
    <3>1. PICK i \in 1..Len(q) : x = q[i]
      BY DEF Elems
    <3>2. i \in 1..Len(q \o r) /\ (q \o r)[i] = x
      BY <1>1, <1>3, <3>1
    <3> QED BY <3>2 DEF Elems
  <2>3. ASSUME NEW x \in Elems(r) PROVE x \in Elems(q \o r)
    <3>1. PICK i \in 1..Len(r) : x = r[i]
      BY DEF Elems
    <3>2. Len(q) + i \in 1..Len(q \o r) /\ (q \o r)[Len(q) + i] = x
      BY <1>1, <1>4, <3>1
    <3> QED BY <3>2 DEF Elems
  <2> QED BY <2>1, <2>2, <2>3
<1>6. ASSUME Inj(q), Inj(r), Elems(q) \cap Elems(r) = {}
      PROVE  Inj(q \o r)
  <2> SUFFICES ASSUME NEW i \in 1..Len(q \o r), NEW j \in 1..Len(q \o r),
                      (q \o r)[i] = (q \o r)[j]
               PROVE  i = j
    BY DEF Inj
  <2>1. ASSUME NEW k \in 1..Len(q), NEW l \in 1..Len(r) PROVE q[k] # r[l]
    <3>1. q[k] \in Elems(q) /\ r[l] \in Elems(r)
      BY DEF Elems
    <3> QED BY <1>6, <3>1
  <2>2. CASE i \in 1..Len(q) /\ (q \o r)[i] = q[i]
    BY <1>2, <1>6, <2>1, <2>2 DEF Inj
  <2>3. CASE \E k \in 1..Len(r) : i = Len(q) + k /\ (q \o r)[i] = r[k]
    BY <1>2, <1>6, <2>1, <2>3 DEF Inj
  <2> QED BY <1>2, <2>2, <2>3
<1> QED BY <1>1, <1>5, <1>6

LEMMA EmptyElems ==
  /\ \A M : <<>> \in Seq(M)
  /\ Len(<<>>) = 0 /\ Elems(<<>>) = {} /\ Inj(<<>>)
BY DEF Elems, Inj

LEMMA OneElem ==
  ASSUME NEW M, NEW m \in M
  PROVE  <<m>> \in Seq(M) /\ Elems(<<m>>) = {m} /\ Inj(<<m>>)
BY DEF Elems, Inj

(* A sequence that repeats nothing has as many elements as it is long.     *)
LEMMA SizeOf ==
  ASSUME NEW M, NEW q \in Seq(M), Inj(q)
  PROVE  Cardinality(Elems(q)) = Len(q)
<1> DEFINE f == [i \in 1..Len(q) |-> q[i]]
<1>1. f \in Bijection(1..Len(q), Elems(q))
  BY DEF Elems, Inj, Bijection, Injection, Surjection, IsInjective
<1>2. Len(q) \in Nat
  OBVIOUS
<1>3. IsFiniteSet(1..Len(q)) /\ Cardinality(1..Len(q)) = Len(q)
  BY <1>2, FS_Interval, SMTT(30)
<1>4. ExistsBijection(1..Len(q), Elems(q))
  BY <1>1 DEF ExistsBijection
<1> HIDE DEF f
<1> QED BY <1>3, <1>4, FS_Bijection

(* The broker settles the first of its unacknowledged messages.            *)
LEMMA FirstOf ==
  ASSUME NEW M, NEW q \in Seq(M), q # <<>>, Inj(q)
  PROVE  Only(q, Head(q)) = <<Head(q)>> /\ Without(q, Head(q)) = Tail(q)
<1>1. At(q, Head(q)) = {1}
  BY DEF At, Inj
<1>2. SubSeq(q, 1, 0) \o SubSeq(q, 2, Len(q)) = Tail(q)
  OBVIOUS
<1>3. (CHOOSE i \in {1} : TRUE) = 1
  OBVIOUS
<1>4. 1 - 1 = 0 /\ 1 + 1 = 2
  OBVIOUS
<1> QED BY <1>1, <1>2, <1>3, <1>4 DEF Only, Without

-----------------------------------------------------------------------------
(* How the deliveries of a connection follow one another.                  *)

LEMMA FollowsTake ==
  ASSUME NEW u \in Seq(Msgs), NEW s \in Seq(Sent), NEW q \in Seq(Msgs),
         q # <<>>, Follows(u, s, 0, q)
  PROVE  Follows(u, s, 1, Tail(q)) /\ u[Len(s) + 1] = Head(q)
<1>1. /\ Head(q) = q[1] /\ Len(q) > 0 /\ Len(Tail(q)) = Len(q) - 1
      /\ \A i \in 1..Len(Tail(q)) : Tail(q)[i] = q[i + 1]
      /\ Len(s) \in Nat /\ Len(q) \in Nat /\ Len(u) \in Nat
  BY HeadTailElems
<1>2. \A i \in 1..Len(Tail(q)) :
        i + 1 \in 1..Len(q) /\ Len(s) + 1 + i = Len(s) + 0 + (i + 1)
  BY <1>1
<1>3. 1 \in 1..Len(q) /\ Len(s) + 1 = Len(s) + 0 + 1
  BY <1>1
<1> QED BY <1>1, <1>2, <1>3 DEF Follows

LEMMA FollowsAnswer ==
  ASSUME NEW u \in Seq(Msgs), NEW s \in Seq(Sent), NEW q \in Seq(Msgs),
         NEW a \in Sent, Follows(u, s, 1, q), u[Len(s) + 1] = a.msg
  PROVE  Follows(u, Append(s, a), 0, q)
<1>1. /\ Len(Append(s, a)) = Len(s) + 1 /\ Append(s, a)[Len(s) + 1] = a
      /\ \A i \in 1..Len(s) : Append(s, a)[i] = s[i]
      /\ Len(s) \in Nat /\ Len(q) \in Nat /\ Len(u) \in Nat
  OBVIOUS
<1>2. \A i \in 1..(Len(s) + 1) : i \in 1..Len(s) \/ i = Len(s) + 1
  BY <1>1
<1>3. \A i \in 1..(Len(s) + 1) : u[i] = Append(s, a)[i].msg
  BY <1>1, <1>2 DEF Follows
<1> QED BY <1>1, <1>3 DEF Follows

LEMMA FollowsDeliver ==
  ASSUME NEW u \in Seq(Msgs), NEW s \in Seq(Sent), NEW q \in Seq(Msgs),
         NEW g \in Nat, NEW m \in Msgs, Follows(u, s, g, q)
  PROVE  /\ Follows(Append(u, m), s, g, Append(q, m))
         /\ g = 1 => Append(u, m)[Len(s) + 1] = u[Len(s) + 1]
<1>1. /\ Len(Append(u, m)) = Len(u) + 1 /\ Append(u, m)[Len(u) + 1] = m
      /\ \A i \in 1..Len(u) : Append(u, m)[i] = u[i]
      /\ Len(Append(q, m)) = Len(q) + 1 /\ Append(q, m)[Len(q) + 1] = m
      /\ \A i \in 1..Len(q) : Append(q, m)[i] = q[i]
      /\ Len(s) \in Nat /\ Len(q) \in Nat /\ Len(u) \in Nat
  OBVIOUS
<1>2. /\ Len(u) = Len(s) + g + Len(q)
      /\ \A i \in 1..Len(s) : i \in 1..Len(u)
      /\ \A i \in 1..Len(q) : Len(s) + g + i \in 1..Len(u)
      /\ g = 1 => Len(s) + 1 \in 1..Len(u)
  <2>1. Len(u) = Len(s) + g + Len(q)
    BY DEF Follows
  <2> QED BY <1>1, <2>1
<1>3. \A i \in 1..(Len(q) + 1) : Append(u, m)[Len(s) + g + i] = Append(q, m)[i]
  <2>1. Append(u, m)[Len(s) + g + (Len(q) + 1)] = m
    BY <1>1, <1>2
  <2>2. \A i \in 1..(Len(q) + 1) : i \in 1..Len(q) \/ i = Len(q) + 1
    BY <1>1
  <2> QED BY <1>1, <1>2, <2>1, <2>2 DEF Follows
<1>4. \A i \in 1..Len(s) : Append(u, m)[i] = s[i].msg
  BY <1>1, <1>2 DEF Follows
<1>5. Len(Append(u, m)) = Len(s) + g + Len(Append(q, m))
  BY <1>1, <1>2
<1> QED BY <1>1, <1>2, <1>3, <1>4, <1>5 DEF Follows

LEMMA FollowsSettle ==
  ASSUME NEW u \in Seq(Msgs), NEW s \in Seq(Sent), NEW q \in Seq(Msgs),
         NEW g \in Nat, s # <<>>, Follows(u, s, g, q)
  PROVE  /\ u # <<>> /\ Head(s).msg = Head(u)
         /\ Follows(Tail(u), Tail(s), g, q)
         /\ g = 1 => Tail(u)[Len(Tail(s)) + 1] = u[Len(s) + 1]
<1>1. /\ Head(s) = s[1] /\ Len(s) > 0 /\ Len(Tail(s)) = Len(s) - 1
      /\ \A i \in 1..Len(Tail(s)) : Tail(s)[i] = s[i + 1]
      /\ Len(s) \in Nat /\ Len(q) \in Nat /\ Len(u) \in Nat
  BY HeadTailElems
<1>2. /\ Len(u) = Len(s) + g + Len(q) /\ Len(u) > 0 /\ u # <<>>
      /\ \A i \in 1..Len(s) : u[i] = s[i].msg
      /\ \A i \in 1..Len(q) : u[Len(s) + g + i] = q[i]
  BY <1>1 DEF Follows
<1>3. /\ Head(u) = u[1] /\ Len(Tail(u)) = Len(u) - 1
      /\ \A i \in 1..Len(Tail(u)) : Tail(u)[i] = u[i + 1]
  BY <1>2, HeadTailElems
<1>4. \A i \in 1..Len(Tail(s)) : Tail(u)[i] = Tail(s)[i].msg
  <2>1. \A i \in 1..Len(Tail(s)) : i \in 1..Len(Tail(u)) /\ i + 1 \in 1..Len(s)
    BY <1>1, <1>2, <1>3
  <2> QED BY <1>1, <1>2, <1>3, <2>1
<1>5. \A i \in 1..Len(q) : Tail(u)[Len(Tail(s)) + g + i] = q[i]
  <2>1. \A i \in 1..Len(q) : /\ Len(Tail(s)) + g + i \in 1..Len(Tail(u))
                             /\ (Len(Tail(s)) + g + i) + 1 = Len(s) + g + i
    BY <1>1, <1>2, <1>3
  <2> QED BY <1>2, <1>3, <2>1
<1>6. ASSUME g = 1 PROVE Tail(u)[Len(Tail(s)) + 1] = u[Len(s) + 1]
  <2>1. /\ Len(Tail(s)) + 1 \in 1..Len(Tail(u))
        /\ (Len(Tail(s)) + 1) + 1 = Len(s) + 1
    BY <1>1, <1>2, <1>3, <1>6
  <2> QED BY <1>3, <2>1
<1>7. Len(Tail(u)) = Len(Tail(s)) + g + Len(q) /\ Head(s).msg = Head(u)
  BY <1>1, <1>2, <1>3
<1> QED BY <1>2, <1>4, <1>5, <1>6, <1>7 DEF Follows

(* What has a verdict on its way is not what is handled; what is handled   *)
(* or waits to be is delivered.                                            *)
LEMMA FollowsElems ==
  ASSUME NEW u \in Seq(Msgs), NEW s \in Seq(Sent), NEW q \in Seq(Msgs),
         NEW g \in Nat, Follows(u, s, g, q), Inj(u)
  PROVE  /\ Elems(q) \subseteq Elems(u)
         /\ g = 1 => u[Len(s) + 1] \in Elems(u)
         /\ g = 1 => \A i \in 1..Len(s) : s[i].msg # u[Len(s) + 1]
         /\ \A i \in 1..Len(s) : s[i].msg \in Elems(u)
<1>1. /\ Len(s) \in Nat /\ Len(q) \in Nat /\ Len(u) \in Nat
      /\ Len(u) = Len(s) + g + Len(q)
      /\ \A i \in 1..Len(s) : i \in 1..Len(u) /\ u[i] = s[i].msg /\ i # Len(s) + 1
      /\ \A i \in 1..Len(q) : u[Len(s) + g + i] = q[i]
  BY DEF Follows
<1>2. /\ \A i \in 1..Len(q) : Len(s) + g + i \in 1..Len(u)
      /\ g = 1 => Len(s) + 1 \in 1..Len(u)
  BY <1>1
<1>3. Elems(q) \subseteq Elems(u)
  <2> SUFFICES ASSUME NEW i \in 1..Len(q) PROVE q[i] \in Elems(u)
    BY DEF Elems
  <2>1. Len(s) + g + i \in 1..Len(u) /\ u[Len(s) + g + i] = q[i]
    BY <1>1, <1>2
  <2> QED BY <2>1 DEF Elems
<1>4. g = 1 => \A i \in 1..Len(s) : s[i].msg # u[Len(s) + 1]
  BY <1>1, <1>2 DEF Inj
<1>5. g = 1 => u[Len(s) + 1] \in Elems(u)
  BY <1>2 DEF Elems
<1>6. \A i \in 1..Len(s) : s[i].msg \in Elems(u)
  BY <1>1 DEF Elems
<1> QED BY <1>3, <1>4, <1>5, <1>6

-----------------------------------------------------------------------------
(* Every step keeps QueueInv.                                              *)

WorkerOK ==
  /\ worker \in {"idle", "running", "failed", "waiting", "denied", "over",
                 "mistaken"}
  /\ worker = "running" <=> run \notin {"off", "returned"}
  /\ recent \in 0..MaxRestarts

LEMMA SeqTypes ==
  ASSUME QueueInv
  PROVE  /\ msgs \in Seq(Msgs) /\ queue \in Seq(Msgs) /\ unacked \in Seq(Msgs)
         /\ sent \in Seq(Sent)
         /\ Len(msgs) \in Nat /\ Len(queue) \in Nat /\ Len(unacked) \in Nat
         /\ Len(sent) \in Nat /\ PrefetchCount \in Nat \ {0}
BY PrefetchAssumption DEF QueueInv, TypeOK, Sent

LEMMA SentMsgs ==
  ASSUME NEW s \in Seq(Sent)
  PROVE  \A i \in 1..Len(s) : s[i].msg \in Msgs
<1>1. \A i \in 1..Len(s) : s[i] \in Sent
  OBVIOUS
<1> QED BY <1>1 DEF Sent

LEMMA InvInit == SupervisedInit => QueueInv
<1> SUFFICES ASSUME SupervisedInit PROVE QueueInv
  OBVIOUS
<1> USE DEF SupervisedInit, Init
<1>1. TypeOK
  <2>1. /\ msgs \in Seq(Msgs) /\ queue \in Seq(Msgs) /\ unacked \in Seq(Msgs)
        /\ sent \in Seq([msg : Msgs, verdict : {"ack", "requeue", "discard"}])
    BY EmptyElems
  <2>2. recent \in 0..MaxRestarts
    BY RestartsAssumption
  <2>3. verdicts \in [Msgs -> Errors \cup {"none"}]
    OBVIOUS
  <2> QED BY <2>1, <2>2, <2>3 DEF TypeOK, Nothing
<1>2. Apart
  <2>1. 0 \in 0..MaxMsgs /\ 1..0 = {}
    BY MsgsAssumption
  <2> QED BY <2>1, EmptyElems DEF Apart, Gone
<1>3. Connected /\ InOrder
  BY DEF Connected, InOrder
<1>4. Bounded /\ LastWord
  BY PrefetchAssumption, EmptyElems DEF Bounded, LastWord
<1> QED BY <1>1, <1>2, <1>3, <1>4 DEF QueueInv

(* Run is called, comes to its loop, or fails before.                      *)
LEMMA InvRunUp ==
  ASSUME QueueInv, WorkerOK',
         RunCalled \/ Dial \/ DeclareTopology \/ Consume \/ RunFails
  PROVE  QueueInv'
<1> USE DEF RunCalled, Dial, DeclareTopology, Consume, RunFails, client,
            network, broker
<1>1. TypeOK'
  BY DEF QueueInv, TypeOK, WorkerOK
<1>2. Apart'
  BY DEF QueueInv, Apart, Gone
<1>3. Connected'
  BY DEF QueueInv, Connected
<1>4. InOrder'
  <2>1. Follows(<<>>, <<>>, 0, <<>>)
    BY EmptyElems DEF Follows
  <2>2. handling = Nothing /\ handling' = Nothing /\ Taken' = 0
    BY DEF QueueInv, TypeOK, Taken
  <2>3. msgs' = <<>> /\ unacked' = <<>> /\ sent' = <<>>
    BY DEF QueueInv, Connected
  <2> QED BY <2>1, <2>2, <2>3, EmptyElems DEF InOrder
<1>5. Bounded'
  BY DEF QueueInv, Bounded
<1>6. LastWord'
  BY DEF QueueInv, LastWord
<1> QED BY <1>1, <1>2, <1>3, <1>4, <1>5, <1>6 DEF QueueInv

LEMMA InvTake == ASSUME QueueInv, WorkerOK', Take PROVE QueueInv'
<1> USE DEF Take, client, network, broker
<1>1. /\ Head(msgs) \in Msgs /\ Tail(msgs) \in Seq(Msgs)
      /\ Len(Tail(msgs)) = Len(msgs) - 1
      /\ Elems(msgs) = {Head(msgs)} \cup Elems(Tail(msgs))
  BY SeqTypes, HeadTailElems
<1>2. TypeOK'
  BY <1>1 DEF QueueInv, TypeOK, WorkerOK, Msgs, Nothing
<1>3. Apart'
  BY DEF QueueInv, Apart, Gone
<1>4. Connected'
  BY DEF QueueInv, Connected
<1>5. InOrder'
  <2>1. ASSUME conn = "up"
        PROVE  Follows(unacked, sent, 1, Tail(msgs)) /\ unacked[Len(sent) + 1] = Head(msgs)
    BY <2>1, SeqTypes, FollowsTake DEF QueueInv, InOrder, Taken
  <2> QED BY <1>1, <2>1 DEF QueueInv, InOrder, Taken
<1>6. Bounded'
  BY <1>1, SeqTypes DEF QueueInv, Bounded
<1>7. LastWord'
  BY DEF QueueInv, LastWord
<1> QED BY <1>2, <1>3, <1>4, <1>5, <1>6, <1>7 DEF QueueInv

LEMMA InvLeaveLoop ==
  ASSUME QueueInv, WorkerOK', LoopSeesLoss \/ LoopSeesCancel
  PROVE  QueueInv'
<1> USE DEF LoopSeesLoss, LoopSeesCancel, client, network, broker
<1>1. TypeOK'
  BY EmptyElems DEF QueueInv, TypeOK, WorkerOK
<1>2. Apart'
  BY DEF QueueInv, Apart, Gone
<1>3. Connected'
  BY DEF QueueInv, Connected
<1>4. InOrder'
  BY DEF QueueInv, InOrder, Taken
<1>5. Bounded'
  BY EmptyElems, SeqTypes DEF QueueInv, Bounded
<1>6. LastWord'
  BY DEF QueueInv, LastWord
<1> QED BY <1>1, <1>2, <1>3, <1>4, <1>5, <1>6 DEF QueueInv

LEMMA InvHandlerReturns ==
  ASSUME QueueInv, WorkerOK', NEW err \in Errors, HandlerReturns(err)
  PROVE  QueueInv'
<1> USE DEF HandlerReturns, client, network, broker
<1> PICK a : a = [msg |-> handling, verdict |-> Verdict(err)]
  OBVIOUS
<1>1. /\ handling \in Msgs /\ Taken = 1 /\ Taken' = 0
      /\ a \in Sent /\ a.msg = handling /\ a.verdict = Verdict(err)
      /\ verdicts \in [Msgs -> Errors \cup {"none"}]
  BY DEF QueueInv, TypeOK, Nothing, Sent, Verdict, Errors, Taken
<1>2. /\ conn = "up" => sent' = Append(sent, a)
      /\ conn # "up" => sent' = sent /\ sent = <<>>
  BY DEF Settle, QueueInv, Connected
<1>3. TypeOK'
  <2>1. Append(sent, a) \in Seq(Sent)
    BY <1>1, SeqTypes, AppendElems
  <2>2. sent' \in Seq(Sent)
    BY <1>2, <2>1, SeqTypes
  <2> QED BY <1>1, <2>2 DEF QueueInv, TypeOK, WorkerOK, Nothing, Sent
<1>4. Apart'
  BY DEF QueueInv, Apart, Gone
<1>5. Connected'
  BY <1>2 DEF QueueInv, Connected
<1>6. InOrder'
  <2>1. ASSUME conn = "up" PROVE Follows(unacked, Append(sent, a), 0, msgs)
    BY <1>1, <2>1, SeqTypes, FollowsAnswer DEF QueueInv, InOrder
  <2> QED BY <1>1, <1>2, <2>1 DEF QueueInv, InOrder, Nothing
<1>7. Bounded'
  BY DEF QueueInv, Bounded
<1>8. LastWord'
  <2>1. CASE conn # "up"
    BY <1>2, <2>1, EmptyElems DEF LastWord
  <2>2. CASE conn = "up"
    <3>1. Follows(unacked, sent, 1, msgs) /\ unacked[Len(sent) + 1] = handling
      BY <1>1, <2>2 DEF QueueInv, InOrder
    <3>2. \A i \in 1..Len(sent) : sent[i].msg # handling
      BY <3>1, SeqTypes, FollowsElems DEF QueueInv, Apart
    <3>3. \A i \in 1..Len(sent) : sent[i].msg \in Msgs
      BY SeqTypes, SentMsgs
    <3>4. /\ Len(sent') = Len(sent) + 1 /\ sent'[Len(sent) + 1] = a
          /\ \A i \in 1..Len(sent) : sent'[i] = sent[i]
      <4>1. /\ Len(Append(sent, a)) = Len(sent) + 1
            /\ Append(sent, a)[Len(sent) + 1] = a
            /\ \A i \in 1..Len(sent) : Append(sent, a)[i] = sent[i]
        BY <1>1, SeqTypes, AppendElems
      <4> QED BY <1>2, <2>2, <4>1
    <3>5. \A i \in 1..(Len(sent) + 1) : i \in 1..Len(sent) \/ i = Len(sent) + 1
      BY SeqTypes
    <3>6. /\ verdicts'[handling] = err
          /\ \A m \in Msgs : m # handling => verdicts'[m] = verdicts[m]
      BY <1>1
    <3> QED BY <3>2, <3>3, <3>4, <3>5, <3>6 DEF QueueInv, LastWord
  <2> QED BY <2>1, <2>2
<1> QED BY <1>3, <1>4, <1>5, <1>6, <1>7, <1>8 DEF QueueInv

LEMMA InvHandlerPanics == ASSUME QueueInv, WorkerOK', HandlerPanics PROVE QueueInv'
<1> USE DEF HandlerPanics, client, network, broker
<1>1. TypeOK'
  BY DEF QueueInv, TypeOK, WorkerOK, Nothing
<1>2. Apart'
  BY DEF QueueInv, Apart, Gone
<1>3. Connected'
  BY DEF QueueInv, Connected
<1>4. InOrder'
  BY DEF QueueInv, InOrder, Taken
<1>5. Bounded'
  BY DEF QueueInv, Bounded
<1>6. LastWord'
  BY DEF QueueInv, LastWord
<1> QED BY <1>1, <1>2, <1>3, <1>4, <1>5, <1>6 DEF QueueInv

(* All that is unacknowledged goes back to the queue.                      *)
LEMMA InvTakenBack ==
  ASSUME QueueInv, WorkerOK', CloseReturns \/ ConnectionLost
  PROVE  /\ QueueInv'
         /\ Elems(queue') = Elems(unacked) \cup Elems(queue) /\ unacked' = <<>>
<1> USE DEF CloseReturns, ConnectionLost, client, network, broker
<1>1. /\ queue' = unacked \o queue /\ unacked' = <<>> /\ sent' = <<>>
      /\ UNCHANGED <<acked, dead, dropped, published, verdicts, declared>>
      /\ conn' # "up"
  BY DEF QueueInv, Connected
<1>2. /\ queue' \in Seq(Msgs) /\ Elems(queue') = Elems(unacked) \cup Elems(queue)
      /\ Inj(queue')
  BY <1>1, SeqTypes, JoinElems DEF QueueInv, Apart
<1>3. TypeOK'
  BY <1>1, <1>2, EmptyElems DEF QueueInv, TypeOK, WorkerOK
<1>4. Apart'
  BY <1>1, <1>2, EmptyElems DEF QueueInv, Apart, Gone
<1>5. Connected'
  BY <1>1 DEF QueueInv, Connected
<1>6. InOrder'
  <2>1. CASE ConnectionLost
    <3>1. Follows(unacked, sent, Taken, msgs) /\ Inj(unacked) /\ Taken \in Nat
      BY <2>1 DEF QueueInv, InOrder, Apart, Taken
    <3>2. Elems(msgs) \subseteq Elems(unacked)
      BY <3>1, SeqTypes, FollowsElems
    <3>3. CASE handling = Nothing
      BY <1>1, <1>2, <2>1, <3>2, <3>3 DEF InOrder
    <3>4. CASE handling # Nothing
      <4>1. Taken = 1 /\ unacked[Len(sent) + 1] = handling
        BY <2>1, <3>4 DEF QueueInv, TypeOK, InOrder, Taken
      <4>2. handling \in Elems(unacked)
        BY <3>1, <4>1, SeqTypes, FollowsElems
      <4> QED BY <1>1, <1>2, <2>1, <3>2, <4>2 DEF InOrder
    <3> QED BY <3>3, <3>4
  <2>2. CASE CloseReturns
    BY <1>1, <2>2 DEF InOrder
  <2> QED BY <2>1, <2>2
<1>7. Bounded'
  BY <1>1, SeqTypes, EmptyElems DEF QueueInv, Bounded
<1>8. LastWord'
  BY <1>1, EmptyElems DEF LastWord
<1> QED BY <1>1, <1>2, <1>3, <1>4, <1>5, <1>6, <1>7, <1>8 DEF QueueInv

LEMMA InvPublish ==
  ASSUME QueueInv, WorkerOK', NEW m \in Msgs, Publish(m)
  PROVE  /\ QueueInv' /\ m \notin published
         /\ IF declared THEN Elems(queue') = Elems(queue) \cup {m}
                        ELSE Elems(queue') = Elems(queue)
<1> USE DEF Publish, client, network, broker
<1>1. PICK k \in 0..MaxMsgs : published = 1..k
  BY DEF QueueInv, Apart
<1>2. m = k + 1 /\ m \notin published /\ published' = 1..m /\ m \in 0..MaxMsgs
  <2>1. Cardinality(1..k) = k
    BY <1>1, FS_Interval, MsgsAssumption
  <2> QED BY <1>1, <2>1, MsgsAssumption DEF Msgs
<1>3. m \notin Elems(queue) /\ m \notin Elems(unacked) /\ m \notin Gone
  BY <1>2 DEF QueueInv, Apart
<1>4. /\ queue' \in Seq(Msgs) /\ Inj(queue')
      /\ IF declared THEN Elems(queue') = Elems(queue) \cup {m}
                     ELSE Elems(queue') = Elems(queue)
  <2>1. /\ Append(queue, m) \in Seq(Msgs) /\ Inj(Append(queue, m))
        /\ Elems(Append(queue, m)) = Elems(queue) \cup {m}
    <3>1. queue \in Seq(Msgs) /\ Inj(queue)
      BY SeqTypes DEF QueueInv, Apart
    <3> QED BY <1>3, <3>1, AppendElems
  <2> QED BY <2>1, SeqTypes DEF QueueInv, Apart
<1>5. TypeOK'
  BY <1>4 DEF QueueInv, TypeOK, WorkerOK
<1>6. Apart'
  <2>1. \E l \in 0..MaxMsgs : published' = 1..l
    BY <1>2
  <2>2. published' = published \cup {m}
    OBVIOUS
  <2>3. published' = Elems(queue') \cup Elems(unacked') \cup Gone'
    BY <1>4, <2>2 DEF QueueInv, Apart, Gone
  <2>4. /\ acked' = acked /\ dead' = dead /\ unacked' = unacked
        /\ \/ dropped' = dropped /\ Elems(queue') = Elems(queue) \cup {m}
           \/ dropped' = dropped \cup {m} /\ Elems(queue') = Elems(queue)
    BY <1>4
  <2> HIDE DEF Publish
  <2>5. /\ (Elems(queue') \cup Elems(unacked')) \cap Gone' = {}
        /\ Elems(queue') \cap Elems(unacked') = {}
    BY <1>3, <2>4 DEF QueueInv, Apart, Gone
  <2>6. acked' \cap dead' = {} /\ acked' \cap dropped' = {} /\ dead' \cap dropped' = {}
    BY <1>3, <2>4 DEF QueueInv, Apart, Gone
  <2> QED BY <1>4, <2>1, <2>3, <2>4, <2>5, <2>6 DEF QueueInv, Apart
<1>7. Connected'
  BY DEF QueueInv, Connected
<1>8. InOrder'
  BY <1>4 DEF QueueInv, InOrder, Taken
<1>9. Bounded'
  BY DEF QueueInv, Bounded
<1>10. LastWord'
  BY DEF QueueInv, LastWord
<1> QED BY <1>2, <1>4, <1>5, <1>6, <1>7, <1>8, <1>9, <1>10 DEF QueueInv

LEMMA InvDeliver ==
  ASSUME QueueInv, WorkerOK', Deliver
  PROVE  /\ QueueInv'
         /\ Head(queue) \in Msgs
         /\ Elems(queue) = {Head(queue)} \cup Elems(queue')
         /\ Elems(unacked') = Elems(unacked) \cup {Head(queue)}
<1> USE DEF Deliver, client, network, broker
<1>1. PICK m : m = Head(queue)
  OBVIOUS
<1>2. /\ m \in Msgs /\ queue' \in Seq(Msgs) /\ Inj(queue') /\ m \notin Elems(queue')
      /\ Elems(queue) = {m} \cup Elems(queue')
  BY <1>1, SeqTypes, HeadTailElems DEF QueueInv, Apart
<1>3. m \notin Elems(unacked)
  BY <1>2 DEF QueueInv, Apart
<1>4. /\ msgs' = Append(msgs, m) /\ msgs' \in Seq(Msgs) /\ Len(msgs') = Len(msgs) + 1
      /\ unacked' = Append(unacked, m) /\ unacked' \in Seq(Msgs)
      /\ Len(unacked') = Len(unacked) + 1 /\ Inj(unacked')
      /\ Elems(unacked') = Elems(unacked) \cup {m}
  BY <1>1, <1>2, <1>3, SeqTypes, AppendElems DEF QueueInv, Apart, AutoAck
<1>5. TypeOK'
  BY <1>2, <1>4 DEF QueueInv, TypeOK, WorkerOK
<1>6. Apart'
  <2>1. Elems(queue) \cap Elems(unacked) = {} /\ Gone' = Gone /\ published' = published
    BY DEF QueueInv, Apart, Gone
  <2>2. /\ Elems(queue') \cap Elems(unacked') = {}
        /\ Elems(queue') \cup Elems(unacked') = Elems(queue) \cup Elems(unacked)
    BY <1>2, <1>4, <2>1
  <2> QED BY <1>2, <1>4, <2>1, <2>2 DEF QueueInv, Apart
<1>7. Connected'
  BY DEF QueueInv, Connected
<1>8. InOrder'
  <2>1. Taken \in Nat /\ Taken' = Taken /\ (run = "handle" => Taken = 1)
    BY DEF Taken
  <2>2. /\ Follows(Append(unacked, m), sent, Taken, Append(msgs, m))
        /\ Taken = 1 => Append(unacked, m)[Len(sent) + 1] = unacked[Len(sent) + 1]
    <3>1. /\ Follows(unacked, sent, Taken, msgs)
          /\ unacked \in Seq(Msgs) /\ sent \in Seq(Sent) /\ msgs \in Seq(Msgs)
      BY SeqTypes DEF QueueInv, InOrder
    <3>2. m \in Msgs /\ Taken \in Nat
      BY <1>2, <2>1
    <3> HIDE DEF Deliver, client, network, broker
    <3> QED BY <3>1, <3>2, FollowsDeliver
  <2> QED BY <1>4, <2>1, <2>2 DEF QueueInv, InOrder
<1>9. Bounded'
  <2>1. Len(unacked) = Len(sent) + Taken + Len(msgs)
    BY DEF QueueInv, InOrder, Follows
  <2>2. CASE run = "loop"
    BY <1>4, <2>1, <2>2, SeqTypes DEF QueueInv, Bounded, Ahead, Taken
  <2>3. CASE run = "handle"
    BY <1>4, <2>1, <2>3, SeqTypes DEF QueueInv, Bounded, Ahead, Taken
  <2> QED BY <2>2, <2>3
<1>10. LastWord'
  BY DEF QueueInv, LastWord
<1> QED BY <1>1, <1>2, <1>4, <1>5, <1>6, <1>7, <1>8, <1>9, <1>10 DEF QueueInv

LEMMA InvBrokerSettles ==
  ASSUME QueueInv, WorkerOK', BrokerSettles,
         NEW m, m = Head(sent).msg, NEW verdict, verdict = Head(sent).verdict
  PROVE  /\ QueueInv'
         /\ m \in Msgs /\ verdict \in {"ack", "requeue", "discard"}
         /\ verdicts[m] \in Errors /\ verdict = Verdict(verdicts[m])
         /\ m \notin Elems(unacked') /\ Elems(unacked) = Elems(unacked') \cup {m}
         /\ Elems(queue') = IF verdict = "requeue" THEN {m} \cup Elems(queue)
                                                   ELSE Elems(queue)
<1> USE DEF BrokerSettles, client, network, broker
<1>1. /\ Head(sent) \in Sent /\ Head(sent) = sent[1] /\ 1 \in 1..Len(sent)
      /\ sent' \in Seq(Sent) /\ Len(sent') = Len(sent) - 1
      /\ \A i \in 1..Len(sent') : sent'[i] = sent[i + 1] /\ i + 1 \in 1..Len(sent)
  <2>1. sent \in Seq(Sent) /\ sent # <<>> /\ sent' = Tail(sent) /\ Len(sent) \in Nat
    BY SeqTypes
  <2>2. /\ Head(sent) \in Sent /\ Head(sent) = sent[1] /\ Len(sent) > 0
        /\ sent' \in Seq(Sent) /\ Len(sent') = Len(sent) - 1
        /\ \A i \in 1..Len(sent') : sent'[i] = sent[i + 1]
    BY <2>1, HeadTailElems
  <2> QED BY <2>1, <2>2
<1>2. /\ m \in Msgs /\ verdict \in {"ack", "requeue", "discard"}
      /\ verdicts[m] \in Errors /\ verdict = Verdict(verdicts[m])
  BY <1>1 DEF Sent, QueueInv, LastWord
<1>3. Taken \in Nat /\ Taken' = Taken /\ (run = "handle" => Taken = 1)
  BY DEF Taken
<1>4. /\ unacked # <<>> /\ m = Head(unacked)
      /\ Follows(Tail(unacked), Tail(sent), Taken, msgs)
      /\ Taken = 1 => Tail(unacked)[Len(Tail(sent)) + 1] = unacked[Len(sent) + 1]
  <2>1. /\ Follows(unacked, sent, Taken, msgs) /\ sent # <<>>
        /\ unacked \in Seq(Msgs) /\ sent \in Seq(Sent) /\ msgs \in Seq(Msgs)
    BY SeqTypes DEF QueueInv, InOrder
  <2> QED BY <1>3, <2>1, FollowsSettle
<1>5. Only(unacked, m) = <<m>> /\ unacked' = Tail(unacked)
  BY <1>4, SeqTypes, FirstOf DEF QueueInv, Apart
<1>6. /\ unacked' \in Seq(Msgs) /\ Inj(unacked') /\ Len(unacked') = Len(unacked) - 1
      /\ m \notin Elems(unacked') /\ Elems(unacked) = Elems(unacked') \cup {m}
  <2>1. Inj(unacked)
    BY DEF QueueInv, Apart
  <2>2. /\ Tail(unacked) \in Seq(Msgs) /\ Inj(Tail(unacked))
        /\ Len(Tail(unacked)) = Len(unacked) - 1
        /\ Head(unacked) \notin Elems(Tail(unacked))
        /\ Elems(unacked) = {Head(unacked)} \cup Elems(Tail(unacked))
    BY <1>4, <2>1, SeqTypes, HeadTailElems
  <2> QED BY <1>4, <1>5, <2>2
<1>7. m \notin Elems(queue) /\ m \notin Gone
  BY <1>6 DEF QueueInv, Apart
<1>8. /\ queue' \in Seq(Msgs) /\ Inj(queue')
      /\ Elems(queue') = IF verdict = "requeue" THEN {m} \cup Elems(queue)
                                                ELSE Elems(queue)
  <2>1. CASE verdict = "requeue"
    <3>1. queue' = <<m>> \o queue
      BY <1>5, <2>1
    <3>2. <<m>> \in Seq(Msgs) /\ Elems(<<m>>) = {m} /\ Inj(<<m>>)
      BY <1>2, OneElem
    <3>3. queue \in Seq(Msgs) /\ Inj(queue) /\ Elems(<<m>>) \cap Elems(queue) = {}
      BY <1>7, <3>2, SeqTypes DEF QueueInv, Apart
    <3>4. /\ <<m>> \o queue \in Seq(Msgs) /\ Inj(<<m>> \o queue)
          /\ Elems(<<m>> \o queue) = Elems(<<m>>) \cup Elems(queue)
      <4>1. PICK r : r = <<m>>
        OBVIOUS
      <4>2. r \in Seq(Msgs) /\ Inj(r) /\ Elems(r) \cap Elems(queue) = {}
        BY <3>2, <3>3, <4>1
      <4>3. /\ r \o queue \in Seq(Msgs) /\ Inj(r \o queue)
            /\ Elems(r \o queue) = Elems(r) \cup Elems(queue)
        BY <3>3, <4>2, JoinElems
      <4> QED BY <4>1, <4>3
    <3> QED BY <2>1, <3>1, <3>2, <3>4
  <2>2. CASE verdict # "requeue"
    BY <2>2, SeqTypes DEF QueueInv, Apart
  <2> QED BY <2>1, <2>2
<1>9. TypeOK'
  BY <1>1, <1>2, <1>6, <1>8 DEF QueueInv, TypeOK, WorkerOK, Sent
<1>10. Apart'
  <2>1. CASE verdict = "requeue"
    <3>1. Elems(queue') = {m} \cup Elems(queue) /\ Gone' = Gone
      BY <1>8, <2>1 DEF Gone
    <3>2. published' = Elems(queue') \cup Elems(unacked') \cup Gone'
      BY <1>6, <3>1 DEF QueueInv, Apart
    <3>3. /\ UNCHANGED <<acked, dead, dropped, published>>
          /\ Elems(queue') \cap Elems(unacked') = {}
          /\ (Elems(queue') \cup Elems(unacked')) \cap Gone' = {}
      BY <1>6, <1>7, <2>1, <3>1 DEF QueueInv, Apart
    <3> QED BY <1>6, <1>8, <3>2, <3>3 DEF QueueInv, Apart
  <2>2. ASSUME verdict # "requeue", Gone' = Gone \cup {m},
               acked' \cap dead' = {} /\ acked' \cap dropped' = {} /\ dead' \cap dropped' = {}
        PROVE  Apart'
    <3>1. /\ Elems(queue') = Elems(queue) /\ published' = published
          /\ Elems(unacked) = Elems(unacked') \cup {m} /\ m \notin Elems(unacked')
          /\ m \notin Elems(queue)
      BY <1>6, <1>7, <1>8, <2>2
    <3>2. /\ Elems(queue') \cap Elems(unacked') = {}
          /\ (Elems(queue') \cup Elems(unacked')) \cap Gone' = {}
          /\ published' = Elems(queue') \cup Elems(unacked') \cup Gone'
      BY <2>2, <3>1 DEF QueueInv, Apart
    <3> QED BY <1>6, <1>8, <2>2, <3>1, <3>2 DEF QueueInv, Apart
  <2>3. CASE verdict = "ack"
    <3>1. acked' = acked \cup {m} /\ UNCHANGED <<dead, dropped>>
      BY <1>1, <2>3
    <3> QED BY <1>7, <2>2, <2>3, <3>1 DEF QueueInv, Apart, Gone
  <2>4. CASE verdict = "discard" /\ HasDLX
    <3>1. dead' = dead \cup {m} /\ UNCHANGED <<acked, dropped>>
      BY <1>1, <2>4
    <3> QED BY <1>7, <2>2, <2>4, <3>1 DEF QueueInv, Apart, Gone
  <2>5. CASE verdict = "discard" /\ ~HasDLX
    <3>1. dropped' = dropped \cup {m} /\ UNCHANGED <<acked, dead>>
      BY <1>1, <2>5
    <3> QED BY <1>7, <2>2, <2>5, <3>1 DEF QueueInv, Apart, Gone
  <2> QED BY <1>2, <2>1, <2>3, <2>4, <2>5
<1>11. Connected'
  BY DEF QueueInv, Connected
<1>12. InOrder'
  BY <1>3, <1>4, <1>5 DEF QueueInv, InOrder
<1>13. Bounded'
  BY <1>6, SeqTypes DEF QueueInv, Bounded
<1>14. LastWord'
  BY <1>1 DEF QueueInv, LastWord
<1> QED BY <1>2, <1>6, <1>8, <1>9, <1>10, <1>11, <1>12, <1>13, <1>14 DEF QueueInv

(* The worker, the restart budget or the context changes, nothing else.    *)
LEMMA InvSame ==
  ASSUME QueueInv, WorkerOK',
         UNCHANGED <<client, network, broker, verdicts>>, ctxDone' \in BOOLEAN
  PROVE  QueueInv'
<1> USE DEF client, network, broker
<1>1. TypeOK'
  BY DEF QueueInv, TypeOK, WorkerOK
<1>2. Apart' /\ Connected' /\ InOrder' /\ Bounded' /\ LastWord'
  BY DEF QueueInv, Apart, Gone, Connected, InOrder, Bounded, LastWord, Taken
<1> QED BY <1>1, <1>2 DEF QueueInv

(* runWorker and the restart handler keep the worker running exactly while *)
(* Run is under way.                                                       *)
LEMMA WorkerStep == QueueInv /\ [SupervisedNext]_allVars => WorkerOK'
<1> SUFFICES ASSUME QueueInv, [SupervisedNext]_allVars PROVE WorkerOK'
  OBVIOUS
<1> USE DEF vars, allVars, supervised, client, network, broker
<1>1. WorkerOK
  BY DEF QueueInv, TypeOK, WorkerOK
<1>2. CASE CallRun
  BY <1>1, <1>2 DEF CallRun, RunCalled, WorkerOK
<1>3. CASE Works
  BY <1>1, <1>3 DEF Works, AfterRun, WorkerOK
<1>4. CASE Grant
  BY <1>1, <1>4, RestartsAssumption DEF Grant, WorkerOK
<1>5. CASE Deny \/ HandlerReturnsOnCancel
  BY <1>1, <1>5 DEF Deny, HandlerReturnsOnCancel, WorkerOK
<1>6. CASE WindowSlides
  BY <1>1, <1>6, RestartsAssumption DEF WindowSlides, WorkerOK
<1>7. CASE BrokerStep /\ UNCHANGED supervised
  BY <1>1, <1>7 DEF BrokerStep, Publish, Deliver, BrokerSettles, ConnectionLost, WorkerOK
<1>8. CASE (Cancel /\ UNCHANGED supervised) \/ UNCHANGED allVars
  BY <1>1, <1>8 DEF Cancel, WorkerOK
<1> QED BY <1>2, <1>3, <1>4, <1>5, <1>6, <1>7, <1>8
        DEF SupervisedNext, SupervisorStep

LEMMA InvStep == QueueInv /\ [SupervisedNext]_allVars => QueueInv'
<1> SUFFICES ASSUME QueueInv, [SupervisedNext]_allVars PROVE QueueInv'
  OBVIOUS
<1>1. WorkerOK'
  BY WorkerStep
<1>2. CASE CallRun
  BY <1>1, <1>2, InvRunUp DEF CallRun
<1>3. CASE Works
  BY <1>1, <1>3, InvRunUp, InvTake, InvLeaveLoop, InvHandlerReturns, InvHandlerPanics,
     InvTakenBack DEF Works, RunStep
<1>4. CASE BrokerStep
  <2>1. ASSUME BrokerSettles PROVE QueueInv'
    BY <1>1, <2>1, InvBrokerSettles
  <2> QED BY <1>1, <1>4, <2>1, InvPublish, InvDeliver, InvTakenBack DEF BrokerStep
<1>5. CASE \/ Grant \/ Deny \/ HandlerReturnsOnCancel \/ WindowSlides \/ Cancel
           \/ UNCHANGED allVars
  <2>1. UNCHANGED <<client, network, broker, verdicts>> /\ ctxDone' \in BOOLEAN
    BY <1>5 DEF Grant, Deny, HandlerReturnsOnCancel, WindowSlides, Cancel, vars, allVars,
                supervised, QueueInv, TypeOK
  <2> QED BY <1>1, <2>1, InvSame
<1> QED BY <1>2, <1>3, <1>4, <1>5 DEF SupervisedNext, SupervisorStep

LEMMA QueueInvariant == SupervisedSpec => []QueueInv
BY InvInit, InvStep, PTL DEF SupervisedSpec

(* Every state has the shape of TypeOK: Run is under way exactly while the *)
(* worker runs, a delivery is in hand exactly while it is handled, and no  *)
(* more restarts lie in the window than MaxRestarts (Run, runWorker).      *)
THEOREM TypeCorrect == SupervisedSpec => []TypeOK
<1>1. QueueInv => TypeOK
  BY DEF QueueInv
<1> QED BY <1>1, QueueInvariant, PTL

(* No message is lost or doubled by a crash, a panic, a lost connection, a *)
(* restart or a requeue (Run, handleDelivery).                             *)
THEOREM ConservedHolds == SupervisedSpec => []Conserved
<1>1. QueueInv => Conserved
  <2> SUFFICES ASSUME QueueInv PROVE Conserved
    OBVIOUS
  <2>1. /\ Held \in Seq(Msgs) /\ Elems(Held) = Elems(queue) \cup Elems(unacked)
        /\ Inj(Held)
    BY SeqTypes, JoinElems DEF QueueInv, Apart, Held
  <2>2. Len(Held) = Cardinality(Elems(Held))
    BY <2>1, SizeOf
  <2> QED BY <2>1, <2>2 DEF QueueInv, Apart, Gone, Conserved
<1> QED BY <1>1, QueueInvariant, PTL

(* Run never has more in hand than Qos has asked for, and on a live        *)
(* connection only what the broker counts as delivered to it (Run).        *)
THEOREM WithinPrefetchHolds == SupervisedSpec => []WithinPrefetch
<1>1. QueueInv => WithinPrefetch
  <2> SUFFICES ASSUME QueueInv PROVE WithinPrefetch
    OBVIOUS
  <2>1. InHand <= PrefetchCount
    <3>1. CASE handling = Nothing
      BY <3>1, SeqTypes DEF QueueInv, Bounded, InHand
    <3>2. CASE handling # Nothing
      BY <3>2, SeqTypes DEF QueueInv, TypeOK, Bounded, InHand
    <3> QED BY <3>1, <3>2
  <2>2. ASSUME conn = "up"
        PROVE  Elems(msgs) \cup ({handling} \ {Nothing}) \subseteq Elems(unacked)
    <3>1. Follows(unacked, sent, Taken, msgs) /\ Inj(unacked) /\ Taken \in Nat
      BY <2>2 DEF QueueInv, InOrder, Apart, Taken
    <3>2. /\ Elems(msgs) \subseteq Elems(unacked)
          /\ Taken = 1 => unacked[Len(sent) + 1] \in Elems(unacked)
      BY <3>1, SeqTypes, FollowsElems
    <3>3. handling # Nothing => Taken = 1 /\ unacked[Len(sent) + 1] = handling
      BY <2>2 DEF QueueInv, TypeOK, InOrder, Taken
    <3> QED BY <3>2, <3>3
  <2> QED BY <2>1, <2>2 DEF WithinPrefetch
<1> QED BY <1>1, QueueInvariant, PTL

-----------------------------------------------------------------------------
(* SupervisedConsumer implements WorkQueue.                                *)

LEMMA PlaceOf ==
  ASSUME QueueInv, NEW m \in Msgs
  PROVE  /\ Place(m) = "acked" <=> m \in acked
         /\ Place(m) = "dead" <=> m \in dead
         /\ Place(m) = "dropped" <=> m \in dropped
         /\ Place(m) = "handed" <=> m \in Elems(unacked)
         /\ Place(m) = "ready" <=> m \in Elems(queue)
         /\ Place(m) = "none" <=> m \notin published
         /\ Place(m) \in {"none", "ready", "handed", "acked", "dead", "dropped"}
BY DEF QueueInv, Apart, Gone, Place

LEMMA MoveOf ==
  ASSUME NEW m \in Msgs, NEW to, Place(m)' = to,
         \A p \in Msgs \ {m} : Place(p)' = Place(p), verdicts' = verdicts
  PROVE  Abstract!Move(m, to)
BY DEF Abstract!Move

(* Nothing has changed its place.                                          *)
LEMMA Stays ==
  ASSUME UNCHANGED <<queue, unacked, acked, dead, dropped>>
  PROVE  [m \in Msgs |-> Place(m)]' = [m \in Msgs |-> Place(m)]
BY DEF Place

LEMMA PublishArrives ==
  ASSUME QueueInv, WorkerOK', NEW m \in Msgs, Publish(m)
  PROVE  Abstract!Arrive(m)
<1>1. /\ QueueInv' /\ m \notin published
      /\ IF declared THEN Elems(queue') = Elems(queue) \cup {m}
                     ELSE Elems(queue') = Elems(queue)
  BY InvPublish
<1>2. /\ UNCHANGED <<unacked, acked, dead, verdicts>>
      /\ dropped' = IF declared THEN dropped ELSE dropped \cup {m}
  BY DEF Publish, broker
<1>3. Place(m) = "none"
  BY <1>1, PlaceOf
<1>4. Place(m)' = IF declared THEN "ready" ELSE "dropped"
  BY <1>1, <1>2, <1>3 DEF Place
<1>5. \A p \in Msgs \ {m} : Place(p)' = Place(p)
  BY <1>1, <1>2 DEF Place
<1>6. Abstract!Move(m, IF declared THEN "ready" ELSE "dropped")
  BY <1>2, <1>4, <1>5, MoveOf
<1> QED BY <1>3, <1>6 DEF Abstract!Arrive

LEMMA DeliverHands ==
  ASSUME QueueInv, WorkerOK', Deliver
  PROVE  \E m \in Msgs : Abstract!Hand(m)
<1>1. PICK m : m = Head(queue)
  OBVIOUS
<1>2. /\ QueueInv' /\ m \in Msgs /\ Elems(queue) = {m} \cup Elems(queue')
      /\ Elems(unacked') = Elems(unacked) \cup {m}
  BY <1>1, InvDeliver
<1>3. UNCHANGED <<acked, dead, dropped, verdicts>> /\ Len(unacked) < PrefetchCount
  BY DEF Deliver, Ahead
<1>4. Place(m) = "ready" /\ m \notin Gone /\ m \notin Elems(queue')
  <2>1. m \notin Elems(queue')
    BY <1>2 DEF QueueInv, Apart
  <2> QED BY <1>2, <2>1, PlaceOf DEF QueueInv, Apart
<1>5. Abstract!Handed = Elems(unacked)
  <2>1. \A p \in Msgs : Place(p) = "handed" <=> p \in Elems(unacked)
    BY PlaceOf
  <2>2. Elems(unacked) \subseteq Msgs
    BY SeqTypes, ElemsOf
  <2> QED BY <2>1, <2>2 DEF Abstract!Handed
<1>6. Cardinality(Elems(unacked)) = Len(unacked)
  BY SeqTypes, SizeOf DEF QueueInv, Apart
<1>7. Place(m)' = "handed"
  BY <1>2, <1>3, <1>4 DEF Place, Gone
<1>8. \A p \in Msgs \ {m} : Place(p)' = Place(p)
  BY <1>2, <1>3 DEF Place
<1>9. Abstract!Move(m, "handed")
  BY <1>2, <1>3, <1>7, <1>8, MoveOf
<1>10. Abstract!Hand(m)
  <2>1. Abstract!Cardinality(Abstract!Handed) < PrefetchCount
    <3>1. Abstract!Cardinality(Abstract!Handed) = Cardinality(Abstract!Handed)
      BY DEF Abstract!Cardinality, Cardinality, Abstract!IsFiniteSet, IsFiniteSet
    <3> QED BY <1>3, <1>5, <1>6, <3>1
  <2>2. [p \in Msgs |-> Place(p)][m] = "ready"
    BY <1>2, <1>4
  <2> QED BY <1>9, <2>1, <2>2 DEF Abstract!Hand
<1> QED BY <1>2, <1>10

LEMMA ReturnAnswers ==
  ASSUME QueueInv, NEW err \in Errors, HandlerReturns(err)
  PROVE  \E m \in Msgs : Abstract!Answer(m, err)
<1>1. handling \in Msgs /\ conn # "none"
  BY DEF HandlerReturns, QueueInv, TypeOK, Connected, Nothing
<1>2. Place(handling) \in {"ready", "handed"}
  <2>1. CASE conn = "up"
    <3>1. /\ Follows(unacked, sent, 1, msgs) /\ unacked[Len(sent) + 1] = handling
          /\ Inj(unacked)
      BY <2>1 DEF HandlerReturns, QueueInv, InOrder, Apart, Taken
    <3>2. handling \in Elems(unacked)
      BY <3>1, SeqTypes, FollowsElems
    <3> QED BY <1>1, <3>2, PlaceOf
  <2>2. CASE conn = "lost"
    <3>1. handling \in Elems(queue)
      BY <1>1, <2>2 DEF QueueInv, InOrder, Nothing, Msgs
    <3> QED BY <1>1, <3>1, PlaceOf
  <2> QED BY <1>1, <2>1, <2>2 DEF QueueInv, TypeOK
<1>3. verdicts' = [verdicts EXCEPT ![handling] = err]
  BY DEF HandlerReturns
<1>4. [m \in Msgs |-> Place(m)]' = [m \in Msgs |-> Place(m)]
  BY Stays DEF HandlerReturns, broker
<1> QED BY <1>1, <1>2, <1>3, <1>4 DEF Abstract!Answer

LEMMA BrokerSettlesOne ==
  ASSUME QueueInv, WorkerOK', BrokerSettles
  PROVE  \E m \in Msgs : Abstract!Settle(m)
<1>1. PICK m, verdict : m = Head(sent).msg /\ verdict = Head(sent).verdict
  OBVIOUS
<1>2. /\ QueueInv' /\ m \in Msgs /\ verdict \in {"ack", "requeue", "discard"}
      /\ verdicts[m] \in Errors /\ verdict = Verdict(verdicts[m])
      /\ m \notin Elems(unacked') /\ Elems(unacked) = Elems(unacked') \cup {m}
      /\ Elems(queue') = IF verdict = "requeue" THEN {m} \cup Elems(queue)
                                                ELSE Elems(queue)
  BY <1>1, InvBrokerSettles
<1>3. /\ acked' = IF verdict = "ack" THEN acked \cup {m} ELSE acked
      /\ dead' = IF verdict = "discard" /\ HasDLX THEN dead \cup {m} ELSE dead
      /\ dropped' = IF verdict = "discard" /\ ~HasDLX THEN dropped \cup {m} ELSE dropped
      /\ verdicts' = verdicts
  BY <1>1 DEF BrokerSettles
<1>4. Place(m) = "handed" /\ m \notin Gone /\ m \notin Elems(queue)
  BY <1>2, PlaceOf DEF QueueInv, Apart
<1>5. \A p \in Msgs \ {m} : Place(p)' = Place(p)
  BY <1>2, <1>3 DEF Place
<1>6. CASE verdict = "ack"
  <2>1. verdicts[m] = "nil"
    BY <1>2, <1>6 DEF Verdict, Errors
  <2>2. Place(m)' = "acked"
    BY <1>2, <1>3, <1>4, <1>6 DEF Place, Gone
  <2>3. Abstract!Move(m, "acked")
    BY <1>2, <1>3, <1>5, <2>2, MoveOf
  <2> QED BY <1>2, <1>4, <2>1, <2>3 DEF Abstract!Settle
<1>7. CASE verdict = "discard"
  <2>1. verdicts[m] = "error"
    BY <1>2, <1>7 DEF Verdict, Errors
  <2>2. Place(m)' = IF HasDLX THEN "dead" ELSE "dropped"
    BY <1>2, <1>3, <1>4, <1>7 DEF Place, Gone
  <2>3. Abstract!Move(m, IF HasDLX THEN "dead" ELSE "dropped")
    BY <1>2, <1>3, <1>5, <2>2, MoveOf
  <2> QED BY <1>2, <1>4, <2>1, <2>3 DEF Abstract!Settle
<1>8. CASE verdict = "requeue"
  <2>1. verdicts[m] = "ErrRequeue" /\ Place(m)' = "ready"
    BY <1>2, <1>3, <1>4, <1>8 DEF Verdict, Errors, Place, Gone
  <2>2. Abstract!Move(m, "ready")
    BY <1>2, <1>3, <1>5, <2>1, MoveOf
  <2> QED BY <1>2, <1>4, <2>1, <2>2 DEF Abstract!Settle
<1> QED BY <1>2, <1>6, <1>7, <1>8

LEMMA EndTakesBack ==
  ASSUME QueueInv, WorkerOK', CloseReturns \/ ConnectionLost
  PROVE  Abstract!TakeBack
<1>1. /\ QueueInv' /\ unacked' = <<>>
      /\ Elems(queue') = Elems(unacked) \cup Elems(queue)
  BY InvTakenBack
<1>2. UNCHANGED <<acked, dead, dropped, verdicts>>
  BY DEF CloseReturns, ConnectionLost
<1>3. \A m \in Msgs :
        Place(m)' = IF m \in Abstract!Handed THEN "ready" ELSE Place(m)
  <2> TAKE m \in Msgs
  <2>1. m \in Abstract!Handed <=> m \in Elems(unacked)
    BY PlaceOf DEF Abstract!Handed
  <2>2. m \in Elems(unacked) => m \notin Gone /\ m \notin Elems(queue)
    BY DEF QueueInv, Apart
  <2> QED BY <1>1, <1>2, <2>1, <2>2, EmptyElems DEF Place, Gone
<1> QED BY <1>2, <1>3 DEF Abstract!TakeBack

LEMMA QueueStep ==
  QueueInv /\ [SupervisedNext]_allVars => [Abstract!QueueNext]_(Abstract!queueVars)
<1> SUFFICES ASSUME QueueInv, [SupervisedNext]_allVars
             PROVE  [Abstract!QueueNext]_(Abstract!queueVars)
  OBVIOUS
<1>1. WorkerOK'
  BY WorkerStep
<1>2. ASSUME UNCHANGED <<broker, verdicts>>
      PROVE  UNCHANGED Abstract!queueVars
  BY <1>2, Stays DEF Abstract!queueVars, broker
<1>3. ASSUME \/ RunCalled \/ Dial \/ DeclareTopology \/ Consume \/ RunFails \/ Take
             \/ LoopSeesLoss \/ LoopSeesCancel \/ HandlerPanics
      PROVE  UNCHANGED Abstract!queueVars
  <2>1. UNCHANGED <<queue, unacked, acked, dead, dropped, verdicts>>
    BY <1>3 DEF RunCalled, Dial, DeclareTopology, Consume, RunFails, Take, LoopSeesLoss,
                LoopSeesCancel, HandlerPanics, broker
  <2> QED BY <2>1, Stays DEF Abstract!queueVars
<1>4. CASE CallRun
  BY <1>3, <1>4 DEF CallRun
<1>5. CASE Works
  <2>1. ASSUME NEW err \in Errors, HandlerReturns(err) PROVE Abstract!QueueNext
    BY <2>1, ReturnAnswers DEF Abstract!QueueNext, Errors
  <2>2. ASSUME CloseReturns PROVE Abstract!QueueNext
    BY <1>1, <2>2, EndTakesBack DEF Abstract!QueueNext
  <2> QED BY <1>3, <1>5, <2>1, <2>2 DEF Works, RunStep
<1>6. CASE BrokerStep
  <2>1. ASSUME NEW m \in Msgs, Publish(m) PROVE Abstract!QueueNext
    BY <1>1, <2>1, PublishArrives DEF Abstract!QueueNext
  <2>2. ASSUME Deliver PROVE Abstract!QueueNext
    BY <1>1, <2>2, DeliverHands DEF Abstract!QueueNext
  <2>3. ASSUME BrokerSettles PROVE Abstract!QueueNext
    BY <1>1, <2>3, BrokerSettlesOne DEF Abstract!QueueNext
  <2>4. ASSUME ConnectionLost PROVE Abstract!QueueNext
    BY <1>1, <2>4, EndTakesBack DEF Abstract!QueueNext
  <2> QED BY <1>6, <2>1, <2>2, <2>3, <2>4 DEF BrokerStep
<1>7. CASE \/ Grant \/ Deny \/ HandlerReturnsOnCancel \/ WindowSlides \/ Cancel
           \/ UNCHANGED allVars
  BY <1>2, <1>7 DEF Grant, Deny, HandlerReturnsOnCancel, WindowSlides, Cancel, vars,
                    allVars, supervised
<1> QED BY <1>4, <1>5, <1>6, <1>7 DEF SupervisedNext, SupervisorStep

(* Consumer and Supervisor together are a WorkQueue: each step moves one   *)
(* message, or takes back all that is handed out, or is none of its steps; *)
(* so a settled message stays settled by its last verdict and is not       *)
(* handled again, whatever connections, calls of Run and restarts come     *)
(* between (Run, handleDelivery, runWorker).                               *)
THEOREM ImplementsQueueHolds == SupervisedSpec => ImplementsQueue
<1>1. SupervisedInit => Abstract!QueueInit
  BY EmptyElems DEF SupervisedInit, Init, Abstract!QueueInit, Place
<1> QED BY <1>1, QueueInvariant, QueueStep, PTL
        DEF SupervisedSpec, ImplementsQueue, Abstract!QueueSpec
=============================================================================
