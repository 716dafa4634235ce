-------------------------- MODULE SupervisorProofs --------------------------
(***************************************************************************)
(* Theorems about Supervisor, for every set of workers, every assignment   *)
(* of names and every configuration; the last one, that Supervisor is a    *)
(* RestartLimiter, for names that are not shared.                          *)
(***************************************************************************)
EXTENDS SupervisorProps, TLAPS, FiniteSetTheorems

(* The effective configuration of NewSupervisor is never zero.             *)
LEMMA ConfigTypes ==
  /\ MaxRestarts \in Nat \ {0}
  /\ RestartWait \in Nat \ {0}
  /\ RestartWindow \in Nat \ {0}
BY ConfigAssumption DEF MaxRestarts, RestartWait, RestartWindow, OrDefault

PC == {"fn", "idle", "req", "exit"}

-----------------------------------------------------------------------------
(* What the three changes of pc do to the set of live goroutines.          *)

LEMMA GoneFacts ==
  ASSUME TypeOK, NEW g \in Live, Gone(g)
  PROVE  /\ Live' = Live \ {g}
         /\ \A h \in Live' : pc'[h] = pc[h]
         /\ pc' \in [Live' -> PC]
         /\ Active' = Active \ {g}
         /\ wg' = wg - 1 /\ wg' \in Int
BY DEF Gone, Without, TypeOK, PC, Live, Active

LEMMA MovedFacts ==
  ASSUME TypeOK, NEW g \in Live, NEW to \in PC, pc' = Moved(g, to)
  PROVE  /\ Live' = Live
         /\ \A h \in Live : pc'[h] = IF h = g THEN to ELSE pc[h]
         /\ pc' \in [Live' -> PC]
         /\ Active' = IF to = "exit" THEN Active \ {g} ELSE Active \cup {g}
BY DEF Moved, TypeOK, PC, Live, Active

LEMMA SpawnFacts ==
  ASSUME TypeOK, NEW w \in Workers, Spawn(w)
  PROVE  /\ <<w, spawned[w] + 1>> \in Goroutines
         /\ spawned' \in [Workers -> Nat]
         /\ spawned'[w] = spawned[w] + 1
         /\ \A v \in Workers \ {w} : spawned'[v] = spawned[v]
         /\ Live' = Live \cup {<<w, spawned[w] + 1>>}
         /\ pc' \in [Live' -> PC]
         /\ Active' = Active \cup {<<w, spawned[w] + 1>>}
         /\ wg' = wg + 1 /\ wg' \in Int
         /\ fate' = [fate EXCEPT ![w] = "running"]
<1>1. <<w, spawned[w] + 1>> \in Goroutines /\ spawned[w] \in Nat
  BY DEF TypeOK, Goroutines
<1>2. /\ spawned' \in [Workers -> Nat]
      /\ spawned'[w] = spawned[w] + 1
      /\ \A v \in Workers \ {w} : spawned'[v] = spawned[v]
  BY <1>1 DEF Spawn, TypeOK
<1>3. /\ Live' = Live \cup {<<w, spawned[w] + 1>>}
      /\ pc' \in [Live' -> PC]
      /\ Active' = Active \cup {<<w, spawned[w] + 1>>}
  BY <1>1 DEF Spawn, TypeOK, PC, Live, Active
<1> QED BY <1>1, <1>2, <1>3 DEF Spawn, TypeOK, Fate

LEMMA SpawnTypes ==
  ASSUME TypeOK, NEW w \in Workers, Spawn(w)
  PROVE  /\ Live' \subseteq Goroutines /\ pc' \in [Live' -> PC] /\ wg' \in Int
         /\ spawned' \in [Workers -> Nat] /\ fate' \in [Workers -> Fates]
<1>1. Live \subseteq Goroutines /\ fate \in [Workers -> Fates]
  BY DEF TypeOK
<1>2. fate' \in [Workers -> Fates]
  BY <1>1, SpawnFacts DEF Fates
<1> QED BY <1>1, <1>2, SpawnFacts

-----------------------------------------------------------------------------
(* Type correctness.                                                       *)

LEMMA InitType == Init => TypeOK
<1> SUFFICES ASSUME Init PROVE TypeOK
  OBVIOUS
<1>1. pc = [g \in {} |-> "fn"]
  BY DEF Init
<1>2. Live = {}
  BY <1>1 DEF Live
<1>3. pc \in [Live -> {"fn", "idle", "req", "exit"}]
  BY <1>1, <1>2
<1>4. restartCh \in Seq(Goroutines) /\ Len(restartCh) <= QueueCap
  BY QueueAssumption DEF Init
<1>5. restartTimestamps \in [Names -> SUBSET Stamps]
  BY DEF Init
<1>6. /\ workers \subseteq Workers /\ toStart \subseteq workers
      /\ start = "idle" /\ stop = "idle" /\ ctxDone = FALSE /\ wg = 0
      /\ handler = "none" /\ pending = {} /\ wakeAt = 0 /\ now = 0
      /\ spawned \in [Workers -> Nat] /\ fate \in [Workers -> Fates]
      /\ grants = {}
  BY DEF Init, Fates
<1>7. /\ Live \subseteq Goroutines /\ pending \subseteq Goroutines
      /\ wg \in Int /\ wakeAt \in Nat /\ now \in Nat /\ grants \subseteq Stamps
  BY <1>2, <1>6
<1> QED BY <1>3, <1>4, <1>5, <1>6, <1>7 DEF TypeOK

LEMMA StampType ==
  ASSUME TypeOK, NEW g \in Queued
  PROVE  /\ g \in Goroutines /\ g[1] \in Workers /\ Name(g) \in Names
         /\ Stamp(g) \in Stamps /\ Pruned(g) \subseteq Stamps
<1>1. g \in Goroutines
  BY DEF TypeOK, Queued
<1>2. g[1] \in Workers
  BY <1>1 DEF Goroutines
<1>3. Name(g) \in Names
  BY <1>2 DEF Name, Names
<1>4. Stamp(g) \in Stamps
  BY <1>1 DEF Stamp, Stamps, TypeOK
<1>5. Pruned(g) \subseteq Stamps
  BY <1>3, <1>4 DEF Pruned, TypeOK
<1> QED BY <1>1, <1>2, <1>3, <1>4, <1>5

LEMMA TakeType ==
  ASSUME TypeOK, NEW g, HandlerTake(g)
  PROVE  /\ restartCh' \in Seq(Goroutines) /\ Len(restartCh') <= QueueCap
         /\ restartTimestamps' \in [Names -> SUBSET Stamps]
<1>1. g \in Queued
  BY DEF HandlerTake, TypeOK, Queued
<1> QED BY <1>1, StampType, QueueAssumption DEF HandlerTake, TypeOK

LEMMA TypeStep == TypeOK /\ [Next]_vars => TypeOK'
<1> SUFFICES ASSUME TypeOK, [Next]_vars PROVE TypeOK'
  OBVIOUS
<1> USE DEF lifecycle, handlerState
<1>1. ASSUME NEW w \in Workers, AddWorker(w) PROVE TypeOK'
  BY <1>1 DEF AddWorker, TypeOK, Live
<1>2. CASE StartHandler
  BY <1>2 DEF StartHandler, TypeOK, Live
<1>3. ASSUME NEW w \in Workers, StartWorker(w) PROVE TypeOK'
  <2>1. Spawn(w)
    BY <1>3 DEF StartWorker
  <2>2. /\ Live' \subseteq Goroutines /\ pc' \in [Live' -> PC] /\ wg' \in Int
        /\ spawned' \in [Workers -> Nat] /\ fate' \in [Workers -> Fates]
    BY <2>1, SpawnTypes
  <2> QED BY <1>3, <2>2 DEF StartWorker, TypeOK, PC
<1>4. CASE StartReturn
  BY <1>4 DEF StartReturn, TypeOK, Live
<1>5. CASE Cancel
  BY <1>5 DEF Cancel, TypeOK, Live
<1>6. CASE StopCall
  BY <1>6 DEF StopCall, TypeOK, Live
<1>7. CASE StopReturn
  BY <1>7 DEF StopReturn, TypeOK, Live
<1>8. ASSUME NEW g \in Live, WorkerStep(g) PROVE TypeOK'
  <2> g \in Goroutines /\ g[1] \in Workers
    BY DEF TypeOK, Goroutines
  <2>1. CASE FnCompletes(g)
    BY <2>1, GoneFacts DEF FnCompletes, TypeOK, PC, Fate, Fates
  <2>2. ASSUME NEW err \in Errors, FnCancelled(g, err) PROVE TypeOK'
    BY <2>2, GoneFacts DEF FnCancelled, TypeOK, PC, Fate, Fates
  <2>3. ASSUME NEW err \in Errors, FnFails(g, err) PROVE TypeOK'
    BY <2>3, MovedFacts DEF FnFails, TypeOK, PC, Fate, Fates
  <2>4. CASE RequestSent(g)
    BY <2>4, MovedFacts, QueueAssumption DEF RequestSent, TypeOK, PC, Fate, Fates
  <2>5. CASE RequestStopped(g)
    BY <2>5, GoneFacts DEF RequestStopped, TypeOK, PC, Fate, Fates
  <2>6. CASE RequestDropped(g)
    BY <2>6, GoneFacts DEF RequestDropped, TypeOK, PC, Fate, Fates
  <2>7. CASE Exit(g)
    BY <2>7, GoneFacts DEF Exit, TypeOK, PC, Fate, Fates
  <2>8. CASE IntervalReturn(g)
    BY <2>8, MovedFacts DEF IntervalReturn, TypeOK, PC
  <2>9. CASE IntervalTick(g)
    BY <2>9, MovedFacts DEF IntervalTick, TypeOK, PC
  <2>10. CASE IntervalStop(g)
    BY <2>10, GoneFacts DEF IntervalStop, TypeOK, PC, Fate, Fates
  <2> QED BY <1>8, <2>1, <2>2, <2>3, <2>4, <2>5, <2>6, <2>7, <2>8, <2>9,
             <2>10 DEF WorkerStep
<1>9. ASSUME NEW g \in Queued, HandlerDeny(g) PROVE TypeOK'
  BY <1>9, TakeType, StampType DEF HandlerDeny, TypeOK, Live, Fate, Fates
<1>10. ASSUME NEW g \in Queued, HandlerGrant(g) PROVE TypeOK'
  <2>1. now + RestartWait \in Nat
    BY ConfigTypes DEF TypeOK
  <2> QED BY <1>10, <2>1, TakeType, StampType DEF HandlerGrant, TypeOK, Live
<1>11. ASSUME NEW g \in pending, HandlerRestart(g) PROVE TypeOK'
  <2>1. g[1] \in Workers /\ Spawn(g[1])
    BY <1>11 DEF HandlerRestart, TypeOK, Goroutines
  <2>2. /\ Live' \subseteq Goroutines /\ pc' \in [Live' -> PC] /\ wg' \in Int
        /\ spawned' \in [Workers -> Nat] /\ fate' \in [Workers -> Fates]
    BY <2>1, SpawnTypes
  <2> QED BY <1>11, <2>2 DEF HandlerRestart, TypeOK, PC
<1>12. ASSUME NEW g \in pending, HandlerAbort(g) PROVE TypeOK'
  BY <1>12 DEF HandlerAbort, TypeOK, Live, Goroutines, Fate, Fates
<1>13. CASE HandlerShutdown
  BY <1>13 DEF HandlerShutdown, TypeOK, Live
<1>14. CASE Tick
  BY <1>14 DEF Tick, TypeOK, Live
<1>15. CASE UNCHANGED vars
  BY <1>15 DEF vars, TypeOK, Live
<1> QED
  BY <1>1, <1>2, <1>3, <1>4, <1>5, <1>6, <1>7, <1>8, <1>9, <1>10, <1>11,
     <1>12, <1>13, <1>14, <1>15
  DEF Next, LifecycleStep, HandlerStep, Terminated

(* Every reachable state of the supervisor has the shape of TypeOK.        *)
THEOREM TypeCorrect == Spec => []TypeOK
BY InitType, TypeStep, PTL DEF Spec

-----------------------------------------------------------------------------
(* One token per worker.  OneInstance alone is not inductive: a restart    *)
(* gives w the incarnation spawned[w] + 1, so one has to know that the     *)
(* tokens are always the latest incarnations, and that the workers Start   *)
(* has still to spawn have none.                                           *)

Distinct == \A i, j \in 1..Len(restartCh) : restartCh[i] = restartCh[j] => i = j

TokenInv ==
  /\ \A g \in Active \cup Queued \cup pending : g[2] = spawned[g[1]]
  /\ \A g \in Live : g[2] <= spawned[g[1]]
  /\ Distinct
  /\ Active \cap Queued = {} /\ Active \cap pending = {}
  /\ Queued \cap pending = {}
  /\ \A w \in toStart : spawned[w] = 0
  /\ start = "idle" => handler = "none" /\ \A w \in Workers : spawned[w] = 0
  /\ start # "spawning" => toStart = {}
  /\ handler # "wait" => pending = {}
  /\ \A g, h \in pending : g = h

LEMMA SendFacts ==
  ASSUME TypeOK, Distinct, NEW g \in Goroutines, g \notin Queued,
         restartCh' = Append(restartCh, g)
  PROVE  Queued' = Queued \cup {g} /\ Distinct'
<1>1. /\ Len(restartCh') = Len(restartCh) + 1 /\ Len(restartCh) \in Nat
      /\ \A i \in 1..Len(restartCh) : restartCh'[i] = restartCh[i]
      /\ restartCh'[Len(restartCh) + 1] = g
  BY DEF TypeOK
<1>2. Queued' = Queued \cup {g}
  BY <1>1 DEF Queued
<1>3. Distinct'
  BY <1>1 DEF Queued, Distinct
<1> QED BY <1>2, <1>3

LEMMA TakeFacts ==
  ASSUME TypeOK, Distinct, NEW g, HandlerTake(g)
  PROVE  g \in Queued /\ Queued' = Queued \ {g} /\ Distinct'
<1>1. /\ Len(restartCh) \in Nat \ {0} /\ g = restartCh[1]
      /\ Len(restartCh') = Len(restartCh) - 1
      /\ \A i \in 1..Len(restartCh') : restartCh'[i] = restartCh[i + 1]
  BY DEF HandlerTake, TypeOK
<1>2. g \in Queued
  BY <1>1 DEF Queued
<1>3. Queued' = Queued \ {g}
  <2>1. ASSUME NEW h \in Queued' PROVE h \in Queued \ {g}
    <3>1. PICK i \in 1..Len(restartCh') : h = restartCh[i + 1]
      BY <1>1 DEF Queued
    <3> QED BY <1>1, <3>1 DEF Queued, Distinct
  <2>2. ASSUME NEW h \in Queued \ {g} PROVE h \in Queued'
    <3>1. PICK i \in 1..Len(restartCh) : h = restartCh[i]
      BY DEF Queued
    <3>2. i # 1 /\ i - 1 \in 1..Len(restartCh') /\ restartCh'[i - 1] = h
      BY <1>1, <3>1
    <3> QED BY <3>2 DEF Queued
  <2> QED BY <2>1, <2>2
<1>4. Distinct'
  BY <1>1 DEF Distinct
<1> QED BY <1>2, <1>3, <1>4

LEMMA TokenInit == Init => TokenInv
<1> SUFFICES ASSUME Init PROVE TokenInv
  OBVIOUS
<1>1. /\ pc = [g \in {} |-> "fn"] /\ restartCh = <<>> /\ pending = {}
      /\ toStart = {} /\ handler = "none" /\ \A w \in Workers : spawned[w] = 0
  BY DEF Init
<1>2. Live = {} /\ Active = {} /\ Queued = {}
  BY <1>1 DEF Live, Active, Queued
<1>3. Distinct
  BY <1>1 DEF Distinct
<1> QED BY <1>1, <1>2, <1>3 DEF TokenInv

LEMMA TokenStep == TypeOK /\ TokenInv /\ [Next]_vars => TokenInv'
<1> SUFFICES ASSUME TypeOK, TokenInv, [Next]_vars PROVE TokenInv'
  OBVIOUS
<1> USE DEF lifecycle, handlerState
<1>a. /\ Live \subseteq Goroutines /\ Active \subseteq Live /\ Queued \subseteq Goroutines
      /\ pending \subseteq Goroutines /\ spawned \in [Workers -> Nat]
  BY DEF TypeOK, Active, Queued
<1>b. Active \cup Queued \cup pending \subseteq Goroutines
  BY <1>a
<1>c. ASSUME NEW w \in Workers, Spawn(w),
             <<w, spawned[w]>> \notin Active \cup Queued \cup (pending'),
             UNCHANGED restartCh, pending' \subseteq pending,
             handler' # "wait" => pending' = {},
             toStart' = toStart \ {w}, UNCHANGED start, start # "idle"
      PROVE  TokenInv'
  <2> DEFINE new == <<w, spawned[w] + 1>>
  <2>1. /\ new \in Goroutines /\ Live' = Live \cup {new}
        /\ Active' = Active \cup {new}
        /\ spawned'[w] = spawned[w] + 1
        /\ \A v \in Workers \ {w} : spawned'[v] = spawned[v]
    BY <1>c, SpawnFacts
  <2>2. Queued' = Queued /\ Distinct'
    BY <1>c DEF Queued, TokenInv, Distinct
  <2>3. new \notin Live \cup Queued \cup pending
    BY <1>a, <1>b, <2>1 DEF TokenInv, Goroutines
  <2>4. \A g \in Active \cup Queued \cup (pending') : g[1] # w
    BY <1>a, <1>c DEF TokenInv, Goroutines
  <2>5. \A g \in Active' \cup Queued' \cup (pending') : g[2] = spawned'[g[1]]
    BY <1>a, <1>c, <2>1, <2>2, <2>4 DEF TokenInv, Goroutines
  <2>6. \A g \in Live' : g[2] <= spawned'[g[1]]
    BY <1>a, <2>1 DEF TokenInv, Goroutines
  <2>7. /\ Active' \cap Queued' = {} /\ Active' \cap (pending') = {}
        /\ Queued' \cap (pending') = {}
    BY <1>c, <2>1, <2>2, <2>3 DEF TokenInv
  <2>8. \A v \in toStart' : spawned'[v] = 0
    BY <1>c, <2>1 DEF TokenInv, TypeOK
  <2> QED BY <1>c, <2>2, <2>5, <2>6, <2>7, <2>8 DEF TokenInv
<1>d. ASSUME NEW g \in Live, Gone(g), UNCHANGED <<lifecycle, spawned, restartCh, handlerState>>
      PROVE  TokenInv'
  <2>1. Live' = Live \ {g} /\ Active' = Active \ {g} /\ Queued' = Queued
    BY <1>d, GoneFacts DEF Queued
  <2> QED BY <1>d, <2>1 DEF TokenInv, Distinct
<1>e. ASSUME NEW g \in Active, NEW to \in {"fn", "idle", "req"}, pc' = Moved(g, to),
             UNCHANGED <<lifecycle, spawned, restartCh, handlerState>>
      PROVE  TokenInv'
  <2>1. g \in Live /\ to \in PC /\ to # "exit"
    BY <1>a, <1>e DEF PC
  <2>2. Live' = Live /\ Active' = Active \cup {g} /\ Queued' = Queued
    BY <1>e, <2>1, MovedFacts DEF Queued
  <2>3. Active' = Active
    BY <1>e, <2>2
  <2> QED BY <1>e, <2>2, <2>3 DEF TokenInv, Distinct
<1>f. ASSUME UNCHANGED <<pc, spawned, restartCh>>, pending' \subseteq pending,
             handler' # "wait" => pending' = {},
             \A w \in toStart' : spawned[w] = 0,
             start' = "idle" => start = "idle" /\ handler' = handler,
             start' # "spawning" => toStart' = {}
      PROVE  TokenInv'
  <2>1. Live' = Live /\ Active' = Active /\ Queued' = Queued
    BY <1>f DEF Live, Active, Queued
  <2> QED BY <1>f, <2>1 DEF TokenInv, Distinct
<1>1. ASSUME NEW w \in Workers, AddWorker(w) PROVE TokenInv'
  BY <1>1, <1>f DEF AddWorker, TokenInv
<1>2. CASE StartHandler
  <2>1. /\ UNCHANGED <<pc, spawned, restartCh, pending>> /\ pending = {}
        /\ start' = "spawning" /\ \A w \in toStart' : spawned[w] = 0
    BY <1>2 DEF StartHandler, TokenInv, TypeOK
  <2> QED BY <1>f, <2>1
<1>3. ASSUME NEW w \in Workers, StartWorker(w) PROVE TokenInv'
  <2>1. /\ Spawn(w) /\ spawned[w] = 0 /\ start = "spawning"
        /\ UNCHANGED <<restartCh, pending, handler, start>> /\ toStart' = toStart \ {w}
    BY <1>3 DEF StartWorker, TokenInv
  <2>2. <<w, spawned[w]>> \notin Goroutines
    BY <2>1 DEF Goroutines
  <2> QED BY <1>b, <1>c, <2>1, <2>2 DEF TokenInv
<1>4. CASE StartReturn
  BY <1>4, <1>f DEF StartReturn, TokenInv
<1>5. CASE Cancel \/ StopCall \/ StopReturn
  BY <1>5, <1>f DEF Cancel, StopCall, StopReturn, TokenInv
<1>6. ASSUME NEW g \in Live, WorkerStep(g) PROVE TokenInv'
  <2>1. CASE \/ FnCompletes(g) \/ \E err \in Errors : FnCancelled(g, err)
             \/ RequestStopped(g) \/ RequestDropped(g) \/ Exit(g) \/ IntervalStop(g)
    BY <2>1, <1>d DEF FnCompletes, FnCancelled, RequestStopped, RequestDropped,
                      Exit, IntervalStop
  <2>2. CASE \E err \in Errors : FnFails(g, err)
    <3>1. g \in Active /\ pc' = Moved(g, "req")
      BY <2>2 DEF FnFails, InFn, Active
    <3> QED BY <2>2, <3>1, <1>e DEF FnFails
  <2>3. CASE IntervalReturn(g)
    <3>1. g \in Active /\ pc' = Moved(g, "idle")
      BY <2>3 DEF IntervalReturn, Active
    <3> QED BY <2>3, <3>1, <1>e DEF IntervalReturn
  <2>4. CASE IntervalTick(g)
    <3>1. g \in Active /\ pc' = Moved(g, "fn")
      BY <2>4 DEF IntervalTick, Active
    <3> QED BY <2>4, <3>1, <1>e DEF IntervalTick
  <2>5. CASE RequestSent(g)
    <3>1. g \in Active /\ g \in Goroutines /\ g \notin Queued
      BY <2>5, <1>a DEF RequestSent, Active, TokenInv
    <3>2. Live' = Live /\ Active' = Active \ {g}
      BY <2>5, MovedFacts DEF RequestSent, PC
    <3>3. Queued' = Queued \cup {g} /\ Distinct'
      BY <2>5, <3>1, SendFacts DEF RequestSent, TokenInv
    <3> QED BY <2>5, <3>1, <3>2, <3>3 DEF RequestSent, TokenInv
  <2> QED BY <1>6, <2>1, <2>2, <2>3, <2>4, <2>5 DEF WorkerStep
<1>7. ASSUME NEW g \in Queued, HandlerDeny(g) \/ HandlerGrant(g) PROVE TokenInv'
  <2>1. /\ HandlerTake(g) /\ handler = "select"
        /\ UNCHANGED <<lifecycle, pc, spawned>>
        /\ \/ pending' = {g} /\ handler' = "wait"
           \/ UNCHANGED <<pending, handler>>
    BY <1>7 DEF HandlerDeny, HandlerGrant, HandlerTake
  <2>2. Queued' = Queued \ {g} /\ Distinct'
    BY <2>1, TakeFacts DEF TokenInv
  <2>3. Live' = Live /\ Active' = Active
    BY <2>1 DEF Live, Active
  <2>4. pending = {}
    BY <2>1 DEF TokenInv
  <2> QED BY <2>1, <2>2, <2>3, <2>4 DEF TokenInv
<1>8. ASSUME NEW g \in pending, HandlerRestart(g) PROVE TokenInv'
  <2>1. /\ g[1] \in Workers /\ Spawn(g[1]) /\ g = <<g[1], spawned[g[1]]>>
        /\ pending' = {} /\ UNCHANGED <<lifecycle, restartCh>>
        /\ g \notin Active /\ g \notin Queued
    BY <1>8, <1>a DEF HandlerRestart, TokenInv, Goroutines
  <2>2. spawned[g[1]] # 0 /\ g[1] \notin toStart /\ start # "idle"
    BY <1>8, <1>a, <2>1 DEF TokenInv, Goroutines
  <2> QED BY <1>c, <2>1, <2>2
<1>9. ASSUME NEW g \in pending, HandlerAbort(g) PROVE TokenInv'
  BY <1>9, <1>f DEF HandlerAbort, TokenInv
<1>10. CASE HandlerShutdown \/ Tick
  BY <1>10, <1>f DEF HandlerShutdown, Tick, TokenInv
<1>11. CASE UNCHANGED vars
  BY <1>11, <1>f DEF vars, TokenInv
<1> QED
  BY <1>1, <1>2, <1>3, <1>4, <1>5, <1>6, <1>7, <1>8, <1>9, <1>10, <1>11
  DEF Next, LifecycleStep, HandlerStep, Terminated

LEMMA TokensUnique == TypeOK /\ TokenInv => OneInstance
<1> SUFFICES ASSUME TypeOK, TokenInv PROVE OneInstance
  OBVIOUS
<1>1. Tokens \subseteq Goroutines
  BY DEF TypeOK, Tokens, Active, Queued
<1>2. ASSUME NEW g \in Tokens, NEW h \in Tokens, g[1] = h[1] PROVE g = h
  BY <1>1, <1>2 DEF TokenInv, Tokens, Goroutines
<1> QED BY <1>2 DEF OneInstance, TokenInv, Distinct

(* No worker of the supervisor ever has two instances, two requests, or an *)
(* instance next to a request, whatever the interleaving of its goroutines *)
(* with requestRestart and handleRestarts.                                 *)
THEOREM OneInstanceHolds == Spec => []OneInstance
<1>1. Init => TypeOK /\ TokenInv
  BY InitType, TokenInit
<1>2. TypeOK /\ TokenInv /\ [Next]_vars => TypeOK' /\ TokenInv'
  BY TypeStep, TokenStep
<1>3. TypeOK /\ TokenInv => OneInstance
  BY TokensUnique
<1> QED BY <1>1, <1>2, <1>3, PTL DEF Spec

-----------------------------------------------------------------------------
(* The WaitGroup, and what Stop may conclude from it.                      *)

CountInv ==
  /\ IsFiniteSet(Live)
  /\ WaitGroupExact
  /\ handler = "none" => start = "idle"

LEMMA CountInit == Init => CountInv
<1> SUFFICES ASSUME Init PROVE CountInv
  OBVIOUS
<1>1. pc = [g \in {} |-> "fn"] /\ wg = 0 /\ handler = "none" /\ start = "idle"
  BY DEF Init
<1>2. Live = {}
  BY <1>1 DEF Live
<1> QED BY <1>1, <1>2, FS_EmptySet DEF CountInv, WaitGroupExact, HandlerAlive

LEMMA CountStep == TypeOK /\ TokenInv /\ CountInv /\ [Next]_vars => CountInv'
<1> SUFFICES ASSUME TypeOK, TokenInv, CountInv, [Next]_vars PROVE CountInv'
  OBVIOUS
<1> USE DEF lifecycle, handlerState
<1>a. IsFiniteSet(Live) /\ Cardinality(Live) \in Nat
  BY FS_CardinalityType DEF CountInv
<1>b. /\ wg = Cardinality(Live) + (IF HandlerAlive THEN 1 ELSE 0)
      /\ handler = "none" => start = "idle"
  BY DEF CountInv, WaitGroupExact
<1>c. ASSUME NEW w \in Workers, Spawn(w), start' # "idle" \/ UNCHANGED start,
             HandlerAlive' = HandlerAlive, handler' # "none"
      PROVE  CountInv'
  <2> DEFINE new == <<w, spawned[w] + 1>>
  <2>1. Live' = Live \cup {new} /\ wg' = wg + 1
    BY <1>c, SpawnFacts
  <2>2. new \notin Live
    BY DEF TokenInv, TypeOK
  <2>3. IsFiniteSet(Live') /\ Cardinality(Live') = Cardinality(Live) + 1
    BY <1>a, <2>1, <2>2, FS_AddElement
  <2> QED BY <1>a, <1>b, <1>c, <2>1, <2>3 DEF CountInv, WaitGroupExact
<1>d. ASSUME NEW g \in Live, Gone(g), UNCHANGED <<start, handler>>
      PROVE  CountInv'
  <2>1. Live' = Live \ {g} /\ wg' = wg - 1 /\ HandlerAlive' = HandlerAlive
    BY <1>d, GoneFacts DEF HandlerAlive
  <2>2. IsFiniteSet(Live') /\ Cardinality(Live') = Cardinality(Live) - 1
    BY <1>a, <2>1, FS_RemoveElement
  <2> QED BY <1>a, <1>b, <1>d, <2>1, <2>2 DEF CountInv, WaitGroupExact
<1>e. ASSUME Live' = Live, handler' = "none" => start' = "idle",
             wg' - wg = (IF HandlerAlive' THEN 1 ELSE 0) - (IF HandlerAlive THEN 1 ELSE 0),
             wg' \in Int
      PROVE  CountInv'
  <2>1. wg \in Int
    BY DEF TypeOK
  <2>2. wg' = Cardinality(Live) + (IF HandlerAlive' THEN 1 ELSE 0)
    BY <1>a, <1>b, <1>e, <2>1
  <2> QED BY <1>a, <1>e, <2>2 DEF CountInv, WaitGroupExact
<1>f. ASSUME UNCHANGED <<pc, wg, start, handler>> PROVE CountInv'
  <2>1. Live' = Live /\ HandlerAlive' = HandlerAlive
    BY <1>f DEF Live, HandlerAlive
  <2> QED BY <1>b, <1>e, <1>f, <2>1 DEF TypeOK
<1>g. ASSUME NEW g \in Live, NEW to \in PC, pc' = Moved(g, to),
             UNCHANGED <<wg, start, handler>>
      PROVE  CountInv'
  <2>1. Live' = Live /\ HandlerAlive' = HandlerAlive
    BY <1>g, MovedFacts DEF HandlerAlive
  <2> QED BY <1>b, <1>e, <1>g, <2>1 DEF TypeOK
<1>1. ASSUME NEW w \in Workers, AddWorker(w) PROVE CountInv'
  BY <1>1, <1>f DEF AddWorker
<1>2. CASE StartHandler
  <2>1. Live' = Live /\ HandlerAlive' /\ ~HandlerAlive
    BY <1>2 DEF StartHandler, Live, HandlerAlive, TokenInv
  <2> QED BY <1>2, <1>e, <2>1 DEF StartHandler, TypeOK
<1>3. ASSUME NEW w \in Workers, StartWorker(w) PROVE CountInv'
  BY <1>3, <1>b, <1>c DEF StartWorker, HandlerAlive
<1>4. CASE StartReturn
  <2>1. Live' = Live /\ HandlerAlive' = HandlerAlive /\ handler' # "none"
    BY <1>4, <1>b DEF StartReturn, Live, HandlerAlive
  <2> QED BY <1>4, <1>e, <2>1 DEF StartReturn, TypeOK
<1>5. CASE Cancel \/ StopCall \/ StopReturn
  BY <1>5, <1>f DEF Cancel, StopCall, StopReturn
<1>6. ASSUME NEW g \in Live, WorkerStep(g) PROVE CountInv'
  <2>1. CASE \/ FnCompletes(g) \/ \E err \in Errors : FnCancelled(g, err)
             \/ RequestStopped(g) \/ RequestDropped(g) \/ Exit(g) \/ IntervalStop(g)
    BY <2>1, <1>d DEF FnCompletes, FnCancelled, RequestStopped, RequestDropped,
                      Exit, IntervalStop
  <2>2. CASE \E err \in Errors : FnFails(g, err)
    BY <2>2, <1>g DEF FnFails, PC
  <2>3. CASE IntervalReturn(g)
    BY <2>3, <1>g DEF IntervalReturn, PC
  <2>4. CASE IntervalTick(g)
    BY <2>4, <1>g DEF IntervalTick, PC
  <2>5. CASE RequestSent(g)
    BY <2>5, <1>g DEF RequestSent, PC
  <2> QED BY <1>6, <2>1, <2>2, <2>3, <2>4, <2>5 DEF WorkerStep
<1>7. ASSUME NEW g \in Queued, HandlerDeny(g) PROVE CountInv'
  BY <1>7, <1>f DEF HandlerDeny
<1>8. ASSUME NEW g \in Queued, HandlerGrant(g) PROVE CountInv'
  <2>1. Live' = Live /\ HandlerAlive' /\ HandlerAlive /\ handler' # "none"
    BY <1>8 DEF HandlerGrant, HandlerTake, Live, HandlerAlive
  <2> QED BY <1>8, <1>e, <2>1 DEF HandlerGrant, TypeOK
<1>9. ASSUME NEW g \in pending, HandlerRestart(g) PROVE CountInv'
  <2>1. g[1] \in Workers /\ Spawn(g[1]) /\ HandlerAlive /\ HandlerAlive'
    BY <1>9 DEF HandlerRestart, TypeOK, Goroutines, HandlerAlive
  <2> QED BY <1>9, <1>c, <2>1 DEF HandlerRestart
<1>10. CASE HandlerShutdown \/ \E g \in pending : HandlerAbort(g)
  <2>1. Live' = Live /\ HandlerAlive /\ ~HandlerAlive' /\ handler' # "none" /\ wg' = wg - 1
    BY <1>10 DEF HandlerShutdown, HandlerAbort, Live, HandlerAlive
  <2> QED BY <1>e, <2>1 DEF TypeOK
<1>11. CASE Tick \/ UNCHANGED vars
  BY <1>11, <1>f DEF Tick, vars
<1> QED
  BY <1>1, <1>2, <1>3, <1>4, <1>5, <1>6, <1>7, <1>8, <1>9, <1>10, <1>11
  DEF Next, LifecycleStep, HandlerStep, Terminated

Inv == TypeOK /\ TokenInv /\ CountInv

LEMMA InvHolds == Spec => []Inv
<1>1. Init => Inv
  BY InitType, TokenInit, CountInit DEF Inv
<1>2. Inv /\ [Next]_vars => Inv'
  BY TypeStep, TokenStep, CountStep DEF Inv
<1> QED BY <1>1, <1>2, PTL DEF Spec

(* s.wg is exact: one Add per goroutine spawned by Start or by the restart *)
(* handler, one Done per goroutine that is gone.                           *)
THEOREM WaitGroupHolds == Spec => []WaitGroupExact
<1>1. Inv => WaitGroupExact
  BY DEF Inv, CountInv
<1> QED BY <1>1, InvHolds, PTL

StopInv ==
  ~EarlyStop => /\ stop # "idle" => start = "done"
                /\ stop = "done" => Live = {} /\ ~HandlerAlive

LEMMA StopStep == Inv /\ StopInv /\ [Next]_vars => StopInv'
<1> SUFFICES ASSUME Inv, StopInv, [Next]_vars, ~EarlyStop PROVE StopInv'
  BY DEF StopInv
<1> USE DEF lifecycle, handlerState
<1>1. CASE StopReturn
  <2>1. wg = 0 /\ Live' = Live /\ HandlerAlive' = HandlerAlive /\ start' = start
        /\ stop = "waiting"
    BY <1>1 DEF StopReturn, Live, HandlerAlive
  <2>2. IsFiniteSet(Live) /\ wg = Cardinality(Live) + (IF HandlerAlive THEN 1 ELSE 0)
    BY DEF Inv, CountInv, WaitGroupExact
  <2>3. Cardinality(Live) = 0 /\ ~HandlerAlive
    BY <2>1, <2>2, FS_CardinalityType
  <2>4. Live = {}
    BY <2>2, <2>3, FS_EmptySet
  <2> QED BY <2>1, <2>3, <2>4 DEF StopInv
<1>2. CASE StopCall
  BY <1>2 DEF StopCall, StopInv, Live, HandlerAlive
<1>3. CASE ~StopCall /\ ~StopReturn /\ stop # "done"
  <2>1. stop' = stop /\ (start = "done" => start' = "done")
    BY <1>3 DEF Next, LifecycleStep, WorkerStep, HandlerStep, AddWorker, StartHandler,
         StartWorker, StartReturn, Cancel, FnCompletes, FnCancelled, FnFails,
         RequestSent, RequestStopped, RequestDropped, Exit, IntervalReturn,
         IntervalTick, IntervalStop, HandlerDeny, HandlerGrant, HandlerRestart,
         HandlerAbort, HandlerShutdown, Tick, Terminated, vars
  <2> QED BY <1>3, <2>1 DEF StopInv
<1>4. CASE ~StopCall /\ ~StopReturn /\ stop = "done"
  <2>1. Live = {} /\ ~HandlerAlive /\ start = "done" /\ toStart = {} /\ pending = {}
    BY <1>4 DEF StopInv, Inv, TokenInv, HandlerAlive
  <2>2. UNCHANGED <<pc, handler, start>>
    BY <1>4, <2>1 DEF Next, LifecycleStep, HandlerStep, HandlerAlive, AddWorker,
         StartHandler, StartWorker, StartReturn, Cancel, HandlerDeny, HandlerGrant,
         HandlerTake, HandlerShutdown, Tick, Terminated, vars
  <2> QED BY <2>1, <2>2 DEF StopInv, Live, HandlerAlive
<1> QED BY <1>1, <1>2, <1>3, <1>4

(* Stop is graceful in one direction: if Start had returned before it was  *)
(* called, nothing is left running when it returns.                        *)
THEOREM StopQuiescentHolds == Spec => []StopQuiescent
<1>1. Init => StopInv
  BY DEF Init, StopInv
<1>2. Inv /\ StopInv => StopQuiescent
  BY DEF Inv, TokenInv, StopInv, StopQuiescent, HandlerAlive
<1> QED BY <1>1, <1>2, StopStep, InvHolds, PTL DEF Spec

-----------------------------------------------------------------------------
(* The sliding window.  A grant is counted as long as it lies in a window  *)
(* that can still end at a grant: it is a kept stamp, or it is older than  *)
(* the window that ends now, and time does not run back.                   *)

StampInv ==
  /\ \A n \in Names : IsFiniteSet(restartTimestamps[n])
  /\ \A r \in grants : /\ r.at <= now
                       /\ \/ r \in restartTimestamps[Name(r.by)]
                          \/ r.at < now - RestartWindow
  /\ Budget

LEMMA StampInit == Init => StampInv
BY FS_EmptySet DEF Init, StampInv, Budget

LEMMA StampSteady ==
  ASSUME TypeOK, StampInv, UNCHANGED <<restartTimestamps, grants>>,
         now' \in Nat, now' >= now
  PROVE  StampInv'
<1>1. Budget'
  BY DEF StampInv, Budget, WindowOf
<1>2. \A r \in grants : r.at \in Nat
  BY DEF TypeOK, Stamps
<1>3. now \in Nat /\ RestartWindow \in Nat
  BY ConfigTypes DEF TypeOK
<1>4. ASSUME NEW r \in grants PROVE /\ r.at <= now'
                                    /\ \/ r \in restartTimestamps[Name(r.by)]
                                       \/ r.at < now' - RestartWindow
  BY <1>2, <1>3 DEF StampInv
<1> QED BY <1>1, <1>4 DEF StampInv

LEMMA TakeKeeps ==
  ASSUME TypeOK, StampInv, NEW g \in Queued, HandlerTake(g)
  PROVE  /\ restartTimestamps'[Name(g)] = Pruned(g)
         /\ \A n \in Names : IsFiniteSet(restartTimestamps'[n])
         /\ \A r \in grants : \/ r \in restartTimestamps'[Name(r.by)]
                              \/ r.at < now - RestartWindow
<1>1. Name(g) \in Names /\ restartTimestamps \in [Names -> SUBSET Stamps]
  BY StampType DEF TypeOK
<1>2. /\ restartTimestamps'[Name(g)] = Pruned(g)
      /\ \A n \in Names \ {Name(g)} : restartTimestamps'[n] = restartTimestamps[n]
  BY <1>1 DEF HandlerTake
<1>3. IsFiniteSet(Pruned(g))
  <2>1. IsFiniteSet(restartTimestamps[Name(g)] \cup {Stamp(g)})
    BY <1>1, FS_AddElement DEF StampInv
  <2> QED BY <2>1, FS_Subset DEF Pruned
<1>4. ASSUME NEW r \in grants
      PROVE  \/ r \in restartTimestamps'[Name(r.by)]
             \/ r.at < now - RestartWindow
  <2>1. r.at \in Nat /\ now \in Nat /\ RestartWindow \in Nat /\ Name(r.by) \in Names
    BY ConfigTypes DEF TypeOK, Stamps, Goroutines, Names, Name
  <2>2. CASE r.at >= now - RestartWindow
    <3>1. r \in restartTimestamps[Name(r.by)]
      BY <2>1, <2>2 DEF StampInv
    <3> QED BY <1>2, <2>1, <2>2, <3>1 DEF Pruned
  <2> QED BY <2>1, <2>2
<1> QED BY <1>2, <1>3, <1>4 DEF StampInv

LEMMA GrantBudget ==
  ASSUME TypeOK, StampInv, NEW g \in Queued, HandlerGrant(g)
  PROVE  Budget'
<1>1. /\ HandlerTake(g) /\ ~Exhausted(g) /\ grants' = grants \cup {Stamp(g)}
      /\ now \in Nat /\ RestartWindow \in Nat /\ MaxRestarts \in Nat
      /\ grants' \subseteq Stamps
  BY ConfigTypes, StampType DEF HandlerGrant, TypeOK
<1>2. IsFiniteSet(Pruned(g)) /\ Cardinality(Pruned(g)) \in Nat
      /\ Cardinality(Pruned(g)) <= MaxRestarts
  <2>1. IsFiniteSet(Pruned(g))
    BY <1>1, TakeKeeps, StampType
  <2> QED BY <1>1, <2>1, FS_CardinalityType DEF Exhausted
<1>3. \A r \in grants' : r.at \in Nat /\ r.at <= now
  BY <1>1 DEF StampInv, Stamps, Stamp
<1> SUFFICES ASSUME NEW s \in grants' PROVE Cardinality(WindowOf(s)') <= MaxRestarts
  BY DEF Budget
<1>4. CASE s.at = now /\ Name(s.by) = Name(g)
  <2>1. ASSUME NEW r \in WindowOf(s)' PROVE r \in Pruned(g)
    <3>1. r \in grants' /\ Name(r.by) = Name(g) /\ r.at >= now - RestartWindow
      BY <1>4, <2>1 DEF WindowOf
    <3>2. CASE r = Stamp(g)
      BY <3>1, <3>2 DEF Pruned
    <3>3. CASE r \in grants
      <4>1. r.at \in Nat /\ r \in restartTimestamps[Name(g)]
        BY <1>1, <1>3, <3>1, <3>3 DEF StampInv
      <4> QED BY <3>1, <4>1 DEF Pruned
    <3> QED BY <1>1, <3>1, <3>2, <3>3
  <2>2. /\ Cardinality(WindowOf(s)') <= Cardinality(Pruned(g))
        /\ Cardinality(WindowOf(s)') \in Nat
    BY <1>2, <2>1, FS_Subset, FS_CardinalityType
  <2> QED BY <1>1, <1>2, <2>2
<1>5. CASE ~(s.at = now /\ Name(s.by) = Name(g))
  <2>1. Stamp(g).at = now /\ Name(Stamp(g).by) = Name(g)
    BY DEF Stamp
  <2>2. s \in grants
    BY <1>1, <1>5, <2>1
  <2>3. Stamp(g) \notin WindowOf(s)'
    BY <1>1, <1>3, <1>5, <2>1 DEF WindowOf
  <2>4. WindowOf(s)' = WindowOf(s)
    BY <1>1, <2>3 DEF WindowOf
  <2> QED BY <2>2, <2>4 DEF StampInv, Budget
<1> QED BY <1>4, <1>5

LEMMA StampStep == TypeOK /\ StampInv /\ [Next]_vars => StampInv'
<1> SUFFICES ASSUME TypeOK, StampInv, [Next]_vars PROVE StampInv'
  OBVIOUS
<1> USE DEF lifecycle, handlerState
<1>1. now \in Nat
  BY DEF TypeOK
<1>2. ASSUME NEW g \in Queued, HandlerDeny(g) PROVE StampInv'
  <2>1. HandlerTake(g) /\ UNCHANGED <<grants, now>>
    BY <1>2 DEF HandlerDeny
  <2>2. Budget'
    BY <2>1 DEF StampInv, Budget, WindowOf
  <2> QED BY <2>1, <2>2, TakeKeeps DEF StampInv
<1>3. ASSUME NEW g \in Queued, HandlerGrant(g) PROVE StampInv'
  <2>1. HandlerTake(g) /\ grants' = grants \cup {Stamp(g)} /\ now' = now
    BY <1>3 DEF HandlerGrant
  <2>2. Budget'
    BY <1>3, GrantBudget
  <2>3. Stamp(g).at = now /\ Stamp(g).by = g /\ Stamp(g) \in Pruned(g)
    BY <1>1, ConfigTypes DEF Stamp, Pruned
  <2>4. ASSUME NEW r \in grants'
        PROVE  /\ r.at <= now
               /\ r \in restartTimestamps'[Name(r.by)] \/ r.at < now - RestartWindow
    <3>1. CASE r \in grants
      BY <2>1, <3>1, TakeKeeps DEF StampInv
    <3>2. CASE r = Stamp(g)
      BY <1>1, <2>1, <2>3, <3>2, TakeKeeps
    <3> QED BY <2>1, <3>1, <3>2
  <2>5. \A n \in Names : IsFiniteSet(restartTimestamps'[n])
    BY <2>1, TakeKeeps
  <2> QED BY <2>1, <2>2, <2>4, <2>5 DEF StampInv
<1>4. CASE ~ \E g \in Queued : HandlerDeny(g) \/ HandlerGrant(g)
  <2>1. UNCHANGED <<restartTimestamps, grants>> /\ now' \in Nat /\ now' >= now
    BY <1>1, <1>4 DEF Next, LifecycleStep, WorkerStep, HandlerStep, AddWorker,
         StartHandler, StartWorker, StartReturn, Cancel, StopCall, StopReturn,
         FnCompletes, FnCancelled, FnFails, RequestSent, RequestStopped,
         RequestDropped, Exit, IntervalReturn, IntervalTick, IntervalStop,
         HandlerRestart, HandlerAbort, HandlerShutdown, Tick, Terminated, vars
  <2> QED BY <2>1, StampSteady
<1> QED BY <1>2, <1>3, <1>4

(* The restart limit: no window of RestartWindow that ends at a restart of *)
(* a name holds more than MaxRestarts restarts of that name, although the  *)
(* handler forgets the stamps it has pruned (handleRestarts).              *)
THEOREM BudgetHolds == Spec => []Budget
<1>1. Init => TypeOK /\ StampInv
  BY InitType, StampInit
<1>2. TypeOK /\ StampInv /\ [Next]_vars => TypeOK' /\ StampInv'
  BY TypeStep, StampStep
<1>3. StampInv => Budget
  BY DEF StampInv
<1> QED BY <1>1, <1>2, <1>3, PTL DEF Spec

-----------------------------------------------------------------------------
(* The fate of a worker says where its token is.                           *)

FateInv ==
  /\ NothingForgotten
  /\ \A w \in Workers : spawned[w] = 0 => fate[w] = "idle"

LEMMA FateInit == Init => FateInv
<1> SUFFICES ASSUME Init PROVE FateInv
  OBVIOUS
<1>1. /\ pc = [g \in {} |-> "fn"] /\ restartCh = <<>> /\ pending = {}
      /\ \A w \in Workers : fate[w] = "idle"
  BY DEF Init
<1>2. Active = {} /\ Queued = {}
  BY <1>1 DEF Live, Active, Queued
<1> QED BY <1>1, <1>2 DEF FateInv, NothingForgotten

(* A step that concerns worker w alone, and leaves its fate right.         *)
LEMMA FateOf ==
  ASSUME TypeOK, TokenInv, FateInv, NEW w \in Workers,
         \A v \in Workers \ {w} : fate'[v] = fate[v] /\ spawned'[v] = spawned[v],
         \A h \in Goroutines : h[1] # w =>
            /\ h \in Active' <=> h \in Active
            /\ h \in Queued' \cup (pending') <=> h \in Queued \cup pending,
         spawned'[w] # 0,
         fate'[w] = "requested" <=> <<w, spawned'[w]>> \in Queued' \cup (pending'),
         fate'[w] \in {"running", "failed"} <=> <<w, spawned'[w]>> \in Active',
         Active' \cup Queued' \cup (pending') \subseteq Goroutines
  PROVE  FateInv'
<1>1. Active \cup Queued \cup pending \subseteq Goroutines
  BY DEF TypeOK, Active, Queued
<1>2. ASSUME NEW v \in Workers \ {w}
      PROVE  /\ fate'[v] = "requested" <=> <<v, spawned'[v]>> \in Queued' \cup (pending')
             /\ fate'[v] \in {"running", "failed"} <=> <<v, spawned'[v]>> \in Active'
             /\ spawned'[v] = 0 => fate'[v] = "idle"
  <2>1. <<v, spawned[v]>> \in Goroutines =>
          /\ <<v, spawned[v]>> \in Active' <=> <<v, spawned[v]>> \in Active
          /\ <<v, spawned[v]>> \in Queued' \cup (pending')
                <=> <<v, spawned[v]>> \in Queued \cup pending
    BY <1>2
  <2> QED BY <1>1, <2>1 DEF FateInv, NothingForgotten, Latest
<1> QED BY <1>2 DEF FateInv, NothingForgotten, Latest

LEMMA FateSteady ==
  ASSUME FateInv, UNCHANGED <<fate, spawned, Active, Queued, pending>>
  PROVE  FateInv'
BY DEF FateInv, NothingForgotten, Latest

LEMMA FateStep == TypeOK /\ TokenInv /\ FateInv /\ [Next]_vars => FateInv'
<1> SUFFICES ASSUME TypeOK, TokenInv, FateInv, [Next]_vars PROVE FateInv'
  OBVIOUS
<1> USE DEF lifecycle, handlerState
<1>a. /\ Live \subseteq Goroutines /\ Active \subseteq Live /\ Queued \subseteq Goroutines
      /\ pending \subseteq Goroutines /\ spawned \in [Workers -> Nat]
      /\ fate \in [Workers -> Fates]
  BY DEF TypeOK, Active, Queued
<1>b. ASSUME NEW g \in Active \cup Queued \cup pending
      PROVE  /\ g \in Goroutines /\ g[1] \in Workers /\ g = <<g[1], spawned[g[1]]>>
             /\ spawned[g[1]] # 0
  BY <1>a DEF TokenInv, Goroutines
<1>c. ASSUME NEW w \in Workers, Spawn(w), UNCHANGED restartCh,
             \A h \in pending : h \notin pending' => h[1] = w,
             pending' \subseteq pending,
             <<w, spawned[w]>> \notin Queued \cup (pending')
      PROVE  FateInv'
  <2> DEFINE new == <<w, spawned[w] + 1>>
  <2>1. /\ new \in Goroutines /\ Active' = Active \cup {new}
        /\ spawned'[w] = spawned[w] + 1
        /\ \A v \in Workers \ {w} : spawned'[v] = spawned[v]
        /\ fate' = [fate EXCEPT ![w] = "running"]
    BY <1>c, SpawnFacts
  <2>2. Queued' = Queued /\ new \notin Queued \cup pending
    <3>1. new[1] = w /\ new[2] = spawned[w] + 1 /\ new[2] # spawned[w]
      BY <1>a
    <3>2. new \notin Queued \cup pending
      BY <3>1 DEF TokenInv
    <3> QED BY <1>c, <3>2 DEF Queued
  <2>3. /\ fate'[w] = "running" /\ \A v \in Workers \ {w} : fate'[v] = fate[v]
    BY <1>a, <2>1
  <2>4. ASSUME NEW h \in Goroutines, h[1] # w
        PROVE  /\ h \in Active' <=> h \in Active
               /\ h \in Queued' \cup (pending') <=> h \in Queued \cup pending
    BY <1>c, <2>1, <2>2, <2>4
  <2>5. <<w, spawned'[w]>> = new /\ spawned'[w] # 0 /\ new \in Active'
        /\ new \notin Queued' \cup (pending')
    BY <1>a, <1>c, <2>1, <2>2
  <2>6. Active' \cup Queued' \cup (pending') \subseteq Goroutines
    BY <1>a, <1>c, <2>1, <2>2
  <2>7. \A v \in Workers \ {w} : fate'[v] = fate[v] /\ spawned'[v] = spawned[v]
    BY <2>1, <2>3
  <2>8. /\ fate'[w] = "requested" <=> <<w, spawned'[w]>> \in Queued' \cup (pending')
        /\ fate'[w] \in {"running", "failed"} <=> <<w, spawned'[w]>> \in Active'
    BY <2>3, <2>5
  <2> HIDE DEF new
  <2> QED BY <2>4, <2>5, <2>6, <2>7, <2>8, FateOf
<1>d. ASSUME NEW g \in Active, NEW what \in Fates \ {"requested", "running", "failed"},
             Gone(g), fate' = Fate(g[1], what), UNCHANGED <<spawned, restartCh, pending>>
      PROVE  FateInv'
  <2>1. Active' = Active \ {g} /\ Queued' = Queued /\ g \notin Queued \cup pending
    BY <1>a, <1>d, GoneFacts DEF Queued, TokenInv
  <2>2. /\ fate'[g[1]] = what /\ \A v \in Workers \ {g[1]} : fate'[v] = fate[v]
    BY <1>a, <1>b, <1>d DEF Fate
  <2> QED BY <1>a, <1>b, <1>d, <2>1, <2>2, FateOf
<1>e. ASSUME NEW g \in Active, NEW to \in {"fn", "idle", "req"}, pc' = Moved(g, to),
             UNCHANGED <<spawned, restartCh, pending>>
      PROVE  Active' = Active /\ Queued' = Queued
  <2>1. g \in Live /\ to \in PC /\ to # "exit"
    BY <1>a, <1>e DEF PC
  <2> QED BY <1>e, <2>1, MovedFacts DEF Queued
<1>f. ASSUME UNCHANGED <<pc, spawned, restartCh, pending, fate>> PROVE FateInv'
  BY <1>f, FateSteady DEF Live, Active, Queued
<1>1. ASSUME NEW w \in Workers, AddWorker(w) PROVE FateInv'
  BY <1>1, <1>f DEF AddWorker
<1>2. CASE StartHandler \/ StartReturn \/ Cancel \/ StopCall \/ StopReturn
  BY <1>2, <1>f DEF StartHandler, StartReturn, Cancel, StopCall, StopReturn
<1>3. ASSUME NEW w \in Workers, StartWorker(w) PROVE FateInv'
  <2>1. /\ Spawn(w) /\ spawned[w] = 0 /\ UNCHANGED <<restartCh, pending>>
    BY <1>3 DEF StartWorker, TokenInv
  <2>2. <<w, spawned[w]>> \notin Goroutines
    BY <2>1 DEF Goroutines
  <2> QED BY <1>a, <1>c, <2>1, <2>2
<1>4. ASSUME NEW g \in Live, WorkerStep(g) PROVE FateInv'
  <2>1. CASE FnCompletes(g)
    BY <2>1, <1>d DEF FnCompletes, InFn, Active, Fates
  <2>2. CASE \E err \in Errors : FnCancelled(g, err)
    BY <2>2, <1>d DEF FnCancelled, InFn, Active, Fates
  <2>3. CASE RequestStopped(g)
    BY <2>3, <1>d DEF RequestStopped, Active, Fates
  <2>4. CASE RequestDropped(g)
    BY <2>4, <1>d DEF RequestDropped, Active, Fates
  <2>5. CASE IntervalStop(g)
    BY <2>5, <1>d DEF IntervalStop, Active, Fates
  <2>6. CASE Exit(g)
    <3>1. Active' = Active \ {g} /\ g \notin Active /\ Queued' = Queued
      BY <2>6, GoneFacts DEF Exit, Active, Queued
    <3> QED BY <2>6, <3>1, FateSteady DEF Exit
  <2>7. CASE \E err \in Errors : FnFails(g, err)
    <3>1. /\ g \in Active /\ pc' = Moved(g, "req") /\ fate' = Fate(g[1], "failed")
          /\ UNCHANGED <<spawned, restartCh, pending>>
      BY <2>7 DEF FnFails, InFn, Active
    <3>2. Active' = Active /\ Queued' = Queued /\ g \notin Queued \cup pending
      BY <1>e, <3>1 DEF TokenInv
    <3>3. /\ fate'[g[1]] = "failed" /\ \A v \in Workers \ {g[1]} : fate'[v] = fate[v]
      BY <1>a, <1>b, <3>1 DEF Fate
    <3> QED BY <1>a, <1>b, <3>1, <3>2, <3>3, FateOf
  <2>8. CASE IntervalReturn(g)
    <3>1. Active' = Active /\ Queued' = Queued
      BY <2>8, <1>e DEF IntervalReturn, Active
    <3> QED BY <2>8, <3>1, FateSteady DEF IntervalReturn
  <2>9. CASE IntervalTick(g)
    <3>1. Active' = Active /\ Queued' = Queued
      BY <2>9, <1>e DEF IntervalTick, Active
    <3> QED BY <2>9, <3>1, FateSteady DEF IntervalTick
  <2>10. CASE RequestSent(g)
    <3>1. /\ g \in Active /\ g \in Goroutines /\ g \notin Queued
          /\ fate' = Fate(g[1], "requested") /\ UNCHANGED <<spawned, pending>>
      BY <2>10, <1>a DEF RequestSent, Active, TokenInv
    <3>2. Active' = Active \ {g}
      BY <2>10, MovedFacts DEF RequestSent, PC
    <3>3. Queued' = Queued \cup {g}
      BY <2>10, <3>1, SendFacts DEF RequestSent, TokenInv
    <3>4. /\ fate'[g[1]] = "requested" /\ \A v \in Workers \ {g[1]} : fate'[v] = fate[v]
      BY <1>a, <1>b, <3>1 DEF Fate
    <3> QED BY <1>a, <1>b, <3>1, <3>2, <3>3, <3>4, FateOf
  <2> QED BY <1>4, <2>1, <2>2, <2>3, <2>4, <2>5, <2>6, <2>7, <2>8, <2>9, <2>10
          DEF WorkerStep
<1>5. ASSUME NEW g \in Queued, HandlerDeny(g) PROVE FateInv'
  <2>1. /\ HandlerTake(g) /\ fate' = Fate(g[1], "denied")
        /\ UNCHANGED <<pc, spawned, pending>>
    BY <1>5 DEF HandlerDeny
  <2>2. Queued' = Queued \ {g} /\ Active' = Active /\ g \notin Active \cup pending
    BY <1>5, <2>1, TakeFacts DEF TokenInv, Live, Active
  <2>3. /\ fate'[g[1]] = "denied" /\ \A v \in Workers \ {g[1]} : fate'[v] = fate[v]
    BY <1>a, <1>b, <2>1 DEF Fate
  <2> QED BY <1>a, <1>b, <2>1, <2>2, <2>3, FateOf
<1>6. ASSUME NEW g \in Queued, HandlerGrant(g) PROVE FateInv'
  <2>1. /\ HandlerTake(g) /\ UNCHANGED <<pc, spawned, fate>> /\ pending' = {g}
        /\ pending = {}
    BY <1>6 DEF HandlerGrant, HandlerTake, TokenInv
  <2>2. Queued' = Queued \ {g} /\ Active' = Active
    BY <2>1, TakeFacts DEF TokenInv, Live, Active
  <2>3. Queued' \cup (pending') = Queued \cup pending
    BY <1>6, <2>1, <2>2
  <2> QED BY <2>1, <2>2, <2>3 DEF FateInv, NothingForgotten, Latest
<1>7. ASSUME NEW g \in pending, HandlerRestart(g) PROVE FateInv'
  <2>1. /\ g[1] \in Workers /\ Spawn(g[1]) /\ UNCHANGED restartCh /\ pending' = {}
        /\ g \notin Queued /\ \A h \in pending : h = g
    BY <1>7, <1>b DEF HandlerRestart, TokenInv
  <2> QED BY <1>7, <1>b, <1>c, <2>1
<1>8. ASSUME NEW g \in pending, HandlerAbort(g) PROVE FateInv'
  <2>1. /\ fate' = Fate(g[1], "abandoned") /\ pending' = {}
        /\ UNCHANGED <<pc, spawned, restartCh>>
        /\ g \notin Active \cup Queued /\ \A h \in pending : h = g
    BY <1>8 DEF HandlerAbort, TokenInv
  <2>2. Queued' = Queued /\ Active' = Active
    BY <2>1 DEF Live, Active, Queued
  <2>3. /\ fate'[g[1]] = "abandoned" /\ \A v \in Workers \ {g[1]} : fate'[v] = fate[v]
    BY <1>a, <1>b, <2>1 DEF Fate
  <2> QED BY <1>a, <1>b, <2>1, <2>2, <2>3, FateOf
<1>9. CASE HandlerShutdown \/ Tick \/ UNCHANGED vars
  BY <1>9, <1>f DEF HandlerShutdown, Tick, vars
<1> QED
  BY <1>1, <1>2, <1>3, <1>4, <1>5, <1>6, <1>7, <1>8, <1>9
  DEF Next, LifecycleStep, HandlerStep, Terminated

LEMMA FateHolds == Spec => [](TypeOK /\ TokenInv /\ FateInv)
<1>1. Init => TypeOK /\ TokenInv /\ FateInv
  BY InitType, TokenInit, FateInit
<1>2. TypeOK /\ TokenInv /\ FateInv /\ [Next]_vars => (TypeOK /\ TokenInv /\ FateInv)'
  BY TypeStep, TokenStep, FateStep
<1> QED BY <1>1, <1>2, PTL DEF Spec

(* No request is lost between requestRestart, the channel and the handler. *)
THEOREM NothingForgottenHolds == Spec => []NothingForgotten
<1>1. FateInv => NothingForgotten
  BY DEF FateInv
<1> QED BY <1>1, FateHolds, PTL

LEMMA DeniedStep ==
  ASSUME TypeOK, TokenInv, FateInv, [Next]_vars, NEW w \in Workers, fate[w] = "denied"
  PROVE  fate'[w] = "denied" /\ spawned'[w] = spawned[w]
<1> USE DEF lifecycle, handlerState
<1>1. /\ fate \in [Workers -> Fates] /\ spawned \in [Workers -> Nat]
      /\ Active \cup Queued \cup pending \subseteq Goroutines
  BY DEF TypeOK, Active, Queued
<1>2. ASSUME NEW g \in Active \cup Queued \cup pending
      PROVE  g[1] \in Workers /\ g[1] # w
  <2>1. g[1] \in Workers /\ g = Latest(g[1])
    BY <1>1 DEF TokenInv, Goroutines, Latest
  <2>2. fate[g[1]] \in {"running", "failed", "requested"}
    BY <2>1 DEF FateInv, NothingForgotten
  <2> QED BY <2>1, <2>2
<1>3. ASSUME NEW g \in Workers \X Nat, g[1] # w, NEW what, fate' = Fate(g[1], what),
             spawned' = spawned
      PROVE  fate'[w] = "denied" /\ spawned'[w] = spawned[w]
  BY <1>1, <1>3 DEF Fate
<1>4. ASSUME NEW v \in Workers, v # w, Spawn(v)
      PROVE  fate'[w] = "denied" /\ spawned'[w] = spawned[w]
  BY <1>1, <1>4 DEF Spawn, Fate
<1>5. CASE UNCHANGED <<fate, spawned>>
  BY <1>5
<1>6. ASSUME NEW v \in Workers, StartWorker(v)
      PROVE  fate'[w] = "denied" /\ spawned'[w] = spawned[w]
  <2>1. v # w /\ Spawn(v)
    BY <1>6 DEF StartWorker, TokenInv, FateInv
  <2> QED BY <1>4, <2>1
<1>7. ASSUME NEW g \in Live, WorkerStep(g), ~UNCHANGED <<fate, spawned>>
      PROVE  fate'[w] = "denied" /\ spawned'[w] = spawned[w]
  <2>1. g \in Active
    BY <1>7 DEF WorkerStep, FnCompletes, FnCancelled, FnFails, InFn, RequestSent,
         RequestStopped, RequestDropped, Exit, IntervalReturn, IntervalTick,
         IntervalStop, Active
  <2>2. spawned' = spawned /\ \E what : fate' = Fate(g[1], what)
    BY <1>7 DEF WorkerStep, FnCompletes, FnCancelled, FnFails, RequestSent,
         RequestStopped, RequestDropped, Exit, IntervalReturn, IntervalTick,
         IntervalStop
  <2> QED BY <1>1, <1>2, <2>1, <2>2 DEF Fate
<1>8. ASSUME NEW g \in Queued, HandlerDeny(g) \/ HandlerGrant(g)
      PROVE  fate'[w] = "denied" /\ spawned'[w] = spawned[w]
  BY <1>1, <1>2, <1>8 DEF HandlerDeny, HandlerGrant, Fate
<1>9. ASSUME NEW g \in pending, HandlerRestart(g) \/ HandlerAbort(g)
      PROVE  fate'[w] = "denied" /\ spawned'[w] = spawned[w]
  <2>1. CASE HandlerRestart(g)
    BY <1>2, <1>4, <2>1 DEF HandlerRestart
  <2>2. CASE HandlerAbort(g)
    BY <1>1, <1>2, <2>2 DEF HandlerAbort, Fate
  <2> QED BY <1>9, <2>1, <2>2
<1> QED
  BY <1>5, <1>6, <1>7, <1>8, <1>9
  DEF Next, LifecycleStep, HandlerStep, AddWorker, StartHandler, StartReturn,
      Cancel, StopCall, StopReturn, HandlerShutdown, Tick, Terminated, vars

(* A worker the handler has stopped permanently is never run again: no     *)
(* request of it is left in the channel when the verdict falls.            *)
THEOREM DeniedIsFinalHolds == Spec => DeniedIsFinal
<1>1. TypeOK /\ TokenInv /\ FateInv /\ [Next]_vars
        => \A w \in Workers : fate[w] = "denied"
              => fate'[w] = "denied" /\ spawned'[w] = spawned[w]
  BY DeniedStep
<1> QED BY <1>1, FateHolds, PTL DEF Spec, DeniedIsFinal

-----------------------------------------------------------------------------
(* The restart channel.  Interval workers never ask for a restart, and the *)
(* others have one token each: while they fit in the channel, a worker     *)
(* about to send finds room, the rest being in it at most once each.       *)

RoomInv ==
  /\ \A g \in Queued \cup pending : g[1] \notin Interval
  /\ \A g \in Live : pc[g] = "req" => g[1] \notin Interval
  /\ NoDropWhenSmall

LEMMA RoomInit == Init => RoomInv
<1> SUFFICES ASSUME Init PROVE RoomInv
  OBVIOUS
<1>1. /\ pc = [g \in {} |-> "fn"] /\ restartCh = <<>> /\ pending = {}
      /\ \A w \in Workers : fate[w] = "idle"
  BY DEF Init
<1>2. Live = {} /\ Queued = {}
  BY <1>1 DEF Live, Queued
<1> QED BY <1>1, <1>2 DEF RoomInv, NoDropWhenSmall

(* The pigeonhole: a full channel leaves no other worker that could ask.   *)
LEMMA FullChannel ==
  ASSUME TypeOK, TokenInv, RoomInv, NEW g \in Live, pc[g] = "req",
         Len(restartCh) = QueueCap
  PROVE  ~(Cardinality(Workers \ Interval) <= QueueCap)
<1> DEFINE n == QueueCap + 1
           asks == [i \in 1..n |-> IF i = n THEN g[1] ELSE restartCh[i][1]]
           T == Workers \ Interval
<1> SUFFICES ASSUME Cardinality(T) <= QueueCap PROVE FALSE
  OBVIOUS
<1>1. QueueCap \in Nat /\ n \in Nat /\ 1..Len(restartCh) = 1..QueueCap
  BY QueueAssumption
<1>2. /\ IsFiniteSet(T) /\ Cardinality(T) \in Nat
      /\ IsFiniteSet(1..n) /\ Cardinality(1..n) = n
  <2>1. IsFiniteSet(T)
    BY WorkersAssumption, FS_Subset
  <2>2. Cardinality(T) \in Nat
    BY <2>1, FS_CardinalityType
  <2>3. IsFiniteSet(1..n) /\ Cardinality(1..n) = n
    <3> HIDE DEF n
    <3>1. n \in Int /\ n >= 1
      BY <1>1 DEF n
    <3> QED BY <3>1, FS_Interval
  <2> QED BY <2>1, <2>2, <2>3
<1>3. /\ g \in Active /\ g \in Goroutines /\ g[1] \in T
      /\ \A i \in 1..QueueCap : /\ restartCh[i] \in Queued
                               /\ restartCh[i] \in Goroutines /\ restartCh[i][1] \in T
  BY <1>1 DEF TypeOK, Active, Queued, RoomInv, Goroutines
<1>4. asks \in [1..n -> T]
  BY <1>1, <1>3
<1>5. PICK i, j \in 1..n : i # j /\ asks[i] = asks[j]
  <2> HIDE DEF asks, n, T
  <2>1. Cardinality(T) < Cardinality(1..n)
    BY <1>1, <1>2 DEF n
  <2> QED BY <1>2, <1>4, <2>1, FS_PigeonHole
<1>6. \A a, b \in Active \cup Queued : a[1] = b[1] => a = b
  BY TokensUnique DEF OneInstance, Tokens
<1>7. ASSUME NEW k \in 1..QueueCap PROVE restartCh[k][1] # g[1]
  BY <1>3, <1>6, <1>7 DEF TokenInv
<1>8. ASSUME NEW k \in 1..QueueCap, NEW l \in 1..QueueCap,
             restartCh[k][1] = restartCh[l][1]
      PROVE  k = l
  BY <1>1, <1>3, <1>6, <1>8 DEF TokenInv, Distinct
<1> QED BY <1>1, <1>5, <1>7, <1>8

LEMMA RoomStep == TypeOK /\ TokenInv /\ RoomInv /\ [Next]_vars => RoomInv'
<1> SUFFICES ASSUME TypeOK, TokenInv, RoomInv, [Next]_vars PROVE RoomInv'
  OBVIOUS
<1> USE DEF lifecycle, handlerState
<1>a. /\ Live \subseteq Goroutines /\ Queued \subseteq Goroutines
      /\ pending \subseteq Goroutines /\ fate \in [Workers -> Fates]
  BY DEF TypeOK, Queued
<1>b. ASSUME NEW g \in Goroutines, NEW what \in Fates \ {"dropped"},
             fate' = fate \/ fate' = Fate(g[1], what),
             Queued' \cup (pending') \subseteq Queued \cup pending \cup {g},
             g[1] \notin Interval \/ Queued' \cup (pending') \subseteq Queued \cup pending,
             \A h \in Live' : pc'[h] = "req" =>
                 (h \in Live /\ pc[h] = "req") \/ h[1] \notin Interval
      PROVE  RoomInv'
  <2>1. NoDropWhenSmall'
    BY <1>a, <1>b DEF RoomInv, NoDropWhenSmall, Fate
  <2> QED BY <1>b, <2>1 DEF RoomInv
<1>c. ASSUME NEW w \in Workers, Spawn(w), UNCHANGED restartCh, pending' \subseteq pending
      PROVE  RoomInv'
  <2> DEFINE new == <<w, spawned[w] + 1>>
  <2>1. new \in Goroutines /\ fate' = Fate(w, "running") /\ new[1] = w
    BY <1>c, SpawnFacts DEF Fate
  <2>2. \A h \in Live' : pc'[h] = "req" => h \in Live /\ pc[h] = "req"
    BY <1>c DEF Spawn, Live
  <2>3. Queued' = Queued
    BY <1>c DEF Queued
  <2> HIDE DEF new
  <2> QED BY <1>b, <1>c, <2>1, <2>2, <2>3 DEF Fates
<1>d. ASSUME NEW g \in Live, Gone(g), NEW what \in Fates \ {"dropped"},
             fate' = fate \/ fate' = Fate(g[1], what), UNCHANGED <<restartCh, pending>>
      PROVE  RoomInv'
  <2>1. Queued' = Queued /\ Live' = Live \ {g} /\ \A h \in Live' : pc'[h] = pc[h]
    BY <1>d, GoneFacts DEF Queued
  <2> QED BY <1>a, <1>b, <1>d, <2>1
<1>e. ASSUME UNCHANGED <<pc, restartCh, pending, fate>> PROVE RoomInv'
  <2>1. Live' = Live /\ Queued' = Queued
    BY <1>e DEF Live, Queued
  <2> QED BY <1>e, <2>1 DEF RoomInv, NoDropWhenSmall
<1>f. ASSUME NEW g \in Live, NEW to \in PC, pc' = Moved(g, to),
             to = "req" => g[1] \notin Interval
      PROVE  \A h \in Live' : pc'[h] = "req" =>
                 (h \in Live /\ pc[h] = "req") \/ h[1] \notin Interval
  <2>1. Live' = Live /\ \A h \in Live : pc'[h] = IF h = g THEN to ELSE pc[h]
    BY <1>f, MovedFacts
  <2> QED BY <1>f, <2>1
<1>1. ASSUME NEW w \in Workers, AddWorker(w) PROVE RoomInv'
  BY <1>1, <1>e DEF AddWorker
<1>2. CASE StartHandler \/ StartReturn \/ Cancel \/ StopCall \/ StopReturn
  BY <1>2, <1>e DEF StartHandler, StartReturn, Cancel, StopCall, StopReturn
<1>3. ASSUME NEW w \in Workers, StartWorker(w) PROVE RoomInv'
  BY <1>3, <1>c DEF StartWorker
<1>4. ASSUME NEW g \in Live, WorkerStep(g) PROVE RoomInv'
  <2>1. CASE FnCompletes(g)
    BY <2>1, <1>d DEF FnCompletes, Fates
  <2>2. CASE \E err \in Errors : FnCancelled(g, err)
    BY <2>2, <1>d DEF FnCancelled, Fates
  <2>3. CASE RequestStopped(g)
    BY <2>3, <1>d DEF RequestStopped, Fates
  <2>4. CASE IntervalStop(g)
    BY <2>4, <1>d DEF IntervalStop, Fates
  <2>5. CASE Exit(g)
    BY <2>5, <1>d DEF Exit, Fates
  <2>6. CASE RequestDropped(g)
    <3>1. ~(Cardinality(Workers \ Interval) <= QueueCap)
      BY <2>6, FullChannel DEF RequestDropped
    <3>2. Queued' = Queued /\ Live' = Live \ {g} /\ pending' = pending
          /\ \A h \in Live' : pc'[h] = pc[h]
      BY <2>6, GoneFacts DEF RequestDropped, Queued
    <3> QED BY <3>1, <3>2 DEF RoomInv, NoDropWhenSmall
  <2>7. CASE \E err \in Errors : FnFails(g, err)
    <3>1. Queued' = Queued /\ pending' = pending /\ fate' = Fate(g[1], "failed")
          /\ g[1] \notin Interval /\ pc' = Moved(g, "req")
      BY <2>7 DEF FnFails, InFn, Queued
    <3> QED BY <1>a, <1>b, <1>f, <3>1 DEF Fates, PC
  <2>8. CASE IntervalReturn(g)
    <3>1. Queued' = Queued /\ pending' = pending /\ fate' = fate /\ pc' = Moved(g, "idle")
      BY <2>8 DEF IntervalReturn, Queued
    <3> QED BY <1>a, <1>b, <1>f, <3>1 DEF Fates, PC
  <2>9. CASE IntervalTick(g)
    <3>1. Queued' = Queued /\ pending' = pending /\ fate' = fate /\ pc' = Moved(g, "fn")
      BY <2>9 DEF IntervalTick, Queued
    <3> QED BY <1>a, <1>b, <1>f, <3>1 DEF Fates, PC
  <2>10. CASE RequestSent(g)
    <3>1. /\ g \in Goroutines /\ g \notin Queued /\ g[1] \notin Interval
          /\ pending' = pending /\ fate' = Fate(g[1], "requested") /\ pc' = Moved(g, "exit")
      BY <2>10, <1>a DEF RequestSent, Active, TokenInv, RoomInv
    <3>2. Queued' = Queued \cup {g}
      BY <2>10, <3>1, SendFacts DEF RequestSent, TokenInv
    <3> QED BY <1>b, <1>f, <3>1, <3>2 DEF Fates, PC
  <2> QED BY <1>4, <2>1, <2>2, <2>3, <2>4, <2>5, <2>6, <2>7, <2>8, <2>9, <2>10
          DEF WorkerStep
<1>5. ASSUME NEW g \in Queued, HandlerDeny(g) \/ HandlerGrant(g) PROVE RoomInv'
  <2>1. /\ HandlerTake(g) /\ pc' = pc
        /\ fate' = fate \/ fate' = Fate(g[1], "denied")
        /\ pending' \subseteq pending \cup {g}
    BY <1>5 DEF HandlerDeny, HandlerGrant
  <2>2. Queued' \subseteq Queued
    BY <2>1, TakeFacts DEF TokenInv
  <2> QED BY <1>5, <1>a, <1>b, <2>1, <2>2 DEF Fates, Live
<1>6. ASSUME NEW g \in pending, HandlerRestart(g) PROVE RoomInv'
  <2>1. g[1] \in Workers /\ Spawn(g[1]) /\ UNCHANGED restartCh /\ pending' = {}
    BY <1>6, <1>a DEF HandlerRestart, Goroutines
  <2> QED BY <1>c, <2>1
<1>7. ASSUME NEW g \in pending, HandlerAbort(g) PROVE RoomInv'
  <2>1. /\ pending' = {} /\ Queued' = Queued /\ pc' = pc
        /\ fate' = Fate(g[1], "abandoned")
    BY <1>7 DEF HandlerAbort, Queued
  <2> QED BY <1>7, <1>a, <1>b, <2>1 DEF Fates, Live
<1>8. CASE HandlerShutdown \/ Tick \/ UNCHANGED vars
  BY <1>8, <1>e DEF HandlerShutdown, Tick, vars
<1> QED
  BY <1>1, <1>2, <1>3, <1>4, <1>5, <1>6, <1>7, <1>8
  DEF Next, LifecycleStep, HandlerStep, Terminated

(* With at most QueueCap workers that can fail, requestRestart never finds *)
(* the channel full: no restart is dropped.                                *)
THEOREM NoDropHolds == Spec => []NoDropWhenSmall
<1>1. Init => TypeOK /\ TokenInv /\ RoomInv
  BY InitType, TokenInit, RoomInit
<1>2. TypeOK /\ TokenInv /\ RoomInv /\ [Next]_vars => (TypeOK /\ TokenInv /\ RoomInv)'
  BY TypeStep, TokenStep, RoomStep
<1>3. RoomInv => NoDropWhenSmall
  BY DEF RoomInv
<1> QED BY <1>1, <1>2, <1>3, PTL DEF Spec

-----------------------------------------------------------------------------
(* The refinement of RestartLimiter.  The abstract window is a set of      *)
(* times: what the handler counts, the stamps it has kept and the new one, *)
(* has as many elements only if the grants of a worker differ in their     *)
(* time, which the sleep of RestartWait between two of them sees to, and   *)
(* if the stamps kept for a worker that still asks are grants of its own.  *)

NoSharedName == \A v, w \in Workers : NameOf[v] = NameOf[w] => v = w

LastGrant ==
  /\ handler = "none" => grants = {}
  /\ handler = "select" => \A r \in grants : r.at < now
  /\ handler = "wait" => \A r \in grants : r.at < wakeAt

OwnStamps ==
  \A w \in Workers : fate[w] # "denied"
    => \A s \in restartTimestamps[NameOf[w]] : s \in grants /\ s.by[1] = w

LimitInv ==
  /\ LastGrant
  /\ \A r, s \in grants : r.at = s.at => r = s
  /\ OwnStamps

LEMMA LimitInit == Init => LimitInv
BY DEF Init, LimitInv, LastGrant, OwnStamps, Names

(* A request the handler has taken is its worker's token.                  *)
LEMMA TakenAsks ==
  ASSUME TypeOK, TokenInv, FateInv, NEW g \in Queued
  PROVE  /\ g[1] \in Workers /\ fate[g[1]] = "requested"
         /\ NameOf[g[1]] = Name(g) /\ Name(g) \in Names
<1>1. g \in Goroutines /\ g[1] \in Workers
  BY StampType
<1>2. g = Latest(g[1])
  BY <1>1 DEF TokenInv, Goroutines, Latest
<1> QED BY <1>1, <1>2, StampType DEF FateInv, NothingForgotten, Name

LEMMA LimitStep ==
  ASSUME NoSharedName, TypeOK, TokenInv, FateInv, LimitInv, [Next]_vars
  PROVE  LimitInv'
<1> USE DEF lifecycle, handlerState
<1>a. /\ now \in Nat /\ wakeAt \in Nat /\ RestartWait \in Nat \ {0}
      /\ \A r \in grants : r.at \in Nat
      /\ restartTimestamps \in [Names -> SUBSET Stamps] /\ fate \in [Workers -> Fates]
  BY ConfigTypes DEF TypeOK, Stamps
<1>b. \A w \in Workers : fate[w] = "denied" => fate'[w] = "denied"
  BY DeniedStep
<1>1. ASSUME NEW g \in Queued, HandlerDeny(g) PROVE LimitInv'
  <2>1. /\ HandlerTake(g) /\ fate' = Fate(g[1], "denied")
        /\ UNCHANGED <<handler, wakeAt, now, grants>>
    BY <1>1 DEF HandlerDeny
  <2>2. LastGrant'
    BY <2>1 DEF LimitInv, LastGrant
  <2>3. ASSUME NEW w \in Workers, fate'[w] # "denied"
        PROVE  /\ fate[w] # "denied"
               /\ restartTimestamps'[NameOf[w]] = restartTimestamps[NameOf[w]]
    <3>1. g[1] \in Workers /\ w # g[1]
      BY <1>a, <2>1, <2>3, TakenAsks DEF Fate
    <3>2. NameOf[w] # Name(g)
      BY <3>1, TakenAsks DEF NoSharedName
    <3> QED BY <1>a, <1>b, <2>1, <2>3, <3>2 DEF HandlerTake, Names
  <2>4. OwnStamps'
    BY <2>1, <2>3 DEF LimitInv, OwnStamps
  <2> QED BY <2>1, <2>2, <2>4 DEF LimitInv
<1>2. ASSUME NEW g \in Queued, HandlerGrant(g) PROVE LimitInv'
  <2>1. /\ HandlerTake(g) /\ handler = "select" /\ handler' = "wait"
        /\ wakeAt' = now + RestartWait /\ grants' = grants \cup {Stamp(g)}
        /\ UNCHANGED <<fate, now>>
    BY <1>2 DEF HandlerGrant, HandlerTake
  <2>2. Stamp(g).at = now /\ Stamp(g).by = g /\ \A r \in grants : r.at < now
    BY <2>1 DEF Stamp, LimitInv, LastGrant
  <2>3. LastGrant'
    BY <1>a, <2>1, <2>2 DEF LastGrant
  <2>4. \A r, s \in grants' : r.at = s.at => r = s
    BY <1>a, <2>1, <2>2 DEF LimitInv
  <2>5. ASSUME NEW w \in Workers, fate'[w] # "denied",
               NEW s \in restartTimestamps'[NameOf[w]]
        PROVE  s \in grants' /\ s.by[1] = w
    <3>1. CASE w = g[1]
      <4>1. NameOf[w] = Name(g) /\ Name(g) \in Names
        BY <3>1, TakenAsks
      <4>2. s \in restartTimestamps[NameOf[w]] \cup {Stamp(g)}
        BY <1>a, <2>1, <2>5, <4>1 DEF HandlerTake, Pruned
      <4> QED BY <2>1, <2>2, <2>5, <3>1, <4>2 DEF LimitInv, OwnStamps
    <3>2. CASE w # g[1]
      <4>1. NameOf[w] # Name(g)
        BY <3>2, TakenAsks DEF NoSharedName
      <4>2. s \in restartTimestamps[NameOf[w]]
        BY <1>a, <2>1, <2>5, <4>1 DEF HandlerTake
      <4> QED BY <2>1, <2>5, <4>2 DEF LimitInv, OwnStamps
    <3> QED BY <3>1, <3>2
  <2>6. OwnStamps'
    BY <2>5 DEF OwnStamps
  <2> QED BY <2>3, <2>4, <2>6 DEF LimitInv
<1>3. ASSUME UNCHANGED <<restartTimestamps, grants>>, LastGrant' PROVE LimitInv'
  BY <1>3, <1>b DEF LimitInv, OwnStamps
<1>4. ASSUME NEW g \in pending, HandlerRestart(g) PROVE LimitInv'
  <2>1. LastGrant'
    BY <1>4, <1>a DEF HandlerRestart, LimitInv, LastGrant
  <2> QED BY <1>3, <1>4, <2>1 DEF HandlerRestart
<1>5. CASE StartHandler
  <2>1. handler = "none"
    BY <1>5 DEF StartHandler, TokenInv
  <2>2. LastGrant'
    BY <1>5, <2>1 DEF StartHandler, LimitInv, LastGrant
  <2> QED BY <1>3, <1>5, <2>2 DEF StartHandler
<1>6. CASE Tick
  <2>1. LastGrant'
    BY <1>6, <1>a DEF Tick, LimitInv, LastGrant
  <2> QED BY <1>3, <1>6, <2>1 DEF Tick
<1>7. ASSUME UNCHANGED <<restartTimestamps, grants, now, wakeAt>>,
             handler' \in {handler, "exited"}
      PROVE  LimitInv'
  <2>1. LastGrant'
    BY <1>7 DEF LimitInv, LastGrant
  <2> QED BY <1>3, <1>7, <2>1
<1>8. ASSUME NEW g \in pending, HandlerAbort(g) PROVE LimitInv'
  <2>1. handler' = "exited" /\ UNCHANGED <<restartTimestamps, grants>>
    BY <1>8 DEF HandlerAbort
  <2> QED BY <1>3, <2>1 DEF LastGrant
<1>9. CASE \/ LifecycleStep /\ ~StartHandler
           \/ \E g \in Live : WorkerStep(g)
           \/ HandlerShutdown \/ Terminated \/ UNCHANGED vars
  <2>1. /\ UNCHANGED <<restartTimestamps, grants, now, wakeAt>>
        /\ handler' \in {handler, "exited"}
    BY <1>9 DEF LifecycleStep, WorkerStep, AddWorker, StartWorker, StartReturn, Cancel,
         StopCall, StopReturn, FnCompletes, FnCancelled, FnFails, RequestSent,
         RequestStopped, RequestDropped, Exit, IntervalReturn, IntervalTick,
         IntervalStop, HandlerShutdown, Terminated, vars
  <2> QED BY <1>7, <2>1
<1> QED
  BY <1>1, <1>2, <1>4, <1>5, <1>6, <1>8, <1>9 DEF Next, HandlerStep, LifecycleStep

LEMMA LimitHolds ==
  ASSUME NoSharedName
  PROVE  Spec => [](TypeOK /\ TokenInv /\ FateInv /\ StampInv /\ LimitInv)
<1>1. Init => TypeOK /\ TokenInv /\ FateInv /\ StampInv /\ LimitInv
  BY InitType, TokenInit, FateInit, StampInit, LimitInit
<1>2. TypeOK /\ TokenInv /\ FateInv /\ StampInv /\ LimitInv /\ [Next]_vars
        => (TypeOK /\ TokenInv /\ FateInv /\ StampInv /\ LimitInv)'
  BY TypeStep, TokenStep, FateStep, StampStep, LimitStep
<1> QED BY <1>1, <1>2, PTL DEF Spec

(* The refinement mapping of PerWorkerLimit.                               *)
TimesOf(w) == {s.at : s \in {r \in grants : r.by[1] = w}}
Granted    == [w \in Workers |-> TimesOf(w)]
Denied     == {w \in Workers : fate[w] = "denied"}

(* The handler counts one stamp more than the abstract window has times.   *)
LEMMA CountsWindow ==
  ASSUME NoSharedName, TypeOK, TokenInv, FateInv, StampInv, LimitInv,
         NEW g \in Queued, handler = "select"
  PROVE  /\ Limiter!Cardinality(Limiter!Recent(g[1])) \in Nat
         /\ Cardinality(Pruned(g)) = Limiter!Cardinality(Limiter!Recent(g[1])) + 1
<1> DEFINE w == g[1]
           R == {s \in restartTimestamps[Name(g)] : s.at >= now - RestartWindow}
           T == {t \in TimesOf(w) : t >= now - RestartWindow}
           f == [s \in R |-> s.at]
<1>1. /\ w \in Workers /\ fate[w] # "denied" /\ NameOf[w] = Name(g) /\ Name(g) \in Names
      /\ now \in Nat /\ RestartWindow \in Nat \ {0}
  BY TakenAsks, ConfigTypes DEF TypeOK
<1>2. \A r \in grants : r.at \in Nat /\ r.at < now
  BY DEF TypeOK, Stamps, LimitInv, LastGrant
<1>3. \A s \in R : s \in grants /\ s.by[1] = w
  BY <1>1 DEF LimitInv, OwnStamps
<1>4. \A r \in grants : r.by[1] = w /\ r.at >= now - RestartWindow => r \in R
  <2> SUFFICES ASSUME NEW r \in grants, r.by[1] = w, r.at >= now - RestartWindow
               PROVE  r \in R
    OBVIOUS
  <2>1. Name(r.by) = Name(g)
    BY <1>1 DEF Name
  <2> QED BY <1>1, <1>2, <2>1 DEF StampInv
<1>5. f \in Bijection(R, T)
  <2>1. f \in [R -> T]
    BY <1>3 DEF TimesOf
  <2>2. \A r, s \in R : f[r] = f[s] => r = s
    BY <1>3 DEF LimitInv
  <2>3. \A t \in T : \E s \in R : f[s] = t
    BY <1>4 DEF TimesOf
  <2> HIDE DEF f, R, T
  <2> QED BY <2>1, <2>2, <2>3 DEF Bijection, Injection, Surjection, IsInjective
<1>6. IsFiniteSet(R)
  BY <1>1, FS_Subset DEF StampInv
<1>7. IsFiniteSet(T) /\ Cardinality(T) = Cardinality(R) /\ Cardinality(T) \in Nat
  <2> HIDE DEF f, R, T
  <2>1. ExistsBijection(R, T)
    BY <1>5 DEF ExistsBijection
  <2> QED BY <1>6, <2>1, FS_Bijection, FS_CardinalityType
<1>8. Cardinality(Pruned(g)) = Cardinality(R) + 1
  <2>1. Stamp(g).at = now
    BY DEF Stamp
  <2>2. Stamp(g) \notin R
    BY <1>2, <1>3, <2>1
  <2>3. Pruned(g) = R \cup {Stamp(g)}
    BY <1>1, <2>1 DEF Pruned
  <2> HIDE DEF R
  <2> QED BY <1>6, <2>2, <2>3, FS_AddElement
<1>9. Limiter!Cardinality(Limiter!Recent(w)) = Cardinality(T)
  <2>1. Limiter!Recent(w) = T
    BY <1>1 DEF Limiter!Recent, TimesOf
  <2>2. Limiter!Cardinality(T) = Cardinality(T)
    BY DEF Limiter!Cardinality, Cardinality, Limiter!IsFiniteSet, IsFiniteSet
  <2> HIDE DEF T
  <2> QED BY <2>1, <2>2
<1> QED BY <1>7, <1>8, <1>9

LEMMA GrantSimulates ==
  ASSUME NoSharedName, TypeOK, TokenInv, FateInv, StampInv, LimitInv,
         NEW g \in Queued, HandlerGrant(g)
  PROVE  Limiter!Grant(g[1])
<1>1. /\ handler = "select" /\ ~Exhausted(g) /\ grants' = grants \cup {Stamp(g)}
      /\ UNCHANGED <<fate, now>>
  BY DEF HandlerGrant, HandlerTake
<1>2. g[1] \in Workers /\ g[1] \notin Denied
  BY TakenAsks DEF Denied
<1>3. Limiter!Cardinality(Limiter!Recent(g[1])) < MaxRestarts
  BY <1>1, CountsWindow, ConfigTypes DEF Exhausted
<1>4. Stamp(g).at = now /\ Stamp(g).by = g
  BY DEF Stamp
<1>5. TimesOf(g[1])' = TimesOf(g[1]) \cup {now}
  BY <1>1, <1>4 DEF TimesOf
<1>6. \A v \in Workers \ {g[1]} : TimesOf(v)' = TimesOf(v)
  BY <1>1, <1>4 DEF TimesOf
<1>7. Granted' = [Granted EXCEPT ![g[1]] = @ \cup {now}]
  BY <1>2, <1>5, <1>6 DEF Granted
<1>8. Denied' = Denied
  BY <1>1 DEF Denied
<1> QED BY <1>1, <1>2, <1>3, <1>7, <1>8 DEF Limiter!Grant, Granted, TimesOf, Denied

LEMMA DenySimulates ==
  ASSUME NoSharedName, TypeOK, TokenInv, FateInv, StampInv, LimitInv,
         NEW g \in Queued, HandlerDeny(g)
  PROVE  Limiter!Deny(g[1])
<1>1. /\ handler = "select" /\ Exhausted(g) /\ fate' = Fate(g[1], "denied")
      /\ UNCHANGED <<grants, now>>
  BY DEF HandlerDeny, HandlerTake
<1>2. g[1] \in Workers /\ g[1] \notin Denied
  BY TakenAsks DEF Denied
<1>3. Limiter!Cardinality(Limiter!Recent(g[1])) >= MaxRestarts
  BY <1>1, CountsWindow, ConfigTypes DEF Exhausted
<1>4. Denied' = Denied \cup {g[1]}
  BY <1>1, <1>2 DEF Denied, Fate, TypeOK
<1>5. Granted' = Granted
  BY <1>1 DEF Granted, TimesOf
<1> QED BY <1>1, <1>2, <1>3, <1>4, <1>5 DEF Limiter!Deny, Granted, TimesOf, Denied

LEMMA LimiterStep ==
  ASSUME NoSharedName, TypeOK, TokenInv, FateInv, StampInv, LimitInv, [Next]_vars
  PROVE  [Limiter!LimiterNext]_(Limiter!limiterVars)
<1> USE DEF lifecycle, handlerState
<1>1. CASE \E g \in Queued : HandlerDeny(g) \/ HandlerGrant(g)
  BY <1>1, TakenAsks, GrantSimulates, DenySimulates DEF Limiter!LimiterNext
<1>2. ASSUME UNCHANGED <<grants, now>>, Denied' = Denied
      PROVE  UNCHANGED Limiter!limiterVars
  <2>1. Granted' = Granted
    BY <1>2 DEF Granted, TimesOf
  <2> QED BY <1>2, <2>1 DEF Limiter!limiterVars, Granted, TimesOf, Denied
<1>3. CASE Tick
  <2>1. now' = now + 1 /\ UNCHANGED <<grants, fate>>
    BY <1>3 DEF Tick
  <2>2. Granted' = Granted /\ Denied' = Denied
    BY <2>1 DEF Granted, TimesOf, Denied
  <2> QED BY <2>1, <2>2
          DEF Limiter!LimiterNext, Limiter!Advance, Granted, TimesOf, Denied
<1>4. CASE ~Tick /\ ~ \E g \in Queued : HandlerDeny(g) \/ HandlerGrant(g)
  <2>1. UNCHANGED <<grants, now>>
    BY <1>4 DEF Next, LifecycleStep, WorkerStep, HandlerStep, AddWorker,
         StartHandler, StartWorker, StartReturn, Cancel, StopCall, StopReturn,
         FnCompletes, FnCancelled, FnFails, RequestSent, RequestStopped,
         RequestDropped, Exit, IntervalReturn, IntervalTick, IntervalStop,
         HandlerRestart, HandlerAbort, HandlerShutdown, Terminated, vars
  <2>2. \A w \in Workers : fate[w] = "denied" => fate'[w] = "denied"
    BY DeniedStep
  <2>3. \/ fate' = fate
        \/ \E w : \E what \in Fates \ {"denied"} : fate' = Fate(w, what)
    BY <1>4 DEF Next, LifecycleStep, WorkerStep, HandlerStep, AddWorker,
         StartHandler, StartWorker, StartReturn, Cancel, StopCall, StopReturn,
         FnCompletes, FnCancelled, FnFails, RequestSent, RequestStopped,
         RequestDropped, Exit, IntervalReturn, IntervalTick, IntervalStop,
         HandlerRestart, HandlerAbort, HandlerShutdown, Terminated, vars, Spawn, Fates
  <2>4. \A w \in Workers : fate'[w] = "denied" => fate[w] = "denied"
    BY <2>3 DEF Fate, TypeOK
  <2> QED BY <1>2, <2>1, <2>2, <2>4 DEF Denied
<1> QED BY <1>1, <1>3, <1>4

(* Each worker has the restart limit RestartLimiter describes, if no two   *)
(* share a name: a request is granted exactly when fewer than MaxRestarts  *)
(* of its own restarts lie in the window, and a refusal is final, whatever *)
(* the goroutines, the channel and the timers do (handleRestarts).         *)
THEOREM PerWorkerLimitHolds ==
  ASSUME \A v, w \in Workers : NameOf[v] = NameOf[w] => v = w
  PROVE  Spec => PerWorkerLimit
<1>1. NoSharedName
  BY DEF NoSharedName
<1>2. Init => Limiter!LimiterInit
  BY DEF Init, Limiter!LimiterInit
<1>3. TypeOK /\ TokenInv /\ FateInv /\ StampInv /\ LimitInv /\ [Next]_vars
        => [Limiter!LimiterNext]_(Limiter!limiterVars)
  BY <1>1, LimiterStep
<1>4. Spec => [](TypeOK /\ TokenInv /\ FateInv /\ StampInv /\ LimitInv)
  BY <1>1, LimitHolds
<1> QED BY <1>2, <1>3, <1>4, PTL DEF Spec, PerWorkerLimit, Limiter!LimiterSpec
=============================================================================
