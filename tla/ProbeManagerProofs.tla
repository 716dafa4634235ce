------------------------- MODULE ProbeManagerProofs -------------------------
(***************************************************************************)
(* Theorems about ProbeManager, for all probes, named and critical in any  *)
(* way, and every number of starts, overlapping or not.                    *)
(***************************************************************************)
EXTENDS ProbeManagerProps, FiniteSetTheorems, TLAPS

(* m.wg counts the goroutines that are alive, all of them made by a Start  *)
(* that has been called.                                                   *)
TypeInv ==
  /\ TypeOK
  /\ \A r \in Alive : r[1] <= starts
  /\ wg = Cardinality(Alive)
  /\ StopQuiescent

(* Under m.mu at most one record is half written, and its Healthy is that  *)
(* of the error still to be written; any other record has an error iff it  *)
(* fails.  Before the first Start no probe has been checked.               *)
Writing(n) == \E r \in Runs : pc[r] = "half" /\ NameOf(r) = n
StatusInv ==
  /\ \A r, q \in Runs : pc[r] = "half" /\ pc[q] = "half" => r = q
  /\ \A r \in Runs : pc[r] = "half" =>
       /\ status[NameOf(r)].checked
       /\ status[NameOf(r)].healthy <=> got[r] = "none"
  /\ \A n \in Names : ~Writing(n) =>
       (status[n].lastError = "none" <=> ~Failing(status[n]))
  /\ starts = 0 => \A n \in Names : status[n] = NewStatus

(* What a request has seen includes what is now, and what the step it has  *)
(* reached and the fields it has read so far say of the probe it is at.    *)
Seen ==
  /\ Answering => \A n \in Names : Failing(status[n]) \in seen[n]
  /\ (At("healthy") \/ At("error")) =>
       FALSE \in seen[Asked.name] \/ status[Asked.name].lastError # "none"
  /\ At("error") => TRUE \in seen[Asked.name] \/ status[Asked.name].lastError = "none"
  /\ At("reason") => TRUE \in seen[Asked.name]

(* The part of the answer that is settled is honest.                       *)
Honest ==
  /\ wired = 0 => request.at = 0
  /\ request.at <= wired + 1
  /\ ~request.torn =>
       /\ request.critFail => SawFailing(TRUE)
       /\ request.degraded => SawFailing(FALSE)
       /\ ~request.critFail =>
            \A i \in 1..wired : i < request.at /\ Config[i].critical =>
                               FALSE \in seen[Config[i].name]

(* No error without a text is waiting to be recorded.                      *)
Worded == \A r \in Runs : got[r] # "empty"

HonestInv == StatusInv /\ Worded /\ Seen /\ Honest

-----------------------------------------------------------------------------
LEMMA ConstantFacts ==
  /\ Len(Config) \in Nat /\ MaxStarts \in Nat
  /\ IsFiniteSet(Runs)
  /\ \A r \in Runs : r[1] \in Starts /\ r[2] \in Probes /\ NameOf(r) \in Names
  /\ \A i \in Probes : Config[i].name \in Names
<1>1. Len(Config) \in Nat /\ MaxStarts \in Nat
  BY ConfigAssumption, BoundsAssumption
<1>2. IsFiniteSet(Runs)
  <2>1. IsFiniteSet(Starts) /\ IsFiniteSet(Probes)
    BY <1>1, FS_Interval DEF Starts, Probes
  <2> QED BY <2>1, FS_Product DEF Runs
<1> QED BY <1>1, <1>2 DEF Runs, Names, NameOf

LEMMA AliveFinite == IsFiniteSet(Alive) /\ Cardinality(Alive) \in Nat
BY ConstantFacts, FS_Subset, FS_CardinalityType DEF Alive

LEMMA TypeInit == Init => TypeInv
<1> SUFFICES ASSUME Init PROVE TypeInv
  OBVIOUS
<1>1. TypeOK
  <2>1. /\ registered \in 0..Len(Config) /\ wired \in 0..registered
        /\ starts \in 0..MaxStarts /\ cancel \in 0..starts
        /\ 0 \in 0..Len(Config) + 1
    BY ConstantFacts DEF Init
  <2>2. NewStatus \in [healthy : BOOLEAN, lastError : Errors, checked : BOOLEAN]
    BY DEF NewStatus, Errors
  <2>3. request \in [at : 0..Len(Config) + 1,
                    step : {"look", "healthy", "error", "reason"},
                    critFail : BOOLEAN, degraded : BOOLEAN, torn : BOOLEAN]
    BY <2>1 DEF Init, NoRequest
  <2>4. got \in [Runs -> Errors]
    BY DEF Init, Errors
  <2> QED BY <2>1, <2>2, <2>3, <2>4 DEF Init, TypeOK
<1>2. Alive = {}
  BY DEF Init, Alive
<1> QED BY <1>1, <1>2, FS_EmptySet DEF Init, TypeInv, StopQuiescent

(* The goroutines a Start makes are new, and as many as are registered.    *)
LEMMA StartCounts ==
  ASSUME TypeInv, Start
  PROVE  /\ wg' = Cardinality(Alive') /\ wg' \in Nat
         /\ \A r \in Alive' : r[1] <= starts'
<1> DEFINE New == {starts + 1} \X (1..registered)
<1>1. /\ starts \in Nat /\ registered \in Nat /\ registered <= Len(Config)
      /\ starts + 1 \in Starts /\ 1..registered \subseteq Probes
  BY ConstantFacts DEF TypeInv, TypeOK, Start, Starts, Probes
<1>2. New \subseteq Runs
  BY <1>1 DEF Runs
<1>3. \A r \in New : r[1] = starts + 1 /\ r[2] \in 1..registered
  OBVIOUS
<1>4. \A r \in Runs : r[1] = starts + 1 /\ r[2] <= registered => r \in New
  BY <1>1 DEF Runs, Probes
<1>5. Alive' = Alive \cup New
  <2>1. \A r \in Runs : r \in Alive' <=> (r \in New \/ r \in Alive)
    BY <1>1, <1>3, <1>4 DEF Start, Alive
  <2> QED BY <1>2, <2>1 DEF Alive
<1>6. Alive \cap New = {}
  BY <1>1, <1>3 DEF TypeInv
<1>7. IsFiniteSet(New) /\ Cardinality(New) = registered
  <2>1. IsFiniteSet(1..registered) /\ Cardinality(1..registered) = registered
    BY <1>1, FS_Interval
  <2>2. IsFiniteSet({starts + 1}) /\ Cardinality({starts + 1}) = 1
    BY FS_Singleton
  <2>3. Cardinality(New) = 1 * registered /\ IsFiniteSet(New)
    BY <2>1, <2>2, FS_Product, ZenonT(30)
  <2> QED BY <1>1, <2>3
<1>8. Cardinality(Alive \cup New) = Cardinality(Alive) + registered
  <2> HIDE DEF New
  <2>1. Cardinality(Alive \cap New) = 0
    BY <1>6, FS_EmptySet
  <2>2. Cardinality(Alive \cup New) = Cardinality(Alive) + Cardinality(New) - 0
    BY <1>7, <2>1, AliveFinite, FS_Union
  <2> QED BY <1>1, <1>7, <2>2, AliveFinite
<1>9. \A r \in Alive' : r[1] <= starts'
  <2>1. \A r \in Alive : r[1] \in Nat /\ r[1] <= starts
    BY ConstantFacts DEF TypeInv, Alive, Starts
  <2> QED BY <1>1, <1>3, <1>5, <2>1 DEF Start
<1> QED BY <1>1, <1>5, <1>8, <1>9, AliveFinite DEF TypeInv, Start

(* A goroutine that returns is one fewer.                                  *)
LEMMA ReturnCounts ==
  ASSUME TypeInv, NEW r \in Runs, RunReturns(r)
  PROVE  Alive' = Alive \ {r} /\ wg' = Cardinality(Alive') /\ wg' \in Nat
<1>1. r \in Alive /\ Alive' = Alive \ {r}
  BY DEF RunReturns, Alive, TypeInv, TypeOK
<1>2. IsFiniteSet(Alive') /\ Cardinality(Alive') = Cardinality(Alive) - 1
  BY <1>1, AliveFinite, FS_RemoveElement
<1>3. Cardinality(Alive') \in Nat
  BY <1>2, FS_CardinalityType
<1> QED BY <1>1, <1>2, <1>3 DEF TypeInv, RunReturns

LEMMA TypeStep == TypeInv /\ [Next]_vars => TypeInv'
<1> SUFFICES ASSUME TypeInv, [Next]_vars PROVE TypeInv'
  OBVIOUS
<1> USE DEF manager, http, vars
<1>0. /\ TypeOK /\ Len(Config) \in Nat /\ MaxStarts \in Nat
      /\ registered \in Nat /\ wired \in Nat /\ starts \in Nat
      /\ \A r \in Runs : r[1] \in Starts /\ r[2] \in Probes /\ NameOf(r) \in Names
  BY ConstantFacts DEF TypeInv, TypeOK
<1>a. ASSUME Alive' = Alive, UNCHANGED <<wg, stop, starts>>, TypeOK' PROVE TypeInv'
  BY <1>a DEF TypeInv, StopQuiescent
<1>b. ASSUME UNCHANGED pc PROVE Alive' = Alive
  BY <1>b DEF Alive
<1>c. ASSUME NEW r \in Runs, pc[r] # "none", NEW to, to # "none",
             pc' = [pc EXCEPT ![r] = to]
      PROVE  Alive' = Alive
  BY <1>c, <1>0 DEF Alive, TypeOK
<1>1. CASE Register
  <2>1. TypeOK'
    <3>1. /\ registered' \in 0..Len(Config) /\ wired' \in 0..registered'
          /\ NewStatus \in [healthy : BOOLEAN, lastError : Errors, checked : BOOLEAN]
      BY <1>0, <1>1 DEF Register, TypeOK, NewStatus, Errors
    <3> QED BY <1>1, <1>0, <3>1 DEF Register, TypeOK
  <2> QED BY <1>1, <2>1, <1>a, <1>b DEF Register
<1>2. CASE RegisterWithHealthHandler
  <2>1. TypeOK'
    BY <1>2, <1>0 DEF RegisterWithHealthHandler, TypeOK
  <2> QED BY <1>2, <2>1, <1>a, <1>b DEF RegisterWithHealthHandler
<1>3. CASE Start
  <2>1. TypeOK'
    <3>1. /\ starts' \in 0..MaxStarts /\ cancel' \in 0..starts'
          /\ cancelled' \subseteq 1..starts'
      BY <1>0, <1>3 DEF Start, TypeOK
    <3>2. pc' \in [Runs -> {"none", "check", "record", "half", "wait"}]
      BY <1>0, <1>3 DEF Start, TypeOK
    <3> QED BY <1>3, <1>0, <3>1, <3>2, StartCounts DEF Start, TypeOK
  <2> QED BY <1>3, <2>1, StartCounts DEF Start, TypeInv, StopQuiescent
<1>4. CASE StopCall
  <2>1. TypeOK'
    BY <1>4, <1>0 DEF StopCall, TypeOK
  <2> QED BY <1>4, <2>1, <1>b DEF StopCall, TypeInv, StopQuiescent
<1>5. CASE StopReturn
  <2>1. TypeOK'
    BY <1>5, <1>0 DEF StopReturn, TypeOK
  <2>2. Alive = {}
    BY <1>5, AliveFinite, FS_EmptySet DEF TypeInv, StopReturn
  <2> QED BY <1>5, <2>1, <2>2, <1>b DEF StopReturn, TypeInv, StopQuiescent
<1>6. CASE ParentCancel
  <2>1. TypeOK'
    BY <1>6, <1>0 DEF ParentCancel, TypeOK
  <2> QED BY <1>6, <2>1, <1>a, <1>b DEF ParentCancel
<1>7. ASSUME NEW r \in Runs, CheckReturns(r) PROVE TypeInv'
  <2>1. TypeOK'
    BY <1>7, <1>0 DEF CheckReturns, TypeOK, Errors
  <2> QED BY <1>7, <2>1, <1>a, <1>c DEF CheckReturns
<1>8. ASSUME NEW r \in Runs, Record(r) PROVE TypeInv'
  <2>1. NameOf(r) \in Names /\ r[2] \in Probes
    BY <1>0
  <2>2. /\ seen' \in [Names -> SUBSET BOOLEAN]
        /\ last' \in [Probes -> {"unchecked", "pass", "fail"}]
        /\ pc' \in [Runs -> {"none", "check", "record", "half", "wait"}]
    BY <1>8, <1>0, <2>1 DEF Record, TypeOK, Failing
  <2>3. status' \in [Names -> [healthy : BOOLEAN, lastError : Errors, checked : BOOLEAN]]
    <3> DEFINE Records == [healthy : BOOLEAN, lastError : Errors, checked : BOOLEAN]
    <3>1. \A s \in Records, h \in BOOLEAN :
            [s EXCEPT !.checked = TRUE, !.healthy = h] \in Records
      OBVIOUS
    <3>2. PICK h \in BOOLEAN : h = (got[r] = "none")
      OBVIOUS
    <3>3. /\ status \in [Names -> Records] /\ status[NameOf(r)] \in Records
          /\ status' = [status EXCEPT ![NameOf(r)] =
                         [status[NameOf(r)] EXCEPT !.checked = TRUE, !.healthy = h]]
      BY <1>8, <1>0, <2>1, <3>2 DEF Record, TypeOK
    <3> QED BY <3>1, <3>3
  <2>4. TypeOK'
    BY <1>8, <1>0, <2>2, <2>3 DEF Record, TypeOK
  <2> QED BY <1>8, <2>4, <1>a, <1>c DEF Record
<1>9. ASSUME NEW r \in Runs, RecordError(r) PROVE TypeInv'
  <2>1. NameOf(r) \in Names /\ got[r] \in Errors
    BY <1>0 DEF TypeOK, Errors
  <2>2. "none" \in Errors
    BY DEF Errors
  <2>3. TextOf(got[r]) \in Errors
    BY <2>1, <2>2 DEF TextOf
  <2>4. TypeOK'
    <3> DEFINE Records == [healthy : BOOLEAN, lastError : Errors, checked : BOOLEAN]
    <3>1. PICK n, e : n = NameOf(r) /\ e = TextOf(got[r])
      OBVIOUS
    <3>2. /\ status \in [Names -> Records] /\ status[n] \in Records
          /\ status' = [status EXCEPT ![n] = [status[n] EXCEPT !.lastError = e]]
      BY <1>0, <1>9, <2>1, <3>1 DEF RecordError, TypeOK
    <3>3. [status[n] EXCEPT !.lastError = e] \in Records
      BY <2>3, <3>1, <3>2
    <3> HIDE DEF Records
    <3>4. status' \in [Names -> Records]
      BY <3>2, <3>3
    <3>5. /\ pc' \in [Runs -> {"none", "check", "record", "half", "wait"}]
          /\ got' \in [Runs -> Errors]
      BY <1>0, <1>9, <2>1, <2>2 DEF RecordError, TypeOK
    <3> QED BY <1>9, <1>0, <3>4, <3>5 DEF RecordError, TypeOK, Records
  <2> QED BY <1>9, <2>4, <1>a, <1>c DEF RecordError
<1>10. ASSUME NEW r \in Runs, Tick(r) PROVE TypeInv'
  <2>1. TypeOK'
    BY <1>10, <1>0 DEF Tick, TypeOK
  <2> QED BY <1>10, <2>1, <1>a, <1>c DEF Tick
<1>11. ASSUME NEW r \in Runs, RunReturns(r) PROVE TypeInv'
  <2>1. TypeOK'
    BY <1>11, <1>0, ReturnCounts DEF RunReturns, TypeOK
  <2> QED BY <1>11, <2>1, ReturnCounts DEF RunReturns, TypeInv, StopQuiescent
<1>12. ASSUME NEW i \in Probes, Turn(i) PROVE TypeInv'
  <2>1. TypeOK'
    BY <1>12, <1>0 DEF Turn, TypeOK
  <2> QED BY <1>12, <2>1, <1>a, <1>b DEF Turn
<1>13. CASE RequestBegins
  <2>1. TypeOK'
    <3>1. 1 \in 0..Len(Config) + 1
      BY <1>0
    <3>2. seen' \in [Names -> SUBSET BOOLEAN]
      BY <1>13, <1>0 DEF RequestBegins, TypeOK, Failing
    <3> QED BY <1>13, <1>0, <3>1, <3>2 DEF RequestBegins, TypeOK, NoRequest
  <2> QED BY <1>13, <2>1, <1>a, <1>b DEF RequestBegins
<1>14. CASE RequestStep
  <2>1. ASSUME Answering
        PROVE  /\ request.at + 1 \in 0..Len(Config) + 1
               /\ wired + 1 \in 0..Len(Config) + 1 /\ Asked.critical \in BOOLEAN
    <3>1. request.at \in 1..Len(Config)
      BY <1>0, <2>1 DEF Answering, TypeOK
    <3> QED BY <1>0, <3>1, ConfigAssumption DEF TypeOK, Asked
  <2> DEFINE Asks == [at : 0..Len(Config) + 1,
                      step : {"look", "healthy", "error", "reason"},
                      critFail : BOOLEAN, degraded : BOOLEAN, torn : BOOLEAN]
  <2>a. ASSUME Answering, Passes \/ Step("error") \/ Step("reason")
        PROVE  request' \in Asks
    <3>1. request \in Asks /\ request.at + 1 \in 0..Len(Config) + 1
      BY <2>1, <2>a, <1>0 DEF TypeOK
    <3> QED BY <2>a, <3>1 DEF Passes, Step
  <2>2. CASE RequestLooks
    <3>1. TypeOK'
      BY <2>2, <1>0 DEF RequestLooks, TypeOK, Step
    <3> QED BY <2>2, <3>1, <1>a, <1>b DEF RequestLooks
  <2>3. CASE RequestReadsHealthy
    <3>1. TypeOK'
      <4>1. request' \in Asks
        BY <2>3, <2>a DEF RequestReadsHealthy, At
      <4> HIDE DEF Asks
      <4>2. UNCHANGED <<manager, status, pc, got, up, seen, last>>
        BY <2>3 DEF RequestReadsHealthy
      <4> QED BY <1>0, <4>1, <4>2 DEF TypeOK, Asks
    <3> QED BY <2>3, <3>1, <1>a, <1>b DEF RequestReadsHealthy
  <2>4. CASE RequestReadsError
    <3>1. TypeOK'
      <4>1. request' \in Asks
        BY <2>4, <2>a DEF RequestReadsError, At
      <4> HIDE DEF Asks
      <4>2. UNCHANGED <<manager, status, pc, got, up, seen, last>>
        BY <2>4 DEF RequestReadsError
      <4> QED BY <1>0, <4>1, <4>2 DEF TypeOK, Asks
    <3> QED BY <2>4, <3>1, <1>a, <1>b DEF RequestReadsError
  <2>5. CASE RequestReadsReason
    <3>1. TypeOK'
      BY <2>1, <2>5, <1>0 DEF RequestReadsReason, TypeOK, Fails, At
    <3> QED BY <2>5, <3>1, <1>a, <1>b DEF RequestReadsReason
  <2> QED BY <1>14, <2>2, <2>3, <2>4, <2>5 DEF RequestStep
<1>15. CASE UNCHANGED vars
  <2>1. TypeOK'
    BY <1>0, <1>15 DEF TypeOK
  <2> QED BY <1>15, <2>1, <1>a, <1>b
<1> QED
  BY <1>1, <1>2, <1>3, <1>4, <1>5, <1>6, <1>7, <1>8, <1>9, <1>10, <1>11, <1>12,
     <1>13, <1>14, <1>15 DEF Next, RunStep

(* The manager, its goroutines and a request keep their shape.             *)
THEOREM TypeCorrect == Spec => []TypeOK
<1>1. TypeInv => TypeOK
  BY DEF TypeInv
<1> QED BY <1>1, TypeInit, TypeStep, PTL DEF Spec

(* When Stop has returned no probe goroutine is left.                      *)
THEOREM StopQuiescentHolds == Spec => []StopQuiescent
<1>1. TypeInv => StopQuiescent
  BY DEF TypeInv
<1> QED BY <1>1, TypeInit, TypeStep, PTL DEF Spec

-----------------------------------------------------------------------------
(* The status records.                                                     *)

LEMMA StatusInit == Init => StatusInv
BY DEF Init, StatusInv, Failing, NewStatus

LEMMA WordedStep ==
  ASSUME Mute = {}
  PROVE  TypeInv /\ Worded /\ [Next]_vars => Worded'
<1> SUFFICES ASSUME TypeInv, Worded, [Next]_vars PROVE Worded'
  OBVIOUS
<1> USE DEF manager, http, vars
<1>0. got \in [Runs -> Errors]
  BY DEF TypeInv, TypeOK
<1>1. ASSUME NEW r \in Runs, CheckReturns(r) PROVE Worded'
  <2>1. PICK err \in {"none", "down", "cancelled"} : got' = [got EXCEPT ![r] = err]
    BY <1>1 DEF CheckReturns
  <2> QED BY <1>0, <2>1 DEF Worded
<1>2. ASSUME NEW r \in Runs, RecordError(r) PROVE Worded'
  BY <1>0, <1>2 DEF RecordError, Worded
<1>3. ASSUME got' = got PROVE Worded'
  BY <1>3 DEF Worded
<1>4. ASSUME NEW r \in Runs, Record(r) \/ Tick(r) \/ RunReturns(r) PROVE Worded'
  BY <1>3, <1>4 DEF Record, Tick, RunReturns
<1>5. ASSUME NEW i \in Probes, Turn(i) PROVE Worded'
  BY <1>3, <1>5 DEF Turn
<1>6. CASE \/ Register \/ RegisterWithHealthHandler \/ Start \/ StopCall \/ StopReturn
           \/ ParentCancel \/ RequestBegins \/ UNCHANGED vars
  BY <1>3, <1>6 DEF Register, RegisterWithHealthHandler, Start, StopCall, StopReturn,
                    ParentCancel, RequestBegins
<1>7. CASE RequestStep
  BY <1>3, <1>7 DEF RequestStep, RequestLooks, RequestReadsHealthy, RequestReadsError,
                    RequestReadsReason
<1> QED BY <1>1, <1>2, <1>4, <1>5, <1>6, <1>7 DEF Next, RunStep

LEMMA StatusStep == TypeInv /\ StatusInv /\ Worded /\ [Next]_vars => StatusInv'
<1> SUFFICES ASSUME TypeInv, StatusInv, Worded, [Next]_vars PROVE StatusInv'
  OBVIOUS
<1> USE DEF manager, http, vars
<1>0. /\ TypeOK /\ starts \in Nat
      /\ \A r \in Runs : r[1] \in Starts /\ NameOf(r) \in Names
      /\ \A r \in Runs : pc[r] # "none" => starts # 0
      /\ starts = 0 => \A r \in Runs : pc[r] = "none"
  <2>1. TypeOK /\ starts \in Nat
    BY DEF TypeInv, TypeOK
  <2>2. \A r \in Runs : r[1] \in Starts /\ NameOf(r) \in Names
    BY ConstantFacts
  <2>3. \A r \in Runs : pc[r] # "none" => r[1] <= starts
    BY DEF TypeInv, Alive
  <2>4. \A r \in Runs : pc[r] # "none" => starts # 0
    BY <2>1, <2>2, <2>3 DEF Starts
  <2> QED BY <2>1, <2>2, <2>4
<1>a. ASSUME UNCHANGED <<status, starts>>,
             \A r \in Runs : pc'[r] = "half" <=> pc[r] = "half",
             \A r \in Runs : pc[r] = "half" => got'[r] = got[r]
      PROVE  StatusInv'
  <2>1. \A n : Writing(n)' <=> Writing(n)
    BY <1>a DEF Writing, NameOf
  <2>2. \A r \in Runs : NameOf(r)' = NameOf(r)
    BY DEF NameOf
  <2> QED BY <1>a, <2>1, <2>2 DEF StatusInv, Failing
<1>1. CASE Register
  <2>1. \A n \in Names : status'[n] = NewStatus
    BY <1>0, <1>1 DEF Register, StatusInv, TypeOK
  <2>2. \A r \in Runs : pc'[r] = "none"
    BY <1>0, <1>1 DEF Register
  <2> QED BY <2>1, <2>2 DEF StatusInv, Failing, NewStatus
<1>2. CASE Start
  <2>1. \A r \in Runs : pc'[r] = "half" <=> pc[r] = "half"
    <3>1. ASSUME NEW r \in Runs, r[1] = starts + 1 PROVE pc[r] = "none"
      BY <1>0, <3>1 DEF TypeInv, Alive
    <3> QED BY <1>0, <1>2, <3>1 DEF Start
  <2>2. \A n : Writing(n)' <=> Writing(n)
    BY <2>1 DEF Writing, NameOf
  <2>3. \A r \in Runs : NameOf(r)' = NameOf(r)
    BY DEF NameOf
  <2> QED BY <1>0, <1>2, <2>1, <2>2, <2>3 DEF Start, StatusInv, Failing
<1>3. ASSUME NEW r \in Runs, CheckReturns(r) PROVE StatusInv'
  BY <1>0, <1>3, <1>a DEF CheckReturns, TypeOK
<1>4. ASSUME NEW r \in Runs, Record(r) PROVE StatusInv'
  <2> DEFINE n == NameOf(r)
  <2>1. n \in Names /\ starts' # 0 /\ n' = n
    BY <1>0, <1>4 DEF Record, NameOf
  <2>2. \A q \in Runs : pc'[q] = "half" <=> q = r
    BY <1>0, <1>4 DEF Record, MuFree, TypeOK
  <2>3. /\ status'[n].checked
        /\ status'[n].healthy <=> got'[r] = "none"
        /\ \A x \in Names : x # n => status'[x] = status[x]
    BY <1>0, <1>4, <2>1 DEF Record, TypeOK
  <2>4. \A x \in Names : ~Writing(x)' => x # n /\ ~Writing(x)
    BY <1>4, <2>1, <2>2 DEF Record, MuFree, Writing, NameOf
  <2>5. \A q \in Runs : NameOf(q)' = NameOf(q)
    BY DEF NameOf
  <2>6. \A q \in Runs : pc'[q] = "half" => q = r /\ NameOf(q)' = n
    BY <2>1, <2>2
  <2>7. \A q, o \in Runs : pc'[q] = "half" /\ pc'[o] = "half" => q = o
    BY <2>6
  <2>8. \A q \in Runs : pc'[q] = "half" =>
          /\ status'[NameOf(q)'].checked
          /\ status'[NameOf(q)'].healthy <=> got'[q] = "none"
    BY <2>3, <2>6
  <2>9. \A x \in Names : ~Writing(x)' =>
          (status'[x].lastError = "none" <=> ~Failing(status'[x]))
    BY <2>3, <2>4 DEF StatusInv
  <2> HIDE DEF n
  <2> QED BY <2>1, <2>7, <2>8, <2>9 DEF StatusInv, Failing
<1>5. ASSUME NEW r \in Runs, RecordError(r) PROVE StatusInv'
  <2> DEFINE n == NameOf(r)
  <2>1. n \in Names /\ starts' # 0
    BY <1>0, <1>5 DEF RecordError
  <2>2. \A q \in Runs : pc'[q] # "half"
    BY <1>0, <1>5 DEF RecordError, TypeOK, StatusInv
  <2>3. /\ status'[n].checked
        /\ status'[n].healthy <=> got[r] = "none"
        /\ status'[n].lastError = got[r]
        /\ \A x \in Names : x # n => status'[x] = status[x]
    BY <1>0, <1>5, <2>1 DEF RecordError, TextOf, Worded, TypeOK, StatusInv
  <2>4. \A x \in Names : x # n => ~Writing(x)
    BY <1>5 DEF RecordError, StatusInv, Writing
  <2>5. \A x \in Names : status'[x].lastError = "none" <=> ~Failing(status'[x])
    <3>1. status'[n].lastError = "none" <=> ~Failing(status'[n])
      BY <2>3 DEF Failing
    <3> QED BY <2>3, <2>4, <3>1 DEF StatusInv
  <2>6. \A x \in Names : ~Writing(x)' =>
          (status'[x].lastError = "none" <=> ~Failing(status'[x]))
    BY <2>5
  <2> QED BY <2>1, <2>2, <2>6 DEF StatusInv, Failing
<1>6. ASSUME NEW r \in Runs, Tick(r) \/ RunReturns(r) PROVE StatusInv'
  BY <1>0, <1>6, <1>a DEF Tick, RunReturns, TypeOK
<1>7. ASSUME UNCHANGED <<status, starts, pc, got>> PROVE StatusInv'
  BY <1>7, <1>a
<1>8. CASE RegisterWithHealthHandler \/ StopCall \/ StopReturn \/ ParentCancel
  BY <1>7, <1>8 DEF RegisterWithHealthHandler, StopCall, StopReturn, ParentCancel
<1>9. ASSUME NEW i \in Probes, Turn(i) PROVE StatusInv'
  BY <1>7, <1>9 DEF Turn
<1>10. CASE RequestBegins \/ RequestStep
  BY <1>7, <1>10 DEF RequestBegins, RequestStep, RequestLooks, RequestReadsHealthy,
                     RequestReadsError, RequestReadsReason
<1>11. CASE UNCHANGED vars
  BY <1>7, <1>11
<1> QED
  BY <1>1, <1>2, <1>3, <1>4, <1>5, <1>6, <1>8, <1>9, <1>10, <1>11 DEF Next, RunStep

-----------------------------------------------------------------------------
(* What a request has seen.                                                *)

LEMMA AskedFacts ==
  ASSUME TypeInv, Answering
  PROVE  /\ request.at \in Probes /\ Asked.name \in Names
         /\ Asked.critical \in BOOLEAN /\ request.at + 1 # 0
BY ConstantFacts, ConfigAssumption DEF TypeInv, TypeOK, Answering, Asked, Probes

LEMMA SeenStep ==
  TypeInv /\ StatusInv /\ Worded /\ Seen /\ Honest /\ [Next]_vars => Seen'
<1> SUFFICES ASSUME TypeInv, StatusInv, Worded, Seen, Honest, [Next]_vars PROVE Seen'
  OBVIOUS
<1> USE DEF manager, http, vars
<1>0. /\ TypeOK /\ wired \in Nat
      /\ \A r \in Runs : NameOf(r) \in Names
  BY ConstantFacts DEF TypeInv, TypeOK
<1>a. ASSUME UNCHANGED <<status, seen, request, wired>> PROVE Seen'
  BY <1>a DEF Seen, Failing, Answering, At, Asked
<1>1. CASE Register
  <2>1. status' = status
    <3>1. /\ \A n \in Names : status[n] = NewStatus
          /\ status' = [status EXCEPT ![Config[registered + 1].name] = NewStatus]
      BY <1>1 DEF Register, StatusInv
    <3> QED BY <1>0, <3>1 DEF TypeOK
  <2> QED BY <1>1, <2>1, <1>a DEF Register
<1>2. CASE RegisterWithHealthHandler
  <2>1. request' = request /\ ~Answering'
    BY <1>0, <1>2 DEF RegisterWithHealthHandler, Honest, Answering
  <2> QED BY <2>1 DEF Seen, At
<1>3. ASSUME NEW r \in Runs, Record(r) PROVE Seen'
  <2> DEFINE n == NameOf(r)
  <2>1. n \in Names /\ Answering' = Answering /\ Asked' = Asked /\ request' = request
    BY <1>0, <1>3 DEF Record, Answering, Asked
  <2>2. \A x \in Names : status'[x].lastError = status[x].lastError
    BY <1>0, <1>3, <2>1 DEF Record, TypeOK
  <2>3. \A x \in Names : x # n => status'[x] = status[x]
    BY <1>0, <1>3, <2>1 DEF Record, TypeOK
  <2>4. ASSUME Answering
        PROVE  /\ Failing(status'[n]) \in seen'[n]
               /\ \A x \in Names : seen[x] \subseteq seen'[x]
    <3>1. seen' = [seen EXCEPT ![n] = @ \cup {Failing(status'[n])}]
      BY <1>0, <1>3, <2>1, <2>4 DEF Record, TypeOK
    <3> QED BY <1>0, <2>1, <3>1 DEF TypeOK
  <2>5. Answering' => \A x \in Names : Failing(status'[x]) \in seen'[x]
    <3> HIDE DEF n
    <3> QED BY <2>1, <2>3, <2>4 DEF Seen, Failing
  <2>6. Answering => Asked.name \in Names
    BY AskedFacts
  <2> HIDE DEF n
  <2> QED BY <2>1, <2>2, <2>4, <2>5, <2>6 DEF Seen, At, Failing
<1>4. ASSUME NEW r \in Runs, RecordError(r) PROVE Seen'
  <2> DEFINE n == NameOf(r)
  <2>1. /\ n \in Names /\ Answering' = Answering /\ Asked' = Asked
        /\ request' = request /\ seen' = seen
    BY <1>0, <1>4 DEF RecordError, Answering, Asked
  <2>2. \A x \in Names : x # n => status'[x] = status[x]
    BY <1>0, <1>4, <2>1 DEF RecordError, TypeOK
  <2>3. status'[n].lastError = got[r] /\ Failing(status'[n]) = Failing(status[n])
    BY <1>0, <1>4, <2>1 DEF RecordError, TextOf, Worded, TypeOK, Failing
  <2>4. Failing(status[n]) <=> got[r] # "none"
    BY <1>4 DEF RecordError, StatusInv, Failing
  <2>5. Answering => \A x \in Names : Failing(status'[x]) \in seen[x]
    <3> HIDE DEF n
    <3> QED BY <2>1, <2>2, <2>3 DEF Seen
  <2>6. Answering => (IF got[r] = "none" THEN FALSE ELSE TRUE) \in seen[n]
    <3>1. Answering => Failing(status[n]) \in seen[n]
      BY <2>1 DEF Seen
    <3> HIDE DEF n
    <3>2. CASE got[r] = "none"
      BY <2>4, <3>1, <3>2 DEF Failing
    <3>3. CASE got[r] # "none"
      BY <2>4, <3>1, <3>3 DEF Failing
    <3> QED BY <3>2, <3>3
  <2>7. Answering => Asked.name \in Names
    BY AskedFacts
  <2> HIDE DEF n
  <2> QED BY <2>1, <2>2, <2>3, <2>5, <2>6, <2>7 DEF Seen, At
<1>5. CASE RequestBegins
  <2>1. request'.step = "look" /\ \A n \in Names : seen'[n] = {Failing(status'[n])}
    BY <1>0, <1>5 DEF RequestBegins, NoRequest
  <2> QED BY <2>1 DEF Seen, At
<1>6. CASE RequestStep
  <2> DEFINE n == Asked.name
  <2>1. /\ Answering /\ n \in Names /\ status' = status /\ seen' = seen
        /\ wired' = wired
        /\ \A x \in Names : Failing(status[x]) \in seen[x]
    BY <1>6, AskedFacts DEF Seen, RequestStep, RequestLooks, RequestReadsHealthy, At,
                            RequestReadsError, RequestReadsReason
  <2>2. Answering' => \A x \in Names : Failing(status'[x]) \in seen'[x]
    BY <2>1 DEF Failing
  <2>3. Failing(status[n]) => TRUE \in seen[n]
    BY <2>1 DEF Failing
  <2>4. ~Failing(status[n]) => FALSE \in seen[n]
    BY <2>1 DEF Failing
  <2>5. CASE RequestLooks
    <3>1. Asked' = Asked /\ request'.step = "healthy"
      BY <1>0, <2>5 DEF RequestLooks, Step, TypeOK, Asked
    <3>2. status[n].lastError = "none" <=> ~Failing(status[n])
      BY <2>1, <2>5 DEF RequestLooks, MuFree, StatusInv, Writing
    <3> HIDE DEF n
    <3> QED BY <2>1, <2>2, <2>4, <3>1, <3>2 DEF Seen, At, n
  <2>6. CASE RequestReadsHealthy
    <3>1. CASE status[n].healthy
      <4>1. request'.step = "look"
        BY <1>0, <2>6, <3>1 DEF RequestReadsHealthy, Passes, TypeOK
      <4> QED BY <2>2, <4>1 DEF Seen, At
    <3>2. CASE ~status[n].healthy
      <4>1. Asked' = Asked /\ request'.step = "error"
        BY <1>0, <2>6, <3>2 DEF RequestReadsHealthy, Step, TypeOK, Asked
      <4>2. FALSE \in seen[n] \/ status[n].lastError # "none"
        BY <2>6 DEF RequestReadsHealthy, Seen
      <4>3. TRUE \in seen[n] \/ status[n].lastError = "none"
        <5>1. CASE status[n].checked
          BY <2>3, <3>2, <5>1 DEF Failing
        <5>2. CASE ~status[n].checked
          BY <2>1, <3>2, <5>2 DEF StatusInv, Writing, Failing
        <5> QED BY <5>1, <5>2
      <4> HIDE DEF n
      <4> QED BY <2>1, <2>2, <4>1, <4>2, <4>3 DEF Seen, At, n
    <3> QED BY <3>1, <3>2
  <2>7. CASE RequestReadsError
    <3>1. CASE status[n].lastError = "none"
      <4>1. request'.step = "look"
        BY <1>0, <2>7, <3>1 DEF RequestReadsError, Passes, TypeOK
      <4> QED BY <2>2, <4>1 DEF Seen, At
    <3>2. CASE status[n].lastError # "none"
      <4>1. Asked' = Asked /\ request'.step = "reason"
        BY <1>0, <2>7, <3>2 DEF RequestReadsError, Step, TypeOK, Asked
      <4>2. TRUE \in seen[n]
        BY <2>7, <3>2 DEF RequestReadsError, Seen
      <4> QED BY <2>1, <2>2, <4>1, <4>2 DEF Seen, At
    <3> QED BY <3>1, <3>2
  <2>8. CASE RequestReadsReason
    <3>1. request'.step = "look" \/ ~Answering'
      <4>1. CASE Fails
        BY <1>0, <4>1 DEF Fails, TypeOK
      <4>2. CASE request' = [request EXCEPT !.at = wired + 1, !.torn = TRUE]
        <5>1. request'.at = wired + 1
          BY <1>0, <4>2 DEF TypeOK
        <5> QED BY <1>0, <2>1, <5>1 DEF Answering
      <4> QED BY <2>8, <4>1, <4>2 DEF RequestReadsReason
    <3> QED BY <2>2, <3>1 DEF Seen, At
  <2> QED BY <1>6, <2>5, <2>6, <2>7, <2>8 DEF RequestStep
<1>7. ASSUME NEW r \in Runs, CheckReturns(r) \/ Tick(r) \/ RunReturns(r) PROVE Seen'
  BY <1>7, <1>a DEF CheckReturns, Tick, RunReturns
<1>8. CASE Start \/ StopCall \/ StopReturn \/ ParentCancel
  BY <1>8, <1>a DEF Start, StopCall, StopReturn, ParentCancel
<1>9. ASSUME NEW i \in Probes, Turn(i) PROVE Seen'
  BY <1>9, <1>a DEF Turn
<1>10. CASE UNCHANGED vars
  BY <1>10, <1>a
<1> QED
  BY <1>1, <1>2, <1>3, <1>4, <1>5, <1>6, <1>7, <1>8, <1>9, <1>10 DEF Next, RunStep

-----------------------------------------------------------------------------
(* The answer.                                                             *)

LEMMA HonestStep == TypeInv /\ Seen /\ Honest /\ [Next]_vars => Honest'
<1> SUFFICES ASSUME TypeInv, Seen, Honest, [Next]_vars PROVE Honest'
  OBVIOUS
<1> USE DEF manager, http, vars
<1>0. /\ TypeOK /\ wired \in Nat /\ request.at \in Nat /\ Len(Config) \in Nat
      /\ \A i \in 1..wired : i \in Probes /\ Config[i].name \in Names
      /\ \A r \in Runs : NameOf(r) \in Names
  BY ConstantFacts DEF TypeInv, TypeOK, Probes
<1>a. ASSUME UNCHANGED <<request, wired>>,
             \A n \in Names : seen[n] \subseteq seen'[n]
      PROVE  Honest'
  BY <1>0, <1>a DEF Honest, SawFailing
<1>1. CASE RegisterWithHealthHandler
  <2>1. /\ request' = request /\ seen' = seen /\ request.at = 0
        /\ wired = 0 /\ wired' = registered /\ registered > 0
        /\ registered \in Nat /\ wired' \in Nat
    BY <1>0, <1>1 DEF RegisterWithHealthHandler, Honest, TypeOK
  <2>2. ~request.torn => ~request.critFail /\ ~request.degraded
    BY <1>0, <2>1 DEF Honest, SawFailing, TypeOK
  <2>3. \A i \in 1..wired' : ~(i < request.at)
    BY <2>1
  <2>4. (wired = 0 => request.at = 0)'
    BY <2>1, <2>2, <2>3
  <2>5. (request.at <= wired + 1)'
    BY <2>1, <2>2, <2>3
  <2>6. (~request.torn =>
         /\ request.critFail => SawFailing(TRUE)
         /\ request.degraded => SawFailing(FALSE))'
    BY <2>1, <2>2, <2>3
  <2>7. (~request.torn /\ ~request.critFail =>
         \A i \in 1..wired : i < request.at /\ Config[i].critical =>
                            FALSE \in seen[Config[i].name])'
    BY <2>1, <2>2, <2>3
  <2> QED BY <2>4, <2>5, <2>6, <2>7 DEF Honest
<1>2. ASSUME NEW r \in Runs, Record(r) PROVE Honest'
  <2>1. \A n \in Names : seen[n] \subseteq seen'[n]
    BY <1>0, <1>2 DEF Record, TypeOK
  <2> QED BY <1>2, <2>1, <1>a DEF Record
<1>3. CASE RequestBegins
  <2>1. /\ request'.at = 1 /\ ~request'.critFail /\ ~request'.degraded
        /\ wired' = wired /\ wired > 0
    BY <1>0, <1>3 DEF RequestBegins, NoRequest
  <2>2. \A i \in 1..wired' : ~(i < request'.at)
    BY <1>0, <2>1
  <2>3. (wired = 0 => request.at = 0)'
    BY <1>0, <2>1, <2>2
  <2>4. (request.at <= wired + 1)'
    BY <1>0, <2>1, <2>2
  <2>5. (~request.torn =>
         /\ request.critFail => SawFailing(TRUE)
         /\ request.degraded => SawFailing(FALSE))'
    BY <1>0, <2>1, <2>2
  <2>6. (~request.torn /\ ~request.critFail =>
         \A i \in 1..wired : i < request.at /\ Config[i].critical =>
                            FALSE \in seen[Config[i].name])'
    BY <1>0, <2>1, <2>2
  <2> QED BY <2>3, <2>4, <2>5, <2>6 DEF Honest
<1>4. CASE RequestStep
  <2> DEFINE n == Asked.name
  <2>1. /\ Answering /\ n \in Names /\ Asked.critical \in BOOLEAN
        /\ request.at \in 1..wired /\ seen' = seen /\ wired' = wired
        /\ Asked = Config[request.at] /\ status' = status
    BY <1>4, AskedFacts DEF RequestStep, RequestLooks, RequestReadsHealthy, At, Asked,
                            RequestReadsError, RequestReadsReason, Answering
  <2>2. SawFailing(TRUE)' = SawFailing(TRUE) /\ SawFailing(FALSE)' = SawFailing(FALSE)
    BY <2>1 DEF SawFailing
  <2>a. ASSUME NEW step, Step(step) PROVE Honest'
    <3>1. /\ request'.at = request.at /\ request'.torn = request.torn
          /\ request'.critFail = request.critFail
          /\ request'.degraded = request.degraded
      BY <1>0, <2>a DEF Step, TypeOK
    <3> QED BY <2>1, <2>2, <3>1 DEF Honest
  <2>b. ASSUME Passes, FALSE \in seen[n] PROVE Honest'
    <3>1. /\ request'.at = request.at + 1 /\ request'.torn = request.torn
          /\ request'.critFail = request.critFail
          /\ request'.degraded = request.degraded
      BY <1>0, <2>b DEF Passes, TypeOK
    <3>2. ASSUME ~request.torn, ~request.critFail, NEW i \in 1..wired,
                 i < request.at + 1, Config[i].critical
          PROVE  FALSE \in seen[Config[i].name]
      <4>1. i < request.at \/ i = request.at
        BY <1>0, <3>2
      <4> QED BY <2>1, <2>b, <3>2, <4>1 DEF Honest
    <3>3. (wired = 0 => request.at = 0)'
      BY <1>0, <2>1, <2>2, <3>1, <3>2 DEF Honest
    <3>4. (request.at <= wired + 1)'
      BY <1>0, <2>1, <2>2, <3>1, <3>2 DEF Honest
    <3>5. (~request.torn =>
           /\ request.critFail => SawFailing(TRUE)
           /\ request.degraded => SawFailing(FALSE))'
      BY <1>0, <2>1, <2>2, <3>1, <3>2 DEF Honest
    <3>6. (~request.torn /\ ~request.critFail =>
           \A i \in 1..wired : i < request.at /\ Config[i].critical =>
                              FALSE \in seen[Config[i].name])'
      BY <1>0, <2>1, <2>2, <3>1, <3>2 DEF Honest
    <3> QED BY <3>3, <3>4, <3>5, <3>6 DEF Honest
  <2>c. ASSUME Fails, TRUE \in seen[n] PROVE Honest'
    <3>1. /\ request'.at = request.at + 1 /\ request'.torn = request.torn
          /\ request'.critFail <=> request.critFail \/ Asked.critical
          /\ request'.degraded <=> request.degraded \/ ~Asked.critical
      BY <1>0, <2>c DEF Fails, TypeOK
    <3>2. Asked.critical => SawFailing(TRUE)
      BY <2>1, <2>c DEF SawFailing
    <3>3. ~Asked.critical => SawFailing(FALSE)
      BY <2>1, <2>c DEF SawFailing
    <3>4. ASSUME ~request.torn, ~request'.critFail, NEW i \in 1..wired,
                 i < request.at + 1, Config[i].critical
          PROVE  FALSE \in seen[Config[i].name]
      <4>1. i < request.at \/ i = request.at
        BY <1>0, <3>4
      <4> QED BY <2>1, <3>1, <3>4, <4>1 DEF Honest
    <3>5. (wired = 0 => request.at = 0)'
      BY <1>0, <2>1, <2>2, <3>1, <3>2, <3>3, <3>4 DEF Honest
    <3>6. (request.at <= wired + 1)'
      BY <1>0, <2>1, <2>2, <3>1, <3>2, <3>3, <3>4 DEF Honest
    <3>7. (~request.torn =>
           /\ request.critFail => SawFailing(TRUE)
           /\ request.degraded => SawFailing(FALSE))'
      BY <1>0, <2>1, <2>2, <3>1, <3>2, <3>3, <3>4 DEF Honest
    <3>8. (~request.torn /\ ~request.critFail =>
           \A i \in 1..wired : i < request.at /\ Config[i].critical =>
                              FALSE \in seen[Config[i].name])'
      BY <1>0, <2>1, <2>2, <3>1, <3>2, <3>3, <3>4 DEF Honest
    <3> QED BY <3>5, <3>6, <3>7, <3>8 DEF Honest
  <2>3. CASE RequestLooks
    BY <2>3, <2>a DEF RequestLooks
  <2>4. CASE RequestReadsHealthy
    <3>1. status[n].healthy => FALSE \in seen[n]
      BY <2>1 DEF Seen, Failing
    <3> QED BY <2>4, <2>a, <2>b, <3>1 DEF RequestReadsHealthy
  <2>5. CASE RequestReadsError
    <3>1. status[n].lastError = "none" => FALSE \in seen[n]
      BY <2>5 DEF Seen, RequestReadsError
    <3> QED BY <2>5, <2>a, <2>b, <3>1 DEF RequestReadsError
  <2>6. CASE RequestReadsReason
    <3>1. TRUE \in seen[n]
      BY <2>6 DEF Seen, RequestReadsReason
    <3>2. CASE request' = [request EXCEPT !.at = wired + 1, !.torn = TRUE]
      <4>1. request'.at = wired + 1 /\ request'.torn
        BY <1>0, <3>2 DEF TypeOK
      <4> QED BY <1>0, <2>1, <4>1 DEF Honest
    <3> QED BY <2>6, <2>c, <3>1, <3>2 DEF RequestReadsReason
  <2> QED BY <1>4, <2>3, <2>4, <2>5, <2>6 DEF RequestStep
<1>5. ASSUME UNCHANGED <<request, wired, seen>> PROVE Honest'
  BY <1>5, <1>a
<1>6. CASE Register \/ Start \/ StopCall \/ StopReturn \/ ParentCancel
  BY <1>6, <1>5 DEF Register, Start, StopCall, StopReturn, ParentCancel
<1>7. ASSUME NEW r \in Runs,
             CheckReturns(r) \/ RecordError(r) \/ Tick(r) \/ RunReturns(r)
      PROVE  Honest'
  BY <1>7, <1>5 DEF CheckReturns, RecordError, Tick, RunReturns
<1>8. ASSUME NEW i \in Probes, Turn(i) PROVE Honest'
  BY <1>8, <1>5 DEF Turn
<1>9. CASE UNCHANGED vars
  BY <1>9, <1>5
<1> QED
  BY <1>1, <1>2, <1>3, <1>4, <1>6, <1>7, <1>8, <1>9 DEF Next, RunStep

(* A request's answer is one the service could have given during it, if    *)
(* every error of a check has a text.                                      *)
THEOREM AnswerHonestHolds ==
  ASSUME Mute = {}
  PROVE  Spec => []AnswerHonest
<1> DEFINE IInv == TypeInv /\ HonestInv
<1>1. Init => IInv
  <2> SUFFICES ASSUME Init PROVE Seen /\ Honest
    BY TypeInit, StatusInit DEF HonestInv, Worded, Init
  <2>1. request.at = 0 /\ ~request.critFail /\ ~request.degraded /\ wired = 0
    BY DEF Init, NoRequest
  <2> QED BY <2>1 DEF Seen, Honest, Answering, At, SawFailing
<1>2. IInv /\ [Next]_vars => IInv'
  BY TypeStep, StatusStep, WordedStep, SeenStep, HonestStep DEF HonestInv
<1>3. IInv => AnswerHonest
  <2> SUFFICES ASSUME TypeInv, Honest, Answered, ~request.torn
               PROVE  /\ request.critFail => SawFailing(TRUE)
                      /\ request.degraded => SawFailing(FALSE)
                      /\ ~request.critFail =>
                           \A i \in 1..wired : Config[i].critical =>
                                              seen[Config[i].name] # {TRUE}
    BY DEF HonestInv, AnswerHonest
  <2>1. wired \in Nat /\ \A i \in 1..wired : i < request.at
    BY ConstantFacts DEF Answered, TypeInv, TypeOK
  <2> QED BY <2>1 DEF Honest
<1> QED BY <1>1, <1>2, <1>3, PTL DEF Spec
=============================================================================
