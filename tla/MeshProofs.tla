----------------------------- MODULE MeshProofs -----------------------------
(***************************************************************************)
(* The properties of MeshProps for every set of chains, of any length, and *)
(* every set of user types.  HandlerGuarded says nothing of a request on   *)
(* its way to the handler, so it is not inductive; GuardInv does: whoever  *)
(* has come as far as position "at" was admitted by every stage before it. *)
(* The other properties are about the end of a request, and PassInv, Reply-*)
(* Inv and CountInv say what holds on the way there and back.              *)
(***************************************************************************)
EXTENDS MeshProps, TLAPS

Contexts == [request_id : {"none", "client's", "fresh"},
             user_type : {"none"} \cup UserTypes,
             service_caller : {"none", "caller"}]

(* The shape of what the guards read and write.                            *)
Shape ==
  /\ chain \in Seq(Stages) /\ request \in Requests
  /\ at \in Int
  /\ mode \in {"down", "up", "panic", "answered", "dropped"}
  /\ keys \in Contexts

(* The stage at position i has let the request pass.                       *)
Admitted(i) ==
  /\ chain[i] = "RequireAuth" => /\ request.bearer \in UserTypes
                                 /\ keys.user_type = request.bearer
  /\ chain[i] = "RequireUserType" =>
       /\ request.bearer \in Allowed
       /\ \E j \in 1..(i - 1) : chain[j] = "RequireAuth"
  /\ chain[i] = "ServiceAuth" => "ServiceAuth" \in request.service
  /\ chain[i] = "ServiceAuthMulti" => /\ "ServiceAuthMulti" \in request.service
                                      /\ keys.service_caller # "none"

(* A user_type in the context is the caller's, and RequireAuth has put it  *)
(* there.                                                                  *)
Known ==
  keys.user_type # "none" => /\ keys.user_type = request.bearer
                         /\ \E j \in 1..(at - 1) : chain[j] = "RequireAuth"

GuardInv ==
  /\ Shape
  /\ mode = "down" => /\ at >= 1 /\ ~ran
                      /\ Known
                      /\ \A i \in 1..(at - 1) : Admitted(i)
  /\ ran => \A i \in 1..Len(chain) : Admitted(i)

(* The handler, once it runs, has every stage of the chain before it.      *)
LEMMA GuardInvImplies == GuardInv => HandlerGuarded
<1> SUFFICES ASSUME GuardInv, ran PROVE HandlerGuarded
  BY DEF HandlerGuarded
<1>1. \A i \in 1..Len(chain) : Admitted(i)
  BY DEF GuardInv
<1>2. Len(chain) \in Nat
  <2>1. chain \in Seq(Stages)
    BY DEF GuardInv, Shape
  <2> QED BY <2>1
<1>3. ASSUME NEW i \in 1..Len(chain), chain[i] = "RequireUserType"
      PROVE  /\ Within("RequireUserType", "RequireAuth")
             /\ request.bearer \in Allowed
  <2>1. PICK j \in 1..(i - 1) : chain[j] = "RequireAuth"
    BY <1>1, <1>3 DEF Admitted
  <2>2. j \in 1..Len(chain) /\ j < i
    BY <1>2, <2>1
  <2> QED BY <1>1, <1>3, <2>1, <2>2 DEF Admitted, Within
<1> QED BY <1>1, <1>3 DEF HandlerGuarded, Has, Admitted

(* Nothing has been admitted yet.                                          *)
LEMMA GuardInvInit == MeshInit => GuardInv
<1> SUFFICES ASSUME MeshInit PROVE GuardInv
  OBVIOUS
<1>1. chain \in Seq(Stages) /\ request \in Requests
  BY ChainsAssumption DEF MeshInit, Init
<1>2. at = 1 /\ mode = "down" /\ ran = FALSE
  BY DEF MeshInit, Init
<1>3. keys = [request_id |-> "none", user_type |-> "none", service_caller |-> "none"]
  BY DEF MeshInit, Init
<1>4. keys \in Contexts
  BY <1>3 DEF Contexts
<1>5. Shape
  BY <1>1, <1>2, <1>4 DEF Shape
<1>6. Known
  BY <1>3 DEF Known
<1> QED BY <1>2, <1>5, <1>6 DEF GuardInv

-----------------------------------------------------------------------------
(* A step on the way down keeps the invariant if the stage it leaves has   *)
(* admitted the request and it sets the keys as a stage may.               *)
LEMMA Descends ==
  ASSUME GuardInv, mode = "down", at <= Len(chain), Proceed,
         UNCHANGED <<chain, request, ran>>,
         keys' \in Contexts,
         keys'.user_type \in {keys.user_type, request.bearer},
         keys'.user_type # keys.user_type => chain[at] = "RequireAuth",
         keys.service_caller # "none" => keys'.service_caller # "none",
         NEW p, p = at, Admitted(p)'
  PROVE  GuardInv'
<1>1. Shape /\ at >= 1 /\ ~ran /\ Known /\ \A i \in 1..(at - 1) : Admitted(i)
  BY DEF GuardInv
<1>2. at \in Int /\ at' = at + 1 /\ mode' = "down" /\ ~ran'
  BY <1>1 DEF Shape, Proceed
<1>3. Shape'
  BY <1>1, <1>2 DEF Shape
<1>4. Known'
  <2> SUFFICES ASSUME keys'.user_type # "none"
               PROVE  /\ keys'.user_type = request.bearer
                      /\ \E j \in 1..at : chain[j] = "RequireAuth"
    BY <1>2 DEF Known
  <2>1. CASE keys'.user_type = keys.user_type
    BY <1>1, <1>2, <2>1 DEF Known
  <2>2. CASE keys'.user_type # keys.user_type
    BY <1>1, <1>2, <2>2
  <2> QED BY <2>1, <2>2
<1>5. ASSUME NEW i \in 1..(at - 1) PROVE Admitted(i)'
  <2>1. Admitted(i)
    BY <1>1
  <2> QED BY <2>1 DEF Admitted
<1>6. ASSUME NEW i \in 1..at PROVE Admitted(i)'
  <2>1. i \in 1..(at - 1) \/ i = p
    BY <1>2
  <2> QED BY <1>5, <2>1
<1> QED BY <1>1, <1>2, <1>3, <1>4, <1>6 DEF GuardInv

(* Once the request has turned back, no stage changes what guards read.    *)
LEMMA TurnsBack ==
  ASSUME GuardInv, UNCHANGED <<chain, request, keys>>,
         at' \in Int, mode' \in {"up", "panic", "answered", "dropped"},
         ran' => ran \/ (mode = "down" /\ at = Len(chain) + 1)
  PROVE  GuardInv'
<1>1. Shape
  BY DEF GuardInv
<1>2. Shape'
  BY <1>1 DEF Shape
<1>3. ASSUME ran', NEW i \in 1..Len(chain) PROVE Admitted(i)'
  <2>1. Len(chain) \in Nat
    BY <1>1 DEF Shape
  <2>2. Admitted(i)
    BY <1>3, <2>1 DEF GuardInv
  <2> QED BY <2>2 DEF Admitted
<1> QED BY <1>2, <1>3 DEF GuardInv

LEMMA GuardInvStep == GuardInv /\ Step => GuardInv'
<1> SUFFICES ASSUME GuardInv, Step PROVE GuardInv'
  OBVIOUS
<1>0. /\ Shape /\ at \in Int /\ at - 1 \in Int
      /\ keys \in Contexts
      /\ mode = "down" => at >= 1 /\ Known /\ \A i \in 1..(at - 1) : Admitted(i)
  BY DEF GuardInv, Shape
<1>a. ASSUME NEW code, Abort(code), UNCHANGED <<chain, request, keys, ran>>
      PROVE  GuardInv'
  BY <1>0, <1>a, TurnsBack DEF Abort
<1>1. CASE RequestID
  <2> DEFINE id == IF request.id = "none" THEN "fresh" ELSE request.id
  <2>1. id \in {"none", "client's", "fresh"}
    BY <1>0 DEF Shape, Requests
  <2>2. /\ mode = "down" /\ at <= Len(chain) /\ Proceed
        /\ UNCHANGED <<chain, request, ran>> /\ chain[at] = "RequestID"
        /\ keys' = [keys EXCEPT !.request_id = id]
    BY <1>1 DEF RequestID, Reaches
  <2> HIDE DEF id
  <2>3. /\ keys'.user_type = keys.user_type
        /\ keys'.service_caller = keys.service_caller
        /\ keys' \in Contexts
    BY <1>0, <2>1, <2>2 DEF Contexts
  <2>4. PICK q : q = at
    OBVIOUS
  <2>5. Admitted(q)'
    BY <2>2, <2>4 DEF Admitted
  <2> QED BY <2>2, <2>3, <2>4, <2>5, Descends
<1>2. CASE LoggerOrRecovery
  <2>1. /\ mode = "down" /\ at <= Len(chain) /\ Proceed
        /\ UNCHANGED <<chain, request, keys, ran>>
        /\ chain[at] \in {"Logger", "Recovery"}
    BY <1>2 DEF LoggerOrRecovery, Reaches
  <2>2. PICK q : q = at
    OBVIOUS
  <2>3. Admitted(q)'
    BY <2>1, <2>2 DEF Admitted
  <2> QED BY <1>0, <2>1, <2>2, <2>3, Descends
<1>3. CASE RequireAuth
  <2>1. CASE request.bearer \in UserTypes
    <3>1. /\ mode = "down" /\ at <= Len(chain) /\ Proceed
          /\ UNCHANGED <<chain, request, ran>> /\ chain[at] = "RequireAuth"
          /\ keys' = [keys EXCEPT !.user_type = request.bearer]
      BY <1>3, <2>1 DEF RequireAuth, Reaches
    <3>2. /\ keys' \in Contexts /\ keys'.user_type = request.bearer
          /\ keys'.service_caller = keys.service_caller
      BY <1>0, <2>1, <3>1 DEF Contexts
    <3>3. PICK q : q = at
      OBVIOUS
    <3>4. Admitted(q)'
      BY <2>1, <3>1, <3>2, <3>3 DEF Admitted
    <3> QED BY <3>1, <3>2, <3>3, <3>4, Descends
  <2>2. CASE request.bearer \notin UserTypes
    BY <1>3, <1>a, <2>2 DEF RequireAuth
  <2> QED BY <2>1, <2>2
<1>4. CASE RequireUserType
  <2>1. CASE keys.user_type \in Allowed
    <3>1. /\ mode = "down" /\ at <= Len(chain) /\ Proceed
          /\ UNCHANGED <<chain, request, keys, ran>>
          /\ chain[at] = "RequireUserType"
      BY <1>4, <2>1 DEF RequireUserType, Reaches
    <3>2. keys.user_type # "none"
      BY <2>1, AllowedAssumption DEF UserTypes
    <3>3. /\ request.bearer \in Allowed
          /\ \E j \in 1..(at - 1) : chain[j] = "RequireAuth"
      BY <1>0, <2>1, <3>1, <3>2 DEF Known
    <3>4. PICK q : q = at
      OBVIOUS
    <3>5. Admitted(q)'
      BY <3>1, <3>3, <3>4 DEF Admitted
    <3> QED BY <1>0, <3>1, <3>4, <3>5, Descends
  <2>2. CASE keys.user_type \notin Allowed
    BY <1>4, <1>a, <2>2 DEF RequireUserType
  <2> QED BY <2>1, <2>2
<1>5. CASE ServiceAuth
  <2>1. CASE "ServiceAuth" \in request.service
    <3>1. /\ mode = "down" /\ at <= Len(chain) /\ Proceed
          /\ UNCHANGED <<chain, request, keys, ran>> /\ chain[at] = "ServiceAuth"
      BY <1>5, <2>1 DEF ServiceAuth, Reaches
    <3>2. PICK q : q = at
      OBVIOUS
    <3>3. Admitted(q)'
      BY <2>1, <3>1, <3>2 DEF Admitted
    <3> QED BY <1>0, <3>1, <3>2, <3>3, Descends
  <2>2. CASE "ServiceAuth" \notin request.service
    BY <1>5, <1>a, <2>2 DEF ServiceAuth
  <2> QED BY <2>1, <2>2
<1>6. CASE ServiceAuthMulti
  <2>1. CASE "ServiceAuthMulti" \in request.service
    <3>1. /\ mode = "down" /\ at <= Len(chain) /\ Proceed
          /\ UNCHANGED <<chain, request, ran>> /\ chain[at] = "ServiceAuthMulti"
          /\ keys' = [keys EXCEPT !.service_caller = "caller"]
      BY <1>6, <2>1 DEF ServiceAuthMulti, Reaches
    <3>2. /\ keys' \in Contexts /\ keys'.user_type = keys.user_type
          /\ keys'.service_caller = "caller"
      BY <1>0, <3>1 DEF Contexts
    <3>3. PICK q : q = at
      OBVIOUS
    <3>4. Admitted(q)'
      BY <2>1, <3>1, <3>2, <3>3 DEF Admitted
    <3> QED BY <3>1, <3>2, <3>3, <3>4, Descends
  <2>2. CASE "ServiceAuthMulti" \notin request.service
    BY <1>6, <1>a, <2>2 DEF ServiceAuthMulti
  <2> QED BY <2>1, <2>2
<1>7. ASSUME NEW a \in Answers, NEW dies \in BOOLEAN, Handler(a, dies)
      PROVE  GuardInv'
  BY <1>0, <1>7, TurnsBack DEF Handler
<1>8. CASE Return
  BY <1>0, <1>8, TurnsBack DEF Return
<1>9. CASE Unwind
  BY <1>0, <1>9, TurnsBack DEF Unwind, metrics
<1>10. CASE Recover
  BY <1>0, <1>10, TurnsBack DEF Recover
<1>11. CASE Answered
  BY <1>0, <1>11, TurnsBack DEF Answered, metrics
<1>12. CASE Dropped
  BY <1>0, <1>12, TurnsBack DEF Dropped, metrics
<1> QED
  BY <1>1, <1>2, <1>3, <1>4, <1>5, <1>6, <1>7, <1>8, <1>9, <1>10, <1>11, <1>12
  DEF Step

(* The client does nothing to a request under way; it only starts it.      *)
LEMMA GuardInvNext == GuardInv /\ [MeshNext]_meshVars => GuardInv'
<1> SUFFICES ASSUME GuardInv, [MeshNext]_meshVars PROVE GuardInv'
  OBVIOUS
<1>1. CASE Step
  BY <1>1, GuardInvStep
<1>2. CASE UNCHANGED vars
  BY <1>2 DEF GuardInv, Shape, Known, Admitted, vars
<1>3. Step \/ UNCHANGED vars
  BY DEF MeshNext, meshVars, DoJSONStep, BuildFails, Sends, Arrives, DoFails,
         ReadFails, ReadsAnswer
<1> QED BY <1>1, <1>2, <1>3

(* For every chain of any length, in any order, and whatever the client    *)
(* does meanwhile: the handler is called only for a request that every     *)
(* guard of the chain admits (RequireAuth, RequireUserType, ServiceAuth,   *)
(* ServiceAuthMulti).                                                      *)
THEOREM HandlerIsGuarded == MeshSpec => []HandlerGuarded
<1>1. MeshSpec => []GuardInv
  BY GuardInvInit, GuardInvNext, PTL DEF MeshSpec
<1> QED BY <1>1, GuardInvImplies, PTL

-----------------------------------------------------------------------------
(* The answer, the counters, the identifier and the result of DoJSON.      *)

(* Where a request may be.                                                 *)
Position ==
  /\ mode = "down" => at \in 1..(Len(chain) + 1)
  /\ mode \in {"up", "panic"} => at \in 0..Len(chain)
  /\ Over => at = 0

(* Nothing is written on the way down; a panic leaves what the handler has *)
(* and has passed no Recovery; who returns has one answer.                 *)
Served ==
  /\ ~ran => ~panicked /\ status \in {401, 403} /\ bodies = 1
  /\ ran => answer \in Answers
  /\ ran /\ ~panicked => status = answer.code /\ bodies = Documents(answer.body)
  /\ panicked => /\ status = IF answer.body = "unsent" THEN 500 ELSE answer.code
                 /\ bodies = Documents(answer.body) + 1
                 /\ Has("Recovery")
  /\ panics = IF panicked THEN 1 ELSE 0
AnswerInv ==
  /\ mode = "down" => /\ ~ran /\ ~panicked /\ answer = NoAnswer
                      /\ status = 200 /\ bodies = 0 /\ panics = 0
  /\ mode \in {"up", "answered"} => Served
  /\ mode \in {"panic", "dropped"} =>
       /\ ran /\ panicked /\ panics = 0
       /\ answer \in Answers /\ status = answer.code /\ bodies = Documents(answer.body)
       /\ \A i \in 1..Len(chain) : i > at => chain[i] # "Recovery"

(* A Logger nobody can get round counts when the request returns to it.    *)
Outer(stage, others) == \A other \in others : ~Within(stage, other)
CountInv ==
  \A l \in 1..Len(chain) :
    (/\ chain[l] = "Logger" /\ request.path # "/health"
     /\ Outer("Logger", Guards \cup {"Recovery"})) =>
      /\ mode \in {"down", "panic"} => counted = <<>>
      /\ mode = "up" => counted = IF at >= l THEN <<>> ELSE <<status>>
      /\ mode = "answered" => counted = <<status>>

(* The response has the identifier of the context, the client's own if it  *)
(* sent one, as soon as a RequestID has been passed.                       *)
IdInv ==
  /\ header = keys.request_id
  /\ request.id # "none" => header \in {"none", request.id}
  /\ mode = "down" => \A i \in 1..(at - 1) : chain[i] = "RequestID" => header # "none"
  /\ (Has("RequestID") /\ Outer("RequestID", Guards)) => (mode # "down" => header # "none")
  /\ mode # "down" /\ (~ran \/ answer.body = "named") => errorID = header

(* What DoJSON has read of an answer is the answer; nothing has arrived    *)
(* unless it was sent.                                                     *)
ReplyInv ==
  /\ call # "none" => request.bearer = "absent"
  /\ call = "ready" \/ result.err = "build" => ~arrived
  /\ ~arrived => mode = "down"
  /\ call # "returned" => result = Result("none")
  /\ result.err \in {"nil", "decode", "status"} => mode = "answered"
  /\ result.err \in {"nil", "decode"} => status \in 200..299
  /\ result.err = "nil" /\ decodes => bodies <= 1
  /\ result.err = "status" => result.status = status /\ result.id = errorID
  /\ result.err # "status" => result.status = 0

PassInv == TypeOK /\ Position /\ AnswerInv /\ IdInv
MeshInv == GuardInv /\ PassInv /\ ReplyInv

-----------------------------------------------------------------------------
(* What a stage does to a request on its way down: it lets it pass, and    *)
(* only RequestID touches the identifier, or it turns it back.             *)
OnTheWay == mode = "down" /\ at \in 1..Len(chain)
Passes ==
  /\ OnTheWay
  /\ at' = at + 1
  /\ keys' \in Contexts /\ keys'.request_id = header'
  /\ \/ chain[at] # "RequestID" /\ header' = header
     \/ header' \in {"client's", "fresh"} /\ request.id \in {"none", header'}
  /\ UNCHANGED <<chain, request, mode, response, ran, answer, panicked, metrics>>
Turns ==
  /\ OnTheWay /\ chain[at] \in Guards
  /\ at' = at - 1 /\ mode' = "up"
  /\ status' \in {401, 403} /\ bodies' = 1 /\ errorID' = keys.request_id
  /\ UNCHANGED <<chain, request, keys, header, ran, answer, panicked, metrics>>
HandlerReturns ==
  /\ mode = "down" /\ at = Len(chain) + 1
  /\ at' = at - 1 /\ ran' = TRUE /\ answer' \in Answers /\ panicked' \in BOOLEAN
  /\ status' = answer'.code /\ bodies' = Documents(answer'.body)
  /\ errorID' \in {"none", keys.request_id}
  /\ answer'.body = "named" => errorID' = keys.request_id
  /\ mode' = IF panicked' THEN "panic" ELSE "up"
  /\ UNCHANGED <<chain, request, keys, header, metrics>>
Recovers ==
  /\ mode = "panic" /\ at \in 1..Len(chain) /\ chain[at] = "Recovery"
  /\ at' = at - 1 /\ mode' = "up" /\ panics' = 1
  /\ bodies' = Documents(answer.body) + 1
  /\ status' = IF answer.body = "unsent" THEN 500 ELSE answer.code
  /\ UNCHANGED <<chain, request, keys, errorID, header, ran, answer, panicked, counted>>

(* Every step is one of these, or one of Pipeline's own on the way up.     *)
LEMMA Kinds ==
  ASSUME PassInv, Step
  PROVE  \/ Passes \/ Turns \/ HandlerReturns
         \/ Return \/ Unwind \/ Recovers \/ Answered \/ Dropped
<1>1. /\ Len(chain) \in Nat /\ at \in 0..(Len(chain) + 1)
      /\ keys \in Contexts /\ header = keys.request_id
      /\ request.id \in {"none", "client's"} /\ request.bearer \in Bearers
  <2>1. chain \in Seq(Stages)
    BY ChainsAssumption DEF PassInv, TypeOK
  <2>2. request \in Requests
    BY DEF PassInv, TypeOK
  <2>3. header = keys.request_id
    BY DEF PassInv, IdInv
  <2> QED BY <2>1, <2>2, <2>3 DEF PassInv, TypeOK, Contexts, Requests
<1>2. mode = "down" => at >= 1 /\ bodies = 0 /\ answer.body = "none" /\ ~Written
  BY <1>1 DEF PassInv, Position, AnswerInv, NoAnswer, Written
<1>3. ASSUME NEW code \in {401, 403}, NEW g \in Guards, Reaches(g), Abort(code),
             UNCHANGED <<chain, request, keys, header, ran, answer, panicked, metrics>>
      PROVE  Turns
  BY <1>1, <1>2, <1>3 DEF Reaches, Abort, WriteJSON, Turns, OnTheWay
<1>4. ASSUME NEW s, s # "RequestID", Reaches(s), Proceed,
             keys' \in Contexts, keys'.request_id = keys.request_id,
             UNCHANGED <<chain, request, header, ran, answer, panicked, metrics>>
      PROVE  Passes
  BY <1>1, <1>2, <1>4 DEF Reaches, Proceed, Passes, OnTheWay
<1>5. CASE RequestID
  <2> DEFINE id == IF request.id = "none" THEN "fresh" ELSE request.id
  <2>1. id \in {"client's", "fresh"} /\ request.id \in {"none", id}
    BY <1>1
  <2>2. /\ Reaches("RequestID") /\ Proceed
        /\ keys' = [keys EXCEPT !.request_id = id] /\ header' = id
        /\ UNCHANGED <<chain, request, ran, answer, panicked, metrics>>
    BY <1>5 DEF RequestID
  <2> HIDE DEF id
  <2>3. keys' \in Contexts /\ keys'.request_id = id
    BY <1>1, <2>1, <2>2 DEF Contexts
  <2> QED BY <1>1, <1>2, <2>1, <2>2, <2>3 DEF Reaches, Proceed, Passes, OnTheWay
<1>6. CASE LoggerOrRecovery
  BY <1>1, <1>4, <1>6 DEF LoggerOrRecovery
<1>7. CASE RequireAuth
  <2>1. CASE request.bearer \in UserTypes
    <3>1. /\ Reaches("RequireAuth") /\ Proceed
          /\ keys' = [keys EXCEPT !.user_type = request.bearer]
          /\ UNCHANGED <<chain, request, header, ran, answer, panicked, metrics>>
      BY <1>7, <2>1 DEF RequireAuth
    <3>2. keys' \in Contexts /\ keys'.request_id = keys.request_id
      BY <1>1, <2>1, <3>1 DEF Contexts
    <3> QED BY <1>4, <3>1, <3>2
  <2>2. CASE request.bearer \notin UserTypes
    BY <1>3, <1>7, <2>2 DEF RequireAuth, Guards
  <2> QED BY <2>1, <2>2
<1>8. CASE RequireUserType
  BY <1>1, <1>3, <1>4, <1>8 DEF RequireUserType, Guards
<1>9. CASE ServiceAuth
  BY <1>1, <1>3, <1>4, <1>9 DEF ServiceAuth, Guards
<1>10. CASE ServiceAuthMulti
  <2>1. CASE "ServiceAuthMulti" \in request.service
    <3>1. /\ Reaches("ServiceAuthMulti") /\ Proceed
          /\ keys' = [keys EXCEPT !.service_caller = "caller"]
          /\ UNCHANGED <<chain, request, header, ran, answer, panicked, metrics>>
      BY <1>10, <2>1 DEF ServiceAuthMulti
    <3>2. keys' \in Contexts /\ keys'.request_id = keys.request_id
      BY <1>1, <3>1 DEF Contexts
    <3> QED BY <1>4, <3>1, <3>2
  <2>2. CASE "ServiceAuthMulti" \notin request.service
    BY <1>3, <1>10, <2>2 DEF ServiceAuthMulti, Guards
  <2> QED BY <2>1, <2>2
<1>11. ASSUME NEW a \in Answers, NEW dies \in BOOLEAN, Handler(a, dies)
       PROVE  HandlerReturns
  BY <1>11 DEF Handler, HandlerReturns
<1>12. CASE Recover
  <2>1. /\ panics = 0 /\ at \in 1..Len(chain) /\ mode = "panic"
        /\ answer \in Answers /\ status = answer.code /\ bodies = Documents(answer.body)
    BY <1>1, <1>12 DEF Recover, PassInv, AnswerInv, Position
  <2>2. answer.body \in {"unsent", "empty", "plain", "named"}
    BY <2>1 DEF Answers
  <2>3. Documents(answer.body) \in {0, 1}
        /\ (Documents(answer.body) = 0 <=> answer.body \in {"unsent", "empty"})
    BY <2>2 DEF Documents
  <2>4. Written <=> answer.body # "unsent"
    BY <2>1, <2>2, <2>3 DEF Written
  <2> QED BY <1>12, <2>1, <2>4 DEF Recover, WriteJSON, Recovers
<1> QED
  BY <1>5, <1>6, <1>7, <1>8, <1>9, <1>10, <1>11, <1>12 DEF Step

-----------------------------------------------------------------------------
(* A step keeps the types and the position.                                *)
LEMMA TypeStep ==
  ASSUME PassInv, Step, UNCHANGED client
  PROVE  (TypeOK /\ Position)'
<1>0. /\ chain \in Chains /\ chain' = chain /\ chain \in Seq(Stages)
      /\ request \in Requests /\ request' = request
      /\ keys \in Contexts
      /\ Len(chain) \in Nat /\ at \in 0..(Len(chain) + 1)
      /\ mode = "down" => at \in 1..(Len(chain) + 1)
      /\ mode \in {"up", "panic"} => at \in 0..Len(chain)
      /\ status \in Sent /\ bodies \in Nat
      /\ ran \in BOOLEAN /\ panicked \in BOOLEAN
      /\ answer \in Answers \cup {NoAnswer}
      /\ header \in {"none", "client's", "fresh"}
      /\ errorID \in {"none", "client's", "fresh"}
      /\ keys.request_id \in {"none", "client's", "fresh"}
      /\ counted \in Seq(Sent) /\ panics \in Nat
  <2>1. TypeOK /\ Position
    BY DEF PassInv
  <2>2. chain \in Seq(Stages) /\ keys \in Contexts
    BY <2>1, ChainsAssumption DEF TypeOK, Contexts
  <2>3. chain' = chain /\ request' = request
    BY Kinds DEF Passes, Turns, HandlerReturns, Return, Unwind, Recovers, Answered,
                 Dropped
  <2> QED BY <2>1, <2>2, <2>3 DEF TypeOK, Position, Contexts
<1> DEFINE Fits ==
      /\ at' \in 0..(Len(chain) + 1) /\ keys' \in Contexts
      /\ mode' \in {"down", "up", "panic", "answered", "dropped"}
      /\ mode' = "down" => at' \in 1..(Len(chain) + 1)
      /\ mode' \in {"up", "panic"} => at' \in 0..Len(chain)
      /\ mode' \in {"answered", "dropped"} => at' = 0
      /\ status' \in Sent /\ bodies' \in Nat
      /\ header' \in {"none", "client's", "fresh"}
      /\ errorID' \in {"none", "client's", "fresh"} /\ panics' \in Nat
      /\ ran' \in BOOLEAN /\ panicked' \in BOOLEAN
      /\ answer' \in Answers \cup {NoAnswer}
<1>a. \A a \in Answers : a.code \in Sent /\ Documents(a.body) \in Nat
  BY DEF Answers, Sent, Documents
<1>1. Fits
  <2>1. CASE Passes
    BY <1>0, <2>1 DEF Passes, OnTheWay, response, metrics
  <2>2. CASE Turns
    BY <1>0, <2>2 DEF Turns, OnTheWay, metrics, Sent
  <2>3. CASE HandlerReturns
    <3>1. /\ at = Len(chain) + 1 /\ at' = at - 1 /\ ran' = TRUE
          /\ panicked' \in BOOLEAN /\ mode' = IF panicked' THEN "panic" ELSE "up"
          /\ errorID' \in {"none", keys.request_id}
          /\ UNCHANGED <<keys, header, panics>>
      BY <2>3 DEF HandlerReturns, metrics
    <3>2. answer' \in Answers /\ status' \in Sent /\ bodies' \in Nat
      BY <1>a, <2>3 DEF HandlerReturns
    <3>3. mode' \in {"up", "panic"} /\ at' \in 0..Len(chain)
      BY <1>0, <3>1
    <3> QED BY <1>0, <3>1, <3>2, <3>3
  <2>4. CASE Return
    BY <1>0, <2>4 DEF Return, response
  <2>5. CASE Unwind
    BY <1>0, <2>5 DEF Unwind, response, metrics
  <2>6. CASE Recovers
    <3>1. answer \in Answers
      BY <2>6 DEF Recovers, PassInv, AnswerInv
    <3>2. status' \in Sent /\ bodies' \in Nat
      BY <1>a, <2>6, <3>1 DEF Recovers, Sent
    <3> QED BY <1>0, <2>6, <3>2 DEF Recovers
  <2>7. CASE Answered
    BY <1>0, <2>7 DEF Answered, response, metrics
  <2>8. CASE Dropped
    BY <1>0, <2>8 DEF Dropped, response, metrics
  <2> QED BY <2>1, <2>2, <2>3, <2>4, <2>5, <2>6, <2>7, <2>8, Kinds
<1>2. counted' \in Seq(Sent)
  <2>1. counted' = counted \/ counted' = Append(counted, status)
    BY Kinds DEF Passes, Turns, HandlerReturns, Return, Unwind, Recovers, Answered,
                 Dropped, metrics
  <2>2. Append(counted, status) \in Seq(Sent)
    BY <1>0
  <2> QED BY <1>0, <2>1, <2>2
<1>3. /\ call' \in {"none", "ready", "sent", "returned"}
      /\ decodes' \in BOOLEAN /\ arrived' \in BOOLEAN
      /\ result' \in [err : {"none", "nil", "build", "do", "body", "decode", "status"},
                      status : {0} \cup Sent, id : {"none", "client's", "fresh"}]
  BY DEF PassInv, TypeOK, client
<1>4. Position'
  BY <1>0, <1>1 DEF Position, Over
<1>5. TypeOK'
  BY <1>0, <1>1, <1>2, <1>3 DEF TypeOK, Contexts
<1> QED BY <1>4, <1>5

(* A step keeps what is known of the answer.                               *)
LEMMA AnswerStep == ASSUME PassInv, Step PROVE AnswerInv'
<1>0. /\ Len(chain) \in Nat /\ at \in 0..(Len(chain) + 1) /\ AnswerInv
      /\ mode \in {"up", "panic"} => at \in 0..Len(chain)
      /\ mode \in {"down", "up", "panic", "answered", "dropped"}
  <2>1. chain \in Seq(Stages)
    BY ChainsAssumption DEF PassInv, TypeOK
  <2> QED BY <2>1 DEF PassInv, TypeOK, Position
<1>1. CASE Passes
  BY <1>0, <1>1 DEF Passes, OnTheWay, AnswerInv, response, metrics
<1>2. CASE Turns
  BY <1>0, <1>2 DEF Turns, OnTheWay, AnswerInv, Served, metrics, Has
<1>3. CASE HandlerReturns
  <2>1. chain' = chain /\ panics' = 0 /\ ran' /\ at' = Len(chain)
    <3>1. /\ chain' = chain /\ panics' = panics /\ ran'
          /\ mode = "down" /\ at = Len(chain) + 1 /\ at' = at - 1
      BY <1>3 DEF HandlerReturns, metrics
    <3> QED BY <1>0, <3>1 DEF AnswerInv
  <2>2. /\ answer' \in Answers /\ status' = answer'.code
        /\ bodies' = Documents(answer'.body) /\ panicked' \in BOOLEAN
        /\ mode' = IF panicked' THEN "panic" ELSE "up"
    BY <1>3 DEF HandlerReturns
  <2>3. CASE panicked'
    BY <1>0, <2>1, <2>2, <2>3 DEF AnswerInv
  <2>4. CASE ~panicked'
    BY <2>1, <2>2, <2>4 DEF AnswerInv, Served
  <2> QED BY <2>3, <2>4
<1>4. CASE Return
  BY <1>0, <1>4 DEF Return, AnswerInv, Served, response, Has
<1>5. CASE Unwind
  <2>1. /\ UNCHANGED <<chain, mode, response, ran, answer, panicked, metrics>> /\ mode = "panic"
        /\ at' = at - 1 /\ at > 0 /\ chain[at] # "Recovery"
    BY <1>5 DEF Unwind
  <2>2. ASSUME NEW i \in 1..Len(chain), i > at' PROVE chain[i] # "Recovery"
    <3>1. i > at \/ i = at
      BY <1>0, <2>1, <2>2
    <3> QED BY <1>0, <2>1, <3>1 DEF AnswerInv
  <2> QED BY <1>0, <2>1, <2>2 DEF AnswerInv, response, metrics
<1>6. CASE Recovers
  <2>1. Has("Recovery") /\ ran /\ panicked /\ answer \in Answers
    BY <1>0, <1>6 DEF Recovers, AnswerInv, Has
  <2>2. /\ Has("Recovery")' /\ ran' /\ panicked' /\ answer' = answer
        /\ mode' = "up" /\ panics' = 1
        /\ bodies' = Documents(answer.body) + 1
        /\ status' = IF answer.body = "unsent" THEN 500 ELSE answer.code
    BY <1>6, <2>1 DEF Recovers, Has
  <2> QED BY <2>1, <2>2 DEF AnswerInv, Served
<1>7. CASE Answered
  BY <1>0, <1>7 DEF Answered, AnswerInv, Served, response, metrics, Has
<1>8. CASE Dropped
  BY <1>0, <1>8 DEF Dropped, AnswerInv, response, metrics
<1> QED
  BY <1>1, <1>2, <1>3, <1>4, <1>5, <1>6, <1>7, <1>8, Kinds

(* A step keeps what is known of the identifier.                           *)
LEMMA IdStep == ASSUME PassInv, Step PROVE IdInv'
<1>0. /\ Len(chain) \in Nat /\ at \in 0..(Len(chain) + 1) /\ IdInv
      /\ mode \in {"down", "up", "panic", "answered", "dropped"}
      /\ chain' = chain /\ request' = request
  <2>1. chain \in Seq(Stages)
    BY ChainsAssumption DEF PassInv, TypeOK
  <2>2. chain' = chain /\ request' = request
    BY Kinds DEF Passes, Turns, HandlerReturns, Return, Unwind, Recovers, Answered,
                 Dropped
  <2> QED BY <2>1, <2>2 DEF PassInv, TypeOK, AnswerInv
<1>1. CASE Passes
  <2>1. /\ mode = "down" /\ mode' = "down" /\ at' = at + 1
        /\ keys'.request_id = header'
        /\ header' = header \/ (header' # "none" /\ request.id \in {"none", header'})
        /\ chain[at] = "RequestID" => header' # "none"
    BY <1>1 DEF Passes, OnTheWay
  <2>2. ASSUME NEW i \in 1..at, chain[i] = "RequestID" PROVE header' # "none"
    <3>1. i = at \/ i \in 1..(at - 1)
      BY <1>0, <2>1
    <3> QED BY <1>0, <2>1, <2>2, <3>1 DEF IdInv
  <2> QED BY <1>0, <2>1, <2>2 DEF IdInv
<1>2. CASE Turns
  <2>1. /\ OnTheWay /\ mode = "down" /\ mode' = "up" /\ chain[at] \in Guards
        /\ errorID' = keys.request_id /\ UNCHANGED <<keys, header>>
    BY <1>2 DEF Turns, OnTheWay
  <2>2. ASSUME Has("RequestID"), Outer("RequestID", Guards) PROVE header # "none"
    <3>1. PICK j \in 1..Len(chain) : chain[j] = "RequestID"
      BY <2>2 DEF Has
    <3>2. PICK p \in 1..Len(chain) : p = at
      BY <2>1 DEF OnTheWay
    <3>3. j # p
      BY <2>1, <3>1, <3>2 DEF Guards
    <3>4. ~(p < j)
      BY <2>1, <2>2, <3>1, <3>2 DEF Outer, Within
    <3>5. j \in 1..(at - 1)
      BY <1>0, <3>2, <3>3, <3>4
    <3> QED BY <1>0, <2>1, <3>1, <3>5 DEF IdInv
  <2>3. header' = keys'.request_id /\ errorID' = header'
        /\ (request.id # "none" => header' \in {"none", request.id})
    BY <1>0, <2>1 DEF IdInv
  <2>4. (Has("RequestID") /\ Outer("RequestID", Guards))' => header' # "none"
    BY <1>0, <2>1, <2>2 DEF Has, Outer, Within
  <2> QED BY <1>0, <2>1, <2>3, <2>4 DEF IdInv
<1>3. CASE HandlerReturns
  <2>1. /\ mode = "down" /\ mode' \in {"up", "panic"} /\ at = Len(chain) + 1
        /\ ran' = TRUE /\ (answer'.body = "named" => errorID' = keys.request_id)
        /\ UNCHANGED <<keys, header>>
    BY <1>3 DEF HandlerReturns
  <2>2. ASSUME NEW j \in 1..Len(chain), chain[j] = "RequestID" PROVE header # "none"
    <3>1. j \in 1..(at - 1)
      BY <1>0, <2>1
    <3> QED BY <1>0, <2>1, <2>2, <3>1 DEF IdInv
  <2> QED BY <1>0, <2>1, <2>2 DEF IdInv, Has
<1>4. ASSUME UNCHANGED <<keys, header, errorID, ran, answer>>,
             mode # "down", mode' # "down"
      PROVE  IdInv'
  BY <1>0, <1>4 DEF IdInv, Has, Outer, Within
<1>5. CASE Return
  BY <1>4, <1>5 DEF Return, response
<1>6. CASE Unwind
  BY <1>4, <1>6 DEF Unwind, response
<1>7. CASE Recovers
  BY <1>0, <1>4, <1>7 DEF Recovers
<1>8. CASE Answered
  BY <1>4, <1>8 DEF Answered, response
<1>9. CASE Dropped
  BY <1>4, <1>9 DEF Dropped, response
<1> QED
  BY <1>1, <1>2, <1>3, <1>5, <1>6, <1>7, <1>8, <1>9, Kinds

-----------------------------------------------------------------------------
Results == [err : {"none", "nil", "build", "do", "body", "decode", "status"},
            status : {0} \cup Sent, id : {"none", "client's", "fresh"}]

(* The client's steps leave the request on its way alone.                  *)
LEMMA UntouchedByClient ==
  ASSUME PassInv, UNCHANGED vars,
         call' \in {"none", "ready", "sent", "returned"}, decodes' = decodes,
         arrived' \in BOOLEAN, result' \in Results
  PROVE  PassInv'
<1>1. TypeOK'
  BY DEF PassInv, TypeOK, vars, response, metrics, Results
<1>2. Position' /\ AnswerInv'
  BY DEF PassInv, Position, Over, AnswerInv, Served, Has, vars, response, metrics
<1>3. IdInv'
  BY DEF PassInv, IdInv, Has, Outer, Within, vars, response
<1> QED BY <1>1, <1>2, <1>3 DEF PassInv

(* DoJSON returns what there is to return.                                 *)
LEMMA ClientStep ==
  ASSUME PassInv, ReplyInv, DoJSONStep \/ Arrives
  PROVE  PassInv' /\ ReplyInv'
<1>0. /\ UNCHANGED <<vars, decodes>> /\ decodes \in BOOLEAN
      /\ result \in Results /\ errorID \in {"none", "client's", "fresh"}
      /\ arrived \in BOOLEAN /\ call \in {"none", "ready", "sent", "returned"}
      /\ status \in Sent
  BY DEF DoJSONStep, BuildFails, Sends, DoFails, ReadFails, ReadsAnswer, Arrives,
         PassInv, TypeOK, Results
<1>1. ASSUME NEW e \in {"none", "nil", "build", "do", "body", "decode", "status"}
      PROVE  /\ Result(e) \in Results /\ Result(e).err = e /\ Result(e).status = 0
  BY DEF Result, Results
<1>2. UNCHANGED <<request, mode, status, errorID, bodies>>
  BY <1>0 DEF vars, response
<1>3. ASSUME call \in {"ready", "sent"}, call' = "returned", arrived' = arrived,
             NEW r \in Results, result' = r,
             r.err # "none",
             r.err = "build" => ~arrived,
             r.err \in {"nil", "decode", "status"} => mode = "answered",
             r.err \in {"nil", "decode"} => status \in 200..299,
             r.err = "nil" /\ decodes => bodies <= 1,
             r.err = "status" => r.status = status /\ r.id = errorID,
             r.err # "status" => r.status = 0
      PROVE  PassInv' /\ ReplyInv'
  <2>1. PassInv'
    BY <1>0, <1>3, UntouchedByClient
  <2>2. ReplyInv'
    BY <1>0, <1>2, <1>3 DEF ReplyInv
  <2> QED BY <2>1, <2>2
<1>4. CASE BuildFails
  <2>1. ~arrived /\ arrived' = arrived /\ call' = "returned" /\ result' = Result("build")
        /\ call = "ready"
    BY <1>4 DEF BuildFails, ReplyInv
  <2> QED BY <1>1, <1>3, <2>1
<1>5. CASE Sends
  <2>1. call = "ready" /\ call' = "sent" /\ UNCHANGED <<arrived, result>>
    BY <1>5 DEF Sends
  <2>2. PassInv'
    BY <1>0, <2>1, UntouchedByClient
  <2>3. result.err = "none"
    BY <1>1, <2>1 DEF ReplyInv
  <2> QED BY <1>0, <1>2, <2>1, <2>2, <2>3 DEF ReplyInv
<1>6. CASE Arrives
  <2>1. ~arrived /\ arrived' = TRUE /\ UNCHANGED <<call, result>>
        /\ (call = "sent" \/ result.err = "do")
    BY <1>6 DEF Arrives
  <2>2. PassInv'
    BY <1>0, <2>1, UntouchedByClient
  <2>3. call # "ready" /\ result.err # "build"
    BY <1>1, <2>1 DEF ReplyInv
  <2> QED BY <1>0, <1>2, <2>1, <2>2, <2>3 DEF ReplyInv
<1>7. CASE DoFails
  <2>1. arrived' = arrived /\ call' = "returned" /\ result' = Result("do")
        /\ call = "sent"
    BY <1>7 DEF DoFails
  <2> QED BY <1>1, <1>3, <2>1
<1>8. CASE ReadFails
  <2>1. arrived' = arrived /\ call' = "returned" /\ result' = Result("body")
        /\ call = "sent"
    BY <1>8 DEF ReadFails
  <2> QED BY <1>1, <1>3, <2>1
<1>9. CASE ReadsAnswer
  <2>1. /\ arrived' = arrived /\ call' = "returned" /\ call = "sent" /\ mode = "answered"
        /\ \/ ~Is2xx /\ result' = [err |-> "status", status |-> status, id |-> errorID]
           \/ Is2xx /\ (~decodes \/ bodies = 0) /\ result' = Result("nil")
           \/ Is2xx /\ bodies = 1 /\ result' \in {Result("nil"), Result("decode")}
           \/ Is2xx /\ result' = Result("decode")
    BY <1>9 DEF ReadsAnswer, Receives
  <2>2. Is2xx => status \in 200..299
    BY <1>0, CodesAssumption DEF Is2xx, Sent
  <2>3. CASE result' = [err |-> "status", status |-> status, id |-> errorID] /\ ~Is2xx
    <3>1. PICK r : r = [err |-> "status", status |-> status, id |-> errorID]
      OBVIOUS
    <3>2. r \in Results /\ r.err = "status" /\ r.status = status /\ r.id = errorID
      BY <1>0, <2>2, <2>3, <3>1 DEF Results
    <3> QED BY <1>3, <2>1, <2>3, <3>1, <3>2
  <2>4. CASE result' = Result("nil") /\ Is2xx /\ (~decodes \/ bodies \in {0, 1})
    BY <1>1, <1>3, <2>1, <2>2, <2>4
  <2>5. CASE result' = Result("decode") /\ Is2xx
    BY <1>1, <1>3, <2>1, <2>2, <2>5
  <2> QED BY <2>1, <2>3, <2>4, <2>5
<1> QED BY <1>4, <1>5, <1>6, <1>7, <1>8, <1>9 DEF DoJSONStep

LEMMA MeshInvInit == MeshInit => MeshInv
<1> SUFFICES ASSUME MeshInit PROVE MeshInv
  OBVIOUS
<1>1. /\ chain \in Chains /\ chain \in Seq(Stages) /\ Len(chain) \in Nat
      /\ request \in Requests /\ at = 1 /\ mode = "down"
      /\ keys = [request_id |-> "none", user_type |-> "none", service_caller |-> "none"]
      /\ status = 200 /\ bodies = 0 /\ header = "none" /\ errorID = "none"
      /\ answer = NoAnswer
      /\ ran = FALSE /\ panicked = FALSE /\ counted = <<>> /\ panics = 0
  <2>1. chain \in Seq(Stages)
    BY ChainsAssumption DEF MeshInit, Init
  <2> QED BY <2>1 DEF MeshInit, Init
<1>2. /\ \/ call = "none" /\ arrived = TRUE /\ decodes = FALSE
         \/ /\ call = "ready" /\ arrived = FALSE /\ decodes \in BOOLEAN
            /\ request = FromDoJSON(request.path, request.service, request.id)
      /\ result = Result("none")
  BY DEF MeshInit
<1>3. TypeOK
  <2>1. result \in Results
    BY <1>2 DEF Result, Results
  <2>2. keys \in Contexts
    BY <1>1 DEF Contexts
  <2>3. counted \in Seq(Sent) /\ panics \in Nat /\ bodies \in Nat
    BY <1>1
  <2>4. at \in 0..(Len(chain) + 1)
    BY <1>1
  <2>5. call \in {"none", "ready"} /\ arrived \in BOOLEAN /\ decodes \in BOOLEAN
    BY <1>2
  <2>6. /\ status \in Sent /\ answer \in Answers \cup {NoAnswer} /\ mode = "down" /\ ran = FALSE /\ panicked = FALSE
        /\ chain \in Chains /\ request \in Requests
        /\ header = "none" /\ errorID = "none"
    BY <1>1 DEF Sent
  <2> QED BY <2>1, <2>2, <2>3, <2>4, <2>5, <2>6, ZenonT(30) DEF TypeOK, Results, Contexts
<1>4. Position /\ AnswerInv
  BY <1>1 DEF Position, Over, AnswerInv
<1>5. IdInv
  BY <1>1 DEF IdInv
<1>6. ReplyInv
  <2>1. call # "none" => request.bearer = "absent"
    BY <1>2 DEF FromDoJSON
  <2>2. result.err = "none" /\ result.status = 0
    BY <1>2 DEF Result
  <2> QED BY <1>1, <1>2, <2>1, <2>2 DEF ReplyInv
<1> QED BY <1>3, <1>4, <1>5, <1>6, GuardInvInit DEF MeshInv, PassInv

LEMMA MeshInvNext == MeshInv /\ [MeshNext]_meshVars => MeshInv'
<1> SUFFICES ASSUME MeshInv, [MeshNext]_meshVars PROVE MeshInv'
  OBVIOUS
<1>1. GuardInv'
  BY GuardInvNext DEF MeshInv
<1>2. CASE DoJSONStep \/ Arrives
  BY <1>1, <1>2, ClientStep DEF MeshInv
<1>3. CASE arrived /\ Step /\ UNCHANGED client
  <2>1. PassInv'
    BY <1>3, TypeStep, AnswerStep, IdStep DEF MeshInv, PassInv
  <2>2. mode \in {"down", "up", "panic"} /\ request' = request
    BY <1>3, Kinds DEF MeshInv, Passes, Turns, HandlerReturns, Return, Unwind, Recovers,
                       Answered, Dropped, OnTheWay
  <2>3. ReplyInv'
    BY <1>3, <2>2 DEF MeshInv, ReplyInv, client
  <2> QED BY <1>1, <2>1, <2>3 DEF MeshInv
<1>4. CASE UNCHANGED meshVars
  <2>1. UNCHANGED <<vars, call, decodes, arrived, result>>
    BY <1>4 DEF meshVars, client
  <2>2. PassInv'
    <3>1. /\ call \in {"none", "ready", "sent", "returned"} /\ arrived \in BOOLEAN
          /\ result \in Results /\ PassInv
      BY DEF MeshInv, PassInv, TypeOK, Results
    <3> QED BY <2>1, <3>1, UntouchedByClient
  <2>3. ReplyInv'
    BY <2>1 DEF MeshInv, ReplyInv, vars, response
  <2> QED BY <1>1, <2>2, <2>3 DEF MeshInv
<1> QED BY <1>2, <1>3, <1>4 DEF MeshNext

(* In every reachable state a request has the shape MeshProps gives it.    *)
THEOREM TypeCorrect == MeshSpec => []TypeOK
<1>1. MeshInv => TypeOK
  BY DEF MeshInv, PassInv
<1> QED BY <1>1, MeshInvInit, MeshInvNext, PTL DEF MeshSpec

(* Whatever the chain: one answer and no more, but for a handler that      *)
(* panics behind its own; a panic is contained exactly when the chain has  *)
(* a Recovery, wherever it stands (Recovery).                              *)
THEOREM OneAnswerHolds == MeshSpec => []OneAnswer
<1>1. MeshInv => OneAnswer
  <2> SUFFICES ASSUME MeshInv PROVE OneAnswer
    OBVIOUS
  <2>1. AnswerInv /\ Position /\ chain \in Seq(Stages)
    BY ChainsAssumption DEF MeshInv, PassInv, TypeOK
  <2>2. CASE mode = "answered"
    BY <2>1, <2>2 DEF AnswerInv, Served, OneAnswer, Over
  <2>3. CASE mode = "dropped"
    <3>1. at = 0 /\ panicked /\ panics = 0
      BY <2>1, <2>3 DEF AnswerInv, Position, Over
    <3>2. ~Has("Recovery")
      BY <2>1, <2>3, <3>1 DEF AnswerInv, Has
    <3> QED BY <2>3, <3>1, <3>2 DEF OneAnswer, Over
  <2> QED BY <2>2, <2>3 DEF OneAnswer, Over
<1> QED BY <1>1, MeshInvInit, MeshInvNext, PTL DEF MeshSpec

(* Whatever the rest of the chain: behind a RequestID outside of the       *)
(* guards, context, response and refusal name the request alike, as its    *)
(* client does if it can (RequestID, contextRequestID, DoJSON).            *)
THEOREM CorrelatedHolds == MeshSpec => []Correlated
<1>1. MeshInv => Correlated
  <2> SUFFICES ASSUME MeshInv, Has("RequestID"), Outer("RequestID", Guards)
               PROVE  Correlated
    BY DEF Correlated, Outer
  <2>1. IdInv /\ ReplyInv
    BY DEF MeshInv, PassInv
  <2>2. mode # "down" => header # "none"
    BY <2>1 DEF IdInv
  <2>3. ASSUME result.err = "status", request.id # "none",
               ~ran \/ answer.body = "named"
        PROVE  result.id = request.id
    <3>1. mode = "answered" /\ result.id = errorID
      BY <2>1, <2>3 DEF ReplyInv
    <3> QED BY <2>1, <2>2, <2>3, <3>1 DEF IdInv
  <2> QED BY <2>1, <2>2, <2>3 DEF Correlated, IdInv, Over
<1> QED BY <1>1, MeshInvInit, MeshInvNext, PTL DEF MeshSpec

(* What the caller of DoJSON concludes from the error it gets is true of   *)
(* the service it called, whichever chain that service has built.          *)
THEOREM CallHonestHolds == MeshSpec => []CallHonest
<1>1. MeshInv => CallHonest
  <2> SUFFICES ASSUME MeshInv, call # "none" PROVE CallHonest
    BY DEF CallHonest
  <2>1. ReplyInv /\ AnswerInv /\ HandlerGuarded
    BY GuardInvImplies DEF MeshInv, PassInv
  <2>2. ran => ~Has("RequireAuth")
    <3>1. request.bearer \notin UserTypes
      BY <2>1 DEF ReplyInv, UserTypes
    <3> QED BY <2>1, <3>1 DEF HandlerGuarded
  <2>3. result.err = "build" => ~ran
    BY <2>1 DEF ReplyInv, AnswerInv
  <2>4. ASSUME result.err \in {"nil", "decode", "status"}
        PROVE  Served /\ mode = "answered"
    BY <2>1, <2>4 DEF ReplyInv, AnswerInv
  <2>5. ASSUME result.err \in {"nil", "decode"}
        PROVE  ran /\ answer.code \in 200..299
    <3>1. Served /\ status \in 200..299
      BY <2>1, <2>4, <2>5 DEF ReplyInv
    <3>2. ran
      BY <3>1 DEF Served
    <3>3. status = answer.code \/ status = 500
      BY <3>1, <3>2 DEF Served
    <3> QED BY <3>1, <3>2, <3>3
  <2>6. ASSUME result.err = "nil", decodes, panicked PROVE answer.body = "empty"
    <3>1. /\ Served /\ status \in 200..299 /\ bodies <= 1
      BY <2>1, <2>4, <2>6 DEF ReplyInv
    <3>2. answer.body # "unsent" /\ bodies = Documents(answer.body) + 1
      BY <2>6, <3>1 DEF Served
    <3>3. answer.body \in {"unsent", "empty", "plain", "named"}
      <4>1. answer \in Answers
        BY <2>6, <3>1 DEF Served
      <4> QED BY <4>1 DEF Answers
    <3>4. answer.body \in {"plain", "named"} => bodies = 2
      BY <3>2 DEF Documents
    <3> QED BY <3>1, <3>2, <3>3, <3>4
  <2>7. ASSUME result.err = "status"
        PROVE  /\ result.status \notin {401, 403} => ran
               /\ result.status = 500 => panicked \/ answer.code = 500
    <3>1. Served /\ result.status = status
      BY <2>1, <2>4, <2>7 DEF ReplyInv
    <3>2. ran /\ ~panicked => status = answer.code
      BY <3>1 DEF Served
    <3>3. ~ran => status \in {401, 403}
      BY <3>1 DEF Served
    <3> QED BY <3>1, <3>2, <3>3
  <2>8. result.err # "status" => result.status = 0
    BY <2>1 DEF ReplyInv
  <2> QED BY <2>2, <2>3, <2>5, <2>6, <2>7, <2>8 DEF CallHonest
<1> QED BY <1>1, MeshInvInit, MeshInvNext, PTL DEF MeshSpec

-----------------------------------------------------------------------------
(* Two Loggers would count a request twice: an application installs one.   *)
OneLogger(c) ==
  \A i, j \in 1..Len(c) : c[i] = "Logger" /\ c[j] = "Logger" => i = j

LEMMA CountStep ==
  ASSUME PassInv, CountInv, Step, OneLogger(chain)
  PROVE  CountInv'
<1>0. /\ Len(chain) \in Nat /\ at \in 0..(Len(chain) + 1)
      /\ mode \in {"down", "up", "panic", "answered", "dropped"}
      /\ chain' = chain /\ request' = request
  <2>1. chain \in Seq(Stages)
    BY ChainsAssumption DEF PassInv, TypeOK
  <2>2. chain' = chain /\ request' = request
    BY Kinds DEF Passes, Turns, HandlerReturns, Return, Unwind, Recovers, Answered,
                 Dropped
  <2> QED BY <2>1, <2>2 DEF PassInv, TypeOK
<1> SUFFICES ASSUME NEW l \in 1..Len(chain),
                    chain[l] = "Logger", request.path # "/health",
                    Outer("Logger", Guards \cup {"Recovery"})
             PROVE  /\ mode' \in {"down", "panic"} => counted' = <<>>
                    /\ mode' = "up" => counted' = IF at' >= l THEN <<>> ELSE <<status'>>
                    /\ mode' = "answered" => counted' = <<status'>>
  BY <1>0 DEF CountInv, Outer, Within
<1>1. /\ mode \in {"down", "panic"} => counted = <<>>
      /\ mode = "up" => counted = IF at >= l THEN <<>> ELSE <<status>>
      /\ mode = "answered" => counted = <<status>>
  BY DEF CountInv
<1>2. ASSUME at \in 1..Len(chain), chain[at] \in Guards \cup {"Recovery"}
      PROVE  at - 1 >= l
  <2>1. PICK p \in 1..Len(chain) : p = at
    BY <1>2
  <2>2. p # l /\ ~(p < l)
    BY <1>2, <2>1 DEF Outer, Within, Guards
  <2> QED BY <1>0, <2>1, <2>2
<1>3. CASE Passes
  BY <1>1, <1>3 DEF Passes, OnTheWay, metrics
<1>4. CASE Turns
  <2>1. /\ at' = at - 1 /\ at' >= l /\ mode' = "up" /\ counted' = counted
        /\ mode = "down"
    BY <1>2, <1>4 DEF Turns, OnTheWay, metrics
  <2> QED BY <1>1, <2>1
<1>5. CASE HandlerReturns
  <2>1. /\ at' = Len(chain) /\ at' >= l /\ mode' \in {"up", "panic"}
        /\ counted' = counted /\ mode = "down"
    <3>1. /\ at = Len(chain) + 1 /\ at' = at - 1 /\ mode' \in {"up", "panic"}
          /\ counted' = counted /\ mode = "down"
      BY <1>5 DEF HandlerReturns, metrics
    <3> QED BY <1>0, <3>1
  <2> QED BY <1>1, <2>1
<1>6. CASE Return
  <2>1. /\ mode = "up" /\ mode' = "up" /\ at > 0 /\ at' = at - 1 /\ status' = status
        /\ counted' = IF Logs THEN Append(counted, status) ELSE counted
        /\ at \in 1..Len(chain)
    BY <1>0, <1>6 DEF Return, response, PassInv, Position
  <2>2. CASE at = l
    <3>1. Logs /\ counted = <<>> /\ ~(at' >= l)
      BY <1>0, <1>1, <2>1, <2>2 DEF Logs
    <3>2. counted' = <<status>>
      BY <2>1, <3>1
    <3> QED BY <2>1, <3>1, <3>2
  <2>3. CASE at # l
    <3>1. ~Logs
      BY <2>1, <2>3 DEF Logs, OneLogger
    <3>2. at' >= l <=> at >= l
      BY <1>0, <2>1, <2>3
    <3> QED BY <1>1, <2>1, <3>1, <3>2
  <2> QED BY <2>2, <2>3
<1>7. CASE Unwind
  BY <1>1, <1>7 DEF Unwind, metrics
<1>8. CASE Recovers
  <2>1. /\ at' = at - 1 /\ at' >= l /\ mode' = "up" /\ counted' = counted
        /\ mode = "panic"
    BY <1>2, <1>8 DEF Recovers
  <2> QED BY <1>1, <2>1
<1>9. CASE Answered
  <2>1. /\ mode = "up" /\ at = 0 /\ mode' = "answered" /\ counted' = counted
        /\ status' = status
    BY <1>9 DEF Answered, metrics, response
  <2> QED BY <1>1, <2>1
<1>10. CASE Dropped
  BY <1>10 DEF Dropped
<1> QED BY <1>3, <1>4, <1>5, <1>6, <1>7, <1>8, <1>9, <1>10, Kinds

(* Whatever the chain, if it has one Logger: nobody who cannot get round   *)
(* it is answered uncounted, counted twice or counted as something else    *)
(* (Logger).                                                               *)
THEOREM CountedAsAnsweredHolds ==
  ASSUME \A c \in Chains : OneLogger(c)
  PROVE  MeshSpec => []CountedAsAnswered
<1>1. MeshInit => CountInv
  BY DEF MeshInit, Init, CountInv
<1>2. MeshInv /\ CountInv /\ [MeshNext]_meshVars => CountInv'
  <2> SUFFICES ASSUME MeshInv, CountInv, [MeshNext]_meshVars PROVE CountInv'
    OBVIOUS
  <2>1. CASE Step
    <3>1. chain \in Chains
      BY DEF MeshInv, PassInv, TypeOK
    <3> QED BY <2>1, <3>1, CountStep DEF MeshInv
  <2>2. CASE UNCHANGED vars
    BY <2>2 DEF CountInv, Outer, Within, vars, response, metrics
  <2>3. Step \/ UNCHANGED vars
    BY DEF MeshNext, meshVars, DoJSONStep, BuildFails, Sends, Arrives, DoFails,
           ReadFails, ReadsAnswer
  <2> QED BY <2>1, <2>2, <2>3
<1>3. CountInv => CountedAsAnswered
  <2> SUFFICES ASSUME CountInv, mode = "answered", Has("Logger"),
                      request.path # "/health",
                      \A outer \in Guards \cup {"Recovery"} : ~Within("Logger", outer)
               PROVE  counted = <<status>>
    BY DEF CountedAsAnswered
  <2>1. PICK l \in 1..Len(chain) : chain[l] = "Logger"
    BY DEF Has
  <2> QED BY <2>1 DEF CountInv, Outer
<1> QED BY <1>1, <1>2, <1>3, MeshInvInit, MeshInvNext, PTL DEF MeshSpec
=============================================================================
