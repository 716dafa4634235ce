------------------------------ MODULE MeshProps -----------------------------
(***************************************************************************)
(* What an application may rely on when it builds a chain of pkg/middleware*)
(* and pkg/auth, how much of it depends on the order it chooses, and what  *)
(* a service that calls it through pkg/internalclient may conclude.        *)
(***************************************************************************)
EXTENDS Mesh

Within(stage, other) ==
  \E i, j \in 1..Len(chain) : i < j /\ chain[i] = other /\ chain[j] = stage
Has(stage) == \E i \in 1..Len(chain) : chain[i] = stage

(* The shape of the state of the mesh: a user_type in the context is one   *)
(* RequireAuth has recognized, and what is sent is gin's 200, the 401 or   *)
(* 403 of a guard, the 500 of Recovery or a status of the handler.         *)
Sent == {200, 401, 403, 500} \cup Codes
TypeOK ==
  /\ chain \in Chains /\ request \in Requests
  /\ at \in 0..(Len(chain) + 1)
  /\ mode \in {"down", "up", "panic", "answered", "dropped"}
  /\ keys \in [request_id : {"none", "client's", "fresh"},
               user_type : {"none"} \cup UserTypes, service_caller : {"none", "caller"}]
  /\ status \in Sent /\ bodies \in Nat
  /\ header \in {"none", "client's", "fresh"} /\ errorID \in {"none", "client's", "fresh"}
  /\ ran \in BOOLEAN /\ answer \in Answers \cup {NoAnswer} /\ panicked \in BOOLEAN
  /\ counted \in Seq(Sent) /\ panics \in Nat
  /\ call \in {"none", "ready", "sent", "returned"}
  /\ decodes \in BOOLEAN /\ arrived \in BOOLEAN
  /\ result \in [err : {"none", "nil", "build", "do", "body", "decode", "status"},
                 status : {0} \cup Sent, id : {"none", "client's", "fresh"}]

(* The handler is called only for a request that every guard of the chain  *)
(* admits, wherever in the chain it stands, and finds in the context whom  *)
(* they admitted; RequireUserType outside of RequireAuth, against its      *)
(* comment, turns everybody away (RequireAuth, RequireUserType,            *)
(* ServiceAuth, ServiceAuthMulti and the returns after their aborts).      *)
HandlerGuarded ==
  ran => /\ Has("RequireAuth") => /\ request.bearer \in UserTypes
                                  /\ keys.user_type = request.bearer
         /\ Has("RequireUserType") => /\ Within("RequireUserType", "RequireAuth")
                                      /\ request.bearer \in Allowed
         /\ Has("ServiceAuth") => "ServiceAuth" \in request.service
         /\ Has("ServiceAuthMulti") => /\ "ServiceAuthMulti" \in request.service
                                       /\ keys.service_caller # "none"

(* A request that was answered has one answer: the 401 or 403 of one guard *)
(* if the handler was not called, and otherwise what the handler left. If  *)
(* it panicked, the 500 takes the place of a status that was not sent, and *)
(* comes as one more document behind what was.  A panic is contained and   *)
(* counted once when there is a Recovery, wherever it stands, and          *)
(* otherwise leaves the client without an answer (Recovery).               *)
OneAnswer ==
  /\ mode = "answered" =>
       /\ ~ran => status \in {401, 403} /\ bodies = 1
       /\ ran /\ ~panicked => status = answer.code /\ bodies = Documents(answer.body)
       /\ panicked => /\ status = IF answer.body = "unsent" THEN 500 ELSE answer.code
                      /\ bodies = Documents(answer.body) + 1
  /\ Over => /\ mode = "dropped" <=> (panicked /\ ~Has("Recovery"))
             /\ panics = IF panicked /\ Has("Recovery") THEN 1 ELSE 0

(* A Logger with no Recovery outside of it counts and logs every request   *)
(* that is answered once, with the status the client is sent; a guard      *)
(* outside of Logger may answer before it.                                 *)
Guards == {"RequireAuth", "RequireUserType", "ServiceAuth", "ServiceAuthMulti"}
CountedAsAnswered ==
  (/\ mode = "answered" /\ Has("Logger") /\ request.path # "/health"
   /\ \A outer \in Guards \cup {"Recovery"} : ~Within("Logger", outer))
    => counted = <<status>>

(* One identifier names a request on both sides: RequestID outside of the  *)
(* guards gives it to the context, to the response and to the body of a    *)
(* refusal (contextRequestID) and of an error for which the handler asks   *)
(* the context, and it is the caller's own if the caller of DoJSON had     *)
(* one, so that the *Error it gets names its request.                      *)
Correlated ==
  (Has("RequestID") /\ \A outer \in Guards : ~Within("RequestID", outer)) =>
    /\ Over => header = keys.request_id /\ header # "none"
    /\ request.id # "none" => header \in {"none", request.id}
    /\ mode = "answered" /\ (~ran \/ answer.body = "named") => errorID = header
    /\ (/\ result.err = "status" /\ request.id # "none"
        /\ ~ran \/ answer.body = "named") => result.id = request.id

(* What the caller of DoJSON may conclude.  nil: the handler of the other  *)
(* service ran and meant to answer a 2xx, and if the caller has asked for  *)
(* a document and the handler panicked all the same, then only behind a    *)
(* head without a body (the document is that of Recovery).  An *Error that *)
(* is no 401 or 403, and a body that does not decode: the handler ran; a   *)
(* 500 is its own or its panic's.  A 401 or 403 does not tell whether it   *)
(* ran.  A request that was not built does not run it, and a pipeline with *)
(* RequireAuth never lets a DoJSON through.                                *)
CallHonest ==
  call # "none" =>
    /\ result.err = "nil" => /\ ran /\ answer.code \in 200..299
                             /\ decodes /\ panicked => answer.body = "empty"
    /\ result.err = "decode" => ran
    /\ result.err = "status" /\ result.status \notin {401, 403} => ran
    /\ result.status = 500 => panicked \/ answer.code = 500
    /\ result.err = "build" => ~ran
    /\ ran => ~Has("RequireAuth")

-----------------------------------------------------------------------------
(* Refuted: requestsTotal counts "Total HTTP requests received"            *)
(* (NewLoggerMiddleware); a panic passes Logger by on its way to a         *)
(* Recovery outside of it, the order pkg/README.md shows.                  *)
EveryRequestCounted ==
  (Over /\ Has("Logger") /\ request.path # "/health") => counted # <<>>
=============================================================================
