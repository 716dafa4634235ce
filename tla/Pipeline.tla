------------------------------ MODULE Pipeline ------------------------------
(***************************************************************************)
(* pkg/middleware and pkg/auth: one request on its way through a chain of  *)
(* gin middleware to the handler of its route and back.                    *)
(*                                                                         *)
(* gin is external: c.Next() calls the rest of the chain and returns, an   *)
(* abort keeps the rest from being called, a panic unwinds the calls, and  *)
(* net/http drops the connection if nobody recovers it.  Every middleware  *)
(* here calls Next once or aborts, so the calls under way are those at     *)
(* positions before "at".  Requests share nothing but commuting counters:  *)
(* one is enough, and its context and chain are its own.                   *)
(*                                                                         *)
(* A definition whose comment begins with "Bug:" is a mutant of the one    *)
(* that follows.                                                           *)
(***************************************************************************)
EXTENDS Integers, Sequences

CONSTANTS Chains,   \* the chains an application may build: sequences of Stages
          Allowed,  \* the user types given to RequireUserType
          Codes     \* the statuses the handler of the route may answer

Stages == {"RequestID", "Logger", "Recovery", "RequireAuth", "RequireUserType",
           "ServiceAuth", "ServiceAuthMulti"}
UserTypes == {"user", "seller", "admin"}

ASSUME ChainsAssumption  == Chains \subseteq Seq(Stages)
ASSUME AllowedAssumption == Allowed \subseteq UserTypes

(* Left out: redirects, which net/http follows, and 204, which has no body.*)
ASSUME CodesAssumption   == Codes \subseteq ((200..299) \cup (400..599)) \ {204}

(* The Authorization header: absent, not "Bearer <token>", a token that is *)
(* expired or fails otherwise, one without a user_id, one of an unknown    *)
(* user_type, or a good one, named by its user_type.                       *)
BadTokens  == {"absent", "malformed", "expired", "invalid", "no user_id",
               "unknown type"}
Bearers    == BadTokens \cup UserTypes

(* The X-Service-Token stands for the set of the two stages that know it,  *)
(* an absent or unknown one for the empty set.                             *)
Requests == [path : {"/health", "/api"}, id : {"none", "client's"},
             bearer : Bearers,
             service : SUBSET {"ServiceAuth", "ServiceAuthMulti"}]

(* What a handler leaves in the response: a status nobody has sent yet     *)
(* (c.Status), one that was sent with no body, or with one document, which *)
(* may have the request_id that errors.AppError has a place for.           *)
Answers  == [code : Codes, body : {"unsent", "empty", "plain", "named"}]
NoAnswer == [code |-> 0, body |-> "none"]
Documents(body) == IF body \in {"plain", "named"} THEN 1 ELSE 0

VARIABLES
  chain,     \* the middleware of the route, outermost first
  request,   \* its path and headers
  at,        \* the position of the call under way; 0 is gin itself
  mode,      \* "down" (Next was called), "up" (it returns), "panic",
             \* "answered", "dropped"
  keys,      \* the values set in the gin context, "none" when unset
  status,    \* c.Writer.Status()
  bodies,    \* how many documents were written
  header,    \* X-Request-ID of the response
  errorID,   \* request_id in the first document
  ran,       \* has the handler of the route been called?
  answer,    \* history: what it has left
  panicked,  \* has it panicked?
  counted,   \* the statuses requestsTotal and the log were given
  panics     \* panicsTotal

response == <<status, bodies, errorID>>
metrics  == <<counted, panics>>
vars == <<chain, request, at, mode, keys, response, header, ran, answer, panicked, metrics>>

Init ==
  /\ chain \in Chains /\ request \in Requests
  /\ at = 1 /\ mode = "down"
  /\ keys = [request_id |-> "none", user_type |-> "none", service_caller |-> "none"]
  /\ status = 200 /\ bodies = 0 /\ header = "none" /\ errorID = "none"
  /\ ran = FALSE /\ answer = NoAnswer /\ panicked = FALSE
  /\ counted = <<>> /\ panics = 0

Reaches(stage) == mode = "down" /\ at <= Len(chain) /\ chain[at] = stage
Proceed == at' = at + 1 /\ UNCHANGED <<mode, response>>

(* Has the head of the response been sent?  (At the end gin sees to it.)   *)
Written == bodies > 0 \/ answer.body = "empty" \/ mode = "answered"

(* gin keeps a status that has been sent.                                  *)
WriteJSON(code) == /\ status' = IF Written THEN status ELSE code
                   /\ bodies' = bodies + 1

(* Bug: c.JSON in place of AbortWithStatusJSON, and no return behind it:   *)
(* Next calls the rest.                                                    *)
AbortProceeds(code) ==
  /\ WriteJSON(code)
  /\ errorID' = keys.request_id
  /\ at' = at + 1 /\ UNCHANGED mode

(* abortUnauthorized and its likes, and the return that follows.           *)
Abort(code) ==
  /\ WriteJSON(code)
  /\ errorID' = keys.request_id
  /\ at' = at - 1 /\ mode' = "up"

-----------------------------------------------------------------------------
(* On the way down.                                                        *)

(* Bug: the response does not get the identifier the context has.          *)
RequestIDEchoes ==
  /\ Reaches("RequestID")
  /\ keys' = [keys EXCEPT !.request_id = IF request.id = "none" THEN "fresh" ELSE request.id]
  /\ header' = request.id
  /\ Proceed
  /\ UNCHANGED <<chain, request, ran, answer, panicked, metrics>>

RequestID ==
  LET id == IF request.id = "none" THEN "fresh" ELSE request.id
  IN /\ Reaches("RequestID")
     /\ keys' = [keys EXCEPT !.request_id = id]
     /\ header' = id
     /\ Proceed
     /\ UNCHANGED <<chain, request, ran, answer, panicked, metrics>>

LoggerOrRecovery ==
  /\ Reaches("Logger") \/ Reaches("Recovery")
  /\ Proceed
  /\ UNCHANGED <<chain, request, keys, header, ran, answer, panicked, metrics>>

RequireAuth ==
  /\ Reaches("RequireAuth")
  /\ IF request.bearer \in UserTypes
       THEN keys' = [keys EXCEPT !.user_type = request.bearer] /\ Proceed
       ELSE Abort(401) /\ UNCHANGED keys
  /\ UNCHANGED <<chain, request, header, ran, answer, panicked, metrics>>

RequireUserType ==
  /\ Reaches("RequireUserType")
  /\ IF keys.user_type \in Allowed THEN Proceed ELSE Abort(403)
  /\ UNCHANGED <<chain, request, keys, header, ran, answer, panicked, metrics>>

ServiceAuth ==
  /\ Reaches("ServiceAuth")
  /\ IF "ServiceAuth" \in request.service THEN Proceed ELSE Abort(401)
  /\ UNCHANGED <<chain, request, keys, header, ran, answer, panicked, metrics>>

ServiceAuthMulti ==
  /\ Reaches("ServiceAuthMulti")
  /\ IF "ServiceAuthMulti" \in request.service
       THEN keys' = [keys EXCEPT !.service_caller = "caller"] /\ Proceed
       ELSE Abort(401) /\ UNCHANGED keys
  /\ UNCHANGED <<chain, request, header, ran, answer, panicked, metrics>>

(* The handler of the route is the application's: it may answer what it    *)
(* likes, a guard's 401 included, or panic before or behind it.            *)
Handler(a, dies) ==
  /\ mode = "down" /\ at = Len(chain) + 1
  /\ ran' = TRUE /\ answer' = a /\ panicked' = dies
  /\ status' = a.code /\ bodies' = Documents(a.body)
  /\ errorID' = IF a.body = "named" THEN keys.request_id ELSE "none"
  /\ mode' = IF dies THEN "panic" ELSE "up"
  /\ at' = at - 1
  /\ UNCHANGED <<chain, request, keys, header, metrics>>

-----------------------------------------------------------------------------
(* On the way up.                                                          *)

Logs == chain[at] = "Logger" /\ request.path # "/health"

(* Bug: the status is read before the rest of the chain is called.         *)
ReturnReadsEarly ==
  /\ mode = "up" /\ at > 0
  /\ counted' = IF Logs THEN Append(counted, 200) ELSE counted
  /\ at' = at - 1
  /\ UNCHANGED <<chain, request, mode, keys, response, header, ran, answer, panicked, panics>>

(* Logger counts and logs what Next has left, except for /health.          *)
Return ==
  /\ mode = "up" /\ at > 0
  /\ counted' = IF Logs THEN Append(counted, status) ELSE counted
  /\ at' = at - 1
  /\ UNCHANGED <<chain, request, mode, keys, response, header, ran, answer, panicked, panics>>

Unwind ==
  /\ mode = "panic" /\ at > 0 /\ chain[at] # "Recovery"
  /\ at' = at - 1
  /\ UNCHANGED <<chain, request, mode, keys, response, header, ran, answer, panicked, metrics>>

(* Bug: the panic is logged and counted, but nobody answers.               *)
RecoverSilently ==
  /\ mode = "panic" /\ at > 0 /\ chain[at] = "Recovery"
  /\ panics' = panics + 1
  /\ mode' = "up" /\ at' = at - 1
  /\ UNCHANGED <<chain, request, keys, response, header, ran, answer, panicked, counted>>

Recover ==
  /\ mode = "panic" /\ at > 0 /\ chain[at] = "Recovery"
  /\ panics' = panics + 1
  /\ WriteJSON(500)
  /\ mode' = "up" /\ at' = at - 1
  /\ UNCHANGED <<chain, request, keys, errorID, header, ran, answer, panicked, counted>>

Answered ==
  /\ mode = "up" /\ at = 0
  /\ mode' = "answered"
  /\ UNCHANGED <<chain, request, at, keys, response, header, ran, answer, panicked, metrics>>

Dropped ==
  /\ mode = "panic" /\ at = 0
  /\ mode' = "dropped"
  /\ UNCHANGED <<chain, request, at, keys, response, header, ran, answer, panicked, metrics>>

Over == mode \in {"answered", "dropped"}

Step ==
  \/ RequestID \/ LoggerOrRecovery \/ RequireAuth \/ RequireUserType
  \/ ServiceAuth \/ ServiceAuthMulti
  \/ \E a \in Answers, dies \in BOOLEAN : Handler(a, dies)
  \/ Return \/ Unwind \/ Recover \/ Answered \/ Dropped
=============================================================================
