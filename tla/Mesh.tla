-------------------------------- MODULE Mesh --------------------------------
(***************************************************************************)
(* pkg/internalclient and the pipeline of the service it calls: one DoJSON *)
(* from one service of the mesh to the handler of another and back, beside *)
(* requests that come from elsewhere.                                      *)
(*                                                                         *)
(* net/http is external: hc.Do fails when the request cannot be sent, the  *)
(* connection ends without an answer, or Timeout or the caller's context   *)
(* runs out; the request may have arrived, or arrive later, and the other  *)
(* service goes on with it all the same.                                   *)
(*                                                                         *)
(* A definition whose comment begins with "Bug:" is a mutant of the one    *)
(* that follows.                                                           *)
(***************************************************************************)
EXTENDS Pipeline

VARIABLES
  call,     \* DoJSON: "ready", "sent", "returned"; "none" for a request
            \* that comes from elsewhere
  decodes,  \* is respBody given?
  arrived,  \* has the request reached the pipeline?
  result    \* what DoJSON has returned: which error it was, with the status
            \* and the request_id in the body of an *Error, or "nil"

client   == <<call, decodes, arrived, result>>
meshVars == <<vars, client>>

Result(err) == [err |-> err, status |-> 0, id |-> "none"]

(* The headers of DoJSON: no Authorization; X-Service-Token is one of the  *)
(* tokens the pipeline knows, or absent or unknown; X-Request-ID is what   *)
(* WithRequestID has put into the context.                                 *)
FromDoJSON(path, token, rid) ==
  [path |-> path, id |-> rid, bearer |-> "absent", service |-> token]

MeshInit ==
  /\ Init
  /\ \/ call = "none" /\ arrived = TRUE /\ decodes = FALSE
     \/ /\ call = "ready" /\ arrived = FALSE /\ decodes \in BOOLEAN
        /\ request = FromDoJSON(request.path, request.service, request.id)
  /\ result = Result("none")

-----------------------------------------------------------------------------
(* json.Marshal or http.NewRequestWithContext fails.                       *)
BuildFails ==
  /\ call = "ready"
  /\ call' = "returned" /\ result' = Result("build")
  /\ UNCHANGED <<vars, decodes, arrived>>

Sends ==
  /\ call = "ready"
  /\ call' = "sent"
  /\ UNCHANGED <<vars, decodes, arrived, result>>

Arrives ==
  /\ ~arrived /\ (call = "sent" \/ result.err = "do")
  /\ arrived' = TRUE
  /\ UNCHANGED <<vars, call, decodes, result>>

DoFails ==
  /\ call = "sent"
  /\ call' = "returned" /\ result' = Result("do")
  /\ UNCHANGED <<vars, decodes, arrived>>

Receives == call = "sent" /\ arrived /\ mode = "answered"

(* The connection or the deadline ends behind the head of the answer.      *)
ReadFails ==
  /\ call = "sent" /\ arrived /\ Written
  /\ call' = "returned" /\ result' = Result("body")
  /\ UNCHANGED <<vars, decodes, arrived>>

(* Bug: only the server's own errors count as errors.                      *)
Below500 == status < 500

Is2xx == status >= 200 /\ status < 300

(* An answer without a body satisfies every caller.  Two documents, one    *)
(* behind the other, do not decode; one may not, if the services disagree  *)
(* on its type.                                                            *)
ReadsAnswer ==
  /\ Receives
  /\ call' = "returned"
  /\ \/ ~Is2xx /\ result' = [err |-> "status", status |-> status, id |-> errorID]
     \/ Is2xx /\ (~decodes \/ bodies = 0) /\ result' = Result("nil")
     \/ Is2xx /\ decodes /\ bodies = 1 /\ result' \in {Result("nil"), Result("decode")}
     \/ Is2xx /\ decodes /\ bodies > 1 /\ result' = Result("decode")
  /\ UNCHANGED <<vars, decodes, arrived>>

DoJSONStep == BuildFails \/ Sends \/ DoFails \/ ReadFails \/ ReadsAnswer

MeshNext ==
  \/ DoJSONStep \/ Arrives
  \/ arrived /\ Step /\ UNCHANGED client
  \/ call = "returned" /\ UNCHANGED meshVars
  \/ call = "none" /\ Over /\ UNCHANGED meshVars

MeshSpec == MeshInit /\ [][MeshNext]_meshVars
=============================================================================
