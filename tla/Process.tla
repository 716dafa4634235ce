------------------------------ MODULE Process -------------------------------
(***************************************************************************)
(* What the packages of a service share in its process: the environment,   *)
(* which pkg/config fills and pkg/telemetry reads, and the context that a  *)
(* signal cancels (signal.NotifyContext, examples/supervisor-client).      *)
(***************************************************************************)
EXTENDS Integers

CONSTANTS Names,    \* environment variables
          Values,   \* what they may be set to, "" among them
          Unset     \* not set at all

ASSUME EmptyAssumption == "" \in Values
ASSUME UnsetAssumption == Unset \notin Values

VARIABLES env,      \* os.Environ
          ctxDone   \* has the signal arrived?

process == <<env, ctxDone>>

ProcessInit == env \in [Names -> Values \cup {Unset}] /\ ctxDone = FALSE

Exists(n) == n \in Names /\ env[n] # Unset
Getenv(n) == IF Exists(n) THEN env[n] ELSE ""

Cancel == ~ctxDone /\ ctxDone' = TRUE /\ UNCHANGED env
=============================================================================
