------------------------------ MODULE Service -------------------------------
(***************************************************************************)
(* The life of a service's process, put together of pkg/config,            *)
(* pkg/telemetry and pkg/mongo the way the READMEs of pkg and pkg/config   *)
(* use them: load the .env file whatever comes of it, read a required      *)
(* variable, make the telemetry and defer its Shutdown, connect to         *)
(* MongoDB, serve until the signal arrives.                                *)
(*                                                                         *)
(* main is the application's and external; what it calls is not.           *)
(***************************************************************************)
EXTENDS EnvFile, Telemetry, MongoConnect

CONSTANT Required   \* the variable given to MustGetEnv

VARIABLES
  main,   \* "load", "require", "configure", "new", "connect", "serve",
          \* "disconnect", "shutdown", "exit"
  fresh   \* does main give Shutdown a context of its own, as
          \* examples/instrumentation-example.go does, or that of the signal,
          \* as pkg/README.md does?

vars == <<process, loader, telemetry, mongo, main, fresh>>

ServiceInit ==
  /\ ProcessInit /\ LoaderInit /\ TelemetryInit /\ MongoInit
  /\ main = "load" /\ fresh \in BOOLEAN

-----------------------------------------------------------------------------
(* _ = config.LoadEnvFile(".env")                                          *)
Loads ==
  /\ main = "load"
  /\ LoadStep
  /\ main' = IF load' \in {"missing", "error", "nil"} THEN "require" ELSE main
  /\ UNCHANGED <<telemetry, mongo, fresh>>

(* A panic here ends the process with nothing deferred.                    *)
Requires ==
  /\ main = "require"
  /\ main' = IF MustGetEnvPanics(Required) THEN "exit" ELSE "configure"
  /\ UNCHANGED <<process, loader, telemetry, mongo, fresh>>

Configures ==
  /\ main = "configure"
  /\ DefaultConfig
  /\ main' = "new"
  /\ UNCHANGED <<process, loader, mongo, fresh>>

(* log.Fatal on an error.                                                  *)
MakesTelemetry ==
  /\ main = "new"
  /\ NewStep
  /\ main' = CASE new' = "nil" -> "connect" [] new' = "error" -> "exit" [] OTHER -> main
  /\ UNCHANGED <<process, loader, mongo, fresh>>

Connects ==
  /\ main = "connect"
  /\ ConnectStep
  /\ main' = CASE connect' = "nil" -> "serve" [] connect' = "error" -> "shutdown"
               [] OTHER            -> main
  /\ UNCHANGED <<process, loader, telemetry, fresh>>

(* <-ctx.Done()                                                            *)
Serves ==
  /\ main = "serve" /\ ctxDone
  /\ main' = "disconnect"
  /\ UNCHANGED <<process, loader, telemetry, mongo, fresh>>

Disconnects ==
  /\ main = "disconnect"
  /\ Disconnect
  /\ main' = "shutdown"
  /\ UNCHANGED <<process, loader, telemetry, fresh>>

(* defer tel.Shutdown(ctx)                                                 *)
ShutsTelemetryDown ==
  /\ main = "shutdown"
  /\ ShutdownCalled \/ ShutsDown(~fresh /\ ctxDone)
  /\ main' = IF shutdown' \in {"nil", "error"} THEN "exit" ELSE main
  /\ UNCHANGED <<process, loader, mongo, fresh>>

Program == \/ Loads \/ Requires \/ Configures \/ MakesTelemetry \/ Connects
           \/ Serves \/ Disconnects \/ ShutsTelemetryDown

Signal == Cancel /\ UNCHANGED <<loader, telemetry, mongo, main, fresh>>

ServiceNext == \/ Program \/ Signal
               \/ (main = "exit" /\ UNCHANGED vars)

ServiceSpec == ServiceInit /\ [][ServiceNext]_vars

(* The goroutine of main goes on: what it calls returns, nil or not.       *)
ServiceFairSpec == ServiceSpec /\ WF_vars(Program)
=============================================================================
