----------------------------- MODULE Telemetry ------------------------------
(***************************************************************************)
(* pkg/telemetry: DefaultConfig, New, which makes three providers one      *)
(* after the other and undoes what it has made when the next one fails,    *)
(* and Shutdown, which stops at the first provider that fails.             *)
(*                                                                         *)
(* The OpenTelemetry providers are external: Shutdown of one exports what  *)
(* it still has and ends its goroutine, or fails: when its exporter does,  *)
(* and always under a context that is done.  It takes nothing in any more  *)
(* after either.                                                           *)
(*                                                                         *)
(* A definition whose comment begins with "Bug:" is a mutant of the one    *)
(* that follows.                                                           *)
(***************************************************************************)
EXTENDS Process

CONSTANTS True,     \* the values getEnvBool takes for true
          Floats,   \* the values strconv.ParseFloat takes
          Default   \* a value of DefaultConfig that is not in the environment

(* DefaultConfig reads it, whether it is set or not.                       *)
ASSUME EnabledAssumption == "OTEL_ENABLED" \in Names

Providers == {"tracer", "meter", "logger"}

VARIABLES
  config,     \* telemetryCfg, or Default before DefaultConfig is called
  new,        \* New: "off", "resource", "tracer", "meter", "logger",
              \* "globals", "nil", "error"
  provider,   \* provider[p]: "none", "up", "down", "failed" (its Shutdown
              \* has failed, and what it had may be lost)
  global,     \* have the global providers been set?
  shutdown    \* Shutdown: "off", "tracer", "meter", "logger", "nil", "error"

telemetry == <<config, new, provider, global, shutdown>>

TelemetryInit ==
  /\ config = Default /\ new = "off" /\ shutdown = "off"
  /\ provider = [p \in Providers |-> "none"] /\ global = FALSE

-----------------------------------------------------------------------------
getEnv(n, default)      == IF Exists(n) THEN env[n] ELSE default
getEnvFloat(n, default) == IF Exists(n) /\ env[n] \in Floats THEN env[n] ELSE default
getEnvBool(n, default)  == IF Exists(n) THEN env[n] \in True ELSE default

DefaultConfig ==
  /\ config' = [Enabled     |-> getEnvBool("OTEL_ENABLED", TRUE),
                ServiceName |-> getEnv("OTEL_SERVICE_NAME", Default),
                SampleRate  |-> getEnvFloat("OTEL_TRACE_SAMPLE_RATE", Default)]
  /\ UNCHANGED <<new, provider, global, shutdown>>

(* What Shutdown(ctx) may make of a provider.                              *)
ShutdownOf(done) == IF done THEN {"failed"} ELSE {"down", "failed"}

-----------------------------------------------------------------------------
NewCalled ==
  /\ new = "off"
  /\ new' = IF config.Enabled THEN "resource" ELSE "nil"
  /\ UNCHANGED <<config, provider, global, shutdown>>

MakesResource ==
  /\ new = "resource"
  /\ new' \in {"tracer", "error"}
  /\ UNCHANGED <<config, provider, global, shutdown>>

After(p) == CASE p = "tracer" -> "meter" [] p = "meter" -> "logger"
              [] OTHER        -> "globals"

(* initTracerProvider, initMeterProvider, initLoggerProvider.              *)
MakesProvider ==
  /\ new \in Providers
  /\ provider' = [provider EXCEPT ![new] = "up"]
  /\ new' = After(new)
  /\ UNCHANGED <<config, global, shutdown>>

(* Bug: only the tracer provider is shut down.                             *)
ProviderFailsLeaves ==
  /\ new \in Providers
  /\ \E s \in ShutdownOf(ctxDone) :
       provider' = [provider EXCEPT !["tracer"] = IF @ = "up" THEN s ELSE @]
  /\ new' = "error"
  /\ UNCHANGED <<config, global, shutdown>>

(* Its exporter cannot be made: those made before are shut down.           *)
ProviderFails ==
  /\ new \in Providers
  /\ \E s \in [Providers -> ShutdownOf(ctxDone)] :
       provider' = [p \in Providers |-> IF provider[p] = "up" THEN s[p] ELSE provider[p]]
  /\ new' = "error"
  /\ UNCHANGED <<config, global, shutdown>>

SetsGlobals ==
  /\ new = "globals"
  /\ global' = TRUE
  /\ new' = "nil"
  /\ UNCHANGED <<config, provider, shutdown>>

NewStep == NewCalled \/ MakesResource \/ MakesProvider \/ ProviderFails \/ SetsGlobals

-----------------------------------------------------------------------------
ShutdownCalled ==
  /\ shutdown = "off"
  /\ shutdown' = "tracer"
  /\ UNCHANGED <<config, new, provider, global>>

Then(p) == CASE p = "tracer" -> "meter" [] p = "meter" -> "logger" [] OTHER -> "nil"

(* Bug: an error is logged, and Shutdown goes on and returns nil.          *)
ShutsDownLogs(done) ==
  /\ shutdown \in Providers
  /\ IF provider[shutdown] = "none"
       THEN shutdown' = Then(shutdown) /\ UNCHANGED provider
       ELSE \E s \in ShutdownOf(done) :
              /\ provider' = [provider EXCEPT ![shutdown] = s]
              /\ shutdown' = Then(shutdown)
  /\ UNCHANGED <<config, new, global>>

(* Bug: a provider that fails is shut down again, until it does not.       *)
ShutsDownRetries(done) ==
  /\ shutdown \in Providers
  /\ IF provider[shutdown] = "none"
       THEN shutdown' = Then(shutdown) /\ UNCHANGED provider
       ELSE \E s \in ShutdownOf(done) :
              /\ provider' = [provider EXCEPT ![shutdown] = s]
              /\ shutdown' = IF s = "down" THEN Then(shutdown) ELSE shutdown
  /\ UNCHANGED <<config, new, global>>

(* done: is the context given to Shutdown done?                            *)
ShutsDown(done) ==
  /\ shutdown \in Providers
  /\ IF provider[shutdown] = "none"
       THEN shutdown' = Then(shutdown) /\ UNCHANGED provider
       ELSE \E s \in ShutdownOf(done) :
              /\ provider' = [provider EXCEPT ![shutdown] = s]
              /\ shutdown' = IF s = "down" THEN Then(shutdown) ELSE "error"
  /\ UNCHANGED <<config, new, global>>
=============================================================================
