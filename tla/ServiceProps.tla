---------------------------- MODULE ServiceProps ----------------------------
(***************************************************************************)
(* What a service may rely on when it starts and when it stops.            *)
(***************************************************************************)
EXTENDS Service, FiniteSetsExt

(* The shape of the state; the wait of Connect is a power of two and never *)
(* more than 32 seconds.                                                   *)
Configs == [Enabled : BOOLEAN, ServiceName : Values \cup {Default},
            SampleRate : Floats \cup {Default}]
TypeOK ==
  /\ env \in [Names -> Values \cup {Unset}]
  /\ given \in [Names -> Values \cup {Unset}]
  /\ ctxDone \in BOOLEAN /\ fresh \in BOOLEAN
  /\ file \in Files /\ lineNum \in 0..Len(file)
  /\ load \in {"open", "scan", "missing", "error", "nil"}
  /\ config \in Configs \cup {Default}
  /\ new \in Providers \cup {"off", "resource", "globals", "nil", "error"}
  /\ provider \in [Providers -> {"none", "up", "down", "failed"}]
  /\ global \in BOOLEAN
  /\ shutdown \in Providers \cup {"off", "nil", "error"}
  /\ connect \in {"off", "attempt", "ping", "backoff", "nil", "error", "disconnected"}
  /\ attempt \in Nat /\ wait \in {1, 2, 4, 8, 16, 32} /\ clients \in Nat
  /\ main \in {"load", "require", "configure", "new", "connect", "serve",
               "disconnect", "shutdown", "exit"}

(* What LoadEnvFile leaves is decided by the process it found and the file *)
(* as a whole: a variable that was set is as it was, even when it is empty;*)
(* any other has the value of its first line before the first line that    *)
(* ends the load, which is an error exactly when there is such a line; and *)
(* with it what telemetry is configured to do.                             *)
Stop == Min({i \in 1..Len(file) : file[i].kind \in Stops} \cup {Len(file) + 1})
LinesOf(n) == {i \in 1..(Stop - 1) : file[i].kind = "pair" /\ file[i].name = n}
Resolved(n) == IF given[n] # Unset \/ load = "missing" \/ LinesOf(n) = {}
                 THEN given[n] ELSE file[Min(LinesOf(n))].value
EnvAsReference ==
  Loaded =>
    /\ \A n \in Names : env[n] = Resolved(n)
    /\ load # "missing" => (load = "error" <=> Stop <= Len(file))
    /\ config # Default =>
         config.Enabled <=> Resolved("OTEL_ENABLED") \in True \cup {Unset}

(* New makes everything or leaves nothing: it has failed only with every   *)
(* provider it made told to shut down and no global set, and has succeeded *)
(* only with all three up, or with none when telemetry is off; they stay   *)
(* up until Shutdown.  And when Shutdown returns nil, everything has been  *)
(* exported and nothing is left running: a service that its signal has     *)
(* stopped gets there only with a context of Shutdown's own, unless        *)
(* telemetry is off.                                                       *)
Flushed(p) == provider[p] \in {"none", "down"}
TelemetryHonest ==
  /\ new = "error" => ~global /\ \A p \in Providers : provider[p] # "up"
  /\ (new = "nil" /\ shutdown = "off") =>
       \A p \in Providers : provider[p] = IF config.Enabled THEN "up" ELSE "none"
  /\ new = "nil" => (global <=> config.Enabled)
  /\ shutdown = "nil" => /\ \A p \in Providers : Flushed(p)
                         /\ connect = "disconnected" => fresh \/ ~config.Enabled

(* "Returns an error only after all retries are exhausted or ctx is        *)
(* cancelled" (Connect), and a client within them; the waits between the   *)
(* attempts double up to 32 seconds, and an attempt leaves one client      *)
(* behind at the most.                                                     *)
ConnectHonest ==
  /\ connect = "error" => ctxDone \/ attempt = Retries \/ Retries < 1
  /\ connect = "nil" => attempt <= Retries /\ clients \in 1..attempt
  /\ attempt >= 1 => wait = IF attempt <= 6 THEN 2^(attempt - 1) ELSE 32

-----------------------------------------------------------------------------
(* Refuted: Shutdown "gracefully shuts down all telemetry providers" (its  *)
(* comment): it returns at the first one that fails, and under the context *)
(* of the signal the first one fails.                                      *)
ShutsDownAll ==
  shutdown \in {"nil", "error"} => \A p \in Providers : provider[p] # "up"

(* Refuted: "following the same patterns as pkg/rabbitmq" (package         *)
(* comment), whose connect closes what a failed attempt has opened: Connect*)
(* leaves the client of every failed ping behind.                          *)
NoClientLeft == connect \in {"error", "disconnected"} => clients = 0

(* Refuted: MustGetEnv "panics if the variable is not set" (its comment):  *)
(* it panics as well when it is set, and empty.                            *)
PanicsOnlyIfNotSet == (main = "exit" /\ config = Default) => env[Required] = Unset

(* Refuted: loading the file is "non-fatal if missing" (pkg/config/        *)
(* README.md, which drops the error): so is a malformed line, and the      *)
(* lines behind it are dropped in silence.                                 *)
NothingDropped ==
  (main = "serve" /\ load # "missing") =>
    \A i \in 1..Len(file) : file[i].kind = "pair" => env[file[i].name] # Unset

-----------------------------------------------------------------------------
(* The start of the service is decided in the end, whatever is down, and a *)
(* signal ends the process whatever it is about.                           *)
Ends == <>(main \in {"serve", "exit"}) /\ (ctxDone ~> main = "exit")
=============================================================================
