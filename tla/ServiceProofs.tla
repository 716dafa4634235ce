--------------------------- MODULE ServiceProofs ----------------------------
(***************************************************************************)
(* Theorems about Service, for any environment, any set of .env files and  *)
(* any number of retries.                                                  *)
(***************************************************************************)
EXTENDS ServiceProps, TLAPS

(* The lines of the file before the one scanned next have done what they   *)
(* do: each variable is as it was given or has the value of the first of   *)
(* them that names it, and none of them but the last can have ended the    *)
(* load.                                                                   *)
Sets(i, n) == file[i].kind = "pair" /\ file[i].name = n
Decided(n) ==
  \/ given[n] # Unset /\ env[n] = given[n]
  \/ given[n] = Unset /\ env[n] = Unset /\ \A i \in 1..lineNum : ~Sets(i, n)
  \/ /\ given[n] = Unset
     /\ \E i \in 1..lineNum : /\ Sets(i, n) /\ env[n] = file[i].value
                              /\ \A j \in 1..(i - 1) : ~Sets(j, n)
LoadInv ==
  /\ load \in {"open", "missing"} => lineNum = 0 /\ env = given
  /\ \A i \in 1..lineNum : file[i].kind \in Stops => load = "error" /\ i = lineNum
  /\ load = "error" => lineNum > 0 /\ file[lineNum].kind \in Stops
  /\ load = "nil" => lineNum = Len(file)
  /\ \A n \in Names : Decided(n)

(* main has come as far as what it calls; the environment is read when it  *)
(* does not change any more.                                               *)
MainInv ==
  /\ main = "load" <=> ~Loaded
  /\ main \in {"load", "require", "configure"} => config = Default
  /\ config # Default =>
       (config.Enabled <=> env["OTEL_ENABLED"] \in True \cup {Unset})
  /\ main \in {"load", "require", "configure", "new"} => connect = "off"
  /\ main \in {"load", "require", "configure"} => new = "off"
  /\ main \in {"new", "connect", "serve", "disconnect", "shutdown"} => config \in Configs
  /\ main \in {"connect", "serve", "disconnect", "shutdown"} => new = "nil"
  /\ main \in {"serve", "disconnect"} => connect = "nil"
  /\ main = "shutdown" => connect \in {"disconnected", "error"}
  /\ main \notin {"shutdown", "exit"} => shutdown = "off"
  /\ main = "disconnect" \/ connect = "disconnected" => ctxDone

(* How far New and Shutdown have come with the three providers.            *)
AllAre(s) == \A p \in Providers : provider[p] = s
NewInv ==
  /\ new \in {"off", "resource", "tracer"} => AllAre("none")
  /\ new = "meter" => provider["tracer"] = "up" /\ provider["meter"] = "none"
  /\ new \in {"meter", "logger"} => provider["logger"] = "none"
  /\ new = "logger" => provider["tracer"] = "up" /\ provider["meter"] = "up"
  /\ new = "globals" => AllAre("up")
  /\ new = "error" => \A p \in Providers : provider[p] # "up"
  /\ new \in {"resource", "globals"} \cup Providers => config \in Configs /\ config.Enabled
  /\ new # "nil" => ~global /\ shutdown = "off"
  /\ new = "nil" => config \in Configs /\ (global <=> config.Enabled)

Left(p)  == provider[p] = IF config.Enabled THEN "up" ELSE "none"
Own      == connect = "disconnected" => fresh \/ ~config.Enabled
DownInv ==
  new = "nil" =>
    /\ shutdown \in {"off", "tracer"} => Left("tracer")
    /\ shutdown \in {"off", "tracer", "meter"} => Left("meter")
    /\ shutdown \in {"off", "tracer", "meter", "logger"} => Left("logger")
    /\ shutdown \in {"meter", "logger", "nil"} => Flushed("tracer") /\ Own
    /\ shutdown \in {"logger", "nil"} => Flushed("meter")
    /\ shutdown = "nil" => Flushed("logger")

(* How far Connect has come with its attempts and its clients.             *)
RetryInv ==
  /\ connect = "off" <=> attempt = 0
  /\ attempt >= 1 => wait = IF attempt <= 6 THEN 2^(attempt - 1) ELSE 32
  /\ attempt = 0 => wait = 1 /\ clients = 0
  /\ connect \in {"attempt", "ping", "backoff", "nil"} => attempt <= Retries
  /\ connect = "backoff" => attempt # Retries
  /\ connect = "attempt" => clients < attempt
  /\ connect \in {"ping", "backoff", "nil"} => clients <= attempt
  /\ connect \in {"ping", "nil"} => clients >= 1
  /\ connect = "error" => ctxDone \/ attempt = Retries \/ Retries < 1

ServiceInv == TypeOK /\ LoadInv /\ MainInv /\ NewInv /\ DownInv /\ RetryInv

-----------------------------------------------------------------------------
LEMMA LineFacts ==
  ASSUME NEW l \in Lines, l.kind = "pair"
  PROVE  l.name \in Names /\ l.value \in Values
<1>1. CASE \E n \in Names, v \in Values : l = Pair(n, v)
  BY <1>1 DEF Pair
<1>2. CASE \E k \in Stops \cup {"skipped"} : l = Line(k)
  <2>1. PICK k \in Stops \cup {"skipped"} : l = Line(k)
    BY <1>2
  <2>2. l.kind = k /\ k # "pair"
    BY <2>1 DEF Line, Stops
  <2> QED BY <2>2
<1> QED BY <1>1, <1>2 DEF Lines

LEMMA MinOf ==
  ASSUME NEW S \in SUBSET Int, NEW i \in S, \A j \in S : i <= j
  PROVE  Min(S) = i
<1>1. \E x \in S : \A y \in S : x <= y
  OBVIOUS
<1>2. Min(S) \in S /\ \A y \in S : Min(S) <= y
  BY <1>1, Zenon DEF Min
<1>3. Min(S) <= i /\ i <= Min(S) /\ Min(S) \in Int /\ i \in Int
  BY <1>2
<1> QED BY <1>3

LEMMA FileType ==
  ASSUME TypeOK
  PROVE  /\ file \in Seq(Lines) /\ Len(file) \in Nat /\ lineNum \in Nat
         /\ \A i \in 1..Len(file) : file[i] \in Lines
<1>1. file \in Seq(Lines)
  BY FilesAssumption DEF TypeOK
<1> QED BY <1>1 DEF TypeOK

LEMMA InvInit == ServiceInit => ServiceInv
<1> SUFFICES ASSUME ServiceInit PROVE ServiceInv
  OBVIOUS
<1> USE DEF ServiceInit, ProcessInit, LoaderInit, TelemetryInit, MongoInit
<1>1. TypeOK
  <2>1. /\ file \in Files /\ lineNum \in 0..Len(file)
    <3>1. file \in Seq(Lines)
      BY FilesAssumption
    <3> QED BY <3>1
  <2> QED BY <2>1 DEF TypeOK, Providers
<1>2. LoadInv
  <2>1. \A n \in Names : Decided(n)
    BY DEF Decided
  <2> QED BY <2>1 DEF LoadInv
<1>3. MainInv
  BY DEF MainInv, Loaded
<1>4. NewInv /\ DownInv
  BY DEF NewInv, DownInv, AllAre, Providers
<1>5. RetryInv
  BY DEF RetryInv
<1> QED BY <1>1, <1>2, <1>3, <1>4, <1>5 DEF ServiceInv

(* What has nothing to do with the file keeps LoadInv.                     *)
LEMMA LoadKept ==
  ASSUME LoadInv, UNCHANGED <<env, loader>>
  PROVE  LoadInv'
BY DEF LoadInv, Decided, Sets, loader

(* A step of LoadEnvFile.                                                  *)
LEMMA LoadsKeepLoad == ServiceInv /\ Loads => LoadInv'
<1> SUFFICES ASSUME ServiceInv, Loads PROVE LoadInv'
  OBVIOUS
<1>1. /\ file \in Seq(Lines) /\ Len(file) \in Nat /\ lineNum \in Nat
      /\ \A i \in 1..Len(file) : file[i] \in Lines
      /\ env \in [Names -> Values \cup {Unset}] /\ lineNum <= Len(file)
      /\ LoadInv
  BY FileType DEF ServiceInv, TypeOK
<1>2. CASE OpenFails \/ Open \/ ScanEnds
  BY <1>1, <1>2 DEF OpenFails, Open, ScanEnds, process, LoadInv, Decided, Sets
<1>3. CASE ScanLine
  <2>1. PICK k : k = lineNum + 1
    OBVIOUS
  <2>2. /\ k \in 1..Len(file) /\ lineNum' = k /\ file' = file /\ given' = given
        /\ load = "scan" /\ load' = IF file[k].kind \in Stops THEN "error" ELSE "scan"
        /\ \A i \in 1..k : i \in 1..lineNum \/ i = k
        /\ \A i \in 1..lineNum : i \in 1..k /\ i # k
        /\ k - 1 = lineNum
    BY <1>1, <1>3, <2>1 DEF ScanLine, Scanned
  <2>3. \A n \in Names : Decided(n)'
    <3> SUFFICES ASSUME NEW n \in Names PROVE Decided(n)'
      OBVIOUS
    <3>1. Decided(n) /\ \A i \in 1..Len(file) : Sets(i, n)' <=> Sets(i, n)
      BY <1>1, <2>2 DEF LoadInv, Sets
    <3>2. CASE ~Sets(k, n) \/ env[n] # Unset
      <4>1. env'[n] = env[n]
        BY <1>1, <1>3, <2>1, <2>2, <3>2, LineFacts
           DEF ScanLine, Scanned, SetenvIfNew, Exists, Sets
      <4>2. CASE given[n] # Unset
        BY <2>2, <3>1, <4>1, <4>2 DEF Decided
      <4>3. CASE given[n] = Unset /\ env[n] = Unset
        <5>1. \A i \in 1..lineNum : ~Sets(i, n)
          <6>1. \A i \in 1..lineNum : i \in 1..Len(file)
            BY <1>1
          <6>2. ASSUME NEW i \in 1..lineNum, Sets(i, n), env[n] = file[i].value
                PROVE  FALSE
            <7>1. file[i].value \in Values
              BY <1>1, <6>1, <6>2, LineFacts DEF Sets
            <7> QED BY <4>3, <6>2, <7>1, UnsetAssumption
          <6> QED BY <3>1, <4>3, <6>2 DEF Decided
        <5>2. \A i \in 1..k : ~Sets(i, n)
          BY <2>2, <3>2, <4>3, <5>1
        <5>3. \A i \in 1..k : ~Sets(i, n)'
          BY <1>1, <2>2, <3>1, <5>2
        <5> QED BY <2>2, <4>1, <4>3, <5>3 DEF Decided
      <4>4. CASE given[n] = Unset /\ env[n] # Unset
        <5>1. PICK i \in 1..lineNum : /\ Sets(i, n) /\ env[n] = file[i].value
                                      /\ \A j \in 1..(i - 1) : ~Sets(j, n)
          BY <3>1, <4>4 DEF Decided
        <5>2. \A j \in 1..(i - 1) : j \in 1..Len(file)
          BY <1>1
        <5>3. i \in 1..k /\ Sets(i, n)' /\ \A j \in 1..(i - 1) : ~Sets(j, n)'
          BY <1>1, <2>2, <3>1, <5>1, <5>2
        <5> QED BY <2>2, <4>1, <4>4, <5>1, <5>3 DEF Decided
      <4> QED BY <4>2, <4>3, <4>4
    <3>3. CASE Sets(k, n) /\ env[n] = Unset
      <4>1. env'[n] = file[k].value /\ file[k].value # Unset
        <5>1. file[k].value \in Values
          BY <1>1, <2>2, <3>3, LineFacts DEF Sets
        <5>2. env' = [env EXCEPT ![n] = file[k].value]
          BY <1>3, <2>1, <3>3 DEF ScanLine, Scanned, SetenvIfNew, Exists, Sets
        <5> QED BY <1>1, <5>1, <5>2, UnsetAssumption
      <4>2. given[n] = Unset
        BY <3>1, <3>3 DEF Decided
      <4>3. \A j \in 1..(k - 1) : ~Sets(j, n)
        <5>1. ASSUME NEW i \in 1..lineNum, Sets(i, n), env[n] = file[i].value
              PROVE  FALSE
          <6>1. file[i].value \in Values
            BY <1>1, <5>1, LineFacts DEF Sets
          <6> QED BY <3>3, <5>1, <6>1, UnsetAssumption
        <5> QED BY <2>2, <3>1, <3>3, <4>2, <5>1 DEF Decided
      <4>4. \A j \in 1..(k - 1) : ~Sets(j, n)'
        BY <1>1, <2>2, <3>1, <4>3
      <4> QED BY <2>2, <3>1, <3>3, <4>1, <4>2, <4>4 DEF Decided
    <3> QED BY <3>2, <3>3
  <2>4. \A i \in 1..lineNum' : file'[i].kind \in Stops => load' = "error" /\ i = lineNum'
    BY <1>1, <2>2 DEF LoadInv
  <2> QED BY <2>2, <2>3, <2>4 DEF LoadInv
<1> QED BY <1>2, <1>3 DEF Loads, LoadStep

LEMMA InvLoads == ServiceInv /\ Loads => ServiceInv'
<1> SUFFICES ASSUME ServiceInv, Loads PROVE ServiceInv'
  OBVIOUS
<1> USE DEF telemetry, mongo, process
<1>1. /\ load' \in {"scan", "missing", "error", "nil"} /\ file' = file /\ given' = given
      /\ lineNum' \in 0..Len(file) /\ ctxDone' = ctxDone
      /\ env' \in [Names -> Values \cup {Unset}] /\ ~Loaded
  <2>1. /\ \A i \in 1..Len(file) : file[i] \in Lines
        /\ Len(file) \in Nat /\ lineNum \in 0..Len(file)
        /\ env \in [Names -> Values \cup {Unset}]
    BY FileType DEF ServiceInv, TypeOK
  <2>2. CASE OpenFails \/ Open \/ ScanEnds
    BY <2>1, <2>2 DEF OpenFails, Open, ScanEnds, Loaded
  <2>3. CASE ScanLine
    <3>1. PICK k : k = lineNum + 1
      OBVIOUS
    <3>2. k \in 1..Len(file) /\ k \in 0..Len(file) /\ lineNum' = k
      BY <2>1, <2>3, <3>1 DEF ScanLine
    <3>3. env' \in [Names -> Values \cup {Unset}]
      <4>1. CASE file[k].kind = "pair"
        <5>1. file[k].name \in Names /\ file[k].value \in Values
          BY <2>1, <3>2, <4>1, LineFacts
        <5> QED BY <2>1, <2>3, <3>1, <4>1, <5>1 DEF ScanLine, Scanned, SetenvIfNew
      <4>2. CASE file[k].kind # "pair"
        BY <2>1, <2>3, <3>1, <4>2 DEF ScanLine, Scanned
      <4> QED BY <4>1, <4>2
    <3> QED BY <2>3, <3>2, <3>3 DEF ScanLine, Loaded
  <2> QED BY <2>2, <2>3 DEF Loads, LoadStep
<1>2. /\ main = "load" /\ UNCHANGED <<telemetry, mongo, fresh>>
      /\ main' = IF load' \in {"missing", "error", "nil"} THEN "require" ELSE main
  BY DEF Loads
<1>3. TypeOK'
  BY <1>1, <1>2 DEF ServiceInv, TypeOK
<1>4. LoadInv'
  BY LoadsKeepLoad
<1>5. MainInv'
  BY <1>1, <1>2 DEF ServiceInv, MainInv, Loaded
<1>6. NewInv' /\ DownInv'
  BY <1>2 DEF ServiceInv, NewInv, DownInv, AllAre, Left, Own, Flushed
<1>7. RetryInv'
  BY <1>1, <1>2 DEF ServiceInv, RetryInv
<1> QED BY <1>3, <1>4, <1>5, <1>6, <1>7 DEF ServiceInv

LEMMA InvRequires == ServiceInv /\ Requires => ServiceInv'
<1> SUFFICES ASSUME ServiceInv, Requires PROVE ServiceInv'
  OBVIOUS
<1> USE DEF process, loader, telemetry, mongo
<1>1. /\ main = "require" /\ main' \in {"exit", "configure"}
      /\ UNCHANGED <<process, loader, telemetry, mongo, fresh>>
  BY DEF Requires
<1>2. TypeOK'
  BY <1>1 DEF ServiceInv, TypeOK
<1>3. LoadInv'
  BY <1>1, LoadKept DEF ServiceInv
<1>4. MainInv'
  BY <1>1 DEF ServiceInv, MainInv, Loaded
<1>5. NewInv' /\ DownInv'
  BY <1>1 DEF ServiceInv, NewInv, DownInv, AllAre, Left, Own, Flushed
<1>6. RetryInv'
  BY <1>1 DEF ServiceInv, RetryInv
<1> QED BY <1>2, <1>3, <1>4, <1>5, <1>6 DEF ServiceInv

LEMMA InvConfigures == ServiceInv /\ Configures => ServiceInv'
<1> SUFFICES ASSUME ServiceInv, Configures PROVE ServiceInv'
  OBVIOUS
<1> USE DEF process, loader, telemetry, mongo
<1>1. /\ main = "configure" /\ main' = "new"
      /\ UNCHANGED <<process, loader, new, provider, global, shutdown, mongo, fresh>>
  BY DEF Configures, DefaultConfig
<1>2. PICK c : c = config'
  OBVIOUS
<1>3. c \in Configs /\ (c.Enabled <=> env["OTEL_ENABLED"] \in True \cup {Unset})
  <2>1. /\ getEnvBool("OTEL_ENABLED", TRUE) \in BOOLEAN
        /\ getEnvBool("OTEL_ENABLED", TRUE) <=> env["OTEL_ENABLED"] \in True \cup {Unset}
    <3>1. CASE Exists("OTEL_ENABLED")
      BY <3>1 DEF getEnvBool, Exists
    <3>2. CASE ~Exists("OTEL_ENABLED")
      <4>1. getEnvBool("OTEL_ENABLED", TRUE) = TRUE /\ env["OTEL_ENABLED"] = Unset
        BY <3>2, EnabledAssumption DEF getEnvBool, Exists
      <4> QED BY <4>1
    <3> QED BY <3>1, <3>2
  <2>2. getEnv("OTEL_SERVICE_NAME", Default) \in Values \cup {Default}
    BY DEF getEnv, Exists, ServiceInv, TypeOK
  <2>3. getEnvFloat("OTEL_TRACE_SAMPLE_RATE", Default) \in Floats \cup {Default}
    BY DEF getEnvFloat
  <2>4. c = [Enabled     |-> getEnvBool("OTEL_ENABLED", TRUE),
             ServiceName |-> getEnv("OTEL_SERVICE_NAME", Default),
             SampleRate  |-> getEnvFloat("OTEL_TRACE_SAMPLE_RATE", Default)]
    BY <1>2 DEF Configures, DefaultConfig
  <2> QED BY <2>1, <2>2, <2>3, <2>4 DEF Configs
<1>4. TypeOK'
  BY <1>1, <1>2, <1>3 DEF ServiceInv, TypeOK
<1>5. LoadInv'
  BY <1>1, LoadKept DEF ServiceInv
<1>6. MainInv'
  BY <1>1, <1>2, <1>3 DEF ServiceInv, MainInv, Loaded
<1>7. new = "off" /\ new' = "off"
  BY <1>1 DEF ServiceInv, MainInv
<1>8. NewInv' /\ DownInv'
  BY <1>1, <1>7 DEF ServiceInv, NewInv, DownInv, AllAre, Providers
<1>9. RetryInv'
  BY <1>1 DEF ServiceInv, RetryInv
<1> QED BY <1>4, <1>5, <1>6, <1>8, <1>9 DEF ServiceInv

LEMMA InvMakesTelemetry == ServiceInv /\ MakesTelemetry => ServiceInv'
<1> SUFFICES ASSUME ServiceInv, MakesTelemetry PROVE ServiceInv'
  OBVIOUS
<1> USE DEF process, loader, telemetry, mongo
<1>1. /\ main = "new" /\ NewStep /\ UNCHANGED <<process, loader, mongo, fresh>>
      /\ main' = CASE new' = "nil" -> "connect" [] new' = "error" -> "exit"
                   [] OTHER        -> main
      /\ UNCHANGED <<config, shutdown>> /\ config \in Configs /\ shutdown = "off"
      /\ config.Enabled \in BOOLEAN
  BY DEF MakesTelemetry, NewStep, NewCalled, MakesResource, MakesProvider, ProviderFails,
         SetsGlobals, ServiceInv, MainInv, Configs
<1>2. /\ new' \in Providers \cup {"resource", "globals", "nil", "error"}
      /\ provider' \in [Providers -> {"none", "up", "down", "failed"}]
      /\ global' \in BOOLEAN
  <2>1. CASE NewCalled \/ MakesResource \/ SetsGlobals
    BY <2>1 DEF NewCalled, MakesResource, SetsGlobals, Providers, ServiceInv, TypeOK
  <2>2. CASE MakesProvider
    BY <2>2 DEF MakesProvider, After, Providers, ServiceInv, TypeOK
  <2>3. CASE ProviderFails
    <3>1. PICK s \in [Providers -> ShutdownOf(ctxDone)] :
            provider' = [p \in Providers |-> IF provider[p] = "up" THEN s[p] ELSE provider[p]]
      BY <2>3 DEF ProviderFails
    <3>2. \A p \in Providers : s[p] \in {"down", "failed"}
      BY DEF ShutdownOf
    <3> QED BY <2>3, <3>1, <3>2 DEF ProviderFails, ServiceInv, TypeOK
  <2> QED BY <1>1, <2>1, <2>2, <2>3 DEF NewStep
<1>3. TypeOK'
  BY <1>1, <1>2 DEF ServiceInv, TypeOK
<1>4. LoadInv'
  BY <1>1, LoadKept DEF ServiceInv
<1>5. MainInv'
  BY <1>1, <1>2 DEF ServiceInv, MainInv, Loaded, Providers
<1>6. NewInv' /\ DownInv'
  <2>1. CASE NewCalled
    BY <1>1, <2>1 DEF NewCalled, ServiceInv, NewInv, DownInv, AllAre, Left, Providers
  <2>2. CASE MakesResource
    BY <1>1, <2>2 DEF MakesResource, ServiceInv, NewInv, DownInv, AllAre, Providers
  <2>3. CASE MakesProvider
    <3>1. provider \in [Providers -> {"none", "up", "down", "failed"}]
      BY DEF ServiceInv, TypeOK
    <3> QED BY <1>1, <2>3, <3>1
            DEF MakesProvider, After, ServiceInv, NewInv, DownInv, AllAre, Providers
  <2>4. CASE ProviderFails
    <3>1. PICK s \in [Providers -> ShutdownOf(ctxDone)] :
            provider' = [p \in Providers |-> IF provider[p] = "up" THEN s[p] ELSE provider[p]]
      BY <2>4 DEF ProviderFails
    <3>2. \A p \in Providers : s[p] \in {"down", "failed"}
      BY DEF ShutdownOf
    <3>3. \A p \in Providers : provider'[p] # "up"
      BY <3>1, <3>2
    <3>4. new' = "error" /\ UNCHANGED <<config, global, shutdown>> /\ new # "nil"
      BY <2>4 DEF ProviderFails, Providers
    <3> QED BY <3>3, <3>4 DEF ServiceInv, NewInv, DownInv, AllAre, Providers
  <2>5. CASE SetsGlobals
    BY <1>1, <2>5 DEF SetsGlobals, ServiceInv, NewInv, DownInv, AllAre, Left, Providers
  <2> QED BY <1>1, <2>1, <2>2, <2>3, <2>4, <2>5 DEF NewStep
<1>7. RetryInv'
  BY <1>1 DEF ServiceInv, RetryInv
<1> QED BY <1>3, <1>4, <1>5, <1>6, <1>7 DEF ServiceInv

(* The wait that follows the one of an attempt.                            *)
LEMMA NextWaitFacts ==
  ASSUME NEW a \in Nat \ {0}, wait = IF a <= 6 THEN 2^(a - 1) ELSE 32
  PROVE  NextWait = IF a + 1 <= 6 THEN 2^((a + 1) - 1) ELSE 32
<1>1. 2^0 = 1 /\ 2^1 = 2 /\ 2^2 = 4 /\ 2^3 = 8 /\ 2^4 = 16 /\ 2^5 = 32
  OBVIOUS
<1>2. CASE a = 1
  BY <1>1, <1>2 DEF NextWait
<1>3. CASE a = 2
  BY <1>1, <1>3 DEF NextWait
<1>4. CASE a = 3
  BY <1>1, <1>4 DEF NextWait
<1>5. CASE a = 4
  BY <1>1, <1>5 DEF NextWait
<1>6. CASE a = 5
  BY <1>1, <1>6 DEF NextWait
<1>7. CASE a = 6
  BY <1>1, <1>7 DEF NextWait
<1>8. CASE a > 6
  BY <1>8 DEF NextWait
<1> QED BY <1>2, <1>3, <1>4, <1>5, <1>6, <1>7, <1>8

LEMMA InvConnects == ServiceInv /\ Connects => ServiceInv'
<1> SUFFICES ASSUME ServiceInv, Connects PROVE ServiceInv'
  OBVIOUS
<1> USE DEF process, loader, telemetry, mongo
<1>1. /\ main = "connect" /\ ConnectStep
      /\ UNCHANGED <<process, loader, telemetry, fresh>>
      /\ main' = CASE connect' = "nil" -> "serve" [] connect' = "error" -> "shutdown"
                   [] OTHER            -> main
  BY DEF Connects
<1>2. /\ attempt \in Nat /\ clients \in Nat /\ wait \in {1, 2, 4, 8, 16, 32}
      /\ Retries \in Int
  BY RetriesAssumption DEF ServiceInv, TypeOK, Retries
<1>3. /\ connect' \in {"attempt", "ping", "backoff", "nil", "error"}
      /\ attempt' \in Nat /\ clients' \in Nat /\ wait' \in {1, 2, 4, 8, 16, 32}
  BY <1>1, <1>2 DEF ConnectStep, ConnectCalled, MakesClient, PingAnswers, AttemptFails,
                    BackoffSeesCancel, BackoffEnds, NextWait
<1>4. TypeOK'
  BY <1>1, <1>3 DEF ServiceInv, TypeOK
<1>5. LoadInv'
  BY <1>1, LoadKept DEF ServiceInv
<1>6. MainInv'
  BY <1>1, <1>3 DEF ServiceInv, MainInv, Loaded
<1>7. NewInv' /\ DownInv'
  BY <1>1, <1>3 DEF ServiceInv, NewInv, DownInv, AllAre, Left, Own, Flushed
<1>8. RetryInv'
  <2>1. CASE ConnectCalled
    BY <1>1, <1>2, <2>1 DEF ConnectCalled, ServiceInv, RetryInv
  <2>2. CASE MakesClient
    BY <1>1, <1>2, <2>2 DEF MakesClient, ServiceInv, RetryInv
  <2>3. CASE PingAnswers
    BY <1>1, <1>2, <2>3 DEF PingAnswers, ServiceInv, RetryInv
  <2>4. CASE AttemptFails
    BY <1>1, <1>2, <2>4 DEF AttemptFails, Last, ServiceInv, RetryInv
  <2>5. CASE BackoffSeesCancel
    BY <1>1, <1>2, <2>5 DEF BackoffSeesCancel, ServiceInv, RetryInv
  <2>6. CASE BackoffEnds
    <3>1. attempt \in Nat \ {0} /\ wait = IF attempt <= 6 THEN 2^(attempt - 1) ELSE 32
      BY <1>2, <2>6 DEF BackoffEnds, ServiceInv, RetryInv
    <3>2. /\ attempt' = attempt + 1 /\ attempt' \in Nat /\ attempt' >= 1
          /\ wait' = IF attempt' <= 6 THEN 2^(attempt' - 1) ELSE 32
      BY <1>2, <2>6, <3>1, NextWaitFacts DEF BackoffEnds
    <3>3. connect = "backoff" /\ connect' = "attempt" /\ clients' = clients
      BY <2>6 DEF BackoffEnds
    <3> QED BY <1>1, <1>2, <3>2, <3>3 DEF ServiceInv, RetryInv
  <2> QED BY <1>1, <2>1, <2>2, <2>3, <2>4, <2>5, <2>6 DEF ConnectStep
<1> QED BY <1>4, <1>5, <1>6, <1>7, <1>8 DEF ServiceInv

LEMMA InvDisconnects == ServiceInv /\ Disconnects => ServiceInv'
<1> SUFFICES ASSUME ServiceInv, Disconnects PROVE ServiceInv'
  OBVIOUS
<1> USE DEF process, loader, telemetry, mongo
<1>1. /\ main = "disconnect" /\ main' = "shutdown"
      /\ connect = "nil" /\ connect' = "disconnected"
      /\ clients' \in {clients, clients - 1}
      /\ UNCHANGED <<process, loader, telemetry, attempt, wait, fresh>>
  BY DEF Disconnects, Disconnect
<1>2. clients \in Nat /\ clients >= 1 /\ attempt \in Nat /\ attempt >= 1
  BY <1>1 DEF ServiceInv, TypeOK, RetryInv
<1>3. TypeOK'
  BY <1>1, <1>2 DEF ServiceInv, TypeOK
<1>4. LoadInv'
  BY <1>1, LoadKept DEF ServiceInv
<1>5. MainInv'
  BY <1>1 DEF ServiceInv, MainInv, Loaded
<1>6. shutdown = "off"
  BY <1>1 DEF ServiceInv, MainInv
<1>7. NewInv' /\ DownInv'
  BY <1>1, <1>6 DEF ServiceInv, NewInv, DownInv, AllAre, Left
<1>8. RetryInv'
  BY <1>1, <1>2 DEF ServiceInv, RetryInv
<1> QED BY <1>3, <1>4, <1>5, <1>7, <1>8 DEF ServiceInv

LEMMA InvShutsTelemetryDown == ServiceInv /\ ShutsTelemetryDown => ServiceInv'
<1> SUFFICES ASSUME ServiceInv, ShutsTelemetryDown PROVE ServiceInv'
  OBVIOUS
<1> USE DEF process, loader, telemetry, mongo
<1>1. /\ main = "shutdown" /\ UNCHANGED <<process, loader, config, new, global, mongo, fresh>>
      /\ main' = IF shutdown' \in {"nil", "error"} THEN "exit" ELSE main
      /\ new = "nil" /\ connect \in {"disconnected", "error"}
      /\ connect = "disconnected" => ctxDone
      /\ config \in Configs /\ config.Enabled \in BOOLEAN
      /\ provider \in [Providers -> {"none", "up", "down", "failed"}]
  BY DEF ShutsTelemetryDown, ShutdownCalled, ShutsDown, ServiceInv, MainInv, TypeOK, Configs
<1>2. \/ /\ shutdown = "off" /\ shutdown' = "tracer" /\ provider' = provider
      \/ /\ shutdown \in Providers /\ provider[shutdown] = "none" /\ provider' = provider
         /\ shutdown' = Then(shutdown)
      \/ /\ shutdown \in Providers /\ provider[shutdown] # "none"
         /\ provider' = [provider EXCEPT ![shutdown] = "failed"] /\ shutdown' = "error"
      \/ /\ shutdown \in Providers /\ provider[shutdown] # "none" /\ ~(~fresh /\ ctxDone)
         /\ provider' = [provider EXCEPT ![shutdown] = "down"]
         /\ shutdown' = Then(shutdown)
  <2>1. CASE ShutdownCalled
    BY <2>1 DEF ShutdownCalled
  <2>2. CASE ShutsDown(~fresh /\ ctxDone)
    BY <2>2 DEF ShutsDown, ShutdownOf
  <2> QED BY <2>1, <2>2 DEF ShutsTelemetryDown
<1>3. TypeOK'
  BY <1>1, <1>2 DEF ServiceInv, TypeOK, Providers, Then
<1>4. LoadInv'
  BY <1>1, LoadKept DEF ServiceInv
<1>5. MainInv'
  BY <1>1, <1>2 DEF ServiceInv, MainInv, Loaded, Providers, Then
<1>6. NewInv'
  BY <1>1 DEF ServiceInv, NewInv, Providers
<1>7. DownInv'
  BY <1>1, <1>2 DEF ServiceInv, DownInv, Left, Own, Flushed, Providers, Then
<1>8. RetryInv'
  BY <1>1 DEF ServiceInv, RetryInv
<1> QED BY <1>3, <1>4, <1>5, <1>6, <1>7, <1>8 DEF ServiceInv

(* The signal arrives, main sees it, or nothing happens.                   *)
LEMMA InvSignal == ServiceInv /\ (Signal \/ Serves \/ UNCHANGED vars) => ServiceInv'
<1> SUFFICES ASSUME ServiceInv, Signal \/ Serves \/ UNCHANGED vars PROVE ServiceInv'
  OBVIOUS
<1> USE DEF process, loader, telemetry, mongo
<1>1. /\ UNCHANGED <<env, loader, telemetry, mongo, fresh>> /\ ctxDone' \in BOOLEAN
      /\ ctxDone => ctxDone'
      /\ main' = main \/ (main = "serve" /\ main' = "disconnect" /\ ctxDone')
  BY DEF Signal, Serves, Cancel, vars, ServiceInv, TypeOK
<1>2. TypeOK'
  BY <1>1 DEF ServiceInv, TypeOK
<1>3. LoadInv'
  BY <1>1, LoadKept DEF ServiceInv
<1>4. MainInv'
  BY <1>1 DEF ServiceInv, MainInv, Loaded
<1>5. NewInv' /\ DownInv'
  BY <1>1 DEF ServiceInv, NewInv, DownInv, AllAre, Left, Own, Flushed
<1>6. RetryInv'
  BY <1>1 DEF ServiceInv, RetryInv
<1> QED BY <1>2, <1>3, <1>4, <1>5, <1>6 DEF ServiceInv

LEMMA InvStep == ServiceInv /\ [ServiceNext]_vars => ServiceInv'
BY InvLoads, InvRequires, InvConfigures, InvMakesTelemetry, InvConnects, InvSignal,
   InvDisconnects, InvShutsTelemetryDown DEF ServiceNext, Program

LEMMA ServiceInvariant == ServiceSpec => []ServiceInv
BY InvInit, InvStep, PTL DEF ServiceSpec

(* When the load has come to its end at the line Stop stands for, the      *)
(* environment is as Resolved says.                                        *)
LEMMA ResolvedOf ==
  ASSUME ServiceInv, load \in {"error", "nil"}, Stop \in 1..(Len(file) + 1),
         Stop - 1 <= lineNum, load = "error" <=> Stop <= Len(file),
         \A i \in 1..lineNum, n \in Names : i \in 1..(Stop - 1) \/ ~Sets(i, n)
  PROVE  EnvAsReference
<1>1. Len(file) \in Nat /\ lineNum \in 0..Len(file) /\ LoadInv /\ MainInv
  BY FileType DEF ServiceInv, TypeOK
<1>2. ASSUME NEW n \in Names PROVE env[n] = Resolved(n)
  <2>1. CASE given[n] # Unset
    BY <1>1, <2>1 DEF LoadInv, Decided, Resolved
  <2>2. CASE given[n] = Unset
    <3>1. LinesOf(n) \in SUBSET Int /\ \A i \in LinesOf(n) : i \in 1..lineNum /\ Sets(i, n)
      BY <1>1 DEF LinesOf, Sets
    <3>2. \A i \in 1..lineNum : Sets(i, n) => i \in LinesOf(n)
      BY <1>1 DEF LinesOf, Sets
    <3>3. CASE env[n] = Unset /\ \A i \in 1..lineNum : ~Sets(i, n)
      <4>1. LinesOf(n) = {}
        BY <3>1, <3>3
      <4> QED BY <2>2, <3>3, <4>1 DEF Resolved
    <3>4. CASE \E i \in 1..lineNum : /\ Sets(i, n) /\ env[n] = file[i].value
                                     /\ \A j \in 1..(i - 1) : ~Sets(j, n)
      <4>1. PICK i \in 1..lineNum : /\ Sets(i, n) /\ env[n] = file[i].value
                                    /\ \A j \in 1..(i - 1) : ~Sets(j, n)
        BY <3>4
      <4>2. i \in LinesOf(n) /\ \A j \in LinesOf(n) : i <= j
        BY <1>1, <3>1, <3>2, <4>1
      <4>3. Min(LinesOf(n)) = i
        BY <3>1, <4>2, MinOf
      <4> QED BY <2>2, <4>1, <4>2, <4>3 DEF Resolved
    <3> QED BY <1>1, <2>2, <3>3, <3>4 DEF LoadInv, Decided
  <2> QED BY <2>1, <2>2
<1>3. config # Default =>
        config.Enabled <=> Resolved("OTEL_ENABLED") \in True \cup {Unset}
  BY <1>1, <1>2, EnabledAssumption DEF MainInv
<1> QED BY <1>2, <1>3 DEF EnvAsReference

-----------------------------------------------------------------------------
(* Every state has the shape of TypeOK (LoadEnvFile, New, Shutdown,        *)
(* Connect and the main of a service).                                     *)
THEOREM TypeCorrect == ServiceSpec => []TypeOK
<1>1. ServiceInv => TypeOK
  BY DEF ServiceInv
<1> QED BY <1>1, ServiceInvariant, PTL

(* What LoadEnvFile leaves, and what telemetry is configured to do, are    *)
(* decided by the environment and the file as a whole (LoadEnvFile,        *)
(* DefaultConfig).                                                         *)
THEOREM EnvAsReferenceHolds == ServiceSpec => []EnvAsReference
<1>1. ServiceInv => EnvAsReference
  <2> SUFFICES ASSUME ServiceInv, Loaded PROVE EnvAsReference
    BY DEF EnvAsReference
  <2>1. /\ Len(file) \in Nat /\ lineNum \in 0..Len(file) /\ LoadInv /\ MainInv
    BY FileType DEF ServiceInv, TypeOK
  <2>2. PICK T : T = {i \in 1..Len(file) : file[i].kind \in Stops} \cup {Len(file) + 1}
    OBVIOUS
  <2>3. T \in SUBSET Int /\ Stop = Min(T)
    BY <2>1, <2>2 DEF Stop
  <2>4. CASE load = "missing"
    <3>1. \A n \in Names : env[n] = Resolved(n)
      BY <2>1, <2>4 DEF LoadInv, Resolved
    <3>2. config # Default =>
            config.Enabled <=> Resolved("OTEL_ENABLED") \in True \cup {Unset}
      BY <2>1, <3>1, EnabledAssumption DEF MainInv
    <3> QED BY <2>4, <3>1, <3>2 DEF EnvAsReference
  <2>5. CASE load = "error"
    <3>1. lineNum \in T /\ lineNum \in 1..Len(file)
      BY <2>1, <2>2, <2>5 DEF LoadInv
    <3>2. \A j \in T : lineNum <= j
      <4> SUFFICES ASSUME NEW j \in T, j < lineNum PROVE FALSE
        BY <2>1, <2>3
      <4>1. j \in 1..lineNum /\ file[j].kind \in Stops /\ j # lineNum
        BY <2>1, <2>2
      <4> QED BY <2>1, <4>1 DEF LoadInv
    <3>3. Stop = lineNum
      BY <2>3, <3>1, <3>2, MinOf
    <3>4. \A i \in 1..lineNum, n \in Names : i \in 1..(Stop - 1) \/ ~Sets(i, n)
      <4>1. file[lineNum].kind # "pair"
        BY <2>1, <2>5 DEF LoadInv, Stops
      <4>2. \A i \in 1..lineNum : i \in 1..(Stop - 1) \/ i = lineNum
        BY <2>1, <3>3
      <4> QED BY <4>1, <4>2 DEF Sets
    <3> QED BY <2>1, <2>5, <3>1, <3>3, <3>4, ResolvedOf
  <2>6. CASE load = "nil"
    <3>1. Len(file) + 1 \in T
      BY <2>2
    <3>2. \A j \in T : Len(file) + 1 <= j
      BY <2>1, <2>2, <2>6 DEF LoadInv
    <3>3. Stop = Len(file) + 1
      BY <2>3, <3>1, <3>2, MinOf
    <3>4. \A i \in 1..lineNum, n \in Names : i \in 1..(Stop - 1) \/ ~Sets(i, n)
      BY <2>1, <3>3
    <3>5. lineNum = Len(file)
      BY <2>1, <2>6 DEF LoadInv
    <3> QED BY <2>1, <2>6, <3>3, <3>4, <3>5, ResolvedOf
  <2> QED BY <2>4, <2>5, <2>6 DEF Loaded
<1> QED BY <1>1, ServiceInvariant, PTL

(* New makes everything or leaves nothing, and when Shutdown returns nil   *)
(* everything has been exported, which a service its signal has stopped    *)
(* only gets with a context of Shutdown's own (New, Shutdown).             *)
THEOREM TelemetryHonestHolds == ServiceSpec => []TelemetryHonest
<1>1. ServiceInv => TelemetryHonest
  BY DEF ServiceInv, NewInv, DownInv, MainInv, TypeOK, Left, Own, Flushed, Providers,
         AllAre, TelemetryHonest
<1> QED BY <1>1, ServiceInvariant, PTL

(* Connect fails only when its retries are exhausted or the context is     *)
(* cancelled, and waits as long as it says between them (Connect).         *)
THEOREM ConnectHonestHolds == ServiceSpec => []ConnectHonest
<1>1. ServiceInv => ConnectHonest
  BY DEF ServiceInv, RetryInv, TypeOK, ConnectHonest
<1> QED BY <1>1, ServiceInvariant, PTL
=============================================================================
