--------------------------- MODULE RestartLimiter ---------------------------
(***************************************************************************)
(* What the restart handler of pkg/worker promises, with no goroutine,     *)
(* channel or timer in it.  Every worker owns a sliding window of the      *)
(* restarts it was granted; a request is granted exactly when fewer than   *)
(* Max restarts lie in the window that ends now, and a refusal is final.   *)
(* Module Supervisor is shown to implement this specification when no two  *)
(* workers share a name.                                                   *)
(***************************************************************************)
EXTENDS Integers, FiniteSets

CONSTANTS Workers,   \* the supervised workers that may ask for a restart
          Max,       \* restarts allowed within one window
          Window     \* length of the window, in ticks

VARIABLES now,       \* the clock
          granted,   \* granted[w]: the times at which w was granted a restart
          denied     \* the workers stopped permanently

limiterVars == <<now, granted, denied>>

(* The grants of w that are not older than the window: a grant exactly     *)
(* Window old still counts (the code keeps ts unless ts.Before(cutoff)).   *)
Recent(w) == {t \in granted[w] : t >= now - Window}

LimiterInit ==
  /\ now = 0
  /\ granted = [w \in Workers |-> {}]
  /\ denied = {}

Grant(w) ==
  /\ w \notin denied
  /\ Cardinality(Recent(w)) < Max
  /\ granted' = [granted EXCEPT ![w] = @ \cup {now}]
  /\ UNCHANGED <<now, denied>>

Deny(w) ==
  /\ w \notin denied
  /\ Cardinality(Recent(w)) >= Max
  /\ denied' = denied \cup {w}
  /\ UNCHANGED <<now, granted>>

Advance ==
  /\ now' = now + 1
  /\ UNCHANGED <<granted, denied>>

LimiterNext ==
  \/ \E w \in Workers : Grant(w) \/ Deny(w)
  \/ Advance

LimiterSpec == LimiterInit /\ [][LimiterNext]_limiterVars
=============================================================================
