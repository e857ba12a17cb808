---------------------------- MODULE CircuitBreaker ----------------------------
(***************************************************************************)
(* The circuit breaker of the gateway (CircuitBreaker, EngineHealth): per  *)
(* key a streak of consecutive failures and a window during which the      *)
(* fan-outs skip the key.  The fetch tasks of all requests report to it,   *)
(* each report under one lock and in any order, also while the window is   *)
(* open: a task that started earlier may fail later, and some fetches      *)
(* ignore the breaker.  Time advances in units of the first backoff (15 s).*)
(***************************************************************************)
EXTENDS Naturals, Sequences

CONSTANTS
  Engines,        \* breaker keys
  Cap,            \* longest backoff after a timeout: 300 s, 20 units
  ConnectWindow,  \* window after a connection failure: 600 s, 40 units
  Width,          \* bits of the unsigned integer the backoff is computed in
  MaxStreak       \* bound: failures counted

ASSUME WindowsAssumption ==
  /\ Cap \in Nat \ {0}
  /\ ConnectWindow \in Nat /\ Cap <= ConnectWindow
  /\ Width \in Nat \ {0}
  /\ MaxStreak \in Nat

VARIABLES
  streak,   \* consecutive_failures
  left,     \* units until open_until; 0 when the circuit is closed
  quiet,    \* history: units since the last failure, up to ConnectWindow
  last      \* history: the kind of the last report

breakerVars == <<streak, left, quiet, last>>

BreakerInit ==
  /\ streak = [e \in Engines |-> 0]
  /\ left = [e \in Engines |-> 0]
  /\ quiet = [e \in Engines |-> 0]
  /\ last = [e \in Engines |-> "none"]

IsOpen(e) == left[e] > 0

\* The powers of two below the cap.  15 * 2^k, computed in u64, exceeds the cap
\* for every other k < 64 even where it wraps; 2^64 wraps to zero.
Doubling == <<1, 2, 4, 8, 16>>

\* Mutant: the cap of 300 s is missing.
BackoffUncapped(n) ==
  IF n > Width THEN 0 ELSE IF n > Len(Doubling) THEN 2 * Cap ELSE Doubling[n]

\* 15 s after the first failure, doubled by each further one, at most 300 s.
Backoff(n) ==
  IF n > Width THEN 0
  ELSE IF n > Len(Doubling) \/ Doubling[n] > Cap THEN Cap ELSE Doubling[n]

RecordSuccess(e) ==
  /\ streak' = [streak EXCEPT ![e] = 0]
  /\ left' = [left EXCEPT ![e] = 0]
  /\ last' = [last EXCEPT ![e] = "success"]
  /\ UNCHANGED quiet

\* Mutant: a failure in an open window adds to the window.
RecordFailureExtends(e) ==
  /\ streak[e] < MaxStreak
  /\ streak' = [streak EXCEPT ![e] = @ + 1]
  /\ left' = [left EXCEPT ![e] = @ + Backoff(streak[e] + 1)]
  /\ last' = [last EXCEPT ![e] = "timeout"]
  /\ quiet' = [quiet EXCEPT ![e] = 0]

\* record_failure: the window is replaced, whatever is left of it.
RecordFailure(e) ==
  /\ streak[e] < MaxStreak
  /\ streak' = [streak EXCEPT ![e] = @ + 1]
  /\ left' = [left EXCEPT ![e] = Backoff(streak[e] + 1)]
  /\ last' = [last EXCEPT ![e] = "timeout"]
  /\ quiet' = [quiet EXCEPT ![e] = 0]

RecordConnectionFailure(e) ==
  /\ streak[e] < MaxStreak
  /\ streak' = [streak EXCEPT ![e] = @ + 1]
  /\ left' = [left EXCEPT ![e] = ConnectWindow]
  /\ last' = [last EXCEPT ![e] = "connect"]
  /\ quiet' = [quiet EXCEPT ![e] = 0]

Tick ==
  /\ left' = [e \in Engines |-> IF left[e] > 0 THEN left[e] - 1 ELSE 0]
  /\ quiet' = [e \in Engines |-> IF quiet[e] < ConnectWindow THEN quiet[e] + 1 ELSE quiet[e]]
  /\ UNCHANGED <<streak, last>>

BreakerNext ==
  \/ \E e \in Engines :
       RecordSuccess(e) \/ RecordFailure(e) \/ RecordConnectionFailure(e)
  \/ Tick

BreakerSpec == BreakerInit /\ [][BreakerNext]_breakerVars

-------------------------------------------------------------------------------
BreakerTypeOK ==
  /\ streak \in [Engines -> 0..MaxStreak]
  /\ left \in [Engines -> 0..ConnectWindow]
  /\ quiet \in [Engines -> 0..ConnectWindow]
  /\ last \in [Engines -> {"none", "success", "timeout", "connect"}]

\* Engines auto-recover: however many failures were reported, in whatever
\* order, a circuit is closed once the longest window has passed since the last
\* of them.
SelfHeals ==
  \A e \in Engines : IsOpen(e) => left[e] + quiet[e] <= ConnectWindow

\* Timeouts alone never keep a key skipped for longer than the cap, even
\* after connection failures.
TimeoutsBackOffBriefly ==
  \A e \in Engines : last[e] = "timeout" /\ IsOpen(e) => left[e] + quiet[e] <= Cap

\* A success ends the history of failures: the next timeout costs the first
\* backoff only.
SuccessForgets ==
  [][\A e \in Engines :
       last[e] = "success" /\ last'[e] = "timeout" => left'[e] = 1]_breakerVars
===============================================================================
