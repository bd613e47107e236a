------------------------------ MODULE SyncInfra ------------------------------
(***************************************************************************)
(* The shared worker infrastructure of api/internal/services/sync/infra.go *)
(* as functions on the row it keeps per service in sync_circuit_state.     *)
(*                                                                         *)
(* Every operation of infra.go is one Postgres transaction that first      *)
(* takes pg_advisory_xact_lock on the service, so each is one atomic       *)
(* function of the row.  Two clocks are involved: time.Now() is read after *)
(* the lock was granted, but SQL NOW() is the start of the transaction,    *)
(* which may lie up to LockWait ticks in the past when the transaction had *)
(* to queue for the lock.  The parameter lag is that difference.           *)
(*                                                                         *)
(* Timestamps are kept as ages (now minus timestamp).  infra.go compares   *)
(* opened_at only with CircuitRecoveryTimeout and updated_at only with     *)
(* twice that, and consecutive_failures only with the threshold, so an     *)
(* age or a count that has passed its last comparison stays there.         *)
(***************************************************************************)
EXTENDS Integers

CONSTANTS
    Threshold,   \* CircuitFailureThreshold: consecutive failures that open
    Recovery,    \* CircuitRecoveryTimeout, in ticks
    LockWait     \* longest wait for the advisory lock, in ticks

ASSUME ThresholdAssumption == Threshold \in Nat \ {0}
ASSUME RecoveryAssumption == Recovery \in Nat \ {0}
ASSUME LockWaitAssumption == LockWait \in Nat

CircuitClosed   == "closed"
CircuitOpen     == "open"
CircuitHalfOpen == "half_open"

CircuitState == {CircuitClosed, CircuitOpen, CircuitHalfOpen}

\* opened_at IS NULL
Never == -1

\* The age past which updated_at is stale: older than 2 x the timeout.
StaleAge == 2 * Recovery + 1

AtMost(n, bound) == IF n > bound THEN bound ELSE n

(***************************************************************************)
(* A row of sync_circuit_state.                                            *)
(***************************************************************************)
CircuitRow == [state     : CircuitState,
               failures  : 0..Threshold,
               openedAge : {Never} \cup (0..Recovery),
               inFlight  : BOOLEAN,
               updatedAge: 0..StaleAge]

\* INSERT ... (service) VALUES ($1): the column defaults.
NewCircuitRow == [state |-> CircuitClosed, failures |-> 0, openedAge |-> Never,
                  inFlight |-> FALSE, updatedAge |-> 0]

(***************************************************************************)
(* AllowCircuit: does it admit the caller, and the row it leaves.          *)
(***************************************************************************)
\* Mutant: the timeout ends one tick early.
RecoveryElapsedEarly(cb) == cb.openedAge >= Recovery - 1

RecoveryElapsed(cb) == cb.openedAge >= Recovery

\* Mutant: a probe that never reports is waited for without limit.
ProbeStaleNever(cb) == FALSE

ProbeStale(cb) == cb.updatedAge >= StaleAge

\* Mutant: half_open_in_flight is not looked at.
AllowedIgnoringFlight(cb) ==
    cb.state = CircuitOpen => RecoveryElapsed(cb)

Allowed(cb) ==
    \/ cb.state = CircuitClosed
    \/ cb.state = CircuitOpen /\ RecoveryElapsed(cb)
    \/ cb.state = CircuitHalfOpen /\ (cb.inFlight => ProbeStale(cb))

AfterAllow(cb, lag) ==
    IF cb.state = CircuitClosed \/ ~Allowed(cb)
      THEN cb
      ELSE [state |-> CircuitHalfOpen, failures |-> cb.failures,
            openedAge |-> cb.openedAge, inFlight |-> TRUE,
            updatedAge |-> AtMost(lag, StaleAge)]

(***************************************************************************)
(* RecordSuccess closes the circuit whatever state it finds.               *)
(***************************************************************************)
AfterSuccess(cb, lag) ==
    [state |-> CircuitClosed, failures |-> 0, openedAge |-> Never,
     inFlight |-> FALSE, updatedAge |-> AtMost(lag, StaleAge)]

(***************************************************************************)
(* RecordFailure opens on the threshold, or on any failure in half_open.   *)
(* The branch that does not open writes state = 'closed'.                  *)
(***************************************************************************)
ShouldOpen(cb) == cb.state = CircuitHalfOpen \/ cb.failures + 1 >= Threshold

\* Mutant: the update that opens the circuit forgets half_open_in_flight.
AfterFailureKeepsFlight(cb, lag) ==
    [state |-> IF ShouldOpen(cb) THEN CircuitOpen ELSE CircuitClosed,
     failures |-> AtMost(cb.failures + 1, Threshold),
     openedAge |-> IF ShouldOpen(cb) THEN AtMost(lag, Recovery) ELSE cb.openedAge,
     inFlight |-> cb.inFlight,
     updatedAge |-> AtMost(lag, StaleAge)]

AfterFailure(cb, lag) ==
    [state |-> IF ShouldOpen(cb) THEN CircuitOpen ELSE CircuitClosed,
     failures |-> AtMost(cb.failures + 1, Threshold),
     openedAge |-> IF ShouldOpen(cb) THEN AtMost(lag, Recovery) ELSE cb.openedAge,
     inFlight |-> FALSE,
     updatedAge |-> AtMost(lag, StaleAge)]

\* One tick of the clock makes every timestamp one tick older.
Aged(cb) ==
    [state |-> cb.state, failures |-> cb.failures,
     openedAge |-> IF cb.openedAge = Never THEN Never
                                           ELSE AtMost(cb.openedAge + 1, Recovery),
     inFlight |-> cb.inFlight,
     updatedAge |-> AtMost(cb.updatedAge + 1, StaleAge)]
=============================================================================
