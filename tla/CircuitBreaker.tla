--------------------------- MODULE CircuitBreaker ----------------------------
(***************************************************************************)
(* The circuit breaker of one service, driven by the sync workers that     *)
(* share it (api/internal/services/sync).  Every worker has the shape of   *)
(* BaseSyncWorker.Handle and of the upload workers' Work: one AllowCircuit,*)
(* then up to MaxCalls calls to the service, each followed by              *)
(* RecordSuccess or RecordFailure; but between being admitted and the      *)
(* first recorded outcome it can also leave without recording anything:    *)
(* no credentials, nothing pending, rate limited (JobSnooze), an           *)
(* authentication error (return nil) or the death of the process.          *)
(***************************************************************************)
EXTENDS SyncInfra

CONSTANTS
    Workers,     \* jobs of the service that River runs at the same time
    MaxCalls     \* calls (batches) of one job after one AllowCircuit

ASSUME MaxCallsAssumption == MaxCalls \in Nat \ {0}

VARIABLES
    cb,          \* the service's row of sync_circuit_state
    calls,       \* calls[w]: calls worker w may still make; 0: w is not running
    probe,       \* history: w was admitted in the current half-open episode
    probeAge,    \* history: ticks since w was last admitted
    sinceTrip    \* history: real ticks since RecordFailure last opened it

circuitVars == <<cb, calls, probe, probeAge, sinceTrip>>

CircuitTypeOK ==
    /\ cb \in CircuitRow
    /\ calls \in [Workers -> 0..MaxCalls]
    /\ probe \in [Workers -> BOOLEAN]
    /\ probeAge \in [Workers -> 0..StaleAge]
    /\ sinceTrip \in 0..Recovery

CircuitInit ==
    /\ cb = NewCircuitRow
    /\ calls = [w \in Workers |-> 0]
    /\ probe = [w \in Workers |-> FALSE]
    /\ probeAge = [w \in Workers |-> 0]
    /\ sinceTrip = 0

Running(w) == calls[w] > 0

(***************************************************************************)
(* A job starts and is admitted.  A job that is not admitted returns       *)
(* JobSnooze(retryAfter) and leaves the row as it is: a stuttering step.   *)
(***************************************************************************)
AllowCircuit(w, lag) ==
    /\ ~Running(w)
    /\ Allowed(cb)
    /\ cb' = AfterAllow(cb, lag)
    /\ calls' = [calls EXCEPT ![w] = MaxCalls]
    /\ probe' = [probe EXCEPT ![w] = (cb.state # CircuitClosed)]
    /\ probeAge' = [probeAge EXCEPT ![w] = 0]
    /\ UNCHANGED sinceTrip

\* The call succeeded; the job goes on with its next batch, if it has one.
RecordSuccess(w, lag) ==
    /\ Running(w)
    /\ cb' = AfterSuccess(cb, lag)
    /\ calls' = [calls EXCEPT ![w] = @ - 1]
    /\ probe' = [v \in Workers |-> FALSE]
    /\ UNCHANGED <<probeAge, sinceTrip>>

\* The call failed; the batch loop continues or the job returns (Leave).
RecordFailure(w, lag) ==
    /\ Running(w)
    /\ cb' = AfterFailure(cb, lag)
    /\ calls' = [calls EXCEPT ![w] = @ - 1]
    /\ probe' = [v \in Workers |-> FALSE]
    /\ sinceTrip' = IF ShouldOpen(cb) THEN 0 ELSE sinceTrip
    /\ UNCHANGED probeAge

\* The job ends, or its process dies, without recording an outcome.
Leave(w) ==
    /\ Running(w)
    /\ calls' = [calls EXCEPT ![w] = 0]
    /\ UNCHANGED <<cb, probe, probeAge, sinceTrip>>

Tick ==
    /\ cb' = Aged(cb)
    /\ probeAge' = [w \in Workers |-> AtMost(probeAge[w] + 1, StaleAge)]
    /\ sinceTrip' = AtMost(sinceTrip + 1, Recovery)
    /\ UNCHANGED <<calls, probe>>

CircuitNext ==
    \/ \E w \in Workers, lag \in 0..LockWait :
          \/ AllowCircuit(w, lag)
          \/ RecordSuccess(w, lag)
          \/ RecordFailure(w, lag)
    \/ \E w \in Workers : Leave(w)
    \/ Tick

CircuitSpec == CircuitInit /\ [][CircuitNext]_circuitVars

\* Time passes.  Nothing else is assumed: no job need ever run or report.
CircuitFairSpec == CircuitSpec /\ WF_circuitVars(Tick)
-----------------------------------------------------------------------------
(***************************************************************************)
(* Properties                                                              *)
(***************************************************************************)

\* The columns of the row agree with each other after any interleaving of
\* AllowCircuit, RecordSuccess and RecordFailure: a circuit that is not
\* closed has reached the threshold (so the branch of RecordFailure that
\* writes 'closed' never closes an open one), a closed one has not; an open
\* one has its opened_at (AllowCircuit would deny it for ever without); and
\* half_open_in_flight is set in half_open only.
RowConsistent ==
    /\ cb.state = CircuitClosed <=> cb.failures < Threshold
    /\ cb.state # CircuitClosed <=> cb.openedAge # Never
    /\ cb.inFlight => cb.state = CircuitHalfOpen
    /\ cb.state = CircuitHalfOpen => cb.inFlight

\* The recovery timeout is kept: AllowCircuit turns an open circuit into a
\* half-open one only after Recovery ticks without a recorded failure, short
\* at most of the time the failing transaction waited for the lock (opened_at
\* is the start of that transaction, not the moment the circuit opened).
RecoveryKept ==
    [][cb.state = CircuitOpen /\ cb'.state = CircuitHalfOpen
         => sinceTrip >= Recovery - LockWait]_circuitVars

\* "a single in-flight probe": two jobs are admitted in the same half-open
\* episode only if the first was admitted more than twice the recovery
\* timeout ago (less the lock wait) and had still not reported.
SingleProbe ==
    \A v, w \in Workers :
       v # w /\ probe[v] /\ probe[w]
         => probeAge[v] > 2 * Recovery - LockWait
              \/ probeAge[w] > 2 * Recovery - LockWait

\* The circuit never stays shut for ever: however many probes die without
\* reporting, AllowCircuit is again and again willing to admit a job.
NeverStuck == []<>Allowed(cb)
=============================================================================
