------------------------------ MODULE MCInfra -------------------------------
(***************************************************************************)
(* The circuit breaker and the rate limiter of infra.go.  They keep two    *)
(* tables under two advisory locks and no transaction touches both, so a   *)
(* behaviour is one of the breaker or one of the limiter.                  *)
(*                                                                         *)
(* Three jobs of one service: enough for a straggler admitted before the   *)
(* trip, a probe, and a second probe after the first went stale.  Three    *)
(* callers: one of a later second deletes buckets while two still wait.    *)
(* Liveness is checked in the same run, so nobody is declared symmetric.   *)
(***************************************************************************)
EXTENDS CircuitBreaker, RateLimiter

VARIABLE part    \* which of the two the behaviour is about

infraVars == <<part, circuitVars, limiterVars>>

InfraInit == part \in {"breaker", "limiter"} /\ CircuitInit /\ LimiterInit

Breaker == part = "breaker" /\ CircuitNext /\ UNCHANGED <<part, limiterVars>>
Limiter == part = "limiter" /\ LimiterNext /\ UNCHANGED <<part, circuitVars>>
BreakerTick == part = "breaker" /\ Tick /\ UNCHANGED <<part, limiterVars>>

InfraSpec == InfraInit /\ [][Breaker \/ Limiter]_infraVars /\ WF_infraVars(BreakerTick)
=============================================================================
