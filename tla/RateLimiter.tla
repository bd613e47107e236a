----------------------------- MODULE RateLimiter -----------------------------
(***************************************************************************)
(* The limiter of the calls to one service, ConsumeRateLimit of            *)
(* api/internal/services/sync/infra.go, with the rows it keeps in          *)
(* sync_rate_limit_window, shared by all workers of all processes.         *)
(*                                                                         *)
(* now() is the start of the transaction, and the transaction waits for    *)
(* the advisory lock afterwards: a caller is counted in the second in      *)
(* which it began to wait, and callers get the lock in any order.          *)
(***************************************************************************)
EXTENDS Integers, FiniteSets

CONSTANTS
    Callers,     \* jobs that may ask for a call at the same time
    RPS,         \* RateLimitRPS of the service
    Retained,    \* seconds a bucket is kept (60)
    Patience,    \* longest a transaction takes, in seconds
    MaxSeconds,  \* bound: how long the clock runs
    MaxAsks      \* bound: transactions

\* River cancels the context of a job after a minute (no sync worker declares
\* a timeout of its own), and with it a transaction that still waits.
ASSUME LimiterAssumption ==
    /\ {RPS, Retained, Patience, MaxSeconds, MaxAsks} \subseteq Nat
    /\ Patience <= Retained

Idling == -1    \* no transaction under way
Seconds == 0..MaxSeconds

VARIABLES
    second,    \* the clock, in seconds
    count,     \* count[b]: the bucket of second b, 0 when there is no row
    began,     \* began[c]: the second of now() in c's transaction
    permits,   \* history: the calls that were allowed
    asked      \* transactions that ended, which numbers the permits

limiterVars == <<second, count, began, permits, asked>>

LimiterInit ==
    /\ second = 0
    /\ count = [b \in Seconds |-> 0]
    /\ began = [c \in Callers |-> Idling]
    /\ permits = {}
    /\ asked = 0

---------------------------------------------------------------------------
\* The transaction begins; its advisory lock is granted later.
BeginConsume(c) ==
    /\ began[c] = Idling
    /\ asked < MaxAsks
    /\ began' = [began EXCEPT ![c] = second]
    /\ UNCHANGED <<second, count, permits, asked>>

\* Mutant: everything before the caller's own second is dropped.
PurgedAtOnce(t) == [b \in Seconds |-> IF b < t THEN 0 ELSE count[b]]

\* DELETE of the buckets more than a minute older than the transaction.
Purged(t) == [b \in Seconds |-> IF b < t - Retained THEN 0 ELSE count[b]]

\* The upsert: the first caller of a second inserts 1, the others add 1.
Counting(t) == [Purged(t) EXCEPT ![t] = @ + 1]

AllowedBy(n) == n <= RPS

\* The lock is granted, the statements run, the transaction commits; the
\* caller may go on when its number is within the limit, and is snoozed
\* otherwise, having been counted all the same.
ConsumeRateLimit(c) ==
    /\ began[c] # Idling
    /\ count' = Counting(began[c])
    /\ began' = [began EXCEPT ![c] = Idling]
    /\ LET n == count'[began[c]]
       IN  permits' = IF AllowedBy(n)
                      THEN permits \cup {[id |-> asked, bucket |-> began[c], n |-> n, at |-> second]}
                      ELSE permits
    /\ asked' = asked + 1
    /\ UNCHANGED second

\* An error is returned and the job ends with it; when only the answer to the
\* COMMIT was lost, the caller was counted.
ConsumeFails(c) ==
    /\ began[c] # Idling
    /\ count' = count \/ count' = Counting(began[c])
    /\ began' = [began EXCEPT ![c] = Idling]
    /\ asked' = asked + 1
    /\ UNCHANGED <<second, permits>>

\* The clock; no transaction is older than Patience.
NextSecond ==
    /\ second < MaxSeconds
    /\ \A c \in Callers : began[c] # Idling => second < began[c] + Patience
    /\ second' = second + 1
    /\ UNCHANGED <<count, began, permits, asked>>

LimiterNext ==
    \/ \E c \in Callers : BeginConsume(c) \/ ConsumeRateLimit(c) \/ ConsumeFails(c)
    \/ NextSecond

LimiterSpec == LimiterInit /\ [][LimiterNext]_limiterVars

---------------------------------------------------------------------------
(* Properties. *)

\* In whatever order the callers of a second get the lock, and whenever later
\* callers delete old buckets, no more than RPS of them are allowed to call.
BucketKept ==
    \A b \in 0..second : Cardinality({p \in permits : p.bucket = b}) <= RPS

\* The rate the service sees: between any two seconds no more calls are allowed
\* than RPS for each second, and RPS for each second that callers may have
\* waited for the lock.  (The plain limit does not hold: those who waited
\* together are let through together.)
RateKept ==
    \A s \in 0..second : \A t \in s..second :
        Cardinality({p \in permits : p.at \in s..t}) <= RPS * (t - s + 1 + Patience)
=============================================================================
