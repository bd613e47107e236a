----------------------------- MODULE SecretStore -----------------------------
(***************************************************************************)
(* What the credential table promises, without keys, locks or tools: a     *)
(* secret per service, that changes only when a request that asked for a   *)
(* change commits it, once, with the value that request brought.           *)
(***************************************************************************)
EXTENDS Naturals

CONSTANTS Services, Requests, Plains, NoSecret

VARIABLES
    secret,     \* what each service's row holds
    asked,      \* requests that arrived
    open        \* those that neither committed nor gave up

Brings(n, v) == v.pw = n \/ v.web = n

Init == /\ secret \in [Services -> Plains \union {NoSecret}]
        /\ asked = {} /\ open = {}

Ask(n) ==
    /\ n \notin asked
    /\ asked' = asked \union {n}
    /\ open' \in {open, open \union {n}}
    /\ UNCHANGED secret

Commit(n, s) ==
    /\ n \in open
    /\ open' = open \ {n}
    /\ \E v \in {p \in Plains : Brings(n, p)} : secret' = [secret EXCEPT ![s] = v]
    /\ UNCHANGED asked

Delete(n, s) ==
    /\ n \in open
    /\ open' = open \ {n}
    /\ secret' = [secret EXCEPT ![s] = NoSecret]
    /\ UNCHANGED asked

\* Requests that end without effect; a restart ends all of them.
GiveUp ==
    /\ open' \in SUBSET open
    /\ UNCHANGED <<secret, asked>>

Next ==
    \/ \E n \in Requests : Ask(n)
    \/ \E n \in Requests, s \in Services : Commit(n, s) \/ Delete(n, s)
    \/ GiveUp

Spec == Init /\ [][Next]_<<secret, asked, open>>
=============================================================================
