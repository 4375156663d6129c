--------------------------- MODULE BreakerAbstract --------------------------
(***************************************************************************)
(* What a circuit breaker promises (circuit_breaker.rs:11-19): left to     *)
(* itself it moves Closed -> Open -> HalfOpen and from there to Closed or  *)
(* back to Open; only an operator moves it otherwise.                      *)
(***************************************************************************)
EXTENDS Naturals

VARIABLES
    state,      \* BreakerState
    overrides   \* how often an operator has forced the breaker

vars == <<state, overrides>>

Init == state = "Closed" /\ overrides = 0

Trip    == state = "Closed"   /\ state' = "Open"     /\ UNCHANGED overrides
Cool    == state = "Open"     /\ state' = "HalfOpen" /\ UNCHANGED overrides
Recover == state = "HalfOpen" /\ state' = "Closed"   /\ UNCHANGED overrides
Relapse == state = "HalfOpen" /\ state' = "Open"     /\ UNCHANGED overrides
Override == state' \in {"Open", "Closed"} /\ overrides' = overrides + 1

Next == Trip \/ Cool \/ Recover \/ Relapse \/ Override

Spec == Init /\ [][Next]_vars
=============================================================================
