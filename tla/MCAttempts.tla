----------------------------- MODULE MCAttempts -----------------------------
EXTENDS AttemptClaims, TLC

CONSTANTS sb, bl    \* an owner of a sandbox scenario, one of a bundle scenario
CONSTANTS a1, a2, a3, b1

\* All attempts of one client on one sandbox scenario.
OneSandbox == [id \in Attempt |-> sb]

\* b1 is an attempt at a bundle scenario.
Mixed == [id \in Attempt |-> IF id = b1 THEN bl ELSE sb]

Sym == Permutations(Worker) \cup Permutations(Attempt)
=============================================================================
