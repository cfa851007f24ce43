----------------------------- MODULE MCWrangler -----------------------------
(* Small instances of Wrangler for TLC.                                     *)
EXTENDS Wrangler

CONSTANTS ai, mech, none

MCMoments == [a \in Actions |-> IF a = ai THEN {1} ELSE {}]
MCChain == [a \in Actions |-> IF a = mech THEN ai ELSE none]
MCBackoff == [n \in 0..MaxRetries |-> n + 1]
=============================================================================
