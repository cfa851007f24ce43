------------------------------ MODULE MCCapcom ------------------------------
(* A small instance of Capcom for TLC.                                      *)
EXTENDS Capcom

CONSTANTS i1, i2, down, run1, none

\* The first two messages report on one condition, the third has no key.
MCKeyOf == [n \in 0..NumMessages |->
             IF n = 0 THEN down ELSE IF n <= 2 THEN run1 ELSE none]
MCQueries == {{i1, i2}, {i2}}
MCLoads == {[messages |-> 3, seconds |-> 0, faults |-> 1, marks |-> 0],
            [messages |-> 3, seconds |-> 0, faults |-> 0, marks |-> 1],
            [messages |-> 0, seconds |-> 2, faults |-> 1, marks |-> 1]}
=============================================================================
