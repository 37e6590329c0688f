------------------------- MODULE MCRefreshTokenRotation -------------------------
EXTENDS RefreshTokenRotation, TLC

\* The slots of calls are interchangeable.
Symmetry == Permutations(Call)

\* Nothing goes wrong, and two calls run at a time, on all sessions.
Smooth == [events |-> {}, families |-> Family, calls |-> 2]

\* Whatever may go wrong does, with three calls on the sessions of careless clients.
Faulty == [events |-> Events, families |-> Family \ Careful, calls |-> 3]

AllScenarios == {Smooth, Faulty}
SmoothScenario == {Smooth}
===============================================================================
