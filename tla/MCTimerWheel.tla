---------------------------- MODULE MCTimerWheel -----------------------------
(* TimerWheel with the distances a program asks for. *)
EXTENDS TimerWheel

\* The beginning, and a few ticks before the counter wraps.
EdgeStarts == {0, Wrap - 5}

\* The first and the last distance of every vector, and overdue ones.
EdgeDeltas == {0, Gran2 - 1, Gran2, Gran3 - 1, Gran3, Gran4 - 1, Gran4,
               Gran5 - 1, Gran5, Gran5 + 1, Wrap \div 2 - 1, Wrap \div 2, Wrap - 1}

\* A list of tv1, one of tv3 that is cascaded twice, and an overdue tick.
FewDeltas == {1, Gran3 + 1, Wrap - 1}
==============================================================================
