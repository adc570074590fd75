--------------------------- MODULE MCEventCursor ---------------------------
(* EventCursor on small instances.                                          *)
EXTENDS EventCursor, TLC

Symmetry == Permutations(Events)

\* What becomes of a state does not depend on how an event was settled, nor on
\* which events were processed twice, and the properties ask for neither.
View == <<env, alive, cur, seen, retry, pc, now, pos, walk, stored \union dropped \union missed,
          ever, twice = {}, back>>
=============================================================================
