--------------------------- MODULE MCSessionTurns ---------------------------
(* A small instance of SessionTurns: how often each event may happen. *)
EXTENDS SessionTurns, TLC

CONSTANTS Stops, Ties, Failures, Crashes, Rewinds, Clears, Closes, Overlaps,
          Outages

MCLimit ==
    [e \in Events |-> CASE e = "stop" -> Stops
                        [] e = "tie" -> Ties
                        [] e = "fail" -> Failures
                        [] e = "crash" -> Crashes
                        [] e = "rewind" -> Rewinds
                        [] e = "clear" -> Clears
                        [] e = "close" -> Closes
                        [] e = "overlap" -> Overlaps
                        [] e = "outage" -> Outages]

\* What is typed, and in which tab, makes no difference but by identity.
Symmetry == Permutations(Msgs) \cup Permutations(Conns)

\* A bound of the run with two tabs: of turns that overlap, one at most goes on
\* behind its first hop, the other answers in it, or is still at it.
OneGoesOn ==
    used["overlap"] > 0 => Cardinality({t \in Turns : hops[t] > 0}) <= 1
=============================================================================
