------------------------------- MODULE MCTSEM -------------------------------
(* Instances of TSEM for TLC. *)
EXTENDS TSEM

CONSTANTS p1, p2, p3, b0, b1, a1, c1, c2, pid1, pid2

\* Two programs that run as two processes; the file of the first may be masked
\* as a pseudonym, and then its events measure to the point of the second.
MCEvents == {[point |-> p1, masked |-> p2, cell |-> c1, pid |-> pid1],
             [point |-> p2, masked |-> p2, cell |-> c2, pid |-> pid2]}

Line(cmd, arg) == [cmd |-> cmd, arg |-> arg]

\* The lines of a signed model file that aggregates, masks and admits.
MCEntries == {Line("comment", Malformed), Line("key", Malformed),
              Line("base", b1), Line("base", Malformed),
              Line("aggregate", a1), Line("state", p1), Line("pseudonym", c1),
              Line("seal", Malformed), Line("signature", TRUE),
              Line("signature", FALSE), Line("end", Malformed)}

\* A model file that names points but no aggregate, loaded before any event.
MCNoEvents == {}

MCLoadedEntries == {Line("state", p1), Line("state", p2), Line("end", Malformed)}
=============================================================================
