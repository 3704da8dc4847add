--------------------------- MODULE MCReleaseRecovery ---------------------------
(* The floor is the terminal release of the third epoch, two frozen sources  *)
(* and the repair have landed, and one more source may.                      *)
EXTENDS ReleaseRecovery

MCPath == {"f", "g", "h", "i"}
MCText == {"a"}

Fragments(paths) == [s \in Surface |-> IF s \in paths THEN "a" ELSE Absent]
MCLanded == <<Fragments({}), Fragments({"f"}), Fragments({"f", "g"}),
              Fragments({"f", "g", "h"})>>
MCFrozen ==
    <<[source |-> 2, parent |-> 1, tree |-> MCLanded[2], mainRun |-> 2],
      [source |-> 3, parent |-> 2, tree |-> MCLanded[3], mainRun |-> 3]>>
MCProposal == {Fragments({"f", "g", "h", "i"})}
================================================================================
