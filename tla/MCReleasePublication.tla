------------------------- MODULE MCReleasePublication -------------------------
(* Two fragment names and two texts; a pull request adds the next fragment  *)
(* or rewrites the text of the first.                                       *)
EXTENDS ReleasePublication

MCPath == {"f", "g"}
MCText == {"a", "b"}
MCFrozen == <<>>
MCLanded == << [s \in Surface |-> Absent] >>

Proposed(f, g) == [s \in Surface |-> CASE s = "f" -> f [] s = "g" -> g [] OTHER -> Absent]
MCProposal == {Proposed("a", Absent), Proposed("b", Absent),
               Proposed("a", "a"), Proposed("b", "a")}
===============================================================================
