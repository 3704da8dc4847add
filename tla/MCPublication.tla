---------------------------- MODULE MCPublication ----------------------------
(***************************************************************************)
(* Publication on eight files: three versions of one text, two spellings of*)
(* another name, a path only the history may hold, and one blob that is    *)
(* synthetic in a test and a host's address elsewhere.                     *)
(***************************************************************************)
EXTENDS Publication

F(name, upper, place, oid, marks) ==
    [name |-> name, upper |-> upper, place |-> place, suffix |-> "text", mode |-> "regular",
     oid |-> oid, size |-> 1, marks |-> marks]

Plain    == F(1, FALSE, "source", 1, {})
Ours     == F(1, FALSE, "source", 2, {})
Theirs   == F(1, FALSE, "source", 3, {})
Shouted  == F(2, TRUE,  "source", 4, {})
Spoken   == F(2, FALSE, "source", 5, {})
Relic    == F(3, FALSE, "old dist", 6, {})
InTest   == F(4, FALSE, "test",   7, {"test address"})
InSource == F(5, FALSE, "source", 7, {"test address"})

MCFirst == {Plain}
MCTrees == {{Plain}, {Ours, Spoken}, {Theirs, Shouted}, {Plain, Relic}, {InTest, InSource}}

\* Two changes of one file join to lines that neither had.
MCTextMerge(from, ours, theirs) ==
    IF {} \in {from, ours, theirs} THEN {} ELSE {[f EXCEPT !.oid = 8, !.marks = {"token"}] : f \in ours}

MCContents == [tree : MCTrees, meta : {"plain"}] \cup [tree : {{Plain}}, meta : {"telling"}]

MCBranch == [first |-> <<"opus", "high">>, rest |-> "issue topic", safe |-> TRUE]
MCLanes  == {<<"opus">>}
MCEfforts == {"high", "low"}
MCNamespaces == {<<"docs">>}

=============================================================================
