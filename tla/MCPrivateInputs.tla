---------------------------- MODULE MCPrivateInputs ----------------------------
(* The reader of one file and the check of a protected host, one of them per
   behaviour: they share no state, and the check's own reads are the reader's. *)
EXTENDS StableReads, ProtectedHost
VARIABLE subject
OldArchive == <<"srv", "old">>
M(id, point, root, dev, fs) == [id |-> id, point |-> point, root |-> root, dev |-> dev, fs |-> fs]
MountChoices ==
    {M(1, << >>, << >>, "A", "ext4"), M(2, <<"srv", "old">>, << >>, "B", "ext4"),
     M(3, <<"mnt">>, <<"srv">>, "A", "ext4"), M(4, <<"mnt">>, << >>, "B", "ext4"),
     M(5, <<"srv", "old", "new">>, << >>, "C", "ext4"), M(6, <<"srv">>, << >>, "D", "tmpfs"),
     M(7, <<"mnt">>, <<"new">>, "A", "ext4"), M(8, <<"srv">>, <<"new">>, "A", "ext4"),
     M(9, <<"srv", "old">>, <<"mnt">>, "A", "ext4")}
Init ==
    /\ subject \in {"file", "host"} /\ ReadsInit /\ HostInit
    /\ subject = "host" => reader = "contract"
Next ==
    /\ UNCHANGED subject
    /\ \/ subject = "file" /\ ReadsNext /\ UNCHANGED hostVars
       \/ subject = "host" /\ HostNext /\ UNCHANGED readVars
Spec == Init /\ [][Next]_<<readVars, hostVars, subject>>
=============================================================================
