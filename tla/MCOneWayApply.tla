--------------------------- MODULE MCOneWayApply ---------------------------
(***************************************************************************)
(* The revisions and target shares on which OneWayApply is checked.        *)
(***************************************************************************)
EXTENDS OneWayApply

\* r1 to r5 add a file, replace it by a file and by a directory, delete it and add
\* it again.  d3 deletes r2.  m1 is the target's own replacement of r1.
PathRevisions == {"r1", "r2", "r3", "r4", "r5", "d3", "m1"}
PathParent ==
    [r1 |-> NoRevision, r2 |-> "r1", r3 |-> "r2", r4 |-> "r3", r5 |-> "r4",
     d3 |-> "r2", m1 |-> "r1"]
PathContent ==
    [r1 |-> "A", r2 |-> "B", r3 |-> "dir", r4 |-> Absent, r5 |-> "A",
     d3 |-> Absent, m1 |-> "dir"]

\* A new target follows the source through all its changes.
Following ==
    [accepted |-> {}, current |-> NoRevision, source |-> {"r1", "r2", "r3", "r4", "r5"},
     policy |-> "reject", local |-> {}, calls |-> {"a1"}, faults |-> 2]

\* The same with two calls that contend for the path.
Contended == [Following EXCEPT !.calls = {"a1", "a2"}, !.faults = 1]

\* The target has a revision of its own when the source replaces, then deletes,
\* the base file, and a local user changes the path between applies.
Drifted ==
    [accepted |-> {"r1", "m1"}, current |-> "m1", source |-> {"r2", "d3"},
     policy |-> "preserve_conflict_copy", local |-> {"C", "full", Absent}, calls |-> {"a1"}, faults |-> 1]

\* The target is asked for r3 and never received its parent.
Missed ==
    [accepted |-> {"r1"}, current |-> "r1", source |-> {"r3"},
     policy |-> "preserve_conflict_copy", local |-> {}, calls |-> {"a1"}, faults |-> 0]

SafeSites == {Following, Contended, Drifted, Missed}
MissedSites == {Missed}
=============================================================================
