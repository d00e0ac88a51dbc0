---------------------------- MODULE SelectionMC ----------------------------
(* Selection over a few server lists: none, one, two with one id, three.   *)
EXTENDS Selection

Record(id, scheme) == [id |-> id, scheme |-> scheme]

MCLists ==
    {<<>>,
     <<Record(1, "none")>>,
     <<Record(2, "http"), Record(2, "https")>>,
     <<Record(1, "http"), Record(2, "none"), Record(3, "https")>>}
=============================================================================
