---------------------------- MODULE MCAiPreview ----------------------------
(* Instances of AiPreview for TLC.                                         *)
EXTENDS AiPreview, TLC

CONSTANTS large, small

MCCapacity == [room \in Rooms |-> IF room = large THEN 2 ELSE 1]

Complete == [room |-> small, start |-> 1, end |-> 2, title |-> TRUE, count |-> 1,
             in_office_zone |-> TRUE, needs_clarification |-> FALSE]

(* An intent that is right, and each way one value of it can be wrong      *)
MCIntents ==
    {Complete,
     [Complete EXCEPT !.room = large, !.count = 2], [Complete EXCEPT !.count = 2],
     [Complete EXCEPT !.count = 0], [Complete EXCEPT !.count = Missing],
     [Complete EXCEPT !.room = Unknown], [Complete EXCEPT !.room = Missing],
     [Complete EXCEPT !.start = Missing], [Complete EXCEPT !.end = 1],
     [Complete EXCEPT !.title = FALSE], [Complete EXCEPT !.in_office_zone = FALSE],
     [Complete EXCEPT !.needs_clarification = TRUE]}

OneIntent == {Complete}

Permuted == Permutations(Previews) \cup Permutations(Manual)
=============================================================================
