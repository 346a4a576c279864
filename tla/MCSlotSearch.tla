---------------------------- MODULE MCSlotSearch ----------------------------
(* Instances of SlotSearch for TLC.                                        *)
EXTENDS SlotSearch

CONSTANTS here, there

OneCapacity == [room \in Rooms |-> 1]
RoomOrder == [room \in Rooms |-> IF room = here THEN 1 ELSE 2]

Interval(a, b) == [start |-> a, end |-> b]

(* A slot of one grid step, of two, and one that no grid step divides      *)
MCWants == {Interval(1, 3), Interval(2, 6), Interval(2, 5)}

Booked(room, a, b, status) ==
    [room |-> room, start |-> a, end |-> b, status |-> status]

(* Bookings before, at, across and after the edges of the search           *)
MCRows ==
    {Booked(here, 0, 2, "confirmed"), Booked(here, 3, 4, "confirmed"),
     Booked(here, 5, 8, "confirmed"), Booked(here, 8, 9, "confirmed"),
     Booked(here, 11, 15, "confirmed"), Booked(here, 12, 13, "confirmed"),
     Booked(here, 3, 9, "cancelled"), Booked(there, 4, 8, "confirmed")}

MCBookingSets == SUBSET MCRows
=============================================================================
