----------------------------- MODULE MCBookings -----------------------------
(* Instances of Bookings for TLC.                                          *)
EXTENDS Bookings, TLC

CONSTANTS big, small, mid, ann, bob, r1, r2, r3

MCCapacity == [room \in Rooms |-> IF room = small THEN 1 ELSE 2]
MCNameOrder == [room \in Rooms |-> CASE room = big -> 1 [] room = mid -> 2 [] room = small -> 3]

Create(user, room, start, end, count) ==
    [kind |-> "create", user |-> user, room |-> room, start |-> start,
     end |-> end, count |-> count, target |-> NoBooking]

Ask(kind, user, target) ==
    [kind |-> kind, user |-> user, room |-> big, start |-> 1, end |-> 3,
     count |-> AnyCount, target |-> target]

RequestSymmetry == Permutations(Requests)

(* Overlapping creates and the cancellations of what one of them leaves:   *)
(* with three requests no two creates can both have a booking cancelled,   *)
(* and which request it is makes no difference.                            *)
RaceCalls ==
    {Create(ann, big, 0, 2, AnyCount), Create(bob, big, 1, 3, AnyCount)}
      \cup {Ask("cancel", u, r1) : u \in {ann, bob}}

(* Creates that meet each other in two rooms and at later times, with and  *)
(* without a participant count                                             *)
OfferCalls ==
    {Create(ann, big, 1, 2, 2), Create(ann, big, 2, 3, 2),
     Create(ann, mid, 1, 3, AnyCount), Create(ann, small, 1, 2, 2),
     Create(ann, big, 2, 2, 1)}

(* A booking, its cancellation and every way to read it                    *)
ReadCalls ==
    {Create(ann, big, 1, 3, 1)}
      \cup {Ask("cancel", ann, b) : b \in Requests}
      \cup {Ask("get", u, b) : u \in Users, b \in Requests}
      \cup {Ask(kind, ann, NoBooking) : kind \in {"list", "schedule", "free"}}

(* Conflicts and reads together                                            *)
AnswerCalls == OfferCalls \cup ReadCalls

(* Two users who want exactly the same                                     *)
SameCalls == {Create(ann, big, 1, 3, AnyCount)}
=============================================================================
