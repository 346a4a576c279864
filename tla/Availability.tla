---------------------------- MODULE Availability ----------------------------
(***************************************************************************)
(* The pure part of backend/app/services/availability.py and the queries   *)
(* of the repositories it rests on.  Time is a number, an interval is a    *)
(* record with a start and an end, and a row of the bookings table is a    *)
(* record with the fields of Row.  A query answers a set; the order that   *)
(* the SQL asks for only decides which elements a LIMIT keeps.             *)
(***************************************************************************)
EXTENDS Integers, FiniteSets

CONSTANTS
    Rooms,              \* identities of the rooms table
    Capacity,           \* rooms.capacity
    NameOrder,          \* position of a room in the order (name, id)
    AnyCount,           \* participants_count is None
    SlotGranularity,    \* 15 minutes in the code
    SlotSearchHorizon,  \* 7 days in the code
    AlternativeLimit    \* 3 in the code

ASSUME RoomsAssumption ==
    /\ IsFiniteSet(Rooms)
    /\ Capacity \in [Rooms -> Nat \ {0}]
    /\ NameOrder \in [Rooms -> Nat]
    /\ \A a, b \in Rooms : a # b => NameOrder[a] # NameOrder[b]

ASSUME SlotAssumption ==
    /\ SlotGranularity \in Nat \ {0}
    /\ SlotSearchHorizon \in Nat
    /\ AlternativeLimit \in Nat
    /\ AnyCount \notin Nat

Count == (Nat \ {0}) \cup {AnyCount}

----------------------------------------------------------------------------
(* Intervals are half-open: [start, end).                                  *)

Overlaps(a, b) == a.start < b.end /\ a.end > b.start

ValidInterval(i) == i.end > i.start

(* Mutant: a cancelled booking still blocks.                               *)
ClashesAnyStatus(row, room, i) == row.room = room /\ Overlaps(row, i)

(* The predicate both the queries and the exclusion constraint use: a      *)
(* confirmed row of that room whose interval overlaps.                     *)
Clashes(row, room, i) ==
    /\ row.status = "confirmed"
    /\ row.room = room
    /\ Overlaps(row, i)

(* list_confirmed_overlapping, has_confirmed_overlap                       *)
ConfirmedOverlapping(rows, room, i) == {row \in rows : Clashes(row, room, i)}

HasConfirmedOverlap(rows, room, i) == ConfirmedOverlapping(rows, room, i) # {}

----------------------------------------------------------------------------
(* list_free_active                                                        *)

FreeActive(rows, active, i, minCapacity) ==
    {room \in active : /\ Capacity[room] >= minCapacity
                       /\ ~HasConfirmedOverlap(rows, room, i)}

(* ORDER BY capacity, name, id                                             *)
Before(a, b) ==
    \/ Capacity[a] < Capacity[b]
    \/ Capacity[a] = Capacity[b] /\ NameOrder[a] < NameOrder[b]

(* LIMIT: the elements that fewer than AlternativeLimit others precede.    *)
FirstRooms(S) ==
    {a \in S : Cardinality({b \in S : Before(b, a)}) < AlternativeLimit}

FirstStarts(S) ==
    {s \in S : Cardinality({t \in S : t < s}) < AlternativeLimit}

(* minimum_capacity = participants_count or requested_room.capacity        *)
MinimumCapacity(room, count) ==
    IF count = AnyCount THEN Capacity[room] ELSE count

AlternativeRooms(rows, active, room, i, count) ==
    FirstRooms(FreeActive(rows, active, i, MinimumCapacity(room, count))
                 \ {room})

----------------------------------------------------------------------------
(* nearest_available_slots: the starts of the slots, each of the duration  *)
(* of i.  SlotSearch models the loop that computes them.                   *)

Slot(i, s) == [start |-> s, end |-> s + (i.end - i.start)]

SearchWindow(i) == [start |-> i.start, end |-> i.start + SlotSearchHorizon]

Grid(i) == {i.start + k * SlotGranularity : k \in 1 .. SlotSearchHorizon}

CandidateStarts(i) == {s \in Grid(i) : Slot(i, s).end <= SearchWindow(i).end}

FreeStarts(occupied, i) ==
    {s \in CandidateStarts(i) : \A o \in occupied : ~Overlaps(o, Slot(i, s))}

NearestAvailableSlots(occupied, i) == FirstStarts(FreeStarts(occupied, i))

(* Mutant: only the bookings of the requested interval are loaded.         *)
NearestSlotsNarrow(rows, room, i) ==
    NearestAvailableSlots(ConfirmedOverlapping(rows, room, i), i)

(* nearest_slots loads the bookings of the search window once and scans    *)
(* them in memory.                                                         *)
NearestSlots(rows, room, i) ==
    NearestAvailableSlots(ConfirmedOverlapping(rows, room, SearchWindow(i)), i)
=============================================================================
