----------------------------- MODULE SlotSearch -----------------------------
(***************************************************************************)
(* The loop of nearest_available_slots, one iteration a step, over the     *)
(* bookings nearest_slots loads for it.  The starts it collects are in     *)
(* increasing order, so the list is modelled by its set.                   *)
(***************************************************************************)
EXTENDS Availability

CONSTANTS
    Wants,      \* the intervals that may be asked for
    Bookings,   \* sets of rows of the table
    TheRoom     \* the requested room

ASSUME SearchAssumption ==
    /\ \A want \in Wants : /\ want.start \in Nat /\ want.end \in Nat
                           /\ ValidInterval(want)
    /\ \A rows \in Bookings : \A row \in rows :
          row.start \in Nat /\ row.end \in Nat

VARIABLES
    want,       \* [start_at, end_at) of the request
    rows,       \* the bookings table
    occupied,   \* the intervals loaded before the loop
    candidate,  \* candidate_start
    slots,      \* the starts collected
    at          \* "loop" or "returned"

searchVars == <<want, rows, occupied, candidate, slots, at>>

(* Mutant: the search begins at the start that was refused.                *)
InitAtStart ==
    /\ want \in Wants
    /\ rows \in Bookings
    /\ occupied = ConfirmedOverlapping(rows, TheRoom, SearchWindow(want))
    /\ candidate = want.start
    /\ slots = {}
    /\ at = "loop"

Init ==
    /\ want \in Wants
    /\ rows \in Bookings
    /\ occupied = ConfirmedOverlapping(rows, TheRoom, SearchWindow(want))
    /\ candidate = want.start + SlotGranularity
    /\ slots = {}
    /\ at = "loop"

(* Mutant: a slot that ends with the horizon is not considered.            *)
FitsStrictly == Slot(want, candidate).end < SearchWindow(want).end

Fits == Slot(want, candidate).end <= SearchWindow(want).end

(* Mutant: only bookings that begin inside the slot are seen.              *)
IsFreeOfStarts ==
    \A o \in occupied :
        ~(candidate <= o.start /\ o.start < Slot(want, candidate).end)

IsFree == \A o \in occupied : ~Overlaps(o, Slot(want, candidate))

(* Mutant: the loop never leaves at the limit alone.                       *)
LimitedLate == Cardinality(slots) > AlternativeLimit

Limited == Cardinality(slots) >= AlternativeLimit

(* Mutant: a busy candidate is tried again.                                *)
IterateStuck ==
    /\ at = "loop"
    /\ ~Limited /\ Fits
    /\ slots' = IF IsFree THEN slots \cup {candidate} ELSE slots
    /\ candidate' = IF IsFree THEN candidate + SlotGranularity ELSE candidate
    /\ UNCHANGED <<want, rows, occupied, at>>

(* One pass through the body: collect the candidate if it is free, and     *)
(* move on by the granularity.                                             *)
Iterate ==
    /\ at = "loop"
    /\ ~Limited /\ Fits
    /\ slots' = IF IsFree THEN slots \cup {candidate} ELSE slots
    /\ candidate' = candidate + SlotGranularity
    /\ UNCHANGED <<want, rows, occupied, at>>

(* The while condition fails, or the break is taken.                       *)
Return ==
    /\ at = "loop"
    /\ Limited \/ ~Fits
    /\ at' = "returned"
    /\ UNCHANGED <<want, rows, occupied, candidate, slots>>

Finished == at = "returned" /\ UNCHANGED searchVars

Next == Iterate \/ Return \/ Finished

Spec == Init /\ [][Next]_searchVars

FairSpec == Spec /\ WF_searchVars(Next)

----------------------------------------------------------------------------
(* Free of every booking of the room, those never loaded included          *)
TrulyFree(s) == \A row \in rows : ~Clashes(row, TheRoom, Slot(want, s))

Reachable(s) ==
    /\ s > want.start
    /\ (s - want.start) % SlotGranularity = 0
    /\ Slot(want, s).end <= want.start + SlotSearchHorizon

(* The slots and the place of the search at every iteration.               *)
SearchTypeOK ==
    /\ want \in Wants /\ rows \in Bookings /\ occupied \subseteq rows
    /\ candidate \in Nat /\ candidate > want.start
    /\ slots \in SUBSET Nat
    /\ at \in {"loop", "returned"}

(* Every slot the search collects can be booked: it is later than what was *)
(* refused, of the same length, inside the horizon, and no booking of the  *)
(* room overlaps it, whether or not the query loaded that booking.         *)
SlotsAreBookable == \A s \in slots : Reachable(s) /\ TrulyFree(s)

(* The search returns the nearest ones: it left out a free slot only       *)
(* because AlternativeLimit nearer ones were found.                        *)
NothingNearerIsMissed ==
    at = "returned" =>
        \A s \in want.start .. want.start + SlotSearchHorizon :
            Reachable(s) /\ TrulyFree(s) /\ s \notin slots =>
                /\ Cardinality(slots) = AlternativeLimit
                /\ \A t \in slots : t < s

(* The loop computes the set that Bookings uses in its place.              *)
LoopIsNearestSlots ==
    at = "returned" => slots = NearestSlots(rows, TheRoom, want)

(* The search ends, however little is free: the horizon bounds it.         *)
SearchEnds == <>(at = "returned")
=============================================================================
