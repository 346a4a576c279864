-------------------------- MODULE SlotSearchProofs --------------------------
(***************************************************************************)
(* Theorems about SlotSearch for every granularity, horizon, limit, table  *)
(* and requested interval.                                                 *)
(***************************************************************************)
EXTENDS SlotSearch, FiniteSetTheorems, Functions, TLAPS

(* The free candidates that the search has passed.                         *)
Passed == {s \in FreeStarts(occupied, want) : s < candidate}

(* The inductive invariant.                                                *)
SearchInv ==
    /\ SearchTypeOK
    /\ occupied = ConfirmedOverlapping(rows, TheRoom, SearchWindow(want))
    /\ \E k \in Nat \ {0} : candidate = want.start + k * SlotGranularity
    /\ slots = Passed
    /\ IsFiniteSet(slots)
    /\ Cardinality(slots) <= AlternativeLimit
    /\ at = "returned" => Limited \/ ~Fits

----------------------------------------------------------------------------
LEMMA WantType ==
    ASSUME want \in Wants
    PROVE  want.start \in Nat /\ want.end \in Nat /\ want.end > want.start
  BY SearchAssumption DEF ValidInterval

(* Multiples of the granularity are ordered as their factors are.          *)
LEMMA GridOrder ==
    ASSUME NEW j \in Nat, NEW k \in Nat, NEW g \in Nat \ {0}
    PROVE  /\ j * g \in Nat
           /\ j >= k => j * g >= k * g
           /\ (k + 1) * g = k * g + g
           /\ j * g < (k + 1) * g <=> j <= k
           /\ j <= j * g
  <1>1. j * g \in Nat /\ k * g \in Nat
    OBVIOUS
  <1>2. (k + 1) * g = k * g + g
    OBVIOUS
  <1>3. ASSUME NEW a \in Nat, NEW b \in Nat, a >= b PROVE a * g >= b * g
    <2>1. PICK d \in Nat : a = b + d
      BY <1>3
    <2>2. a * g = b * g + d * g
      BY <2>1
    <2>3. d * g >= 0
      OBVIOUS
    <2> QED
      BY <2>2, <2>3
  <1>4. j <= j * g
    <2>1. PICK d \in Nat : g = d + 1
      OBVIOUS
    <2>2. j * g = j * d + j
      BY <2>1
    <2>3. j * d >= 0
      BY <2>1
    <2> QED
      BY <2>2, <2>3
  <1>5. j * g < (k + 1) * g <=> j <= k
    <2>1. j <= k => j * g <= k * g
      BY <1>3
    <2>2. j >= k + 1 => j * g >= (k + 1) * g
      BY <1>3
    <2> QED
      BY <1>1, <1>2, <2>1, <2>2
  <1> QED
    BY <1>1, <1>2, <1>3, <1>4, <1>5

(* Nothing lies on the grid strictly between a candidate and the next.     *)
LEMMA GridStep ==
    ASSUME SearchTypeOK, NEW k \in Nat \ {0},
           candidate = want.start + k * SlotGranularity,
           NEW s \in Grid(want), s < candidate + SlotGranularity
    PROVE  s <= candidate
  <1>1. PICK j \in 1 .. SlotSearchHorizon : s = want.start + j * SlotGranularity
    BY DEF Grid
  <1>2. /\ j \in Nat /\ want.start \in Nat /\ SlotGranularity \in Nat \ {0}
        /\ j * SlotGranularity \in Nat /\ k * SlotGranularity \in Nat
    BY SlotAssumption, WantType, GridOrder DEF SearchTypeOK
  <1>3. j * SlotGranularity < (k + 1) * SlotGranularity
    BY <1>1, <1>2, GridOrder
  <1>4. j <= k
    BY <1>2, <1>3, GridOrder
  <1>5. j * SlotGranularity <= k * SlotGranularity
    BY <1>2, <1>4, GridOrder
  <1> QED
    BY <1>1, <1>2, <1>5

(* A candidate that fits into the horizon is on the grid.                  *)
LEMMA FitsOnGrid ==
    ASSUME SearchTypeOK, NEW k \in Nat \ {0},
           candidate = want.start + k * SlotGranularity, Fits
    PROVE  candidate \in CandidateStarts(want)
  <1>1. want.start \in Nat /\ want.end \in Nat /\ want.end > want.start
    BY WantType DEF SearchTypeOK
  <1>2. k <= k * SlotGranularity /\ k * SlotGranularity \in Nat
    BY SlotAssumption, GridOrder
  <1>3. k * SlotGranularity <= SlotSearchHorizon
    BY <1>1, <1>2, SlotAssumption DEF Fits, Slot, SearchWindow
  <1>4. k \in 1 .. SlotSearchHorizon
    BY <1>2, <1>3, SlotAssumption
  <1> QED
    BY <1>4 DEF Fits, CandidateStarts, Grid

----------------------------------------------------------------------------
LEMMA SearchInit == Init => SearchInv
  <1> SUFFICES ASSUME Init PROVE SearchInv
    OBVIOUS
  <1>1. want.start \in Nat /\ SlotGranularity \in Nat \ {0}
    BY WantType, SlotAssumption DEF Init
  <1>2. candidate = want.start + 1 * SlotGranularity
    BY <1>1 DEF Init
  <1>3. SearchTypeOK
    BY <1>1 DEF Init, SearchTypeOK, ConfirmedOverlapping
  <1>4. Passed = {}
    <2>1. ASSUME NEW s \in Grid(want) PROVE ~(s < candidate)
      <3>1. PICK j \in 1 .. SlotSearchHorizon : s = want.start + j * SlotGranularity
        BY DEF Grid
      <3>2. j \in Nat /\ j >= 1
        BY <3>1, SlotAssumption
      <3>3. j * SlotGranularity >= 1 * SlotGranularity /\ j * SlotGranularity \in Nat
        BY <1>1, <3>2, GridOrder
      <3> QED
        BY <1>1, <1>2, <3>1, <3>3
    <2> QED
      BY <2>1 DEF Passed, FreeStarts, CandidateStarts
  <1>5. IsFiniteSet(slots) /\ Cardinality(slots) <= AlternativeLimit
    BY FS_EmptySet, SlotAssumption DEF Init
  <1> QED
    BY <1>2, <1>3, <1>4, <1>5 DEF Init, SearchInv

(* An iteration passes one candidate, and collects it if it is free.       *)
LEMMA IterateStep ==
    ASSUME SearchInv, Iterate
    PROVE  SearchInv'
  <1>1. PICK k \in Nat \ {0} : candidate = want.start + k * SlotGranularity
    BY DEF SearchInv
  <1>0. /\ SearchTypeOK /\ IsFiniteSet(slots) /\ slots = Passed
        /\ occupied = ConfirmedOverlapping(rows, TheRoom, SearchWindow(want))
    BY DEF SearchInv
  <1>2. /\ want.start \in Nat /\ SlotGranularity \in Nat \ {0}
        /\ candidate \in Nat /\ k * SlotGranularity \in Nat
    BY <1>0, <1>1, WantType, SlotAssumption, GridOrder DEF SearchTypeOK
  <1>3. /\ candidate' = candidate + SlotGranularity
        /\ UNCHANGED <<want, rows, occupied, at>>
        /\ at = "loop"
    BY DEF Iterate
  <1>4. candidate' = want.start + (k + 1) * SlotGranularity
    BY <1>1, <1>2, <1>3, GridOrder
  <1>5. candidate \in FreeStarts(occupied, want) <=> IsFree
    BY <1>0, <1>1, FitsOnGrid DEF Iterate, FreeStarts, IsFree
  <1>6. Passed' = IF IsFree THEN Passed \cup {candidate} ELSE Passed
    <2>1. \A s \in FreeStarts(occupied, want) :
             /\ s \in Int
             /\ s < candidate + SlotGranularity <=> s < candidate \/ s = candidate
      <3>1. SUFFICES ASSUME NEW s \in FreeStarts(occupied, want)
                     PROVE  /\ s \in Int
                            /\ s < candidate + SlotGranularity
                                 => s < candidate \/ s = candidate
        BY <1>2
      <3>2. s \in Grid(want)
        BY DEF FreeStarts, CandidateStarts
      <3>3. s \in Int
        <4>1. PICK j \in 1 .. SlotSearchHorizon :
                 s = want.start + j * SlotGranularity
          BY <3>2 DEF Grid
        <4> QED
          BY <1>2, <4>1, SlotAssumption
      <3>4. s < candidate + SlotGranularity => s <= candidate
        BY <1>0, <1>1, <3>2, GridStep
      <3> QED
        BY <1>2, <3>3, <3>4
    <2>2. Passed' = {s \in FreeStarts(occupied, want) :
                        s < candidate + SlotGranularity}
      BY <1>3 DEF Passed, FreeStarts, CandidateStarts, Grid, Slot, SearchWindow,
                  Overlaps
    <2> QED
      BY <1>5, <2>1, <2>2 DEF Passed
  <1>7. slots' = Passed'
    BY <1>0, <1>6 DEF Iterate
  <1>8. IsFiniteSet(slots') /\ Cardinality(slots') <= AlternativeLimit
    <2>1. ~(Cardinality(slots) >= AlternativeLimit)
      BY DEF Iterate, Limited
    <2>2. Cardinality(slots) \in Nat
      BY <1>0, FS_CardinalityType
    <2>3. CASE IsFree
      <3>1. slots' = slots \cup {candidate}
        BY <2>3 DEF Iterate
      <3>2. /\ IsFiniteSet(slots \cup {candidate})
            /\ Cardinality(slots \cup {candidate}) <= Cardinality(slots) + 1
        <4>1. /\ IsFiniteSet(slots \cup {candidate})
              /\ \/ Cardinality(slots \cup {candidate}) = Cardinality(slots)
                 \/ Cardinality(slots \cup {candidate}) = Cardinality(slots) + 1
          BY <1>0, FS_AddElement
        <4> QED
          BY <2>2, <4>1
      <3> QED
        BY <2>1, <2>2, <3>1, <3>2, FS_CardinalityType, SlotAssumption
    <2>4. CASE ~IsFree
      BY <1>0, <2>1, <2>2, <2>4, SlotAssumption DEF Iterate
    <2> QED
      BY <2>3, <2>4
  <1>9. SearchTypeOK'
    <2>1. slots' \in SUBSET Nat
      BY <1>0, <1>2 DEF SearchTypeOK, Iterate
    <2>2. candidate' \in Nat /\ candidate' > want.start
      BY <1>0, <1>2, <1>3 DEF SearchTypeOK
    <2> QED
      BY <1>0, <1>3, <2>1, <2>2 DEF SearchTypeOK
  <1>10. occupied' = ConfirmedOverlapping(rows, TheRoom, SearchWindow(want))'
    BY <1>0, <1>3 DEF ConfirmedOverlapping, Clashes, Overlaps, SearchWindow
  <1>11. k + 1 \in Nat \ {0}
    OBVIOUS
  <1> QED
    BY <1>3, <1>4, <1>7, <1>8, <1>9, <1>10, <1>11 DEF SearchInv

LEMMA SearchStep == SearchInv /\ [Next]_searchVars => SearchInv'
  <1> SUFFICES ASSUME SearchInv, [Next]_searchVars PROVE SearchInv'
    OBVIOUS
  <1>1. CASE Iterate
    BY <1>1, IterateStep
  <1>2. CASE Return \/ UNCHANGED searchVars
    <2>1. UNCHANGED <<want, rows, occupied, candidate, slots>>
      BY <1>2 DEF Return, searchVars
    <2>2. at' = at \/ (at' = "returned" /\ (Limited \/ ~Fits))
      BY <1>2 DEF Return, searchVars
    <2>3. Passed' = Passed /\ Limited' = Limited /\ Fits' = Fits
      <3>1. FreeStarts(occupied, want)' = FreeStarts(occupied, want)
        BY <2>1 DEF FreeStarts, CandidateStarts, Grid, Slot, SearchWindow, Overlaps
      <3> QED
        BY <2>1, <3>1 DEF Passed, Limited, Fits, Slot, SearchWindow
    <2>4. ConfirmedOverlapping(rows, TheRoom, SearchWindow(want))'
            = ConfirmedOverlapping(rows, TheRoom, SearchWindow(want))
      BY <2>1 DEF ConfirmedOverlapping, Clashes, Overlaps, SearchWindow
    <2> QED
      BY <2>1, <2>2, <2>3, <2>4 DEF SearchInv, SearchTypeOK
  <1> QED
    BY <1>1, <1>2 DEF Next, Finished

THEOREM SearchInvariance == Spec => []SearchInv
  BY SearchInit, SearchStep, PTL DEF Spec

----------------------------------------------------------------------------
(* A booking of the room that overlaps a slot inside the horizon overlaps  *)
(* the window, so the query has loaded it.                                 *)
LEMMA WindowSuffices ==
    ASSUME SearchInv, NEW s \in CandidateStarts(want)
    PROVE  TrulyFree(s) <=> \A o \in occupied : ~Overlaps(o, Slot(want, s))
  <1>1. /\ want.start \in Nat /\ want.end \in Nat /\ want.end > want.start
        /\ SlotGranularity \in Nat \ {0} /\ SlotSearchHorizon \in Nat
    BY WantType, SlotAssumption DEF SearchInv, SearchTypeOK
  <1>2. PICK j \in 1 .. SlotSearchHorizon : s = want.start + j * SlotGranularity
    BY DEF CandidateStarts, Grid
  <1>3. s \in Nat /\ s > want.start
    <2>1. j \in Nat /\ j >= 1 /\ j * SlotGranularity \in Nat
          /\ j <= j * SlotGranularity
      BY <1>1, <1>2, GridOrder
    <2> QED
      BY <1>1, <1>2, <2>1
  <1>4. Slot(want, s).end <= want.start + SlotSearchHorizon
    BY DEF CandidateStarts, SearchWindow
  <1>5. \A row \in rows : row.start \in Nat /\ row.end \in Nat
    BY SearchAssumption DEF SearchInv, SearchTypeOK
  <1>6. \A row \in rows :
           Overlaps(row, Slot(want, s)) => Overlaps(row, SearchWindow(want))
    BY <1>1, <1>3, <1>4, <1>5 DEF Overlaps, Slot, SearchWindow
  <1>7. occupied = {row \in rows : Clashes(row, TheRoom, SearchWindow(want))}
    BY DEF SearchInv, ConfirmedOverlapping
  <1> QED
    BY <1>6, <1>7 DEF TrulyFree, Clashes

(* When the search returns it has found the first free slots.              *)
LEMMA ReturnedFirst ==
    ASSUME SearchInv, at = "returned"
    PROVE  slots = FirstStarts(FreeStarts(occupied, want))
  <1> DEFINE free == FreeStarts(occupied, want)
             nearer(s) == {t \in free : t < s}
  <1>1. free \subseteq Int /\ candidate \in Int /\ AlternativeLimit \in Nat
    <2>1. want.start \in Nat /\ SlotGranularity \in Nat /\ SlotSearchHorizon \in Nat
      BY WantType, SlotAssumption DEF SearchInv, SearchTypeOK
    <2>2. Grid(want) \subseteq Int
      BY <2>1 DEF Grid
    <2> QED
      BY <2>2, SlotAssumption DEF FreeStarts, CandidateStarts, SearchInv, SearchTypeOK
  <1>2. /\ slots = {s \in free : s < candidate} /\ IsFiniteSet(slots)
        /\ Cardinality(slots) <= AlternativeLimit
    BY DEF SearchInv, Passed
  <1>3. ASSUME NEW s \in slots
        PROVE  Cardinality(nearer(s)) < AlternativeLimit
    <2>1. nearer(s) \subseteq slots \ {s}
      BY <1>1, <1>2
    <2>2. /\ IsFiniteSet(slots \ {s})
          /\ Cardinality(slots \ {s}) = Cardinality(slots) - 1
      BY <1>2, FS_RemoveElement
    <2>3. /\ Cardinality(nearer(s)) <= Cardinality(slots \ {s})
          /\ IsFiniteSet(nearer(s))
      BY <2>1, <2>2, FS_Subset
    <2> QED
      BY <1>1, <1>2, <2>2, <2>3, FS_CardinalityType
  <1>4. ASSUME NEW s \in free \ slots
        PROVE  ~(Cardinality(nearer(s)) < AlternativeLimit)
    <2>1. s >= candidate
      BY <1>1, <1>2, <1>4
    <2>2. Limited
      <3>1. SUFFICES ASSUME ~Fits PROVE FALSE
        BY DEF SearchInv
      <3>2. Slot(want, s).end <= SearchWindow(want).end
        BY DEF FreeStarts, CandidateStarts
      <3>3. want.start \in Nat /\ want.end \in Nat
        BY WantType DEF SearchInv, SearchTypeOK
      <3> QED
        BY <1>1, <2>1, <3>1, <3>2, <3>3, SlotAssumption
           DEF Fits, Slot, SearchWindow
    <2>3. slots \subseteq nearer(s)
      BY <1>1, <1>2, <2>1
    <2>4. ASSUME Cardinality(nearer(s)) < AlternativeLimit PROVE FALSE
      <3>1. IsFiniteSet(nearer(s))
        <4> DEFINE steps == 1 .. SlotSearchHorizon
                   start == [k \in steps |-> want.start + k * SlotGranularity]
        <4>1. start \in Surjection(steps, Grid(want))
          BY DEF Surjection, Grid
        <4>2. IsFiniteSet(steps)
          BY FS_Interval, SlotAssumption, 1 \in Int, SlotSearchHorizon \in Int
        <4>3. IsFiniteSet(Grid(want))
          <5> HIDE DEF steps, start
          <5> QED
            BY <4>1, <4>2, FS_Surjection
        <4> QED
          BY <4>3, FS_Subset DEF FreeStarts, CandidateStarts
      <3>2. Cardinality(slots) <= Cardinality(nearer(s))
        BY <2>3, <3>1, FS_Subset
      <3> QED
        BY <1>1, <1>2, <2>2, <2>4, <3>1, <3>2, FS_CardinalityType DEF Limited
    <2> QED
      BY <2>4
  <1> QED
    BY <1>2, <1>3, <1>4 DEF FirstStarts

(* Every slot the search collects can be booked: it is a later one on the  *)
(* grid, ends inside the horizon, and overlaps no booking of the room, not *)
(* even one the query never loaded.                                        *)
THEOREM CollectedSlotsAreBookable == Spec => []SlotsAreBookable
  <1>1. SearchInv => SlotsAreBookable
    <2> SUFFICES ASSUME SearchInv, NEW s \in slots
                 PROVE  Reachable(s) /\ TrulyFree(s)
      BY DEF SlotsAreBookable
    <2>1. s \in FreeStarts(occupied, want)
      BY DEF SearchInv, Passed
    <2>2. s \in CandidateStarts(want)
      BY <2>1 DEF FreeStarts
    <2>3. TrulyFree(s)
      BY <2>1, <2>2, WindowSuffices DEF FreeStarts
    <2>4. /\ want.start \in Nat /\ SlotGranularity \in Nat \ {0}
          /\ SlotSearchHorizon \in Nat
      BY WantType, SlotAssumption DEF SearchInv, SearchTypeOK
    <2>5. PICK j \in 1 .. SlotSearchHorizon : s = want.start + j * SlotGranularity
      BY <2>2 DEF CandidateStarts, Grid
    <2>6. j \in Nat /\ j >= 1 /\ j <= j * SlotGranularity /\ j * SlotGranularity \in Nat
      BY <2>4, <2>5, GridOrder
    <2>7. s > want.start /\ s - want.start = j * SlotGranularity
      BY <2>4, <2>5, <2>6
    <2>8. (j * SlotGranularity) % SlotGranularity = 0
      BY <2>4, <2>6
    <2> QED
      BY <2>2, <2>3, <2>7, <2>8 DEF Reachable, CandidateStarts, SearchWindow
  <1> QED
    BY <1>1, SearchInvariance, PTL

(* The loop returns exactly the set that Bookings uses in its place: the   *)
(* nearest free slots, up to the limit, and no nearer one left out.        *)
THEOREM SearchIsCorrect == Spec => []LoopIsNearestSlots
  <1>1. SearchInv => LoopIsNearestSlots
    BY ReturnedFirst
       DEF SearchInv, LoopIsNearestSlots, NearestSlots, NearestAvailableSlots
  <1> QED
    BY <1>1, SearchInvariance, PTL

(* Types.                                                                  *)
THEOREM SearchTypeCorrect == Spec => []SearchTypeOK
  <1>1. SearchInv => SearchTypeOK
    BY DEF SearchInv
  <1> QED
    BY <1>1, SearchInvariance, PTL

(* What Reachable and TrulyFree say of a start is what the search looks    *)
(* for.                                                                    *)
LEMMA ReachableIsCandidate ==
    ASSUME SearchInv, NEW s \in Nat, Reachable(s)
    PROVE  s \in CandidateStarts(want)
  <1>1. /\ want.start \in Nat /\ want.end \in Nat /\ want.end > want.start
        /\ SlotGranularity \in Nat \ {0} /\ SlotSearchHorizon \in Nat
    BY WantType, SlotAssumption DEF SearchInv, SearchTypeOK
  <1>2. /\ s > want.start /\ (s - want.start) % SlotGranularity = 0
        /\ Slot(want, s).end <= want.start + SlotSearchHorizon
    BY DEF Reachable
  <1>3. PICK j \in Nat : s - want.start = j * SlotGranularity
    <2> DEFINE d == s - want.start
               g == SlotGranularity
    <2>1. d \in Nat /\ g \in Nat \ {0} /\ d % g = 0
      BY <1>1, <1>2
    <2> HIDE DEF d, g
    <2> DEFINE k == d \div g
    <2>2. k \in Nat /\ d = g * k + (d % g)
      BY <2>1
    <2> HIDE DEF k
    <2>3. g * k = k * g
      BY <2>1, <2>2
    <2>4. d = k * g
      BY <2>1, <2>2, <2>3
    <2> QED
      BY <2>2, <2>4 DEF d, g
  <1>4. /\ j * SlotGranularity \in Nat /\ j <= j * SlotGranularity
        /\ j # 0
    <2>1. j * SlotGranularity \in Nat /\ j <= j * SlotGranularity
      BY <1>1, GridOrder
    <2>2. 0 * SlotGranularity = 0
      BY <1>1
    <2> QED
      BY <1>1, <1>2, <1>3, <2>1, <2>2
  <1>5. s = want.start + j * SlotGranularity
    BY <1>1, <1>3, <1>4
  <1>6. j * SlotGranularity <= SlotSearchHorizon
    BY <1>1, <1>2, <1>4, <1>5 DEF Slot
  <1>7. j \in 1 .. SlotSearchHorizon
    BY <1>1, <1>4, <1>6
  <1> QED
    BY <1>2, <1>5, <1>7 DEF CandidateStarts, Grid, SearchWindow

(* A slot that can be booked and was not collected lies behind all that    *)
(* were, and the limit was reached before it.                              *)
THEOREM NearestComeFirst == Spec => []NothingNearerIsMissed
  <1>1. ASSUME SearchInv, at = "returned",
               NEW s \in want.start .. want.start + SlotSearchHorizon,
               Reachable(s), TrulyFree(s), s \notin slots
        PROVE  Cardinality(slots) = AlternativeLimit /\ \A t \in slots : t < s
    <2>1. /\ want.start \in Nat /\ want.end \in Nat /\ candidate \in Nat
          /\ SlotSearchHorizon \in Nat /\ AlternativeLimit \in Nat /\ s \in Nat
          /\ slots \subseteq Nat
      BY <1>1, WantType, SlotAssumption DEF SearchInv, SearchTypeOK
    <2>2. s \in CandidateStarts(want)
      BY <1>1, <2>1, ReachableIsCandidate
    <2>3. s \in FreeStarts(occupied, want)
      BY <1>1, <2>2, WindowSuffices DEF FreeStarts
    <2>4. s >= candidate
      BY <1>1, <2>1, <2>3 DEF SearchInv, Passed
    <2>5. Fits
      BY <2>1, <2>2, <2>4 DEF CandidateStarts, Fits, Slot, SearchWindow
    <2>6. /\ Cardinality(slots) >= AlternativeLimit
          /\ Cardinality(slots) <= AlternativeLimit /\ Cardinality(slots) \in Nat
      BY <1>1, <2>5, FS_CardinalityType DEF SearchInv, Limited
    <2>7. \A t \in slots : t < candidate
      BY <1>1 DEF SearchInv, Passed
    <2> QED
      BY <2>1, <2>4, <2>6, <2>7
  <1>2. SearchInv => NothingNearerIsMissed
    BY <1>1 DEF NothingNearerIsMissed
  <1> QED
    BY <1>2, SearchInvariance, PTL
=============================================================================
