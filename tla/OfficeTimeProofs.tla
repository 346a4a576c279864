--------------------------- MODULE OfficeTimeProofs ---------------------------
(***************************************************************************)
(* What the conversions between local times and instants promise, for      *)
(* every zone that changes its clocks once and every length of a day.      *)
(***************************************************************************)
EXTENDS OfficeTime, TLAPS

(* A corrected candidate is the local time read at one of two offsets.     *)
LEMMA CorrectedIs ==
  ASSUME NEW zone \in Zone, NEW local \in Int, NEW candidate \in Int
  PROVE  Corrected(zone, local, candidate) = local - Offset(zone, candidate)
  BY DEF Corrected, Local, Offset, Zone

(* Once the clocks of a candidate agree with its offset it stays.          *)
LEMMA CorrectStays ==
  ASSUME NEW zone \in Zone, NEW local \in Int, NEW candidate \in Int,
         Local(zone, candidate) = local
  PROVE  Corrected(zone, local, candidate) = candidate
  BY DEF Corrected, Local, Offset, Zone

(* Of a local time that exists, the second turn is the last one needed.    *)
LEMMA TwoTurns ==
  ASSUME NEW zone \in Zone, NEW local \in Int, Exists(zone, local)
  PROVE  LET once == Corrected(zone, local, local)
             twice == Corrected(zone, local, once)
         IN  Local(zone, twice) = local
  BY SMTT(30) DEF Corrected, Local, Offset, Zone, Exists

LEMMA CandidateIs ==
  ASSUME NEW zone \in Zone, NEW local \in Int
  PROVE  Candidate(zone, local) =
           Corrected(zone, local, Corrected(zone, local, Corrected(zone, local, local)))
  BY DEF Candidate

LEMMA CandidateInt ==
  ASSUME NEW zone \in Zone, NEW local \in Int
  PROVE  Candidate(zone, local) \in Int
  BY CandidateIs DEF Corrected, Local, Offset, Zone

(* localDateTimeToIso accepts a local time exactly when some instant has   *)
(* it: "That local time does not exist" is never said of one that does,    *)
(* and no other time is turned into an instant.                            *)
THEOREM AcceptedWhenItExists ==
  ASSUME NEW zone \in Zone, NEW local \in Int
  PROVE  Accepted(zone, local) <=> Exists(zone, local)
<1> DEFINE once == Corrected(zone, local, local)
           twice == Corrected(zone, local, once)
<1>1. once \in Int /\ twice \in Int
  BY DEF Corrected, Local, Offset, Zone
<1>2. ASSUME Exists(zone, local) PROVE Accepted(zone, local)
  <2>1. Local(zone, twice) = local
    BY <1>2, TwoTurns
  <2>2. Candidate(zone, local) = twice
    BY <1>1, <2>1, CorrectStays, CandidateIs
  <2> QED
    BY <2>1, <2>2 DEF Accepted
<1>3. ASSUME Accepted(zone, local) PROVE Exists(zone, local)
  <2>1. Local(zone, Candidate(zone, local)) = local
    BY <1>3 DEF Accepted
  <2> QED
    BY <2>1, CandidateInt DEF Exists, Local, Offset, Zone
<1> QED
  BY <1>2, <1>3

(* The instant an accepted local time becomes shows that local time.       *)
LEMMA CandidateShows ==
  ASSUME NEW zone \in Zone, NEW local \in Int, Exists(zone, local)
  PROVE  Local(zone, Candidate(zone, local)) = local
  BY AcceptedWhenItExists DEF Accepted

LEMMA InstantsExist ==
  ASSUME NEW zone \in Zone, NEW instant \in Int
  PROVE  Local(zone, instant) \in Int /\ Exists(zone, Local(zone, instant))
  BY DEF Exists, Local, Offset, Zone

(* An instant whose local time no other instant has comes back as itself   *)
(* from its local time.                                                    *)
THEOREM UnrepeatedComesBack ==
  ASSUME NEW zone \in Zone, NEW instant \in Int, ~Repeated(zone, instant)
  PROVE  Candidate(zone, Local(zone, instant)) = instant
<1> DEFINE local == Local(zone, instant)
           back == Candidate(zone, local)
<1>1. local \in Int /\ back \in Int /\ Local(zone, back) = local
  BY InstantsExist, CandidateInt, CandidateShows
<1>2. back - instant \in {0, zone.before - zone.after, zone.after - zone.before}
  BY <1>1 DEF Local, Offset, Zone
<1>3. instant + (back - instant) = back
  BY <1>1
<1> QED
  BY <1>1, <1>2, <1>3 DEF Repeated

(* Later local times become later instants: a form whose end time is after *)
(* its start time asks for an interval that ends after it starts, also     *)
(* across a change of the clocks.                                          *)
THEOREM OrderIsKept ==
  ASSUME NEW zone \in Zone, NEW start \in Int, NEW end \in Int, start < end,
         Accepted(zone, start), Accepted(zone, end)
  PROVE  Candidate(zone, start) < Candidate(zone, end)
<1> DEFINE second(local) ==
             Corrected(zone, local, Corrected(zone, local, local))
<1>1. ASSUME NEW local \in Int, Exists(zone, local)
      PROVE  /\ Candidate(zone, local) = second(local)
             /\ Local(zone, second(local)) = local
             /\ second(local) \in Int
  <2>1. Corrected(zone, local, local) \in Int /\ second(local) \in Int
    BY DEF Corrected, Local, Offset, Zone
  <2>2. Local(zone, second(local)) = local
    BY <1>1, TwoTurns
  <2> QED
    BY <2>1, <2>2, CorrectStays, CandidateIs
<1>2. Exists(zone, start) /\ Exists(zone, end)
  BY AcceptedWhenItExists
<1>3. second(start) < second(end)
  <2>1. /\ Local(zone, second(start)) = start
        /\ Local(zone, second(end)) = end
    BY <1>1, <1>2
  <2> QED
    BY <2>1, SMTT(60) DEF Corrected, Local, Offset, Zone
<1> QED
  BY <1>1, <1>2, <1>3

(* When no change of the clocks crosses a midnight of a date, what lies    *)
(* between the bounds of the date is exactly what the clocks show as it:   *)
(* schedules of consecutive dates miss nothing and show nothing twice.     *)
THEOREM DayBoundsAreExact ==
  ASSUME NEW zone \in Zone, NEW date \in Int, NEW instant \in Int,
         ~ChangedAcross(zone, date), ~ChangedAcross(zone, date + 1)
  PROVE  (DayStart(zone, date) <= instant /\ instant < DayEnd(zone, date))
           <=> OnDate(zone, instant, date)
<1>1. PICK first \in Int, last \in Int :
        /\ first = LocalTime(date, 0)
        /\ last = LocalTime(date + 1, 0)
        /\ first < last
  <2>1. LocalTime(date + 1, 0) = LocalTime(date, 0) + DayLength
    BY DayAssumption DEF LocalTime
  <2> QED
    BY <2>1, DayAssumption DEF LocalTime
<1>2. /\ DayStart(zone, date) = FirstInstant(zone, first)
      /\ DayEnd(zone, date) = FirstInstant(zone, last)
  BY <1>1 DEF DayStart, DayEnd
<1>3. ASSUME NEW midnight \in {first, last}
      PROVE  instant < FirstInstant(zone, midnight)
               <=> Local(zone, instant) < midnight
  <2>1. midnight \in Int
    BY <1>1
  <2>2. /\ ~(zone.change + zone.before < midnight /\ midnight < zone.change + zone.after)
        /\ ~(zone.change + zone.after < midnight /\ midnight < zone.change + zone.before)
    BY <1>1 DEF ChangedAcross
  <2> QED
    BY <2>1, <2>2 DEF FirstInstant, Local, Offset, Zone
<1>4. /\ FirstInstant(zone, first) \in Int /\ FirstInstant(zone, last) \in Int
      /\ Local(zone, instant) \in Int
  BY <1>1 DEF FirstInstant, Local, Offset, Zone
<1> QED
  BY <1>1, <1>2, <1>3, <1>4 DEF OnDate

----------------------------------------------------------------------------
(* Dates, times and the local times they make                              *)

LEMMA Division ==
  ASSUME NEW local \in Int
  PROVE  /\ local \div DayLength \in Int /\ local % DayLength \in 0 .. DayLength - 1
         /\ local = LocalTime(local \div DayLength, local % DayLength)
<1>1. local % DayLength \in 0 .. DayLength - 1
  BY DayAssumption
<1>2. local \div DayLength \in Int /\ local = DayLength * (local \div DayLength) + (local % DayLength)
  BY DayAssumption
<1> QED
  BY <1>1, <1>2, DayAssumption DEF LocalTime

LEMMA LocalTimeDivided ==
  ASSUME NEW date \in Int, NEW time \in 0 .. DayLength - 1
  PROVE  /\ LocalTime(date, time) \in Int
         /\ LocalTime(date, time) \div DayLength = date
         /\ LocalTime(date, time) % DayLength = time
<1>2. LocalTime(date, time) = date * DayLength + time
  BY DEF LocalTime
<1>3. (date * DayLength + time) \div DayLength = date
  BY DayAssumption
<1>4. date * DayLength + time \in Int
  BY DayAssumption
<1>5. (date * DayLength + time) % DayLength = time
  BY <1>3, <1>4, DayAssumption
<1> QED
  BY <1>2, <1>3, <1>4, <1>5

(* The date and the time that the clocks show make up their local time.    *)
LEMMA ClocksAre ==
  ASSUME NEW office \in Zone, NEW instant \in Int
  PROVE  /\ DateOf(office, instant) \in Int /\ TimeOf(office, instant) \in 0 .. DayLength - 1
         /\ Local(office, instant)
              = LocalTime(DateOf(office, instant), TimeOf(office, instant))
  BY InstantsExist, Division DEF DateOf, TimeOf

(* The clocks show a date between its midnights.                           *)
LEMMA DateIsOnDate ==
  ASSUME NEW office \in Zone, NEW instant \in Int, NEW date \in Int
  PROVE  DateOf(office, instant) = date <=> OnDate(office, instant, date)
<1>1. PICK local \in Int, shown \in Int, time \in 0 .. DayLength - 1 :
        /\ local = Local(office, instant) /\ shown = DateOf(office, instant)
        /\ local = shown * DayLength + time
  BY ClocksAre DEF LocalTime, Local, Offset, Zone
<1>2. OnDate(office, instant, date)
        <=> date * DayLength <= local /\ local < (date + 1) * DayLength
  <2>1. date * DayLength \in Int /\ (date + 1) * DayLength \in Int
    BY DayAssumption
  <2> QED
    BY <1>1, <2>1 DEF OnDate, LocalTime
<1>3. CASE shown = date
  BY <1>1, <1>2, <1>3, DayAssumption
<1>4. CASE shown < date
  <2>1. (shown + 1) * DayLength <= date * DayLength
    BY <1>4, DayAssumption
  <2> QED
    BY <1>1, <1>2, <1>4, <2>1, DayAssumption
<1>5. CASE shown > date
  <2>1. (date + 1) * DayLength <= shown * DayLength
    BY <1>5, DayAssumption
  <2> QED
    BY <1>1, <1>2, <1>5, <2>1, DayAssumption
<1> QED
  BY <1>1, <1>3, <1>4, <1>5
=============================================================================
