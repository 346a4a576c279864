-------------------------- MODULE BookingFormProofs --------------------------
(***************************************************************************)
(* What the booking form promises for any rooms, previews, zones and       *)
(* length of the day.                                                      *)
(***************************************************************************)
EXTENDS BookingForm, OfficeTimeProofs

----------------------------------------------------------------------------
(* The fields that show an interval are fields the form can hold.          *)
LEMMA ShownIsValues ==
  ASSUME NEW i \in Interval, zone \in Zone, DateOf(zone, i.start) \in Days
  PROVE  Shown(i) \in Values
  BY ClocksAre DEF Shown, Values, Interval, Hours

(* What is asked for with accepted times shows as those fields.            *)
LEMMA AskedShows ==
  ASSUME NEW v \in Values, zone \in Zone, TimesAccepted(v)
  PROVE  Asked(v) \in Interval /\ Shown(Asked(v)) = v
<1> DEFINE start == Candidate(zone, StartOf(v))
           end == Candidate(zone, EndOf(v))
<1>1. v.date \in Int /\ v.start_time \in Hours /\ v.end_time \in Hours /\ v.room \in FormRooms
  BY DEF Values, Days
<1>2. /\ StartOf(v) \in Int /\ EndOf(v) \in Int
      /\ StartOf(v) \div DayLength = v.date
      /\ StartOf(v) % DayLength = v.start_time /\ EndOf(v) % DayLength = v.end_time
  BY <1>1, LocalTimeDivided DEF StartOf, EndOf, Hours
<1>3. start \in Int /\ end \in Int
  BY <1>2, CandidateInt
<1>4. Local(zone, start) = StartOf(v) /\ Local(zone, end) = EndOf(v)
  BY DEF TimesAccepted, Accepted
<1>5. /\ DateOf(zone, start) = v.date /\ TimeOf(zone, start) = v.start_time
      /\ TimeOf(zone, end) = v.end_time
  BY <1>2, <1>4 DEF DateOf, TimeOf
<1>6. Asked(v) = [room |-> v.room, start |-> start, end |-> end]
  BY DEF Asked
<1>7. v = [room |-> v.room, date |-> v.date, start_time |-> v.start_time,
           end_time |-> v.end_time]
  BY DEF Values
<1> QED
  BY <1>1, <1>3, <1>5, <1>6, <1>7 DEF Shown, Interval

(* An interval of one date whose local times occur once is asked for again *)
(* by the fields that show it.                                             *)
LEMMA ShownIsAsked ==
  ASSUME NEW i \in Interval, zone \in Zone, OneDate(i),
         ~Repeated(zone, i.start), ~Repeated(zone, i.end)
  PROVE  Asked(Shown(i)) = i
<1>1. i.start \in Int /\ i.end \in Int
  BY DEF Interval
<1>2. StartOf(Shown(i)) = Local(zone, i.start)
  BY <1>1, ClocksAre DEF StartOf, Shown
<1>3. EndOf(Shown(i)) = Local(zone, i.end)
  BY <1>1, ClocksAre DEF EndOf, Shown, OneDate
<1>4. /\ Candidate(zone, StartOf(Shown(i))) = i.start
      /\ Candidate(zone, EndOf(Shown(i))) = i.end
  BY <1>1, <1>2, <1>3, UnrepeatedComesBack
<1>5. i = [room |-> i.room, start |-> i.start, end |-> i.end]
  BY DEF Interval
<1> QED
  BY <1>4, <1>5 DEF Asked, Shown

----------------------------------------------------------------------------
(* The inductive invariant: the fields can only be typed right if what may *)
(* be put into them is, so the dates of the request in flight and of the   *)
(* alternatives belong to it.                                              *)
OnSomeDay(i) == DateOf(zone, i.start) \in Days

FormInv ==
    /\ FormTypeOK
    /\ \A i \in conflict : OnSomeDay(i)
    /\ pending # None => OnSomeDay(pending)

LEMMA NoneIsNoInterval == None \notin Interval
  BY FormAssumption DEF Interval

LEMMA InitInv == Init => FormInv
<1> SUFFICES ASSUME Init PROVE FormInv
  OBVIOUS
<1>1. zone \in Zones /\ zone \in Zone
  BY FormAssumption DEF Init
<1>2. values \in Values
  <2>1. PICK today \in Days, preview \in Previews \cup {None} :
          values = IF preview = None
                     THEN [room |-> CHOOSE room \in FormRooms : TRUE, date |-> today,
                           start_time |-> DefaultHours[1], end_time |-> DefaultHours[2]]
                     ELSE Shown(preview)
    BY DEF Init
  <2>2. CASE preview = None
    <3>1. (CHOOSE room \in FormRooms : TRUE) \in FormRooms
      BY FormAssumption
    <3>2. DefaultHours[1] \in Hours /\ DefaultHours[2] \in Hours
      BY FormAssumption DEF Hours
    <3> QED
      BY <2>1, <2>2, <3>1, <3>2 DEF Values
  <2>3. CASE preview # None
    <3>1. preview \in Interval /\ DateOf(zone, preview.start) \in Days
      BY <1>1, <2>3, FormAssumption DEF Interval, Days
    <3> QED
      BY <1>1, <2>1, <2>3, <3>1, ShownIsValues
  <2> QED
    BY <2>2, <2>3
<1>3. preserveDate \in BOOLEAN
  BY DEF Init
<1> QED
  BY <1>1, <1>2, <1>3 DEF Init, FormInv, FormTypeOK

(* The alternatives of a request are intervals of this instance.           *)
LEMMA AlternativesFit ==
  ASSUME FormInv, pending # None, NEW a \in Alternatives(pending)
  PROVE  a \in Interval /\ OnSomeDay(a)
<1>1. pending \in Interval /\ OnSomeDay(pending)
  BY DEF FormInv, FormTypeOK
<1>2. CASE \E room \in FormRooms : a = [pending EXCEPT !.room = room]
  BY <1>1, <1>2 DEF Interval, OnSomeDay
<1>3. CASE \E lead \in 1 .. MaxLead :
             /\ a = [pending EXCEPT !.start = @ + lead, !.end = @ + lead]
             /\ DateOf(zone, a.start) \in Days
  <2>1. PICK lead \in 1 .. MaxLead :
          /\ a = [pending EXCEPT !.start = pending.start + lead, !.end = pending.end + lead]
          /\ DateOf(zone, a.start) \in Days
    BY <1>3
  <2>2. lead \in Int
    BY FormAssumption
  <2>3. a = [room |-> pending.room, start |-> pending.start + lead,
             end |-> pending.end + lead]
    BY <1>1, <2>1 DEF Interval
  <2>4. /\ pending.room \in FormRooms
        /\ pending.start + lead \in Int /\ pending.end + lead \in Int
    BY <1>1, <2>2 DEF Interval
  <2> QED
    BY <2>1, <2>3, <2>4 DEF Interval, OnSomeDay
<1> QED
  BY <1>2, <1>3 DEF Alternatives

LEMMA StepInv == FormInv /\ [Next]_formVars => FormInv'
<1> SUFFICES ASSUME FormInv, [Next]_formVars PROVE FormInv'
  OBVIOUS
<1> USE DEF FormInv, FormTypeOK
<1>0. zone \in Zone
  BY FormAssumption
<1>1. CASE LoadSchedule
  BY <1>1 DEF LoadSchedule, OnSomeDay, Values
<1>2. CASE RunEffect
  BY <1>2 DEF RunEffect, OnSomeDay, Values
<1>3. ASSUME NEW room \in FormRooms, EditRoom(room) PROVE FormInv'
  BY <1>3 DEF EditRoom, OnSomeDay, Values
<1>4. ASSUME NEW date \in Days, EditDate(date) PROVE FormInv'
  BY <1>4 DEF EditDate, OnSomeDay, Values
<1>5. ASSUME NEW start \in Hours, NEW end \in Hours, EditTimes(start, end)
      PROVE  FormInv'
  BY <1>5 DEF EditTimes, OnSomeDay, Values
<1>6. CASE Submit
  <2>1. Asked(values) \in Interval /\ Shown(Asked(values)) = values
    BY <1>0, <1>6, AskedShows DEF Submit
  <2>2. OnSomeDay(Asked(values))
    BY <2>1 DEF Shown, Values, OnSomeDay
  <2> QED
    BY <1>6, <2>1, <2>2 DEF Submit, OnSomeDay
<1>7. CASE SubmitRefused
  BY <1>7 DEF SubmitRefused, OnSomeDay
<1>8. CASE Confirmed
  BY <1>8 DEF Confirmed, OnSomeDay
<1>9. CASE Conflicted
  BY <1>9, AlternativesFit DEF Conflicted, OnSomeDay
<1>10. CASE Failed
  BY <1>10 DEF Failed, OnSomeDay
<1>11. ASSUME NEW a \in conflict, ApplyAlternative(a) PROVE FormInv'
  <2>1. Shown(a) \in Values /\ a \in Interval
    BY <1>0, ShownIsValues DEF OnSomeDay
  <2> QED
    BY <1>11, <2>1 DEF ApplyAlternative, OnSomeDay
<1>12. CASE NextDay
  BY <1>12 DEF NextDay, OnSomeDay
<1>13. CASE UNCHANGED formVars
  BY <1>13 DEF formVars, OnSomeDay
<1> QED
  BY <1>1, <1>2, <1>3, <1>4, <1>5, <1>6, <1>7, <1>8, <1>9, <1>10, <1>11, <1>12, <1>13
     DEF Next, User

LEMMA FormInvHolds == Spec => []FormInv
  BY InitInv, StepInv, PTL DEF Spec

(* The state of the form is well typed: every input shows a date and times *)
(* it can hold, wherever its interval came from (BookingForm.tsx:137).     *)
THEOREM FormTypeCorrect == Spec => []FormTypeOK
<1>1. FormInv => FormTypeOK
  BY DEF FormInv
<1> QED
  BY <1>1, FormInvHolds, PTL

----------------------------------------------------------------------------
(* "That local time does not exist" (lib/time.ts:52) is never said of a    *)
(* start or an end that the clocks of the office show.                     *)
THEOREM ExistingTimesAlwaysTaken == Spec => []ExistingTimesAreTaken
<1>1. FormInv => ExistingTimesAreTaken
  <2> SUFFICES ASSUME FormInv PROVE ExistingTimesAreTaken
    OBVIOUS
  <2>1. zone \in Zone
    BY FormAssumption DEF FormInv, FormTypeOK
  <2>2. values.date \in Int /\ values.start_time \in Hours /\ values.end_time \in Hours
    BY DEF FormInv, FormTypeOK, Values, Days
  <2>3. StartOf(values) \in Int /\ EndOf(values) \in Int
    BY <2>2, LocalTimeDivided DEF StartOf, EndOf, Hours
  <2> QED
    BY <2>1, <2>3, AcceptedWhenItExists DEF ExistingTimesAreTaken
<1> QED
  BY <1>1, FormInvHolds, PTL

(* Once the user has dated the form, it goes on showing the alternative    *)
(* that was applied (BookingForm.tsx:84-90, 135-145).                      *)
THEOREM ChoicesStay == Spec => []ChoiceStays
<1>1. Init => ChoiceStays
  BY DEF Init, ChoiceStays
<1>2. FormInv /\ ChoiceStays /\ [Next]_formVars => ChoiceStays'
  <2> SUFFICES ASSUME FormInv, ChoiceStays, [Next]_formVars PROVE ChoiceStays'
    OBVIOUS
  <2> USE DEF ChoiceStays, Shown
  <2>1. CASE LoadSchedule \/ NextDay \/ Confirmed \/ Conflicted \/ Failed
    BY <2>1 DEF LoadSchedule, NextDay, Confirmed, Conflicted, Failed
  <2>2. CASE RunEffect
    BY <2>2 DEF RunEffect
  <2>3. CASE Submit \/ SubmitRefused
    BY <2>3 DEF Submit, SubmitRefused
  <2>4. CASE \/ \E room \in FormRooms : EditRoom(room)
             \/ \E date \in Days : EditDate(date)
             \/ \E start, end \in Hours : EditTimes(start, end)
    BY <2>4 DEF EditRoom, EditDate, EditTimes
  <2>5. ASSUME NEW a \in conflict, ApplyAlternative(a) PROVE ChoiceStays'
    BY <2>5 DEF ApplyAlternative
  <2>6. CASE UNCHANGED formVars
    BY <2>6 DEF formVars
  <2> QED
    BY <2>1, <2>2, <2>3, <2>4, <2>5, <2>6 DEF Next, User
<1> QED
  BY <1>1, <1>2, FormInvHolds, PTL DEF Spec

(* A date that the user entered, or that a preview brought, is replaced by *)
(* the user alone, never by the effect (BookingForm.tsx:85).               *)
THEOREM DatesStay == Spec => UserDatesStay
<1>1. FormInv /\ [Next]_formVars => [DateIsKept]_formVars
  <2> SUFFICES ASSUME FormInv, Next, preserveDate, values'.date # values.date
               PROVE  \/ \E date \in Days : EditDate(date)
                      \/ \E a \in conflict : ApplyAlternative(a)
    BY DEF DateIsKept
  <2>1. values' # values
    OBVIOUS
  <2>2. ~LoadSchedule /\ ~NextDay /\ ~Confirmed /\ ~Conflicted /\ ~Failed
    BY <2>1 DEF LoadSchedule, NextDay, Confirmed, Conflicted, Failed
  <2>3. ~RunEffect /\ ~Submit /\ ~SubmitRefused
    BY <2>1 DEF RunEffect, Submit, SubmitRefused
  <2>4. values \in Values
    BY DEF FormInv, FormTypeOK
  <2>5. ASSUME NEW room \in FormRooms PROVE ~EditRoom(room)
    BY <2>4 DEF EditRoom, Values
  <2>6. ASSUME NEW start \in Hours, NEW end \in Hours PROVE ~EditTimes(start, end)
    BY <2>4 DEF EditTimes, Values
  <2> QED
    BY <2>2, <2>3, <2>5, <2>6 DEF Next, User
<1> QED
  BY <1>1, FormInvHolds, PTL DEF Spec, UserDatesStay

(* What is sent is what the form shows, an interval that ends after it     *)
(* starts, and over an unedited alternative that very interval, also when  *)
(* the clocks of the office change (BookingForm.tsx:112-133, time.ts:25).  *)
THEOREM RequestsAsShown == Spec => RequestsAreAsShown
<1>1. FormInv /\ [Next]_formVars => [AsksAsShown]_formVars
  <2> SUFFICES ASSUME FormInv, Next, pending = None, pending' # None
               PROVE  /\ Shown(pending') = values
                      /\ pending'.start < pending'.end
                      /\ conflict' = {}
                      /\ \/ chosen = None \/ values # Shown(chosen) \/ ~OneDate(chosen)
                         \/ Repeated(zone, chosen.start) \/ Repeated(zone, chosen.end)
                         \/ pending' = chosen
    BY DEF AsksAsShown
  <2>1. Submit
    BY DEF Next, User, LoadSchedule, RunEffect, EditRoom, EditDate, EditTimes,
           SubmitRefused, Confirmed, Conflicted, Failed, ApplyAlternative, NextDay
  <2>2. zone \in Zone /\ values \in Values
    BY FormAssumption DEF FormInv, FormTypeOK
  <2>3. pending' = Asked(values) /\ TimesAccepted(values) /\ PassesSchema(values)
    BY <2>1 DEF Submit
  <2>4. Shown(Asked(values)) = values
    BY <2>2, <2>3, AskedShows
  <2>5. Asked(values).start < Asked(values).end
    <3>1. values.date \in Int /\ values.start_time \in Hours /\ values.end_time \in Hours
      BY <2>2 DEF Values, Days
    <3>2. StartOf(values) \in Int /\ EndOf(values) \in Int /\ StartOf(values) < EndOf(values)
      BY <2>3, <3>1, DayAssumption DEF StartOf, EndOf, LocalTime, Hours, PassesSchema
    <3> QED
      BY <2>2, <2>3, <3>2, OrderIsKept DEF TimesAccepted, Asked
  <2>6. chosen # None => chosen \in Interval
    BY DEF FormInv, FormTypeOK
  <2> QED
    BY <2>1, <2>2, <2>3, <2>4, <2>5, <2>6, ShownIsAsked DEF Submit
<1> QED
  BY <1>1, FormInvHolds, PTL DEF Spec, RequestsAreAsShown
=============================================================================
