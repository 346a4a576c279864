----------------------------- MODULE BookingForm -----------------------------
(***************************************************************************)
(* The booking form, manual or over an AI preview: its fields, the query   *)
(* for the schedule that tells the office timezone, the effect that puts   *)
(* the office's today into an untouched date, the one booking request in   *)
(* flight and the alternatives of a conflict.  Date and time inputs hold    *)
(* the local time of an instant in the timezone of the office.             *)
(***************************************************************************)
EXTENDS OfficeTime, FiniteSets

CONSTANTS
    FormRooms,
    LastDay,        \* bound: the dates are 0 .. LastDay
    Zones,          \* what the timezone of the office may be
    DefaultHours,   \* <<start_time, end_time>> of an untouched form
    Previews,       \* initialValues of an AI preview, instants
    Skews,          \* by how many dates the browser's today may be off
    MaxLead,        \* how much later an alternative slot may be
    None            \* no preview, no request, no choice

ASSUME FormAssumption ==
    /\ LastDay \in Nat
    /\ Zones \subseteq Zone
    /\ DefaultHours \in (0 .. DayLength - 1) \X (0 .. DayLength - 1)
    /\ Skews \subseteq {-1, 0, 1} /\ MaxLead \in Nat
    /\ FormRooms # {}
    /\ Previews \subseteq [room : FormRooms, start : Int, end : Int]
    /\ \A preview \in Previews, office \in Zones :
         DateOf(office, preview.start) \in 0 .. LastDay
    /\ None \notin [room : FormRooms, start : Int, end : Int]

VARIABLES
    zone,           \* OFFICE_TIMEZONE, which every schedule carries
    values,         \* the fields: room, date, start_time, end_time
    preserveDate,   \* the ref that turns the effect off
    officeToday,    \* todayInTimeZone of the office
    loaded,         \* the (room, date) whose schedule is in the cache
    effectDue,      \* a dependency of the effect changed since it ran
    pending,        \* the booking request in flight
    conflict,       \* the alternatives on display
    chosen          \* history: the alternative applied, until the user edits

formVars == <<zone, values, preserveDate, officeToday, loaded, effectDue, pending,
              conflict, chosen>>

----------------------------------------------------------------------------
Days == 0 .. LastDay
Hours == 0 .. DayLength - 1
Values == [room : FormRooms, date : Days, start_time : Hours, end_time : Hours]

(* Mutant: the end is computed from the start.                             *)
ShownUnwrapped(i) == [room |-> i.room, date |-> DateOf(zone, i.start),
                      start_time |-> TimeOf(zone, i.start),
                      end_time |-> TimeOf(zone, i.start) + i.end - i.start]

(* The fields that show an interval: both times are read against one date. *)
Shown(i) == [room |-> i.room, date |-> DateOf(zone, i.start),
             start_time |-> TimeOf(zone, i.start), end_time |-> TimeOf(zone, i.end)]

StartOf(v) == LocalTime(v.date, v.start_time)
EndOf(v) == LocalTime(v.date, v.end_time)

TimesAccepted(v) == Accepted(zone, StartOf(v)) /\ Accepted(zone, EndOf(v))

(* Mutant: the end is as long after the start as the fields say.           *)
AskedByLength(v) == [room |-> v.room, start |-> Candidate(zone, StartOf(v)),
                     end |-> Candidate(zone, StartOf(v)) + v.end_time - v.start_time]

(* What a submit asks the server for                                       *)
Asked(v) == [room |-> v.room, start |-> Candidate(zone, StartOf(v)),
             end |-> Candidate(zone, EndOf(v))]

(* The refinement of bookingSchema; the other fields are left out.         *)
PassesSchema(v) == v.end_time > v.start_time

ScheduleReady == <<values.room, values.date>> \in loaded

(* The alternatives a conflict may carry: another room at the same time,   *)
(* or the same room later, within the days of this instance.               *)
Alternatives(request) ==
    {[request EXCEPT !.room = room] : room \in FormRooms \ {request.room}}
      \cup {a \in {[request EXCEPT !.start = @ + lead, !.end = @ + lead] :
                      lead \in 1 .. MaxLead} : DateOf(zone, a.start) \in Days}

Init ==
    /\ zone \in Zones
    /\ officeToday \in Days
    /\ \E today \in Days, preview \in Previews \cup {None} :
         /\ today - officeToday \in Skews
         /\ values = IF preview = None
                       THEN [room |-> CHOOSE room \in FormRooms : TRUE,
                             date |-> today,
                             start_time |-> DefaultHours[1],
                             end_time |-> DefaultHours[2]]
                       ELSE Shown(preview)
         /\ preserveDate = (preview # None)
    /\ loaded = {}
    /\ effectDue = TRUE
    /\ pending = None
    /\ conflict = {}
    /\ chosen = None

----------------------------------------------------------------------------
(* The schedule of the room and date on display arrives.                   *)
LoadSchedule ==
    /\ ~ScheduleReady
    /\ loaded' = loaded \cup {<<values.room, values.date>>}
    /\ effectDue' = TRUE
    /\ UNCHANGED <<zone, values, preserveDate, officeToday, pending, conflict, chosen>>

(* Mutant: the effect does not ask whose date it replaces.                 *)
RunEffectAlways ==
    /\ effectDue
    /\ IF ScheduleReady /\ values.date # officeToday
         THEN /\ values' = [values EXCEPT !.date = officeToday]
              /\ effectDue' = TRUE
         ELSE /\ effectDue' = FALSE
              /\ UNCHANGED values
    /\ UNCHANGED <<zone, preserveDate, officeToday, loaded, pending, conflict, chosen>>

(* The effect runs after the render that changed date or schedule.data.    *)
RunEffect ==
    /\ effectDue
    /\ IF ScheduleReady /\ ~preserveDate /\ values.date # officeToday
         THEN /\ values' = [values EXCEPT !.date = officeToday]
              /\ effectDue' = TRUE
         ELSE /\ effectDue' = FALSE
              /\ UNCHANGED values
    /\ UNCHANGED <<zone, preserveDate, officeToday, loaded, pending, conflict, chosen>>

(* The user edits a field; the alternatives on display stay.               *)
EditRoom(room) ==
    /\ room # values.room
    /\ values' = [values EXCEPT !.room = room]
    /\ effectDue' = TRUE
    /\ chosen' = None
    /\ UNCHANGED <<zone, preserveDate, officeToday, loaded, pending, conflict>>

EditDate(date) ==
    /\ date # values.date
    /\ values' = [values EXCEPT !.date = date]
    /\ preserveDate' = TRUE
    /\ effectDue' = TRUE
    /\ chosen' = None
    /\ UNCHANGED <<zone, officeToday, loaded, pending, conflict>>

EditTimes(start, end) ==
    /\ values' = [values EXCEPT !.start_time = start, !.end_time = end]
    /\ values' # values
    /\ chosen' = None
    /\ UNCHANGED <<zone, preserveDate, officeToday, loaded, effectDue, pending, conflict>>

(* The button is disabled while a booking is pending or without a          *)
(* schedule, and the schema runs before the handler.                       *)
Submit ==
    /\ pending = None /\ ScheduleReady
    /\ PassesSchema(values) /\ TimesAccepted(values)
    /\ pending' = Asked(values)
    /\ conflict' = {}
    /\ UNCHANGED <<zone, values, preserveDate, officeToday, loaded, effectDue, chosen>>

(* A local time that localDateTimeToIso refuses: an error, and no request. *)
SubmitRefused ==
    /\ pending = None /\ ScheduleReady
    /\ PassesSchema(values) /\ ~TimesAccepted(values)
    /\ conflict' = {}
    /\ UNCHANGED <<zone, values, preserveDate, officeToday, loaded, effectDue, pending,
                   chosen>>

(* 201; the schedules are invalidated and load again.                      *)
Confirmed ==
    /\ pending # None
    /\ pending' = None
    /\ conflict' = {}
    /\ effectDue' = TRUE
    /\ UNCHANGED <<zone, values, preserveDate, officeToday, loaded, chosen>>

Conflicted ==
    /\ pending # None
    /\ pending' = None
    /\ \E a \in Alternatives(pending) : conflict' = {a}
    /\ UNCHANGED <<zone, values, preserveDate, officeToday, loaded, effectDue, chosen>>

(* Any other error, and a conflict that carries no alternative.            *)
Failed ==
    /\ pending # None
    /\ pending' = None
    /\ conflict' = {}
    /\ UNCHANGED <<zone, values, preserveDate, officeToday, loaded, effectDue, chosen>>

(* Mutant: the room of the alternative is not taken over.                  *)
ApplyAlternativeTime(a) ==
    /\ a \in conflict /\ ScheduleReady
    /\ values' = [Shown(a) EXCEPT !.room = values.room]
    /\ conflict' = {}
    /\ effectDue' = TRUE
    /\ chosen' = a
    /\ UNCHANGED <<zone, preserveDate, officeToday, loaded, pending>>

(* A click on an alternative.                                              *)
ApplyAlternative(a) ==
    /\ a \in conflict /\ ScheduleReady
    /\ values' = Shown(a)
    /\ conflict' = {}
    /\ effectDue' = TRUE
    /\ chosen' = a
    /\ UNCHANGED <<zone, preserveDate, officeToday, loaded, pending>>

(* Midnight in the office.                                                 *)
NextDay ==
    /\ officeToday + 1 \in Days
    /\ officeToday' = officeToday + 1
    /\ UNCHANGED <<zone, values, preserveDate, loaded, effectDue, pending, conflict,
                   chosen>>

User ==
    \/ \E room \in FormRooms : EditRoom(room)
    \/ \E date \in Days : EditDate(date)
    \/ \E start, end \in Hours : EditTimes(start, end)
    \/ Submit \/ SubmitRefused
    \/ \E a \in conflict : ApplyAlternative(a)

Next ==
    \/ LoadSchedule
    \/ RunEffect
    \/ User
    \/ Confirmed \/ Conflicted \/ Failed
    \/ NextDay

Spec == Init /\ [][Next]_formVars

----------------------------------------------------------------------------
Interval == [room : FormRooms, start : Int, end : Int]

(* Types: every input shows a date and times it can hold.                  *)
FormTypeOK ==
    /\ zone \in Zones
    /\ values \in Values
    /\ preserveDate \in BOOLEAN /\ effectDue \in BOOLEAN
    /\ officeToday \in Days
    /\ loaded \subseteq FormRooms \X Days
    /\ pending \in Interval \cup {None}
    /\ conflict \subseteq Interval
    /\ chosen \in Interval \cup {None}

(* Once the user has dated the form, an alternative that was applied is    *)
(* what the form goes on showing: room, date and times, whatever loads or  *)
(* answers in between.                                                     *)
ChoiceStays == chosen # None /\ preserveDate => values = Shown(chosen)

(* A date that the user entered, or an AI preview brought, is changed by   *)
(* the user alone.                                                         *)
DateIsKept ==
    preserveDate /\ values'.date # values.date => \/ \E date \in Days : EditDate(date)
                                                  \/ \E a \in conflict : ApplyAlternative(a)

UserDatesStay == [][DateIsKept]_formVars

(* A request asks for the date and the times that the form shows, and for  *)
(* an interval that ends after it starts; over an alternative that was not *)
(* edited it asks for that very interval, unless its local times occur     *)
(* twice or are those of two dates (then a date and two times cannot say   *)
(* which it is); and it leaves no alternative of the attempt before to be  *)
(* put over what was sent.                                                 *)
OneDate(i) == DateOf(zone, i.end) = DateOf(zone, i.start)

AsksAsShown ==
    pending = None /\ pending' # None =>
      /\ Shown(pending') = values
      /\ pending'.start < pending'.end
      /\ conflict' = {}
      /\ \/ chosen = None \/ values # Shown(chosen) \/ ~OneDate(chosen)
         \/ Repeated(zone, chosen.start) \/ Repeated(zone, chosen.end)
         \/ pending' = chosen

RequestsAreAsShown == [][AsksAsShown]_formVars

(* "That local time does not exist" (lib/time.ts:52) is said of no time    *)
(* that the clocks of the office show.                                     *)
ExistingTimesAreTaken ==
    \A local \in {StartOf(values), EndOf(values)} :
      Exists(zone, local) => Accepted(zone, local)

(* "Conflict alternatives update that form and require another explicit    *)
(* submit" (docs/DECISIONS.md:88): an alternative on a later day is what   *)
(* the form goes on showing, also when its date was never touched.         *)
AlternativeIsKept ==
    chosen # None /\ DateOf(zone, chosen.start) > officeToday => values = Shown(chosen)

(* "Choose an alternative, then submit again"                              *)
(* (ConflictAlternatives.tsx:22): the form takes what it was filled with.  *)
AlternativeCanBeSubmitted ==
    chosen # None /\ values = Shown(chosen) => PassesSchema(values)
=============================================================================
