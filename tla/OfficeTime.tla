------------------------------ MODULE OfficeTime ------------------------------
(***************************************************************************)
(* Local times of the office.  A local time is the number that its date    *)
(* and its time make when they are read as UTC.  A zone is ahead of UTC by *)
(* "before" until the instant "change", by "after" from then on; an office *)
(* whose clocks stay put has before = after.  One change stands for all:   *)
(* those of a real zone are months apart, and what is computed here looks  *)
(* no further than a day from the time it is given.                        *)
(***************************************************************************)
EXTENDS Integers

CONSTANT DayLength

ASSUME DayAssumption == DayLength \in Nat \ {0}

Zone == [change : Int, before : Int, after : Int]

----------------------------------------------------------------------------
(* The browser: Intl.DateTimeFormat and the functions built on it          *)

Offset(zone, instant) == IF instant < zone.change THEN zone.before ELSE zone.after

Local(zone, instant) == instant + Offset(zone, instant)

DateOf(zone, instant) == Local(zone, instant) \div DayLength
TimeOf(zone, instant) == Local(zone, instant) % DayLength

LocalTime(date, time) == date * DayLength + time

(* One turn of the loop of localDateTimeToIso                              *)
Corrected(zone, intended, candidate) ==
    candidate + (intended - Local(zone, candidate))

(* Mutant: the loop makes one turn.                                        *)
CandidateOnce(zone, intended) == Corrected(zone, intended, intended)

(* The instant the loop ends with, from the local time read as UTC         *)
Candidate(zone, intended) ==
    LET turn(candidate) == Corrected(zone, intended, candidate)
    IN  turn(turn(turn(intended)))

(* The check after it: any other local time "does not exist".              *)
Accepted(zone, intended) == Local(zone, Candidate(zone, intended)) = intended

----------------------------------------------------------------------------
(* The backend: zoneinfo, whose datetimes have fold = 0                    *)

(* Mutant: the offset that is in force at the time read as UTC.            *)
FirstInstantNaive(zone, local) == local - Offset(zone, local)

(* The first of two instants with this local time, and for a local time    *)
(* that is skipped the instant that the offset before the change gives.    *)
FirstInstant(zone, local) ==
    local - IF \/ local < zone.change + zone.before
               \/ local < zone.change + zone.after
              THEN zone.before ELSE zone.after

(* local_day_bounds                                                        *)
DayStart(zone, date) == FirstInstant(zone, LocalTime(date, 0))
DayEnd(zone, date) == FirstInstant(zone, LocalTime(date + 1, 0))

----------------------------------------------------------------------------
(* Another instant has the same local time.                                *)
Repeated(zone, instant) ==
    \E shift \in {zone.before - zone.after, zone.after - zone.before} \ {0} :
      Local(zone, instant + shift) = Local(zone, instant)

(* Some instant has this local time.                                       *)
Exists(zone, local) ==
    \E offset \in {zone.before, zone.after} : Local(zone, local - offset) = local

(* The midnight that begins a date lies inside what a change skips or      *)
(* repeats.                                                                *)
ChangedAcross(zone, date) ==
    LET from == zone.change + zone.before
        to == zone.change + zone.after
        midnight == LocalTime(date, 0)
    IN  \/ from < midnight /\ midnight < to
        \/ to < midnight /\ midnight < from

(* The instants of a date                                                  *)
OnDate(zone, instant, date) ==
    LocalTime(date, 0) <= Local(zone, instant)
      /\ Local(zone, instant) < LocalTime(date + 1, 0)
=============================================================================
