------------------------------ MODULE MCScreens ------------------------------
(* Instances of Screens for TLC: days of three hours.                      *)
EXTENDS Screens

CONSTANT call

(* The call takes the first hour of the second day.                        *)
MCInterval == [b \in Bookings |-> [start |-> 1, end |-> 2]]

(* An hour of that day is repeated, or the first that its clocks would     *)
(* show is skipped.                                                        *)
MCZones == {[change |-> 3, before |-> 2, after |-> 1],
            [change |-> 1, before |-> 2, after |-> 3]}
=============================================================================
