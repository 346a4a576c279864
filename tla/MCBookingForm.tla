--------------------------- MODULE MCBookingForm ---------------------------
(* Instances of BookingForm for TLC: a day of three or four hours.         *)
EXTENDS BookingForm

CONSTANTS here, there

MCDefaultHours == <<1, 2>>

(* The browser may be a date behind or ahead of the office.                *)
AnySkew == -1 .. 1

(* A preview whose interval lies within a day of either length             *)
MCPreviews == {[room |-> there, start |-> 4, end |-> 5]}

(* Clocks that stay put                                                    *)
Steady == {[change |-> 0, before |-> 0, after |-> 0]}

(* Clocks that skip an hour of the second day, and clocks that repeat one, *)
(* east and west of UTC                                                    *)
Changing == Steady \cup {[change |-> 4, before |-> 0, after |-> 1],
                         [change |-> 4, before |-> 1, after |-> 0],
                         [change |-> 6, before |-> -1, after |-> -2]}
=============================================================================
