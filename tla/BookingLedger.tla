---------------------------- MODULE BookingLedger ----------------------------
(***************************************************************************)
(* What the booking service promises its clients, with no transactions,    *)
(* statements or locks: a ledger of bookings in which every request takes  *)
(* effect at one instant, or not at all.                                   *)
(***************************************************************************)
EXTENDS Availability

CONSTANTS Users, Requests, Calls, NoBooking

VARIABLES call,     \* what each request asks
          ledger,   \* the bookings
          verdict   \* what became of each request

vars == <<call, ledger, verdict>>

Verdicts == {"pending", "applied", "conflict", "stale", "closed"}

Init ==
    /\ call \in [Requests -> Calls]
    /\ ledger = [r \in Requests |-> NoBooking]
    /\ verdict = [r \in Requests |-> "pending"]

Rule(r, v) == verdict' = [verdict EXCEPT ![r] = v]

Free(r) ==
    \A b \in Requests : ledger[b] # NoBooking =>
        ~Clashes(ledger[b], call[r].room, call[r])

(* A booking enters the ledger only where it clashes with none.            *)
Book(r) ==
    /\ call[r].kind = "create" /\ verdict[r] = "pending"
    /\ Free(r)
    /\ ledger' = [ledger EXCEPT ![r] =
         [id |-> r, room |-> call[r].room, user |-> call[r].user,
          start |-> call[r].start, end |-> call[r].end,
          count |-> call[r].count, status |-> "confirmed"]]
    /\ Rule(r, "applied")
    /\ UNCHANGED call

(* A conflict is ruled only while a clashing booking is in the ledger.     *)
Conflict(r) ==
    /\ call[r].kind = "create" /\ verdict[r] = "pending"
    /\ ~Free(r)
    /\ Rule(r, "conflict")
    /\ UNCHANGED <<call, ledger>>

(* The owner cancels a confirmed booking; nothing else of it changes.      *)
Cancel(r) ==
    LET b == call[r].target
    IN  /\ call[r].kind = "cancel" /\ verdict[r] = "pending"
        /\ b # NoBooking /\ ledger[b] # NoBooking
        /\ ledger[b].user = call[r].user
        /\ ledger[b].status = "confirmed"
        /\ ledger' = [ledger EXCEPT ![b].status = "cancelled"]
        /\ Rule(r, "applied")
        /\ UNCHANGED call

(* A cancellation is refused as repeated only after one took effect.       *)
Repeat(r) ==
    LET b == call[r].target
    IN  /\ call[r].kind = "cancel" /\ verdict[r] = "pending"
        /\ b # NoBooking /\ ledger[b] # NoBooking
        /\ ledger[b].user = call[r].user
        /\ ledger[b].status = "cancelled"
        /\ Rule(r, "stale")
        /\ UNCHANGED <<call, ledger>>

(* Any other answer, or none: the request has no effect.  A conflict may   *)
(* still end so, when the room or the connection goes before the reply.    *)
Close(r) ==
    /\ verdict[r] \in {"pending", "conflict"}
    /\ Rule(r, "closed")
    /\ UNCHANGED <<call, ledger>>

Next ==
    \E r \in Requests : Book(r) \/ Conflict(r) \/ Cancel(r) \/ Repeat(r) \/ Close(r)

Spec == Init /\ [][Next]_vars
=============================================================================
