------------------------------ MODULE Bookings ------------------------------
(***************************************************************************)
(* Booking requests against PostgreSQL: BookingService, the read endpoints *)
(* of bookings and availability, and the bookings table with its partial   *)
(* exclusion constraint.                                                   *)
(*                                                                         *)
(* Every HTTP request is a process with a session of its own.  A step is   *)
(* one statement the session awaits, together with the code that runs      *)
(* until the next await.  Transactions are READ COMMITTED (the default the *)
(* engine leaves alone): each statement sees the rows committed when it    *)
(* starts.  A transaction writes at most one row, so the uncommitted write *)
(* of a request is given by its program counter and its call.              *)
(***************************************************************************)
EXTENDS Availability

CONSTANTS
    Users,
    Requests,     \* HTTP requests; a create's request names the row it inserts
    Switchable,   \* the rooms the operator may switch on and off
    Calls,        \* the calls that clients of this instance make
    MaxTime,      \* bound on the clock
    NoBooking     \* no row; no target

Kinds == {"create", "cancel", "get", "list", "schedule", "free"}

Call == [kind : Kinds, user : Users, room : Rooms, start : Nat, end : Nat,
         count : Count, target : Requests \cup {NoBooking}]

ASSUME CallsAssumption ==
    /\ Calls \subseteq Call
    /\ Switchable \subseteq Rooms
    /\ MaxTime \in Nat

VARIABLES
    now,        \* the wall clock
    active,     \* rooms with is_active, changed by the operator only
    table,      \* committed rows of bookings, by id
    call,       \* what each request asks
    pc,         \* the statement each request awaits next
    txn,        \* fate of the transaction that writes for the request
    stamp,      \* the clock as the handler last read it
    answer,     \* the error code or the kind of success it answered
    body,       \* the content of the answer
    before      \* history: the requests answered before this one arrived

vars == <<now, active, table, call, pc, txn, stamp, answer, body, before>>

----------------------------------------------------------------------------
NoTime == -1

Row == [id : Requests, room : Rooms, user : Users, start : Nat, end : Nat,
        count : Count, status : {"confirmed", "cancelled"},
        cancelled_at : Nat \cup {NoTime}]

(* A row as the ledger of BookingLedger records it.                        *)
Entry == [id : Requests, room : Rooms, user : Users, start : Nat, end : Nat,
          count : Count, status : {"confirmed", "cancelled"}]

ASSUME NoBookingAssumption ==
    NoBooking \notin Requests /\ NoBooking \notin Row /\ NoBooking \notin Entry

EmptyBody == [rows |-> {}, rooms |-> {}, starts |-> {}]

CreatePath == {"lookup", "precheck", "insert", "exclusion"}
ConflictPath ==
    {"conflict_room", "conflict_rooms", "slots_room", "conflict_slots"}
CancelPath == {"lock", "update"}
ReadPath == {"get", "list", "schedule_room", "schedule", "free"}
Busy == CreatePath \cup ConflictPath \cup CancelPath \cup ReadPath
          \cup {"commit", "refresh"}

Codes == {"created", "room_not_found", "invalid_booking_interval",
          "booking_in_past", "room_capacity_exceeded", "booking_conflict",
          "cancelled", "booking_not_found", "booking_already_cancelled",
          "ok", "server_error", "no_answer"}

Creates(r) == call[r].kind = "create"
Cancels(r) == call[r].kind = "cancel"

Rows == {table[b] : b \in {c \in Requests : table[c] # NoBooking}}

(* The Booking the repository's add builds; status by server default.      *)
NewRow(r) ==
    [id |-> r, room |-> call[r].room, user |-> call[r].user,
     start |-> call[r].start, end |-> call[r].end, count |-> call[r].count,
     status |-> "confirmed", cancelled_at |-> NoTime]

----------------------------------------------------------------------------
(* What PostgreSQL does for the sessions.                                  *)

(* An INSERT writes its index entry first and scans for conflicts then, so *)
(* a row is in the index from "exclusion" on, until its transaction ends.  *)
InsertPending(r) == Creates(r) /\ pc[r] \in {"exclusion", "commit"}

(* FOR UPDATE holds the row from the read on, until the transaction ends.  *)
HoldsRow(r, b) == Cancels(r) /\ call[r].target = b /\ pc[r] \in {"update", "commit"}

(* A cancellation that was flushed and not committed.                      *)
UpdatePending(b) == \E q \in Requests : HoldsRow(q, b) /\ pc[q] = "commit"

(* The exclusion scan of r waits for the transactions that are inserting a *)
(* clashing row, and for those that are updating one.                      *)
ClashingInserts(r) ==
    {q \in Requests \ {r} :
        InsertPending(q) /\ Clashes(NewRow(q), call[r].room, call[r])}

ClashingRows(r) ==
    {b \in Requests : table[b] # NoBooking
                        /\ Clashes(table[b], call[r].room, call[r])}

(* Two inserts that are both in the scan wait for each other.              *)
MutualWait(r) == \E q \in ClashingInserts(r) : pc[q] = "exclusion"

----------------------------------------------------------------------------
Goto(r, label) == pc' = [pc EXCEPT ![r] = label]

Reply(r, code, content) ==
    /\ pc' = [pc EXCEPT ![r] = "done"]
    /\ answer' = [answer EXCEPT ![r] = code]
    /\ body' = [body EXCEPT ![r] = content]

(* The session is closed with the transaction still open: a rollback.      *)
Refuse(r, code) ==
    /\ Reply(r, code, EmptyBody)
    /\ txn' = [txn EXCEPT ![r] = "aborted"]

Init ==
    /\ now = 0
    /\ active \in {Rooms \ off : off \in SUBSET Switchable}
    /\ table = [r \in Requests |-> NoBooking]
    /\ call \in [Requests -> Calls]
    /\ pc = [r \in Requests |-> "idle"]
    /\ txn = [r \in Requests |-> "open"]
    /\ stamp = [r \in Requests |-> 0]
    /\ answer = [r \in Requests |-> "none"]
    /\ body = [r \in Requests |-> EmptyBody]
    /\ before = [r \in Requests |-> {}]

FirstStatement(kind) ==
    CASE kind = "create" -> "lookup"
      [] kind = "cancel" -> "lock"
      [] kind = "get" -> "get"
      [] kind = "list" -> "list"
      [] kind = "schedule" -> "schedule_room"
      [] kind = "free" -> "free"

(* The request arrives and is authenticated (see Accounts).                *)
Submit(r) ==
    /\ pc[r] = "idle"
    /\ Goto(r, FirstStatement(call[r].kind))
    /\ before' = [before EXCEPT ![r] = {q \in Requests : pc[q] = "done"}]
    /\ UNCHANGED <<now, active, table, call, txn, stamp, answer, body>>

----------------------------------------------------------------------------
(* BookingService.create                                                   *)

(* Mutant: the past is not checked.                                        *)
VerdictAnyTime(c, clock) ==
    CASE ~ValidInterval(c) -> "invalid_booking_interval"
      [] /\ ValidInterval(c)
         /\ c.count # AnyCount /\ c.count > Capacity[c.room]
           -> "room_capacity_exceeded"
      [] OTHER -> "valid"

(* validate_booking_request, in the order of its checks; "valid" goes on.  *)
Verdict(c, clock) ==
    CASE ~ValidInterval(c) -> "invalid_booking_interval"
      [] ValidInterval(c) /\ c.start < clock -> "booking_in_past"
      [] /\ ValidInterval(c) /\ c.start >= clock
         /\ c.count # AnyCount /\ c.count > Capacity[c.room]
           -> "room_capacity_exceeded"
      [] OTHER -> "valid"

(* get_active_by_id, and validate_booking_request on what it returned      *)
LookupRoom(r) ==
    /\ pc[r] = "lookup"
    /\ IF call[r].room \notin active
       THEN /\ Refuse(r, "room_not_found")
            /\ UNCHANGED stamp
       ELSE /\ stamp' = [stamp EXCEPT ![r] = now]
            /\ IF Verdict(call[r], now) = "valid"
               THEN /\ Goto(r, "precheck")
                    /\ UNCHANGED <<txn, answer, body>>
               ELSE Refuse(r, Verdict(call[r], now))
    /\ UNCHANGED <<now, active, table, call, before>>

(* has_confirmed_overlap: the friendly check before the insert             *)
Precheck(r) ==
    /\ pc[r] = "precheck"
    /\ Goto(r, IF HasConfirmedOverlap(Rows, call[r].room, call[r])
               THEN "conflict_room" ELSE "insert")
    /\ UNCHANGED <<now, active, table, call, txn, stamp, answer, body, before>>

(* add: the flush sends the INSERT, whose index entry is now visible to    *)
(* the exclusion scans of other transactions.                              *)
Insert(r) ==
    /\ pc[r] = "insert"
    /\ Goto(r, "exclusion")
    /\ UNCHANGED <<now, active, table, call, txn, stamp, answer, body, before>>

(* Mutant: the scan sees committed rows only.                              *)
ExclusionCommittedOnly(r) ==
    /\ pc[r] = "exclusion"
    /\ ClashingRows(r) = {}
    /\ Goto(r, "commit")
    /\ UNCHANGED <<now, active, table, call, txn, stamp, answer, body, before>>

(* The scan found neither a clashing row nor a clashing transaction.       *)
ExclusionPasses(r) ==
    /\ pc[r] = "exclusion"
    /\ ClashingRows(r) = {}
    /\ ClashingInserts(r) = {}
    /\ Goto(r, "commit")
    /\ UNCHANGED <<now, active, table, call, txn, stamp, answer, body, before>>

(* Mutant: a violation is retried.                                         *)
ExclusionRetried(r) ==
    /\ pc[r] = "exclusion"
    /\ \E b \in ClashingRows(r) : ~UpdatePending(b)
    /\ Goto(r, "insert")
    /\ UNCHANGED <<now, active, table, call, txn, stamp, answer, body, before>>

(* The scan found a clashing row that nobody is updating: IntegrityError   *)
(* with the name of the constraint, rollback, then the alternatives.       *)
ExclusionViolated(r) ==
    /\ pc[r] = "exclusion"
    /\ \E b \in ClashingRows(r) : ~UpdatePending(b)
    /\ txn' = [txn EXCEPT ![r] = "aborted"]
    /\ Goto(r, "conflict_room")
    /\ UNCHANGED <<now, active, table, call, stamp, answer, body, before>>

(* The deadlock detector ends one of two inserts that wait for each other. *)
(* Its error is not an IntegrityError: create does not catch it, and the   *)
(* handler of unexpected errors answers 500.                               *)
DeadlockVictim(r) ==
    /\ pc[r] = "exclusion"
    /\ MutualWait(r)
    /\ Refuse(r, "server_error")
    /\ UNCHANGED <<now, active, table, call, stamp, before>>

----------------------------------------------------------------------------
(* conflict_details: four statements, each with a snapshot of its own      *)

ConflictRoom(r) ==
    /\ pc[r] = "conflict_room"
    /\ IF call[r].room \in active
       THEN /\ Goto(r, "conflict_rooms")
            /\ UNCHANGED <<txn, answer, body>>
       ELSE Refuse(r, "room_not_found")
    /\ UNCHANGED <<now, active, table, call, stamp, before>>

ConflictRooms(r) ==
    LET offer == AlternativeRooms(Rows, active, call[r].room, call[r],
                                  call[r].count)
    IN  /\ pc[r] = "conflict_rooms"
        /\ IF offer = {}
           THEN /\ Goto(r, "slots_room")
                /\ UNCHANGED <<txn, answer, body>>
           ELSE /\ Reply(r, "booking_conflict", [EmptyBody EXCEPT !.rooms = offer])
                /\ txn' = [txn EXCEPT ![r] = "aborted"]
        /\ UNCHANGED <<now, active, table, call, stamp, before>>

SlotsRoom(r) ==
    /\ pc[r] = "slots_room"
    /\ IF call[r].room \in active
       THEN /\ Goto(r, "conflict_slots")
            /\ UNCHANGED <<txn, answer, body>>
       ELSE Refuse(r, "room_not_found")
    /\ UNCHANGED <<now, active, table, call, stamp, before>>

ConflictSlots(r) ==
    /\ pc[r] = "conflict_slots"
    /\ Reply(r, "booking_conflict",
             [EmptyBody EXCEPT !.starts = NearestSlots(Rows, call[r].room, call[r])])
    /\ txn' = [txn EXCEPT ![r] = "aborted"]
    /\ UNCHANGED <<now, active, table, call, stamp, before>>

----------------------------------------------------------------------------
(* BookingService.cancel                                                   *)

Owned(b, user) == table[b] # NoBooking /\ table[b].user = user

(* Mutants: the row is read without FOR UPDATE; without the user's id;     *)
(* without the check of its status.                                        *)
LockRowUnlocked(r) ==
    LET b == call[r].target
    IN  /\ pc[r] = "lock"
        /\ IF b = NoBooking \/ ~Owned(b, call[r].user)
           THEN Refuse(r, "booking_not_found") /\ UNCHANGED stamp
           ELSE IF table[b].status = "cancelled"
           THEN Refuse(r, "booking_already_cancelled") /\ UNCHANGED stamp
           ELSE /\ stamp' = [stamp EXCEPT ![r] = now]
                /\ Goto(r, "update")
                /\ UNCHANGED <<txn, answer, body>>
        /\ UNCHANGED <<now, active, table, call, before>>

LockRowOfAnyUser(r) ==
    LET b == call[r].target
    IN  /\ pc[r] = "lock"
        /\ IF b = NoBooking \/ table[b] = NoBooking
           THEN Refuse(r, "booking_not_found") /\ UNCHANGED stamp
           ELSE /\ ~\E q \in Requests : HoldsRow(q, b)
                /\ IF table[b].status = "cancelled"
                   THEN Refuse(r, "booking_already_cancelled") /\ UNCHANGED stamp
                   ELSE /\ stamp' = [stamp EXCEPT ![r] = now]
                        /\ Goto(r, "update")
                        /\ UNCHANGED <<txn, answer, body>>
        /\ UNCHANGED <<now, active, table, call, before>>

LockRowUnchecked(r) ==
    LET b == call[r].target
    IN  /\ pc[r] = "lock"
        /\ IF b = NoBooking \/ ~Owned(b, call[r].user)
           THEN Refuse(r, "booking_not_found") /\ UNCHANGED stamp
           ELSE /\ ~\E q \in Requests : HoldsRow(q, b)
                /\ stamp' = [stamp EXCEPT ![r] = now]
                /\ Goto(r, "update")
                /\ UNCHANGED <<txn, answer, body>>
        /\ UNCHANGED <<now, active, table, call, before>>

(* get_for_user_for_update: waits while another session holds the row, and *)
(* reads it as the last committed update left it; then the checks, and the *)
(* clock for cancelled_at.                                                 *)
LockRow(r) ==
    LET b == call[r].target
    IN  /\ pc[r] = "lock"
        /\ IF b = NoBooking \/ ~Owned(b, call[r].user)
           THEN /\ Refuse(r, "booking_not_found")
                /\ UNCHANGED stamp
           ELSE /\ ~\E q \in Requests : HoldsRow(q, b)
                /\ IF table[b].status = "cancelled"
                   THEN /\ Refuse(r, "booking_already_cancelled")
                        /\ UNCHANGED stamp
                   ELSE /\ stamp' = [stamp EXCEPT ![r] = now]
                        /\ Goto(r, "update")
                        /\ UNCHANGED <<txn, answer, body>>
        /\ UNCHANGED <<now, active, table, call, before>>

(* The flush of the repository's cancel sends the UPDATE.                  *)
Update(r) ==
    /\ pc[r] = "update"
    /\ Goto(r, "commit")
    /\ UNCHANGED <<now, active, table, call, txn, stamp, answer, body, before>>

----------------------------------------------------------------------------
(* session.commit() and session.refresh(booking), of create and of cancel  *)

Subject(r) == IF Creates(r) THEN r ELSE call[r].target

(* Mutant: the session is closed without a commit.                         *)
CommitForgotten(r) ==
    /\ pc[r] = "commit"
    /\ txn' = [txn EXCEPT ![r] = "aborted"]
    /\ Goto(r, "refresh")
    /\ UNCHANGED <<now, active, table, call, stamp, answer, body, before>>

Commit(r) ==
    /\ pc[r] = "commit"
    /\ table' = [table EXCEPT ![Subject(r)] =
                    IF Creates(r) THEN NewRow(r)
                    ELSE [@ EXCEPT !.status = "cancelled",
                                   !.cancelled_at = stamp[r]]]
    /\ txn' = [txn EXCEPT ![r] = "committed"]
    /\ Goto(r, "refresh")
    /\ UNCHANGED <<now, active, call, stamp, answer, body, before>>

(* Mutant: the reply shows the row of the request's own identity.          *)
RefreshOwn(r) ==
    /\ pc[r] = "refresh"
    /\ Reply(r, IF Creates(r) THEN "created" ELSE "cancelled",
             [EmptyBody EXCEPT !.rows = {table[r]}])
    /\ UNCHANGED <<now, active, table, call, txn, stamp, before>>

Refresh(r) ==
    /\ pc[r] = "refresh"
    /\ Reply(r, IF Creates(r) THEN "created" ELSE "cancelled",
             [EmptyBody EXCEPT !.rows = {table[Subject(r)]}])
    /\ UNCHANGED <<now, active, table, call, txn, stamp, before>>

----------------------------------------------------------------------------
(* The read endpoints                                                      *)

ReplyRows(r, rows) ==
    /\ Reply(r, "ok", [EmptyBody EXCEPT !.rows = rows])
    /\ txn' = [txn EXCEPT ![r] = "aborted"]

(* get_for_user                                                            *)
GetForUser(r) ==
    LET b == call[r].target
    IN  /\ pc[r] = "get"
        /\ IF b = NoBooking \/ ~Owned(b, call[r].user)
           THEN Refuse(r, "booking_not_found")
           ELSE ReplyRows(r, {table[b]})
        /\ UNCHANGED <<now, active, table, call, stamp, before>>

(* Mutant: the list leaves cancelled bookings out.                         *)
ListConfirmed(r) ==
    /\ pc[r] = "list"
    /\ ReplyRows(r, {row \in Rows : /\ row.user = call[r].user
                                    /\ row.status = "confirmed"})
    /\ UNCHANGED <<now, active, table, call, stamp, before>>

(* list_for_user                                                           *)
ListForUser(r) ==
    /\ pc[r] = "list"
    /\ ReplyRows(r, {row \in Rows : row.user = call[r].user})
    /\ UNCHANGED <<now, active, table, call, stamp, before>>

(* room_schedule: the bounds of the day are the interval of the call       *)
ScheduleRoom(r) ==
    /\ pc[r] = "schedule_room"
    /\ IF call[r].room \in active
       THEN /\ Goto(r, "schedule")
            /\ UNCHANGED <<txn, answer, body>>
       ELSE Refuse(r, "room_not_found")
    /\ UNCHANGED <<now, active, table, call, stamp, before>>

RoomSchedule(r) ==
    /\ pc[r] = "schedule"
    /\ ReplyRows(r, ConfirmedOverlapping(Rows, call[r].room, call[r]))
    /\ UNCHANGED <<now, active, table, call, stamp, before>>

(* free_rooms; the min_capacity of the call is its count                   *)
FreeRooms(r) ==
    /\ pc[r] = "free"
    /\ IF ValidInterval(call[r])
       THEN /\ Reply(r, "ok", [EmptyBody EXCEPT !.rooms =
                    FreeActive(Rows, active, call[r],
                        IF call[r].count = AnyCount THEN 0 ELSE call[r].count)])
            /\ txn' = [txn EXCEPT ![r] = "aborted"]
       ELSE Refuse(r, "invalid_booking_interval")
    /\ UNCHANGED <<now, active, table, call, stamp, before>>

----------------------------------------------------------------------------
(* The environment                                                         *)

(* The backend or the connection dies under the request, at any statement. *)
(* An open transaction is rolled back by the server, a committed one is    *)
(* not undone; the client gets no answer either way, or a 500, which tells *)
(* it no more about what became of its request.                            *)
Fail(r) ==
    /\ pc[r] \in Busy
    /\ Reply(r, "no_answer", EmptyBody)
    /\ txn' = [txn EXCEPT ![r] = IF @ = "committed" THEN @ ELSE "aborted"]
    /\ UNCHANGED <<now, active, table, call, stamp, before>>

Tick ==
    /\ now < MaxTime
    /\ now' = now + 1
    /\ UNCHANGED <<active, table, call, pc, txn, stamp, answer, body, before>>

(* An operator switches a room on or off; no endpoint does.                *)
ToggleRoom(room) ==
    /\ active' = IF room \in active THEN active \ {room} ELSE active \cup {room}
    /\ UNCHANGED <<now, table, call, pc, txn, stamp, answer, body, before>>

----------------------------------------------------------------------------
CreateStep(r) ==
    \/ LookupRoom(r) \/ Precheck(r) \/ Insert(r)
    \/ ExclusionPasses(r) \/ ExclusionViolated(r) \/ DeadlockVictim(r)

ConflictStep(r) ==
    \/ ConflictRoom(r) \/ ConflictRooms(r) \/ SlotsRoom(r) \/ ConflictSlots(r)

CancelStep(r) == LockRow(r) \/ Update(r)

ReadStep(r) ==
    \/ GetForUser(r) \/ ListForUser(r)
    \/ ScheduleRoom(r) \/ RoomSchedule(r) \/ FreeRooms(r)

HandlerStep(r) ==
    \/ CreateStep(r) \/ ConflictStep(r) \/ CancelStep(r) \/ ReadStep(r)
    \/ Commit(r) \/ Refresh(r)

(* Every request of the instance is answered: the service is idle.         *)
Quiescent ==
    /\ \A r \in Requests : pc[r] = "done"
    /\ UNCHANGED vars

Next ==
    \/ \E r \in Requests : Submit(r) \/ HandlerStep(r) \/ Fail(r)
    \/ Tick
    \/ Quiescent
    \/ \E room \in Switchable : ToggleRoom(room)

Spec == Init /\ [][Next]_vars

(* The event loop runs every handler that can run, and the server answers  *)
(* every statement that does not wait; clients, the clock, the operator    *)
(* and failures owe nothing.                                               *)
FairSpec == Spec /\ \A r \in Requests : WF_vars(HandlerStep(r))

----------------------------------------------------------------------------
(* Types                                                                   *)

Body == [rows : SUBSET Row, rooms : SUBSET Rooms, starts : SUBSET Nat]

(* Every variable holds a value of its kind, the row a request inserted    *)
(* carries that request's identity, and a request walks the statements of  *)
(* its own kind of call only.                                              *)
TypeOK ==
    /\ now \in Nat
    /\ active \in SUBSET Rooms
    /\ table \in [Requests -> Row \cup {NoBooking}]
    /\ call \in [Requests -> Call]
    /\ pc \in [Requests -> Busy \cup {"idle", "done"}]
    /\ txn \in [Requests -> {"open", "committed", "aborted"}]
    /\ stamp \in [Requests -> Nat]
    /\ answer \in [Requests -> Codes \cup {"none"}]
    /\ body \in [Requests -> Body]
    /\ before \in [Requests -> SUBSET Requests]

----------------------------------------------------------------------------
(* Safety                                                                  *)

(* The promise of the product (README.md:10): two confirmed bookings of    *)
(* one room never overlap, whatever the requests in flight do.             *)
NoConfirmedOverlap ==
    \A a, b \in Requests :
        /\ a # b /\ table[a] # NoBooking /\ table[b] # NoBooking
        /\ table[a].status = "confirmed"
        => ~Clashes(table[b], table[a].room, table[a])

(* Why it holds: an insert that passed the scan clashes with no committed  *)
(* row and with no other insert that passed it, for as long as it waits    *)
(* for its commit.                                                         *)
ScanHolds ==
    \A r \in Requests :
        Creates(r) /\ pc[r] = "commit" =>
            /\ ClashingRows(r) = {}
            /\ \A q \in ClashingInserts(r) : pc[q] = "exclusion"

(* A request with a cancellation in hand keeps the row to itself, and the  *)
(* row is still confirmed and the user's own when the UPDATE commits.      *)
LockHolds ==
    \A r \in Requests :
        Cancels(r) /\ pc[r] \in {"update", "commit"} =>
            /\ call[r].target # NoBooking
            /\ Owned(call[r].target, call[r].user)
            /\ table[call[r].target].status = "confirmed"
            /\ \A q \in Requests : HoldsRow(q, call[r].target) => q = r

(* What a client may conclude from an answer: a create answered "created"  *)
(* left its row, and one answered with an error other than a lost          *)
(* connection left none, a rollback having followed every partial step;    *)
(* a cancel answered "cancelled" found the row confirmed and it is         *)
(* cancelled since.                                                        *)
AnswersAreTrue ==
    \A r \in Requests :
        /\ answer[r] = "created" => table[r] # NoBooking
        /\ Creates(r) /\ answer[r] \notin {"none", "created", "no_answer"}
             => table[r] = NoBooking
        /\ answer[r] = "cancelled" =>
             /\ Owned(call[r].target, call[r].user)
             /\ table[call[r].target].status = "cancelled"

(* Concurrent cancellations of one booking have one winner                 *)
(* (test_booking_concurrency.py:98): no two requests commit one, whether   *)
(* or not both live to answer.                                             *)
OneCancellation ==
    \A q, r \in Requests :
        /\ q # r /\ Cancels(q) /\ Cancels(r)
        /\ call[q].target = call[r].target
        => ~(txn[q] = "committed" /\ txn[r] = "committed")

(* A conflict is never reported for a slot that was free throughout the    *)
(* request: some clashing row existed, and its cancellation was not        *)
(* answered before this request arrived.                                   *)
ConflictIsReal ==
    \A r \in Requests :
        answer[r] = "booking_conflict" =>
            \E b \in Requests :
                /\ table[b] # NoBooking
                /\ Clashes([table[b] EXCEPT !.status = "confirmed"],
                           call[r].room, call[r])
                /\ ~\E q \in before[r] :
                      answer[q] = "cancelled" /\ call[q].target = b

Listed(r, b) ==
    call[r].kind = "list" /\ call[r].user = call[b].user =>
        \E row \in body[r].rows :
            /\ row.id = b
            /\ (\E q \in before[r] : answer[q] = "cancelled" /\ call[q].target = b)
                 => row.status = "cancelled"

Scheduled(r, b) ==
    /\ call[r].kind = "schedule"
    /\ call[r].room = call[b].room
    /\ Overlaps(call[b], call[r])
    => \/ \E row \in body[r].rows : row.id = b
       \/ \E q \in Requests : /\ Cancels(q) /\ call[q].target = b
                              /\ txn[q] = "committed"

(* Read your writes: a booking whose 201 came before the request is in the *)
(* user's list, and it occupies the room's schedule until a cancellation   *)
(* commits; a cancellation answered before the request is shown.           *)
ReadsAreCurrent ==
    \A r \in Requests : \A b \in before[r] :
        (answer[r] = "ok" /\ answer[b] = "created") =>
            /\ Listed(r, b)
            /\ Scheduled(r, b)

(* No booking is stored whose start was past, or which was too large for   *)
(* its room, when the handler validated it; and a cancellation is not      *)
(* stamped before the booking it cancels was validated.                    *)
RowsWereValid ==
    \A b \in Requests :
        table[b] # NoBooking =>
            /\ ValidInterval(table[b])
            /\ table[b].start >= stamp[b]
            /\ table[b].count # AnyCount => table[b].count <= Capacity[table[b].room]
            /\ table[b].status = "cancelled" <=> table[b].cancelled_at # NoTime
            /\ table[b].status = "cancelled" => table[b].cancelled_at >= stamp[b]
            /\ table[b].status = "cancelled" => table[b].cancelled_at <= now

----------------------------------------------------------------------------
(* What a step may never do                                                *)

KeepsRow(b) ==
    \/ table'[b] = table[b]
    \/ /\ table[b].status = "confirmed"
       /\ table'[b] = [table[b] EXCEPT !.status = "cancelled",
                                       !.cancelled_at = table'[b].cancelled_at]
       /\ \E r \in Requests : /\ Cancels(r) /\ call[r].target = b
                              /\ call[r].user = table[b].user

KeepsHistory == \A b \in Requests : table[b] # NoBooking => KeepsRow(b)

(* History is kept: a stored booking is never removed, never moved, never  *)
(* given to another user, and never confirmed again; and only a request of *)
(* its owner cancels it.                                                   *)
RowsOnlyGetCancelled == [][KeepsHistory]_vars

OfferIsBookable(r, rooms, starts) ==
    /\ \A room \in rooms :
         /\ room \in active \ {call[r].room}
         /\ call[r].count # AnyCount => Capacity[room] >= call[r].count
         /\ \A b \in Requests : table[b] # NoBooking =>
                ~Clashes(table[b], room, call[r])
    /\ \A s \in starts :
         /\ s > call[r].start
         /\ \A b \in Requests : table[b] # NoBooking =>
                ~Clashes(table[b], call[r].room, Slot(call[r], s))
    /\ rooms = {} \/ starts = {}
    /\ Cardinality(rooms \cup starts) <= AlternativeLimit

OffersBookable ==
    \A r \in Requests :
        (answer[r] = "none" /\ answer'[r] = "booking_conflict") =>
            OfferIsBookable(r, body'[r].rooms, body'[r].starts)

(* An alternative is bookable when it is offered: a room is another one,   *)
(* active, large enough and free at the requested time; a slot is a later  *)
(* one of the requested room and free.  Slots are offered only when no     *)
(* room was, and at most AlternativeLimit of either.                       *)
OffersAreBookable == [][OffersBookable]_vars

----------------------------------------------------------------------------
(* Bookings implements BookingLedger: a create takes effect at its commit, *)
(* a conflict at the statement that met the clashing row.                  *)

LedgerView ==
    [b \in Requests |->
        IF table[b] = NoBooking THEN NoBooking
        ELSE [id |-> table[b].id, room |-> table[b].room,
              user |-> table[b].user, start |-> table[b].start,
              end |-> table[b].end, count |-> table[b].count,
              status |-> table[b].status]]

VerdictOf(r) ==
    IF txn[r] = "committed" THEN "applied"
    ELSE IF pc[r] \in ConflictPath \/ answer[r] = "booking_conflict" THEN "conflict"
    ELSE IF answer[r] = "booking_already_cancelled" THEN "stale"
    ELSE IF pc[r] = "done" THEN "closed"
    ELSE "pending"

VerdictView == [r \in Requests |-> VerdictOf(r)]

Ledger == INSTANCE BookingLedger WITH ledger <- LedgerView, verdict <- VerdictView

(* Every run of the service is a run of the ledger: each request has one   *)
(* instant at which the ledger allows what it did.                         *)
ImplementsLedger == Ledger!Spec

----------------------------------------------------------------------------
(* Liveness                                                                *)

(* Every request that arrived is answered, or its connection is lost: no   *)
(* request waits forever on another one's row or index entry.              *)
EveryRequestEnds ==
    \A r \in Requests : pc[r] \in Busy ~> pc[r] = "done"

----------------------------------------------------------------------------
(* What a test says of concurrent creates                                  *)

(* test_booking_concurrency.py:80-82: of two identical concurrent creates  *)
(* that are both answered, one is "created" and the other                  *)
(* "booking_conflict".                                                     *)
LoserIsToldConflict ==
    \A q, r \in Requests :
        /\ q # r /\ Creates(q) /\ Creates(r) /\ call[q] = call[r]
        /\ answer[q] = "created"
        /\ pc[r] = "done"
        => answer[r] # "server_error"
=============================================================================
