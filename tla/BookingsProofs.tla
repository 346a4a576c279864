--------------------------- MODULE BookingsProofs ---------------------------
(***************************************************************************)
(* Theorems about Bookings for every set of users, rooms, requests, calls  *)
(* and every bound on the clock.                                           *)
(***************************************************************************)
EXTENDS Bookings, FiniteSetTheorems, Functions, TLAPS

(* Which kind of call walks which statements, what a committed transaction *)
(* has left in the table, and whose a row is.                              *)
Flow ==
    /\ \A r \in Requests :
         /\ pc[r] \in CreatePath \cup ConflictPath => Creates(r)
         /\ pc[r] \in CancelPath => Cancels(r)
         /\ pc[r] \in {"commit", "refresh"} => Creates(r) \/ Cancels(r)
         /\ pc[r] \in {"idle", "commit"} \cup CreatePath \cup CancelPath
              => txn[r] = "open"
         /\ pc[r] = "refresh" => txn[r] = "committed"
         /\ txn[r] = "committed" =>
              /\ pc[r] \in {"refresh", "done"}
              /\ Creates(r) \/ Cancels(r)
              /\ Subject(r) \in Requests
              /\ table[Subject(r)] # NoBooking
              /\ Cancels(r) => /\ table[Subject(r)].user = call[r].user
                               /\ table[Subject(r)].status = "cancelled"
    /\ \A b \in Requests :
         table[b] # NoBooking =>
           /\ Creates(b)
           /\ txn[b] = "committed"
           /\ table[b].id = b
           /\ table[b].room = call[b].room
           /\ table[b].start = call[b].start
           /\ table[b].end = call[b].end

(* The inductive invariant.                                                *)
IInv ==
    /\ TypeOK
    /\ Flow
    /\ ScanHolds
    /\ LockHolds
    /\ NoConfirmedOverlap

(* A step that neither writes the table nor moves a request into a place   *)
(* where it holds an index entry or a row.                                 *)
Still(r) ==
    /\ UNCHANGED <<table, call>>
    /\ \E label \in (Busy \cup {"done"}) \ {"exclusion", "update", "commit"} :
          pc' = [pc EXCEPT ![r] = label]

----------------------------------------------------------------------------
(* A new row and the rows of the table are rows.                           *)
LEMMA NewRowType ==
    ASSUME TypeOK, NEW r \in Requests
    PROVE  NewRow(r) \in Row
  BY DEF TypeOK, NewRow, Row, Call, NoTime

LEMMA RowsType ==
    ASSUME TypeOK
    PROVE  Rows \subseteq Row
  BY DEF TypeOK, Rows

(* What the offers of a conflict are made of.                              *)
LEMMA OfferType ==
    ASSUME TypeOK, NEW r \in Requests
    PROVE  /\ AlternativeRooms(Rows, active, call[r].room, call[r],
                               call[r].count) \subseteq Rooms
           /\ NearestSlots(Rows, call[r].room, call[r]) \subseteq Nat
  <1>1. AlternativeRooms(Rows, active, call[r].room, call[r], call[r].count)
          \subseteq active
    BY DEF AlternativeRooms, FirstRooms, FreeActive
  <1>2. call[r].start \in Nat
    BY DEF TypeOK, Call
  <1>3. NearestSlots(Rows, call[r].room, call[r]) \subseteq Grid(call[r])
    BY DEF NearestSlots, NearestAvailableSlots, FirstStarts, FreeStarts,
           CandidateStarts
  <1>4. SlotGranularity \in Nat /\ SlotSearchHorizon \in Nat
    BY SlotAssumption
  <1>5. Grid(call[r]) \subseteq Nat
    <2> SUFFICES ASSUME NEW k \in 1 .. SlotSearchHorizon
                 PROVE  call[r].start + k * SlotGranularity \in Nat
      BY DEF Grid
    <2>1. k \in Nat
      BY <1>4
    <2> QED
      BY <1>2, <1>4, <2>1
  <1> QED
    BY <1>1, <1>3, <1>5 DEF TypeOK

----------------------------------------------------------------------------
(* The initial states.                                                     *)
LEMMA InitIInv == Init => IInv
  <1> SUFFICES ASSUME Init PROVE IInv
    OBVIOUS
  <1>1. TypeOK
    <2>1. \A r \in Requests : call[r] \in Call
      BY CallsAssumption DEF Init
    <2>2. active \in SUBSET Rooms
      BY DEF Init
    <2>3. EmptyBody \in Body
      BY DEF EmptyBody, Body
    <2> QED
      BY <2>1, <2>2, <2>3 DEF Init, TypeOK
  <1>2. Flow
    BY DEF Init, Flow, CreatePath, ConflictPath, CancelPath
  <1>3. ScanHolds /\ LockHolds /\ NoConfirmedOverlap
    BY DEF Init, ScanHolds, LockHolds, NoConfirmedOverlap
  <1> QED
    BY <1>1, <1>2, <1>3 DEF IInv

----------------------------------------------------------------------------
(* Every step keeps the types.                                             *)

LEMMA ReplyType ==
    ASSUME TypeOK, NEW r \in Requests, NEW code \in Codes, NEW content \in Body,
           Reply(r, code, content)
    PROVE  /\ pc' \in [Requests -> Busy \cup {"idle", "done"}]
           /\ answer' \in [Requests -> Codes \cup {"none"}]
           /\ body' \in [Requests -> Body]
  BY DEF TypeOK, Reply

LEMMA RefuseType ==
    ASSUME TypeOK, NEW r \in Requests, NEW code \in Codes, Refuse(r, code)
    PROVE  /\ pc' \in [Requests -> Busy \cup {"idle", "done"}]
           /\ answer' \in [Requests -> Codes \cup {"none"}]
           /\ body' \in [Requests -> Body]
           /\ txn' \in [Requests -> {"open", "committed", "aborted"}]
  <1>1. EmptyBody \in Body
    BY DEF EmptyBody, Body
  <1>2. Reply(r, code, EmptyBody)
    BY DEF Refuse
  <1>3. txn' \in [Requests -> {"open", "committed", "aborted"}]
    BY DEF Refuse, TypeOK
  <1> QED
    BY <1>1, <1>2, <1>3, ReplyType

LEMMA GotoType ==
    ASSUME TypeOK, NEW r \in Requests, NEW label \in Busy, Goto(r, label)
    PROVE  pc' \in [Requests -> Busy \cup {"idle", "done"}]
  BY DEF TypeOK, Goto

LEMMA ReplyRowsType ==
    ASSUME TypeOK, NEW r \in Requests, NEW rows \in SUBSET Row, ReplyRows(r, rows)
    PROVE  /\ pc' \in [Requests -> Busy \cup {"idle", "done"}]
           /\ answer' \in [Requests -> Codes \cup {"none"}]
           /\ body' \in [Requests -> Body]
           /\ txn' \in [Requests -> {"open", "committed", "aborted"}]
  <1>1. [EmptyBody EXCEPT !.rows = rows] \in Body
    BY DEF EmptyBody, Body
  <1>2. Reply(r, "ok", [EmptyBody EXCEPT !.rows = rows])
    BY DEF ReplyRows
  <1>3. txn' \in [Requests -> {"open", "committed", "aborted"}]
    BY DEF ReplyRows, TypeOK
  <1>4. "ok" \in Codes
    BY DEF Codes
  <1> QED
    BY <1>1, <1>2, <1>3, <1>4, ReplyType

LEMMA CreateType ==
    ASSUME IInv, NEW r \in Requests, CreateStep(r)
    PROVE  TypeOK'
  <1> USE DEF IInv
  <1>1. CASE LookupRoom(r)
    <2>1. CASE Refuse(r, "room_not_found")
      BY <1>1, <2>1, RefuseType DEF LookupRoom, TypeOK, Codes
    <2>2. CASE /\ stamp' = [stamp EXCEPT ![r] = now]
               /\ Goto(r, "precheck") /\ UNCHANGED <<txn, answer, body>>
      BY <1>1, <2>2, GotoType DEF LookupRoom, TypeOK, Busy, CreatePath
    <2>3. CASE /\ stamp' = [stamp EXCEPT ![r] = now]
               /\ Verdict(call[r], now) # "valid"
               /\ Refuse(r, Verdict(call[r], now))
      <3>1. Verdict(call[r], now) \in Codes
        BY <2>3 DEF Verdict, Codes
      <3> QED
        BY <1>1, <2>3, <3>1, RefuseType DEF LookupRoom, TypeOK
    <2> QED
      BY <1>1, <2>1, <2>2, <2>3 DEF LookupRoom
  <1>2. CASE Precheck(r)
    BY <1>2, GotoType
       DEF Precheck, TypeOK, Busy, CreatePath, ConflictPath
  <1>3. CASE Insert(r)
    BY <1>3, GotoType DEF Insert, TypeOK, Busy, CreatePath
  <1>4. CASE ExclusionPasses(r)
    BY <1>4, GotoType DEF ExclusionPasses, TypeOK, Busy
  <1>5. CASE ExclusionViolated(r)
    BY <1>5, GotoType DEF ExclusionViolated, TypeOK, Busy, ConflictPath
  <1>6. CASE DeadlockVictim(r)
    BY <1>6, RefuseType DEF DeadlockVictim, TypeOK, Codes
  <1> QED
    BY <1>1, <1>2, <1>3, <1>4, <1>5, <1>6 DEF CreateStep

LEMMA ConflictType ==
    ASSUME IInv, NEW r \in Requests, ConflictStep(r)
    PROVE  TypeOK'
  <1> USE DEF IInv
  <1>1. CASE ConflictRoom(r)
    BY <1>1, GotoType, RefuseType
       DEF ConflictRoom, TypeOK, Busy, ConflictPath, Codes
  <1>2. CASE ConflictRooms(r)
    <2> DEFINE offer == AlternativeRooms(Rows, active, call[r].room, call[r],
                                         call[r].count)
    <2>1. CASE offer = {}
      BY <1>2, <2>1, GotoType DEF ConflictRooms, TypeOK, Busy, ConflictPath
    <2>2. CASE offer # {}
      <3>1. [EmptyBody EXCEPT !.rooms = offer] \in Body
        BY OfferType DEF EmptyBody, Body
      <3> HIDE DEF offer
      <3>2. /\ Reply(r, "booking_conflict", [EmptyBody EXCEPT !.rooms = offer])
            /\ txn' = [txn EXCEPT ![r] = "aborted"]
            /\ UNCHANGED <<now, active, table, call, stamp, before>>
        BY <1>2, <2>2 DEF ConflictRooms, offer
      <3> QED
        BY <3>1, <3>2, ReplyType DEF TypeOK, Codes
    <2> QED
      BY <2>1, <2>2
  <1>3. CASE SlotsRoom(r)
    BY <1>3, GotoType, RefuseType
       DEF SlotsRoom, TypeOK, Busy, ConflictPath, Codes
  <1>4. CASE ConflictSlots(r)
    <2> DEFINE starts == NearestSlots(Rows, call[r].room, call[r])
    <2>1. [EmptyBody EXCEPT !.starts = starts] \in Body
      BY OfferType DEF EmptyBody, Body
    <2> HIDE DEF starts
    <2>2. /\ Reply(r, "booking_conflict", [EmptyBody EXCEPT !.starts = starts])
          /\ txn' = [txn EXCEPT ![r] = "aborted"]
          /\ UNCHANGED <<now, active, table, call, stamp, before>>
      BY <1>4 DEF ConflictSlots, starts
    <2> QED
      BY <2>1, <2>2, ReplyType DEF TypeOK, Codes
  <1> QED
    BY <1>1, <1>2, <1>3, <1>4 DEF ConflictStep

LEMMA CancelType ==
    ASSUME IInv, NEW r \in Requests, CancelStep(r)
    PROVE  TypeOK'
  <1> USE DEF IInv
  <1>1. CASE LockRow(r)
    <2>1. CASE Refuse(r, "booking_not_found") /\ UNCHANGED stamp
      BY <1>1, <2>1, RefuseType DEF LockRow, TypeOK, Codes
    <2>2. CASE Refuse(r, "booking_already_cancelled") /\ UNCHANGED stamp
      BY <1>1, <2>2, RefuseType DEF LockRow, TypeOK, Codes
    <2>3. CASE /\ stamp' = [stamp EXCEPT ![r] = now]
               /\ Goto(r, "update") /\ UNCHANGED <<txn, answer, body>>
      BY <1>1, <2>3, GotoType DEF LockRow, TypeOK, Busy, CancelPath
    <2> QED
      BY <1>1, <2>1, <2>2, <2>3 DEF LockRow
  <1>2. CASE Update(r)
    BY <1>2, GotoType DEF Update, TypeOK, Busy
  <1> QED
    BY <1>1, <1>2 DEF CancelStep

LEMMA ReadType ==
    ASSUME IInv, NEW r \in Requests, ReadStep(r)
    PROVE  TypeOK'
  <1> USE DEF IInv
  <1>1. CASE GetForUser(r)
    <2> DEFINE b == call[r].target
    <2>1. CASE Refuse(r, "booking_not_found")
      BY <1>1, <2>1, RefuseType DEF GetForUser, TypeOK, Codes
    <2>2. CASE b # NoBooking /\ Owned(b, call[r].user) /\ ReplyRows(r, {table[b]})
      <3>1. {table[b]} \in SUBSET Row
        BY <2>2 DEF TypeOK, Owned, Call
      <3> QED
        BY <1>1, <2>2, <3>1, ReplyRowsType DEF GetForUser, TypeOK
    <2> QED
      BY <1>1, <2>1, <2>2 DEF GetForUser
  <1>2. CASE ListForUser(r)
    <2>1. {row \in Rows : row.user = call[r].user} \in SUBSET Row
      BY RowsType
    <2> QED
      BY <1>2, <2>1, ReplyRowsType DEF ListForUser, TypeOK
  <1>3. CASE ScheduleRoom(r)
    BY <1>3, GotoType, RefuseType DEF ScheduleRoom, TypeOK, Busy, ReadPath, Codes
  <1>4. CASE RoomSchedule(r)
    <2>1. ConfirmedOverlapping(Rows, call[r].room, call[r]) \in SUBSET Row
      BY RowsType DEF ConfirmedOverlapping
    <2> QED
      BY <1>4, <2>1, ReplyRowsType DEF RoomSchedule, TypeOK
  <1>5. CASE FreeRooms(r)
    <2> DEFINE offer == FreeActive(Rows, active, call[r],
                          IF call[r].count = AnyCount THEN 0 ELSE call[r].count)
    <2>1. [EmptyBody EXCEPT !.rooms = offer] \in Body
      BY DEF EmptyBody, Body, FreeActive, TypeOK
    <2>2. CASE Refuse(r, "invalid_booking_interval")
      BY <1>5, <2>2, RefuseType DEF FreeRooms, TypeOK, Codes
    <2>3. CASE /\ Reply(r, "ok", [EmptyBody EXCEPT !.rooms = offer])
               /\ txn' = [txn EXCEPT ![r] = "aborted"]
      <3> HIDE DEF offer
      <3> QED
        BY <1>5, <2>1, <2>3, ReplyType DEF FreeRooms, TypeOK, Codes
    <2> QED
      BY <1>5, <2>2, <2>3 DEF FreeRooms
  <1> QED
    BY <1>1, <1>2, <1>3, <1>4, <1>5 DEF ReadStep

LEMMA CommitType ==
    ASSUME IInv, NEW r \in Requests, Commit(r)
    PROVE  TypeOK'
  <1> USE DEF IInv
  <1>1. table' \in [Requests -> Row \cup {NoBooking}]
    <2>1. CASE Creates(r)
      BY <2>1, NewRowType DEF Commit, Subject, TypeOK
    <2>2. CASE ~Creates(r)
      <3>1. Cancels(r) /\ pc[r] = "commit"
        BY <2>2 DEF Commit, Flow
      <3>2. call[r].target \in Requests /\ table[call[r].target] \in Row
        BY <3>1 DEF LockHolds, Owned, TypeOK, Call
      <3>3. stamp[r] \in Nat
        BY DEF TypeOK
      <3>4. [table[call[r].target] EXCEPT !.status = "cancelled",
                                          !.cancelled_at = stamp[r]] \in Row
        BY <3>2, <3>3 DEF Row
      <3> QED
        BY <2>2, <3>2, <3>4 DEF Commit, Subject, TypeOK
    <2> QED
      BY <2>1, <2>2
  <1> QED
    BY <1>1, GotoType DEF Commit, TypeOK, Busy

LEMMA RefreshType ==
    ASSUME IInv, NEW r \in Requests, Refresh(r)
    PROVE  TypeOK'
  <1> USE DEF IInv
  <1>1. table[Subject(r)] \in Row
    BY DEF Refresh, Flow, TypeOK
  <1>2. [EmptyBody EXCEPT !.rows = {table[Subject(r)]}] \in Body
    BY <1>1 DEF EmptyBody, Body
  <1> QED
    BY <1>2, ReplyType DEF Refresh, TypeOK, Codes

LEMMA EnvironmentType ==
    ASSUME IInv,
           \/ \E r \in Requests : Submit(r) \/ Fail(r)
           \/ Tick \/ Quiescent
           \/ \E room \in Switchable : ToggleRoom(room)
    PROVE  TypeOK'
  <1> USE DEF IInv
  <1>1. ASSUME NEW r \in Requests, Submit(r) PROVE TypeOK'
    <2>1. call[r].kind \in Kinds
      BY DEF TypeOK, Call
    <2>2. FirstStatement(call[r].kind) \in Busy
      BY <2>1 DEF Kinds, FirstStatement, Busy, CreatePath, CancelPath, ReadPath
    <2> QED
      BY <1>1, <2>2, GotoType DEF Submit, TypeOK
  <1>2. ASSUME NEW r \in Requests, Fail(r) PROVE TypeOK'
    <2>1. EmptyBody \in Body
      BY DEF EmptyBody, Body
    <2> QED
      BY <1>2, <2>1, ReplyType DEF Fail, TypeOK, Codes
  <1>3. CASE Tick
    BY <1>3 DEF Tick, TypeOK
  <1>4. CASE Quiescent
    BY <1>4 DEF Quiescent, vars, TypeOK
  <1>5. ASSUME NEW room \in Switchable, ToggleRoom(room) PROVE TypeOK'
    BY <1>5, CallsAssumption DEF ToggleRoom, TypeOK
  <1> QED
    BY <1>1, <1>2, <1>3, <1>4, <1>5

LEMMA TypeStep == IInv /\ [Next]_vars => TypeOK'
  <1> SUFFICES ASSUME IInv, [Next]_vars PROVE TypeOK'
    OBVIOUS
  <1>1. ASSUME NEW r \in Requests, HandlerStep(r) PROVE TypeOK'
    BY <1>1, CreateType, ConflictType, CancelType, ReadType, CommitType,
       RefreshType DEF HandlerStep
  <1>2. CASE UNCHANGED vars
    BY <1>2 DEF vars, IInv, TypeOK
  <1> QED
    BY <1>1, <1>2, EnvironmentType DEF Next

----------------------------------------------------------------------------
(* For the table and the locks only six kinds of step matter.              *)

Locks(r) ==
    /\ pc[r] = "lock"
    /\ call[r].target # NoBooking
    /\ Owned(call[r].target, call[r].user)
    /\ table[call[r].target].status # "cancelled"
    /\ ~\E q \in Requests : HoldsRow(q, call[r].target)
    /\ Goto(r, "update")
    /\ UNCHANGED <<table, call>>

LEMMA SubmitStill ==
    ASSUME IInv, NEW r \in Requests, Submit(r)
    PROVE  Still(r)
  <1>1. call[r].kind \in Kinds
    BY DEF IInv, TypeOK, Call
  <1>2. FirstStatement(call[r].kind)
          \in (Busy \cup {"done"}) \ {"exclusion", "update", "commit"}
    BY <1>1 DEF Kinds, FirstStatement, Busy, CreatePath, CancelPath, ReadPath
  <1> QED
    BY <1>2 DEF Submit, Goto, Still

LEMMA StepKinds ==
    ASSUME IInv, [Next]_vars
    PROVE  \/ UNCHANGED <<table, call, pc>>
           \/ \E r \in Requests : \/ Still(r) \/ Insert(r) \/ ExclusionPasses(r)
                                  \/ Locks(r) \/ Update(r) \/ Commit(r)
  <1>1. CASE UNCHANGED vars
    BY <1>1 DEF vars
  <1>2. ASSUME NEW r \in Requests, Submit(r) PROVE Still(r)
    BY <1>2, SubmitStill
  <1>3. ASSUME NEW r \in Requests, Fail(r) \/ Refresh(r) PROVE Still(r)
    BY <1>3 DEF Fail, Refresh, Reply, Still
  <1>4. ASSUME NEW r \in Requests, CreateStep(r)
        PROVE  Still(r) \/ Insert(r) \/ ExclusionPasses(r)
    BY <1>4 DEF CreateStep, LookupRoom, Precheck, ExclusionViolated,
         DeadlockVictim, Refuse, Reply, Goto, Still, Busy, CreatePath, ConflictPath
  <1>5. ASSUME NEW r \in Requests, ConflictStep(r) PROVE Still(r)
    BY <1>5 DEF ConflictStep, ConflictRoom, ConflictRooms, SlotsRoom,
         ConflictSlots, Refuse, Reply, Goto, Still, Busy, ConflictPath
  <1>6. ASSUME NEW r \in Requests, CancelStep(r)
        PROVE  Still(r) \/ Locks(r) \/ Update(r)
    BY <1>6 DEF CancelStep, LockRow, Locks, Refuse, Reply, Still
  <1>7. ASSUME NEW r \in Requests, ReadStep(r) PROVE Still(r)
    BY <1>7 DEF ReadStep, GetForUser, ListForUser, ScheduleRoom, RoomSchedule,
         FreeRooms, ReplyRows, Refuse, Reply, Goto, Still, Busy, ReadPath
  <1>8. CASE Tick \/ Quiescent \/ \E room \in Switchable : ToggleRoom(room)
    BY <1>8 DEF Tick, Quiescent, ToggleRoom, vars
  <1> QED
    BY <1>1, <1>2, <1>3, <1>4, <1>5, <1>6, <1>7, <1>8 DEF Next, HandlerStep

(* Clashing is symmetric between confirmed rows of one room.               *)
LEMMA ClashSymmetric ==
    ASSUME NEW a \in Row, NEW b \in Row, a.status = "confirmed",
           Clashes(b, a.room, a)
    PROVE  Clashes(a, b.room, b)
  BY DEF Clashes, Overlaps, Row

(* A request's new row clashes with what the request itself clashes with.  *)
LEMMA NewRowClashes ==
    ASSUME TypeOK, NEW r \in Requests, NEW row \in Row
    PROVE  /\ Clashes(row, NewRow(r).room, NewRow(r))
                <=> Clashes(row, call[r].room, call[r])
           /\ NewRow(r).status = "confirmed"
  BY DEF Clashes, Overlaps, NewRow, TypeOK

----------------------------------------------------------------------------
(* The rows hold: what passed the scan stays free of clashes.              *)

LEMMA ScanStep == IInv /\ [Next]_vars => ScanHolds'
  <1> SUFFICES ASSUME IInv, [Next]_vars,
                      NEW r \in Requests, Creates(r)', (pc[r] = "commit")'
               PROVE  /\ ClashingRows(r)' = {}
                      /\ \A q \in ClashingInserts(r)' : pc'[q] = "exclusion"
    BY DEF ScanHolds
  <1> USE DEF IInv
  <1>a. TypeOK'
    BY TypeStep
  <1>1. CASE UNCHANGED <<table, call, pc>>
    BY <1>1 DEF ScanHolds, ClashingRows, ClashingInserts, InsertPending,
                Creates, NewRow, Clashes, Overlaps
  <1>2. ASSUME NEW s \in Requests, Still(s) \/ Insert(s)
        PROVE  /\ ClashingRows(r)' = {}
               /\ \A q \in ClashingInserts(r)' : pc'[q] = "exclusion"
    BY <1>2 DEF Still, Insert, Goto, ScanHolds, ClashingRows, ClashingInserts,
                InsertPending, Creates, NewRow, Clashes, Overlaps, TypeOK
  <1>3. ASSUME NEW s \in Requests, ExclusionPasses(s)
        PROVE  /\ ClashingRows(r)' = {}
               /\ \A q \in ClashingInserts(r)' : pc'[q] = "exclusion"
    <2>1. UNCHANGED <<table, call>> /\ pc' = [pc EXCEPT ![s] = "commit"]
      BY <1>3 DEF ExclusionPasses, Goto
    <2>2. ClashingRows(r)' = ClashingRows(r)
      BY <2>1 DEF ClashingRows, Clashes, Overlaps
    <2>3. ClashingRows(s) = {} /\ ClashingInserts(s) = {}
      BY <1>3 DEF ExclusionPasses
    <2>4. CASE r = s
      BY <2>1, <2>2, <2>3, <2>4
         DEF ClashingInserts, InsertPending, Creates, NewRow, Clashes,
             Overlaps, TypeOK
    <2>5. CASE r # s
      <3>1. pc[r] = "commit" /\ Creates(r)
        BY <2>1, <2>5 DEF TypeOK, Creates
      <3>2. ClashingRows(r) = {}
        BY <3>1 DEF ScanHolds
      <3>3. r \notin ClashingInserts(s)
        BY <2>3
      <3>4. ~Clashes(NewRow(r), call[s].room, call[s])
        BY <3>1, <3>3, <2>5 DEF ClashingInserts, InsertPending
      <3>5. NewRow(r) \in Row /\ NewRow(s) \in Row
        BY NewRowType
      <3>6. ~Clashes(NewRow(s), call[r].room, call[r])
        BY <3>4, <3>5, NewRowClashes, ClashSymmetric
      <3>7. s \notin ClashingInserts(r)'
        BY <2>1, <3>6 DEF ClashingInserts, NewRow, Clashes, Overlaps
      <3> QED
        BY <2>1, <2>2, <3>1, <3>2, <3>7
           DEF ScanHolds, ClashingInserts, InsertPending, Creates, NewRow,
               Clashes, Overlaps, TypeOK
    <2> QED
      BY <2>4, <2>5
  <1>4. ASSUME NEW s \in Requests, Locks(s) \/ Update(s)
        PROVE  /\ ClashingRows(r)' = {}
               /\ \A q \in ClashingInserts(r)' : pc'[q] = "exclusion"
    <2>1. Cancels(s) /\ UNCHANGED <<table, call>>
      BY <1>4 DEF Locks, Update, Flow, CancelPath
    <2>2. r # s
      BY <2>1 DEF Cancels, Creates
    <2>3. \E label \in {"update", "commit"} : pc' = [pc EXCEPT ![s] = label]
      BY <1>4 DEF Locks, Update, Goto
    <2>4. pc[r] = "commit" /\ Creates(r)
      BY <2>1, <2>2, <2>3 DEF TypeOK, Creates
    <2>5. s \notin ClashingInserts(r)'
      BY <2>1 DEF ClashingInserts, InsertPending, Creates, Cancels
    <2> QED
      BY <2>1, <2>3, <2>4, <2>5
         DEF ScanHolds, ClashingRows, ClashingInserts, InsertPending, Creates,
             NewRow, Clashes, Overlaps, TypeOK
  <1>5. ASSUME NEW s \in Requests, Commit(s)
        PROVE  /\ ClashingRows(r)' = {}
               /\ \A q \in ClashingInserts(r)' : pc'[q] = "exclusion"
    <2>1. /\ UNCHANGED call /\ pc' = [pc EXCEPT ![s] = "refresh"]
          /\ r # s /\ pc[r] = "commit" /\ Creates(r)
      BY <1>5 DEF Commit, Goto, TypeOK, Creates
    <2>2. ClashingRows(r) = {}
      BY <2>1 DEF ScanHolds
    <2>3. \A q \in ClashingInserts(r)' : pc'[q] = "exclusion"
      BY <2>1 DEF ScanHolds, ClashingInserts, InsertPending, Creates, NewRow,
                  Clashes, Overlaps, TypeOK
    <2>4. CASE Creates(s)
      <3>1. table' = [table EXCEPT ![s] = NewRow(s)]
        BY <1>5, <2>4 DEF Commit, Subject
      <3>2. pc[s] = "commit"
        BY <1>5 DEF Commit
      <3>3. s \notin ClashingInserts(r)
        BY <2>1, <3>2 DEF ScanHolds
      <3>4. ~Clashes(NewRow(s), call[r].room, call[r])
        BY <2>1, <2>4, <3>2, <3>3 DEF ClashingInserts, InsertPending
      <3> QED
        BY <2>1, <2>2, <2>3, <3>1, <3>4
           DEF ClashingRows, TypeOK, Clashes, Overlaps
    <2>5. CASE ~Creates(s)
      <3>1. Cancels(s) /\ call[s].target \in Requests
        BY <1>5, <2>5 DEF Commit, Flow, LockHolds, TypeOK, Call
      <3>2. /\ table[call[s].target] \in Row
            /\ table' = [table EXCEPT ![call[s].target] =
                           [@ EXCEPT !.status = "cancelled",
                                     !.cancelled_at = stamp[s]]]
        BY <1>5, <2>5, <3>1 DEF Commit, Subject, LockHolds, Owned, TypeOK
      <3>3. table'[call[s].target].status = "cancelled"
        BY <3>1, <3>2 DEF TypeOK, Row
      <3> QED
        BY <2>1, <2>2, <2>3, <3>2, <3>3
           DEF ClashingRows, TypeOK, Clashes, Overlaps
    <2> QED
      BY <2>4, <2>5
  <1> QED
    BY <1>1, <1>2, <1>3, <1>4, <1>5, StepKinds

----------------------------------------------------------------------------
(* The row stays with the request that locked it.                          *)

LEMMA LockStep == IInv /\ [Next]_vars => LockHolds'
  <1> SUFFICES ASSUME IInv, [Next]_vars PROVE LockHolds'
    OBVIOUS
  <1> USE DEF IInv
  <1>1. CASE UNCHANGED <<table, call, pc>>
    BY <1>1 DEF LockHolds, Owned, HoldsRow, Cancels
  <1>2. ASSUME NEW s \in Requests, Still(s) PROVE LockHolds'
    BY <1>2 DEF Still, LockHolds, Owned, HoldsRow, Cancels, TypeOK
  <1>3. ASSUME NEW s \in Requests, Insert(s) \/ ExclusionPasses(s)
        PROVE  LockHolds'
    <2>1. ~Cancels(s)
      BY <1>3 DEF Insert, ExclusionPasses, Flow, CreatePath, Creates, Cancels
    <2> QED
      BY <1>3, <2>1 DEF Insert, ExclusionPasses, Goto, LockHolds, Owned,
                        HoldsRow, Cancels, TypeOK
  <1>4. ASSUME NEW s \in Requests, Locks(s) PROVE LockHolds'
    <2>1. Cancels(s)
      BY <1>4 DEF Locks, Flow, CancelPath
    <2>2. table[call[s].target] \in Row
      BY <1>4 DEF Locks, Owned, TypeOK, Call
    <2>3. table[call[s].target].status = "confirmed"
      BY <1>4, <2>2 DEF Locks, Row
    <2> QED
      BY <1>4, <2>1, <2>3 DEF Locks, Goto, LockHolds, Owned, HoldsRow,
                              Cancels, TypeOK
  <1>5. ASSUME NEW s \in Requests, Update(s) PROVE LockHolds'
    BY <1>5 DEF Update, Goto, LockHolds, Owned, HoldsRow, Cancels, TypeOK
  <1>6. ASSUME NEW s \in Requests, Commit(s) PROVE LockHolds'
    <2>1. UNCHANGED call /\ pc' = [pc EXCEPT ![s] = "refresh"] /\ pc[s] = "commit"
      BY <1>6 DEF Commit, Goto
    <2>2. CASE Creates(s)
      <3>1. table[s] = NoBooking
        BY <2>1, <2>2 DEF Flow
      <3>2. table' = [table EXCEPT ![s] = NewRow(s)]
        BY <1>6, <2>2 DEF Commit, Subject
      <3> QED
        BY <2>1, <2>2, <3>1, <3>2
           DEF LockHolds, Owned, HoldsRow, Cancels, Creates, TypeOK
    <2>3. CASE ~Creates(s)
      <3>1. Cancels(s)
        BY <2>1, <2>3 DEF Flow
      <3>2. \A q \in Requests \ {s} :
              Cancels(q) /\ pc[q] \in {"update", "commit"}
                => call[q].target # call[s].target
        BY <2>1, <3>1 DEF LockHolds, HoldsRow
      <3>3. \A b \in Requests \ {call[s].target} : table'[b] = table[b]
        BY <1>6, <2>3 DEF Commit, Subject, TypeOK
      <3>4. \A q \in Requests : call[q].target \in Requests \cup {NoBooking}
        BY DEF TypeOK, Call
      <3> QED
        BY <2>1, <3>2, <3>3, <3>4 DEF LockHolds, Owned, HoldsRow, Cancels, TypeOK
    <2> QED
      BY <2>2, <2>3
  <1> QED
    BY <1>1, <1>2, <1>3, <1>4, <1>5, <1>6, StepKinds

----------------------------------------------------------------------------
(* The committed rows never overlap: only a commit can add one, and the    *)
(* scan holds until then.                                                  *)

LEMMA OverlapStep == IInv /\ [Next]_vars => NoConfirmedOverlap'
  <1> SUFFICES ASSUME IInv, [Next]_vars PROVE NoConfirmedOverlap'
    OBVIOUS
  <1> USE DEF IInv
  <1>1. CASE UNCHANGED table
    BY <1>1 DEF NoConfirmedOverlap, Clashes, Overlaps
  <1>2. ASSUME NEW s \in Requests, Commit(s), Creates(s)
        PROVE  NoConfirmedOverlap'
    <2>1. table' = [table EXCEPT ![s] = NewRow(s)]
      BY <1>2 DEF Commit, Subject
    <2>2. \A b \in Requests : table[b] # NoBooking =>
             ~Clashes(table[b], call[s].room, call[s])
      BY <1>2 DEF Commit, ScanHolds, ClashingRows
    <2>3. \A b \in Requests : table[b] # NoBooking =>
             ~Clashes(table[b], NewRow(s).room, NewRow(s))
      BY <2>2, NewRowClashes DEF TypeOK
    <2>4. \A b \in Requests :
             table[b] # NoBooking /\ table[b].status = "confirmed" =>
             ~Clashes(NewRow(s), table[b].room, table[b])
      BY <2>3, NewRowType, ClashSymmetric DEF TypeOK
    <2>5. SUFFICES ASSUME NEW a \in Requests, NEW b \in Requests, a # b,
                          table'[a] # NoBooking, table'[b] # NoBooking,
                          table'[a].status = "confirmed"
                   PROVE  ~Clashes(table'[b], table'[a].room, table'[a])
      BY DEF NoConfirmedOverlap, Clashes, Overlaps
    <2>6. CASE a = s
      BY <2>1, <2>3, <2>5, <2>6 DEF TypeOK
    <2>7. CASE b = s
      BY <2>1, <2>4, <2>5, <2>7 DEF TypeOK
    <2>8. CASE a # s /\ b # s
      BY <2>1, <2>5, <2>8 DEF TypeOK, NoConfirmedOverlap
    <2> QED
      BY <2>6, <2>7, <2>8
  <1>3. ASSUME NEW s \in Requests, Commit(s), ~Creates(s)
        PROVE  NoConfirmedOverlap'
    <2> DEFINE c == call[s].target
    <2>1. c \in Requests /\ table[c] \in Row
      BY <1>3 DEF Commit, Flow, LockHolds, Owned, TypeOK, Call
    <2>2. table' = [table EXCEPT ![c] = [table[c] EXCEPT
                       !.status = "cancelled", !.cancelled_at = stamp[s]]]
      BY <1>3 DEF Commit, Subject
    <2>3. table'[c].status = "cancelled"
      BY <2>1, <2>2 DEF TypeOK, Row
    <2>4. \A b \in Requests \ {c} : table'[b] = table[b]
      BY <2>2 DEF TypeOK
    <2> HIDE DEF c
    <2> QED
      BY <2>3, <2>4 DEF NoConfirmedOverlap, Clashes, Overlaps
  <1> QED
    BY <1>1, <1>2, <1>3, StepKinds
       DEF Still, Insert, ExclusionPasses, Locks, Update

----------------------------------------------------------------------------
(* The flow of the requests: first the steps that leave the table alone.   *)

(* Such a step moves request s to a label and its transaction to a fate.   *)
Moves(s, label, fate) ==
    /\ UNCHANGED <<table, call>>
    /\ pc' = [pc EXCEPT ![s] = label]
    /\ txn' = [txn EXCEPT ![s] = fate]
    /\ label \in CreatePath \cup ConflictPath => Creates(s)
    /\ label \in CancelPath => Cancels(s)
    /\ label = "commit" => Creates(s) \/ Cancels(s)
    /\ label \in {"idle", "commit"} \cup CreatePath \cup CancelPath => fate = "open"
    /\ label # "refresh"
    /\ fate = "committed" <=> txn[s] = "committed"
    /\ fate = "committed" => label = "done"

LEMMA MovesFlow ==
    ASSUME IInv, NEW s \in Requests, NEW label, NEW fate, Moves(s, label, fate)
    PROVE  Flow'
  <1> USE DEF IInv
  <1>1. \A r \in Requests :
          /\ Creates(r)' = Creates(r) /\ Cancels(r)' = Cancels(r)
          /\ Subject(r)' = Subject(r)
          /\ (txn[r] = "committed")' <=> txn[r] = "committed"
    BY DEF Moves, Creates, Cancels, Subject, TypeOK
  <1>2. ASSUME NEW r \in Requests
        PROVE  /\ pc'[r] \in CreatePath \cup ConflictPath => Creates(r)
               /\ pc'[r] \in CancelPath => Cancels(r)
               /\ pc'[r] \in {"commit", "refresh"} => Creates(r) \/ Cancels(r)
               /\ pc'[r] \in {"idle", "commit"} \cup CreatePath \cup CancelPath
                    => txn'[r] = "open"
               /\ pc'[r] = "refresh" => txn'[r] = "committed"
               /\ txn'[r] = "committed" => pc'[r] \in {"refresh", "done"}
    BY DEF Moves, Flow, TypeOK
  <1>3. UNCHANGED <<table, call>>
    BY DEF Moves
  <1>4. \A b \in Requests : table'[b] # NoBooking =>
          /\ Creates(b)'
          /\ txn'[b] = "committed"
          /\ table'[b].id = b
          /\ table'[b].room = call'[b].room
          /\ table'[b].start = call'[b].start
          /\ table'[b].end = call'[b].end
    BY <1>1, <1>3 DEF Flow
  <1>5. \A r \in Requests : txn'[r] = "committed" =>
          /\ Creates(r)' \/ Cancels(r)'
          /\ Subject(r)' \in Requests
          /\ table'[Subject(r)'] # NoBooking
          /\ Cancels(r)' => /\ table'[Subject(r)'].user = call'[r].user
                            /\ table'[Subject(r)'].status = "cancelled"
    BY <1>1, <1>3 DEF Flow
  <1> QED
    BY <1>1, <1>2, <1>4, <1>5 DEF Flow

(* A step that keeps the transaction, and one that answers and aborts it.  *)
LEMMA GotoFlow ==
    ASSUME IInv, NEW s \in Requests, NEW label \in Busy \ {"refresh"},
           Goto(s, label), UNCHANGED <<txn, table, call>>,
           pc[s] \notin {"refresh", "done"},
           label \in CreatePath \cup ConflictPath => Creates(s),
           label \in CancelPath => Cancels(s),
           label = "commit" => Creates(s) \/ Cancels(s),
           label \in {"commit"} \cup CreatePath \cup CancelPath => txn[s] = "open"
    PROVE  Flow'
  <1>1. txn' = [txn EXCEPT ![s] = txn[s]]
    BY DEF IInv, TypeOK
  <1>2. txn[s] # "committed"
    BY DEF IInv, Flow
  <1>3. label # "idle"
    BY DEF Busy, CreatePath, ConflictPath, CancelPath, ReadPath
  <1>4. Moves(s, label, txn[s])
    BY <1>1, <1>2, <1>3 DEF Moves, Goto
  <1> QED
    BY <1>4, MovesFlow

LEMMA DoneFlow ==
    ASSUME IInv, NEW s \in Requests, pc[s] \notin {"refresh", "done"},
           pc' = [pc EXCEPT ![s] = "done"], txn' = [txn EXCEPT ![s] = "aborted"],
           UNCHANGED <<table, call>>
    PROVE  Flow'
  <1>1. txn[s] # "committed"
    BY DEF IInv, Flow
  <1>2. Moves(s, "done", "aborted")
    BY <1>1 DEF Moves, CreatePath, ConflictPath, CancelPath
  <1> QED
    BY <1>2, MovesFlow

LEMMA CreateFlow ==
    ASSUME IInv, NEW s \in Requests, CreateStep(s)
    PROVE  Flow'
  <1> USE DEF IInv
  <1>1. /\ UNCHANGED <<table, call>>
        /\ Creates(s) /\ txn[s] = "open" /\ pc[s] \in CreatePath
    BY DEF CreateStep, LookupRoom, Precheck, Insert, ExclusionPasses,
           ExclusionViolated, DeadlockVictim, CreatePath, Flow
  <1>2. pc[s] \notin {"refresh", "done"}
    BY <1>1 DEF CreatePath
  <1>3. CASE /\ UNCHANGED txn
             /\ \E label \in {"precheck", "insert", "exclusion", "commit",
                              "conflict_room"} : Goto(s, label)
    BY <1>1, <1>2, <1>3, GotoFlow DEF Busy, CreatePath, ConflictPath, CancelPath
  <1>4. CASE /\ pc' = [pc EXCEPT ![s] = "done"]
             /\ txn' = [txn EXCEPT ![s] = "aborted"]
    BY <1>1, <1>2, <1>4, DoneFlow
  <1>5. CASE ExclusionViolated(s)
    <2>1. Moves(s, "conflict_room", "aborted")
      BY <1>1, <1>5 DEF ExclusionViolated, Goto, Moves, CreatePath, CancelPath
    <2> QED
      BY <2>1, MovesFlow
  <1> QED
    BY <1>3, <1>4, <1>5 DEF CreateStep, LookupRoom, Precheck, Insert,
       ExclusionPasses, DeadlockVictim, Refuse, Reply

LEMMA ConflictFlow ==
    ASSUME IInv, NEW s \in Requests, ConflictStep(s)
    PROVE  Flow'
  <1> USE DEF IInv
  <1>1. /\ UNCHANGED <<table, call>> /\ Creates(s) /\ pc[s] \in ConflictPath
    BY DEF ConflictStep, ConflictRoom, ConflictRooms, SlotsRoom,
       ConflictSlots, ConflictPath, Flow
  <1>2. pc[s] \notin {"refresh", "done"}
    BY <1>1 DEF ConflictPath
  <1>3. CASE UNCHANGED txn /\ \E label \in ConflictPath : Goto(s, label)
    BY <1>1, <1>2, <1>3, GotoFlow DEF Busy, CreatePath, ConflictPath, CancelPath
  <1>4. CASE /\ pc' = [pc EXCEPT ![s] = "done"]
             /\ txn' = [txn EXCEPT ![s] = "aborted"]
    BY <1>1, <1>2, <1>4, DoneFlow
  <1> QED
    BY <1>3, <1>4 DEF ConflictStep, ConflictRoom, ConflictRooms, SlotsRoom,
       ConflictSlots, Refuse, Reply, ConflictPath

LEMMA CancelFlow ==
    ASSUME IInv, NEW s \in Requests, CancelStep(s)
    PROVE  Flow'
  <1> USE DEF IInv
  <1>1. /\ UNCHANGED <<table, call>>
        /\ Cancels(s) /\ txn[s] = "open" /\ pc[s] \in CancelPath
    BY DEF CancelStep, LockRow, Update, CancelPath, Flow
  <1>2. pc[s] \notin {"refresh", "done"}
    BY <1>1 DEF CancelPath
  <1>3. CASE UNCHANGED txn /\ \E label \in {"update", "commit"} : Goto(s, label)
    BY <1>1, <1>2, <1>3, GotoFlow DEF Busy, CreatePath, ConflictPath, CancelPath
  <1>4. CASE /\ pc' = [pc EXCEPT ![s] = "done"]
             /\ txn' = [txn EXCEPT ![s] = "aborted"]
    BY <1>1, <1>2, <1>4, DoneFlow
  <1> QED
    BY <1>3, <1>4 DEF CancelStep, LockRow, Update, Refuse, Reply

LEMMA ReadFlow ==
    ASSUME IInv, NEW s \in Requests, ReadStep(s)
    PROVE  Flow'
  <1> USE DEF IInv
  <1>1. UNCHANGED <<table, call>> /\ pc[s] \in ReadPath
    BY DEF ReadStep, GetForUser, ListForUser, ScheduleRoom, RoomSchedule,
           FreeRooms, ReadPath
  <1>2. pc[s] \notin {"refresh", "done"}
    BY <1>1 DEF ReadPath
  <1>3. CASE UNCHANGED txn /\ Goto(s, "schedule")
    BY <1>1, <1>2, <1>3, GotoFlow
       DEF Busy, ReadPath, CreatePath, ConflictPath, CancelPath
  <1>4. CASE /\ pc' = [pc EXCEPT ![s] = "done"]
             /\ txn' = [txn EXCEPT ![s] = "aborted"]
    BY <1>1, <1>2, <1>4, DoneFlow
  <1> QED
    BY <1>3, <1>4 DEF ReadStep, GetForUser, ListForUser, ScheduleRoom,
       RoomSchedule, FreeRooms, ReplyRows, Refuse, Reply

LEMMA SubmitFlow ==
    ASSUME IInv, NEW s \in Requests, Submit(s)
    PROVE  Flow'
  <1> USE DEF IInv
  <1>1. /\ call[s].kind \in Kinds /\ txn[s] = "open" /\ UNCHANGED <<txn, table, call>>
        /\ pc[s] \notin {"refresh", "done"}
        /\ Goto(s, FirstStatement(call[s].kind))
    BY DEF TypeOK, Call, Submit, Flow
  <1>2. FirstStatement(call[s].kind) \in Busy \ {"refresh"}
    BY <1>1 DEF Kinds, FirstStatement, Busy, CreatePath, CancelPath, ReadPath
  <1>3. FirstStatement(call[s].kind) \in CreatePath \cup ConflictPath => Creates(s)
    BY <1>1 DEF Kinds, FirstStatement, Creates, CreatePath, ConflictPath
  <1>4. FirstStatement(call[s].kind) \in CancelPath => Cancels(s)
    BY <1>1 DEF Kinds, FirstStatement, Cancels, CancelPath
  <1>5. FirstStatement(call[s].kind) # "commit"
    BY <1>1 DEF Kinds, FirstStatement
  <1> QED
    BY <1>1, <1>2, <1>3, <1>4, <1>5, GotoFlow

(* The steps that end a request: its transaction keeps a commit.           *)
LEMMA EndFlow ==
    ASSUME IInv, NEW s \in Requests, Refresh(s) \/ Fail(s)
    PROVE  Flow'
  <1> USE DEF IInv
  <1>1. CASE Refresh(s)
    <2>1. Moves(s, "done", "committed")
      BY <1>1 DEF Refresh, Reply, Moves, Flow, TypeOK, CreatePath, ConflictPath,
                  CancelPath
    <2> QED
      BY <2>1, MovesFlow
  <1>2. CASE Fail(s)
    <2>1. CASE txn[s] = "committed"
      <3>1. Moves(s, "done", "committed")
        BY <1>2, <2>1 DEF Fail, Reply, Moves, TypeOK, CreatePath, ConflictPath,
                          CancelPath
      <3> QED
        BY <3>1, MovesFlow
    <2>2. CASE txn[s] # "committed"
      <3>1. Moves(s, "done", "aborted")
        BY <1>2, <2>2 DEF Fail, Reply, Moves, TypeOK, CreatePath, ConflictPath,
                          CancelPath
      <3> QED
        BY <3>1, MovesFlow
    <2> QED
      BY <2>1, <2>2
  <1> QED
    BY <1>1, <1>2

(* Then the commit, which writes the table.                                *)
LEMMA CommitFlow ==
    ASSUME IInv, NEW s \in Requests, Commit(s)
    PROVE  Flow'
  <1> USE DEF IInv
  <1>1. /\ UNCHANGED call /\ pc' = [pc EXCEPT ![s] = "refresh"]
        /\ txn' = [txn EXCEPT ![s] = "committed"]
        /\ pc[s] = "commit" /\ txn[s] = "open"
    BY DEF Commit, Goto, Flow
  <1>2. CASE Creates(s)
    <2>1. table' = [table EXCEPT ![s] = NewRow(s)] /\ table[s] = NoBooking
      BY <1>1, <1>2 DEF Commit, Subject, Flow
    <2>2. NewRow(s) # NoBooking
      BY NewRowType, NoBookingAssumption
    <2> QED
      BY <1>1, <1>2, <2>1, <2>2
         DEF NewRow, Flow, TypeOK, Creates, Cancels, Subject, CreatePath,
             ConflictPath, CancelPath
  <1>3. CASE ~Creates(s)
    <2> DEFINE c == call[s].target
               new == [table[c] EXCEPT !.status = "cancelled",
                                       !.cancelled_at = stamp[s]]
    <2>1. Cancels(s) /\ c \in Requests /\ table[c] \in Row /\ Subject(s) = c
      BY <1>1, <1>3 DEF Flow, LockHolds, Owned, TypeOK, Call, Subject
    <2>2. table' = [table EXCEPT ![c] = new]
      BY <1>3 DEF Commit, Subject
    <2>3. /\ new \in Row /\ new # NoBooking
          /\ new.id = table[c].id /\ new.room = table[c].room
          /\ new.user = table[c].user
          /\ new.start = table[c].start /\ new.end = table[c].end
          /\ new.status = "cancelled"
      <3>1. stamp[s] \in Nat
        BY DEF TypeOK
      <3>2. new \in Row
        BY <2>1, <3>1 DEF Row
      <3> QED
        BY <2>1, <3>2, NoBookingAssumption DEF Row
    <2>4. table[c].user = call[s].user
      BY <1>1, <2>1 DEF LockHolds, Owned
    <2> HIDE DEF c, new
    <2>5. table'[c] = new /\ \A b \in Requests \ {c} : table'[b] = table[b]
      BY <2>1, <2>2 DEF TypeOK
    <2>6. table[c] # NoBooking
      BY <2>1, NoBookingAssumption
    <2>7. ASSUME NEW b \in Requests, table'[b] # NoBooking
          PROVE  /\ Creates(b)' /\ txn'[b] = "committed"
                 /\ table'[b].id = b
                 /\ table'[b].room = call'[b].room
                 /\ table'[b].start = call'[b].start
                 /\ table'[b].end = call'[b].end
      BY <1>1, <2>3, <2>5, <2>6, <2>7 DEF Flow, Creates, TypeOK
    <2>8. ASSUME NEW r \in Requests, txn'[r] = "committed"
          PROVE  /\ pc'[r] \in {"refresh", "done"}
                 /\ Creates(r)' \/ Cancels(r)'
                 /\ Subject(r)' \in Requests
                 /\ table'[Subject(r)'] # NoBooking
                 /\ Cancels(r)' =>
                      /\ table'[Subject(r)'].user = call'[r].user
                      /\ table'[Subject(r)'].status = "cancelled"
      <3>1. Subject(r)' = Subject(r)
        BY <1>1 DEF Subject, Creates
      <3>2. CASE r = s
        BY <1>1, <2>1, <2>3, <2>4, <2>5, <3>1, <3>2 DEF Cancels, Creates, TypeOK
      <3>3. CASE r # s
        <4>1. txn[r] = "committed"
          BY <1>1, <2>8, <3>3 DEF TypeOK
        <4>2. /\ pc'[r] \in {"refresh", "done"}
              /\ Creates(r)' \/ Cancels(r)'
              /\ Subject(r) \in Requests /\ table[Subject(r)] # NoBooking
              /\ Cancels(r) => /\ table[Subject(r)].user = call[r].user
                               /\ table[Subject(r)].status = "cancelled"
          BY <1>1, <3>3, <4>1 DEF Flow, TypeOK, Creates, Cancels
        <4>3. CASE Subject(r) = c
          BY <1>1, <2>3, <2>5, <3>1, <4>2, <4>3 DEF Cancels
        <4>4. CASE Subject(r) # c
          BY <1>1, <2>5, <3>1, <4>2, <4>4 DEF Cancels
        <4> QED
          BY <4>3, <4>4
      <3> QED
        BY <3>2, <3>3
    <2>9. ASSUME NEW r \in Requests
          PROVE  /\ pc'[r] \in CreatePath \cup ConflictPath => Creates(r)'
                 /\ pc'[r] \in CancelPath => Cancels(r)'
                 /\ pc'[r] \in {"commit", "refresh"} => Creates(r)' \/ Cancels(r)'
                 /\ pc'[r] \in {"idle", "commit"} \cup CreatePath \cup CancelPath
                      => txn'[r] = "open"
                 /\ pc'[r] = "refresh" => txn'[r] = "committed"
      BY <1>1, <2>1 DEF Flow, TypeOK, Creates, Cancels, CreatePath,
                        ConflictPath, CancelPath
    <2> QED
      BY <2>7, <2>8, <2>9 DEF Flow
  <1> QED
    BY <1>2, <1>3

LEMMA FlowStep == IInv /\ [Next]_vars => Flow'
  <1> SUFFICES ASSUME IInv, [Next]_vars PROVE Flow'
    OBVIOUS
  <1>1. CASE UNCHANGED <<table, call, pc, txn>>
    BY <1>1 DEF IInv, Flow, Creates, Cancels, Subject
  <1>2. ASSUME NEW s \in Requests, Submit(s) \/ HandlerStep(s) \/ Fail(s)
        PROVE  Flow'
    BY <1>2, CreateFlow, ConflictFlow, CancelFlow, ReadFlow, SubmitFlow,
       EndFlow, CommitFlow DEF HandlerStep
  <1>3. CASE Tick \/ Quiescent \/ \E room \in Switchable : ToggleRoom(room)
    BY <1>1, <1>3 DEF Tick, Quiescent, ToggleRoom, vars
  <1> QED
    BY <1>1, <1>2, <1>3 DEF Next, vars

----------------------------------------------------------------------------
(* The invariant is inductive, and what follows from it.                   *)

LEMMA IInvStep == IInv /\ [Next]_vars => IInv'
  BY TypeStep, FlowStep, ScanStep, LockStep, OverlapStep DEF IInv

THEOREM Invariance == Spec => []IInv
  BY InitIInv, IInvStep, PTL DEF Spec

(* Type correctness.                                                       *)
THEOREM TypeCorrect == Spec => []TypeOK
  <1>1. IInv => TypeOK
    BY DEF IInv
  <1> QED
    BY <1>1, Invariance, PTL

(* No two confirmed bookings of a room overlap, for any number of requests *)
(* that run concurrently, fail or wait, over any rooms and intervals       *)
(* (the promise of README.md:10).                                          *)
THEOREM NoDoubleBooking == Spec => []NoConfirmedOverlap
  <1>1. IInv => NoConfirmedOverlap
    BY DEF IInv
  <1> QED
    BY <1>1, Invariance, PTL

(* At most one cancellation of a booking ever commits.                     *)
THEOREM CancelledOnce == Spec => []OneCancellation
  <1>1. Init => OneCancellation
    BY DEF Init, OneCancellation
  <1>2. ASSUME IInv, OneCancellation, [Next]_vars
        PROVE  OneCancellation'
    <2>1. UNCHANGED call
      BY <1>2, StepKinds DEF Still, Insert, ExclusionPasses, Locks, Update, Commit
    <2>2. CASE \A r \in Requests : txn'[r] = "committed" => txn[r] = "committed"
      BY <1>2, <2>1, <2>2 DEF OneCancellation, Cancels
    <2>3. ASSUME NEW s \in Requests, Commit(s)
          PROVE  OneCancellation'
      <3>1. \A q \in Requests \ {s} : txn'[q] = "committed" => txn[q] = "committed"
        BY <1>2, <2>3 DEF Commit, IInv, TypeOK
      <3>2. \A q \in Requests \ {s} :
              /\ Cancels(s) /\ Cancels(q) /\ call[q].target = call[s].target
              => txn[q] # "committed"
        BY <1>2, <2>3 DEF Commit, IInv, LockHolds, Flow, Subject, Cancels, Creates
      <3> QED
        BY <1>2, <2>1, <3>1, <3>2 DEF OneCancellation, Cancels
    <2>4. ASSUME NEW s \in Requests, ~Commit(s),
                 Submit(s) \/ HandlerStep(s) \/ Fail(s)
          PROVE  \A r \in Requests : txn'[r] = "committed" => txn[r] = "committed"
      BY <1>2, <2>4 DEF Submit, HandlerStep, CreateStep, ConflictStep,
         CancelStep, ReadStep, LookupRoom, Precheck, Insert, ExclusionPasses,
         ExclusionViolated, DeadlockVictim, ConflictRoom, ConflictRooms,
         SlotsRoom, ConflictSlots, LockRow, Update, GetForUser, ListForUser,
         ScheduleRoom, RoomSchedule, FreeRooms, Refresh, Fail, ReplyRows,
         Refuse, IInv, TypeOK
    <2>5. CASE Tick \/ Quiescent \/ \E room \in Switchable : ToggleRoom(room)
      BY <2>2, <2>5 DEF Tick, Quiescent, ToggleRoom, vars
    <2>6. CASE UNCHANGED vars
      BY <2>2, <2>6 DEF vars
    <2> QED
      BY <1>2, <2>2, <2>3, <2>4, <2>5, <2>6 DEF Next
  <1> QED
    BY <1>1, <1>2, Invariance, PTL DEF Spec

----------------------------------------------------------------------------
(* What a step may never do to a row, what a client may conclude from an    *)
(* answer, and that Bookings implements BookingLedger.                     *)

(* A request that is not done has answered nothing.                        *)
Silent == \A r \in Requests : pc[r] # "done" => answer[r] = "none"

(* A step of one request: it leaves every other request as it was.         *)
Alone(s) ==
    \A r \in Requests \ {s} : pc'[r] = pc[r] /\ txn'[r] = txn[r] /\ answer'[r] = answer[r]

Steps(s) == Submit(s) \/ HandlerStep(s) \/ Fail(s)

----------------------------------------------------------------------------
LEMMA StepsAlone ==
    ASSUME TypeOK, NEW s \in Requests, Steps(s)
    PROVE  Alone(s) /\ UNCHANGED call
  <1>1. CASE Submit(s) \/ Fail(s) \/ Commit(s) \/ Refresh(s)
    BY <1>1 DEF Submit, Fail, Commit, Refresh, Goto, Reply, Alone, TypeOK
  <1>2. CASE CreateStep(s)
    BY <1>2 DEF CreateStep, LookupRoom, Precheck, Insert, ExclusionPasses,
       ExclusionViolated, DeadlockVictim, Refuse, Reply, Goto, Alone, TypeOK
  <1>3. CASE ConflictStep(s)
    BY <1>3 DEF ConflictStep, ConflictRoom, ConflictRooms, SlotsRoom,
       ConflictSlots, Refuse, Reply, Goto, Alone, TypeOK
  <1>4. CASE CancelStep(s)
    BY <1>4 DEF CancelStep, LockRow, Update, Refuse, Reply, Goto, Alone, TypeOK
  <1>5. CASE ReadStep(s)
    BY <1>5 DEF ReadStep, GetForUser, ListForUser, ScheduleRoom, RoomSchedule,
       FreeRooms, ReplyRows, Refuse, Reply, Goto, Alone, TypeOK
  <1> QED
    BY <1>1, <1>2, <1>3, <1>4, <1>5 DEF Steps, HandlerStep

(* A step that is no request's leaves the requests and the table alone.    *)
LEMMA OtherSteps ==
    ASSUME [Next]_vars
    PROVE  \/ \E s \in Requests : Steps(s)
           \/ UNCHANGED <<table, call, pc, txn, answer>>
  BY DEF Next, Steps, Tick, Quiescent, ToggleRoom, vars

LEMMA StepsNotDone ==
    ASSUME NEW s \in Requests, Steps(s)
    PROVE  pc[s] # "done"
  BY DEF Steps, Submit, HandlerStep, CreateStep, ConflictStep, CancelStep,
     ReadStep, LookupRoom, Precheck, Insert, ExclusionPasses, ExclusionViolated,
     DeadlockVictim, ConflictRoom, ConflictRooms, SlotsRoom, ConflictSlots,
     LockRow, Update, GetForUser, ListForUser, ScheduleRoom, RoomSchedule,
     FreeRooms, Commit, Refresh, Fail, Busy, CreatePath, ConflictPath,
     CancelPath, ReadPath

LEMMA SilentStep ==
    ASSUME TypeOK, Silent, [Next]_vars
    PROVE  Silent'
  <1>1. ASSUME NEW s \in Requests, Steps(s)
        PROVE  pc'[s] = "done" \/ answer'[s] = answer[s]
    BY <1>1 DEF Steps, Submit, HandlerStep, CreateStep, ConflictStep, CancelStep,
       ReadStep, LookupRoom, Precheck, Insert, ExclusionPasses, ExclusionViolated,
       DeadlockVictim, ConflictRoom, ConflictRooms, SlotsRoom, ConflictSlots,
       LockRow, Update, GetForUser, ListForUser, ScheduleRoom, RoomSchedule,
       FreeRooms, ReplyRows, Refuse, Reply, Commit, Refresh, Fail, TypeOK
  <1>3. ASSUME NEW s \in Requests, Steps(s)
        PROVE  Silent'
    BY <1>1, <1>3, StepsAlone, StepsNotDone DEF Silent, Alone
  <1>4. CASE UNCHANGED <<table, call, pc, txn, answer>>
    BY <1>4 DEF Silent
  <1> QED
    BY <1>3, <1>4, OtherSteps

THEOREM SilentUntilDone == Spec => []Silent
  <1>1. Init => Silent
    BY DEF Init, Silent
  <1> QED
    BY <1>1, SilentStep, TypeCorrect, PTL DEF Spec

----------------------------------------------------------------------------
(* Only a commit writes the table: a new row of a create, or a locked row  *)
(* of a cancel.                                                            *)
LEMMA TableStep ==
    ASSUME IInv, [Next]_vars
    PROVE  \/ UNCHANGED table
           \/ \E s \in Requests :
                /\ Commit(s) /\ Creates(s) /\ table[s] = NoBooking
                /\ table' = [table EXCEPT ![s] = NewRow(s)]
           \/ \E s \in Requests :
                /\ Commit(s) /\ Cancels(s)
                /\ call[s].target \in Requests
                /\ Owned(call[s].target, call[s].user)
                /\ table[call[s].target].status = "confirmed"
                /\ table' = [table EXCEPT ![call[s].target] =
                      [table[call[s].target] EXCEPT !.status = "cancelled",
                                                    !.cancelled_at = stamp[s]]]
  <1> USE DEF IInv
  <1>1. ASSUME NEW s \in Requests, Commit(s), Creates(s)
        PROVE  table[s] = NoBooking /\ table' = [table EXCEPT ![s] = NewRow(s)]
    BY <1>1 DEF Commit, Subject, Flow
  <1>2. ASSUME NEW s \in Requests, Commit(s), ~Creates(s)
        PROVE  /\ Cancels(s) /\ call[s].target \in Requests
               /\ Owned(call[s].target, call[s].user)
               /\ table[call[s].target].status = "confirmed"
               /\ table' = [table EXCEPT ![call[s].target] =
                      [table[call[s].target] EXCEPT !.status = "cancelled",
                                                    !.cancelled_at = stamp[s]]]
    BY <1>2 DEF Commit, Subject, Flow, LockHolds, TypeOK, Call
  <1> QED
    BY <1>1, <1>2, StepKinds DEF Still, Insert, ExclusionPasses, Locks, Update

(* The history of the bookings is kept: a row is never removed, moved,     *)
(* given away or confirmed again, and only its owner's request cancels it. *)
THEOREM HistoryKept == Spec => RowsOnlyGetCancelled
  <1>1. ASSUME IInv, [Next]_vars, NEW b \in Requests, table[b] # NoBooking
        PROVE  KeepsRow(b)
    <2>1. CASE UNCHANGED table
      BY <2>1 DEF KeepsRow
    <2>2. ASSUME NEW s \in Requests, Creates(s), table[s] = NoBooking,
                 table' = [table EXCEPT ![s] = NewRow(s)]
          PROVE  table'[b] = table[b]
      BY <1>1, <2>2 DEF IInv, TypeOK
    <2>3. ASSUME NEW s \in Requests, Cancels(s), call[s].target \in Requests,
                 Owned(call[s].target, call[s].user),
                 table[call[s].target].status = "confirmed",
                 table' = [table EXCEPT ![call[s].target] =
                      [table[call[s].target] EXCEPT !.status = "cancelled",
                                                    !.cancelled_at = stamp[s]]],
                 b = call[s].target
          PROVE  KeepsRow(b)
      <3>1. table[b] \in Row
        BY <1>1 DEF IInv, TypeOK
      <3>2. table'[b] = [table[b] EXCEPT !.status = "cancelled",
                                         !.cancelled_at = stamp[s]]
        BY <1>1, <2>3 DEF IInv, TypeOK
      <3>3. table'[b].cancelled_at = stamp[s]
        BY <3>1, <3>2 DEF Row
      <3> QED
        BY <2>3, <3>2, <3>3 DEF Owned, KeepsRow
    <2>4. ASSUME NEW s \in Requests, b # call[s].target,
                 table' = [table EXCEPT ![call[s].target] =
                      [table[call[s].target] EXCEPT !.status = "cancelled",
                                                    !.cancelled_at = stamp[s]]]
          PROVE  table'[b] = table[b]
      BY <1>1, <2>4 DEF IInv, TypeOK
    <2> QED
      BY <1>1, <2>1, <2>2, <2>3, <2>4, TableStep DEF KeepsRow
  <1>2. IInv /\ [Next]_vars => [KeepsHistory]_vars
    BY <1>1 DEF KeepsHistory
  <1> QED
    BY <1>2, Invariance, PTL DEF Spec, RowsOnlyGetCancelled

----------------------------------------------------------------------------
(* What an answer says of the transaction behind it.                       *)

AnswerFate ==
    \A r \in Requests :
        /\ answer[r] = "created" => Creates(r) /\ txn[r] = "committed"
        /\ answer[r] = "cancelled" => Cancels(r) /\ txn[r] = "committed"
        /\ answer[r] \notin {"none", "created", "cancelled", "no_answer"}
             => txn[r] = "aborted"

LEMMA FateStep ==
    ASSUME IInv, Silent, AnswerFate, [Next]_vars
    PROVE  AnswerFate'
  <1> USE DEF IInv
  <1>1. ASSUME NEW s \in Requests, Steps(s), pc'[s] # "done"
        PROVE  answer'[s] = "none"
    <2>1. Silent'
      BY SilentStep
    <2> QED
      BY <1>1, <2>1 DEF Silent
  <1>2. ASSUME NEW s \in Requests, Refresh(s)
        PROVE  /\ txn'[s] = "committed"
               /\ \/ answer'[s] = "created" /\ Creates(s)
                  \/ answer'[s] = "cancelled" /\ Cancels(s)
    <2>1. /\ txn'[s] = "committed"
          /\ Creates(s) \/ Cancels(s)
      BY <1>2 DEF Refresh, Flow, TypeOK
    <2>2. answer'[s] = IF Creates(s) THEN "created" ELSE "cancelled"
      BY <1>2 DEF Refresh, Reply, TypeOK
    <2> QED
      BY <2>1, <2>2
  <1>3. ASSUME NEW s \in Requests, Fail(s)
        PROVE  answer'[s] = "no_answer"
    BY <1>3 DEF Fail, Reply, TypeOK
  <1>4. ASSUME NEW s \in Requests, ~Refresh(s), ~Fail(s), Steps(s), pc'[s] = "done"
        PROVE  txn'[s] = "aborted" /\ answer'[s] \notin {"created", "cancelled"}
    <2>1. /\ ~Submit(s) /\ ~Commit(s)
          /\ CreateStep(s) \/ ConflictStep(s) \/ CancelStep(s) \/ ReadStep(s)
      <3>1. ~Commit(s)
        BY <1>4 DEF Commit, Goto, TypeOK
      <3>2. ~Submit(s)
        <4>1. call[s].kind \in Kinds
          BY DEF TypeOK, Call
        <4> QED
          BY <1>4, <4>1 DEF Submit, Goto, TypeOK, FirstStatement, Kinds
      <3> QED
        BY <1>4, <3>1, <3>2 DEF Steps, HandlerStep
    <2>2. CASE CreateStep(s)
      BY <1>4, <2>2 DEF CreateStep, LookupRoom, Verdict, Precheck, Insert,
         ExclusionPasses, ExclusionViolated, DeadlockVictim, Refuse, Reply,
         Goto, TypeOK
    <2>3. CASE ConflictStep(s)
      BY <1>4, <2>3 DEF ConflictStep, ConflictRoom, ConflictRooms, SlotsRoom,
         ConflictSlots, Refuse, Reply, Goto, TypeOK
    <2>4. CASE CancelStep(s)
      BY <1>4, <2>4 DEF CancelStep, LockRow, Update, Refuse, Reply, Goto, TypeOK
    <2>5. CASE ReadStep(s)
      BY <1>4, <2>5 DEF ReadStep, GetForUser, ListForUser, ScheduleRoom,
         RoomSchedule, FreeRooms, ReplyRows, Refuse, Reply, Goto, TypeOK
    <2> QED
      BY <2>1, <2>2, <2>3, <2>4, <2>5
  <1>5. ASSUME NEW s \in Requests, Steps(s)
        PROVE  AnswerFate'
    BY <1>1, <1>2, <1>3, <1>4, <1>5, StepsAlone
       DEF AnswerFate, Alone, Creates, Cancels
  <1>6. CASE UNCHANGED <<table, call, pc, txn, answer>>
    BY <1>6 DEF AnswerFate, Creates, Cancels
  <1> QED
    BY <1>5, <1>6, OtherSteps

THEOREM FateInvariance == Spec => []AnswerFate
  <1>1. Init => AnswerFate
    BY DEF Init, AnswerFate
  <1>2. IInv /\ Silent /\ AnswerFate /\ [Next]_vars => AnswerFate'
    BY FateStep
  <1> QED
    BY <1>1, <1>2, Invariance, SilentUntilDone, PTL DEF Spec

(* A client may believe its answer: a create that was refused left no      *)
(* booking, one that was accepted left one, and a cancellation that was    *)
(* confirmed holds, whatever the other requests do afterwards.             *)
THEOREM AnswersCanBeBelieved == Spec => []AnswersAreTrue
  <1>1. IInv /\ AnswerFate => AnswersAreTrue
    BY DEF IInv, Flow, AnswerFate, AnswersAreTrue, Subject, Creates, Cancels, Owned
  <1> QED
    BY <1>1, Invariance, FateInvariance, PTL

----------------------------------------------------------------------------
(* Bookings implements BookingLedger.                                      *)

(* The ledger of the mapping holds a booking exactly where the table does, *)
(* and a clash with one is a clash with the other.                         *)
LEMMA LedgerRows ==
    ASSUME TypeOK, NEW b \in Requests
    PROVE  /\ LedgerView[b] = NoBooking <=> table[b] = NoBooking
           /\ table[b] # NoBooking =>
                /\ LedgerView[b].user = table[b].user
                /\ LedgerView[b].status = table[b].status
                /\ \A room, i : Ledger!Clashes(LedgerView[b], room, i)
                                  <=> Clashes(table[b], room, i)
  <1>1. CASE table[b] = NoBooking
    BY <1>1 DEF LedgerView
  <1>2. CASE table[b] # NoBooking
    <2>1. table[b] \in Row
      BY <1>2 DEF TypeOK
    <2> DEFINE view == [id |-> table[b].id, room |-> table[b].room,
                        user |-> table[b].user, start |-> table[b].start,
                        end |-> table[b].end, count |-> table[b].count,
                        status |-> table[b].status]
    <2>2. LedgerView[b] = view
      BY <1>2 DEF LedgerView
    <2>3. view # NoBooking
      <3>1. view \in Entry
        BY <2>1 DEF Row, Entry
      <3> QED
        BY <3>1, NoBookingAssumption
    <2> QED
      BY <1>2, <2>2, <2>3 DEF Ledger!Clashes, Ledger!Overlaps, Clashes, Overlaps
  <1> QED
    BY <1>1, <1>2

(* Whether the requested slot is free reads the same in both.              *)
LEMMA LedgerFree ==
    ASSUME TypeOK, NEW r \in Requests
    PROVE  Ledger!Free(r) <=> ClashingRows(r) = {}
  BY LedgerRows DEF Ledger!Free, ClashingRows

(* A step that leaves the table alone moves at most its own verdict.       *)
LEMMA VerdictsAlone ==
    ASSUME TypeOK, NEW s \in Requests, Alone(s), UNCHANGED call
    PROVE  \A r \in Requests \ {s} : VerdictView'[r] = VerdictView[r]
  BY DEF Alone, VerdictView, VerdictOf

LEMMA RuleStep ==
    ASSUME TypeOK, NEW s \in Requests, Alone(s), UNCHANGED call,
           NEW v, VerdictOf(s)' = v
    PROVE  VerdictView' = [VerdictView EXCEPT ![s] = v]
  BY VerdictsAlone DEF VerdictView

LEMMA LedgerUnchanged ==
    ASSUME UNCHANGED table
    PROVE  UNCHANGED LedgerView
  BY DEF LedgerView

----------------------------------------------------------------------------
(* Steps of one request that do not commit: the verdict stays, or the      *)
(* ledger rules a conflict, a repeated cancellation or a close.            *)
LEMMA QuietVerdict ==
    ASSUME IInv, Silent, NEW s \in Requests, Steps(s), ~Commit(s)
    PROVE  \/ VerdictOf(s)' = VerdictOf(s)
           \/ /\ VerdictOf(s) = "pending" /\ VerdictOf(s)' = "conflict"
              /\ Creates(s) /\ ClashingRows(s) # {}
           \/ /\ VerdictOf(s) = "pending" /\ VerdictOf(s)' = "stale"
              /\ Cancels(s) /\ call[s].target # NoBooking
              /\ Owned(call[s].target, call[s].user)
              /\ table[call[s].target].status = "cancelled"
           \/ /\ VerdictOf(s) \in {"pending", "conflict"}
              /\ VerdictOf(s)' = "closed"
  <1> USE DEF IInv
  <1>0. /\ answer[s] \in Codes \cup {"none"} /\ txn[s] \in {"open", "committed", "aborted"}
        /\ pc[s] # "done" => answer[s] = "none"
        /\ pc[s] \notin {"refresh", "done"} => txn[s] # "committed"
    BY DEF TypeOK, Silent, Flow
  <1>1. CASE Submit(s)
    <2>1. call[s].kind \in Kinds
      BY DEF TypeOK, Call
    <2>2. FirstStatement(call[s].kind) \notin ConflictPath \cup {"done"}
      BY <2>1 DEF Kinds, FirstStatement, ConflictPath
    <2> QED
      BY <1>0, <1>1, <2>2 DEF Submit, Goto, VerdictOf, ConflictPath, TypeOK
  <1>2. CASE LookupRoom(s)
    <2>1. VerdictOf(s) = "pending" /\ UNCHANGED table
      BY <1>0, <1>2 DEF LookupRoom, VerdictOf, ConflictPath
    <2>2. CASE Goto(s, "precheck") /\ UNCHANGED <<txn, answer>>
      BY <1>0, <1>2, <2>1, <2>2 DEF LookupRoom, Goto, VerdictOf, ConflictPath, TypeOK
    <2>3. CASE Refuse(s, "room_not_found") \/ Refuse(s, Verdict(call[s], now))
      BY <1>0, <2>1, <2>3 DEF Refuse, Reply, Verdict, VerdictOf, ConflictPath, TypeOK
    <2> QED
      BY <1>2, <2>2, <2>3 DEF LookupRoom
  <1>3. CASE Precheck(s)
    <2>1. VerdictOf(s) = "pending" /\ Creates(s)
      BY <1>0, <1>3 DEF Precheck, VerdictOf, ConflictPath, Flow, CreatePath
    <2>2. HasConfirmedOverlap(Rows, call[s].room, call[s]) <=> ClashingRows(s) # {}
      BY DEF HasConfirmedOverlap, ConfirmedOverlapping, Rows, ClashingRows
    <2> QED
      BY <1>0, <1>3, <2>1, <2>2 DEF Precheck, Goto, VerdictOf, ConflictPath, TypeOK
  <1>4. CASE Insert(s) \/ ExclusionPasses(s)
    BY <1>0, <1>4 DEF Insert, ExclusionPasses, Goto, VerdictOf, ConflictPath, TypeOK
  <1>5. CASE ExclusionViolated(s)
    <2>1. VerdictOf(s) = "pending" /\ Creates(s)
      BY <1>0, <1>5 DEF ExclusionViolated, VerdictOf, ConflictPath, Flow, CreatePath
    <2>2. ClashingRows(s) # {}
      BY <1>5 DEF ExclusionViolated
    <2>3. VerdictOf(s)' = "conflict"
      BY <1>5 DEF ExclusionViolated, Goto, VerdictOf, ConflictPath, TypeOK
    <2> QED
      BY <2>1, <2>2, <2>3
  <1>6. CASE DeadlockVictim(s)
    BY <1>0, <1>6 DEF DeadlockVictim, Refuse, Reply, VerdictOf, ConflictPath, TypeOK
  <1>7. CASE ConflictStep(s)
    <2>1. VerdictOf(s) = "conflict"
      BY <1>0, <1>7 DEF ConflictStep, ConflictRoom, ConflictRooms, SlotsRoom,
         ConflictSlots, VerdictOf, ConflictPath
    <2>2. \/ pc'[s] \in ConflictPath /\ txn'[s] = txn[s]
          \/ /\ pc'[s] = "done" /\ txn'[s] = "aborted"
             /\ answer'[s] \in {"booking_conflict", "room_not_found"}
      BY <1>7 DEF ConflictStep, ConflictRoom, ConflictRooms, SlotsRoom,
         ConflictSlots, Refuse, Reply, Goto, ConflictPath, TypeOK
    <2>3. txn[s] # "committed"
      BY <2>1 DEF VerdictOf
    <2> QED
      BY <2>1, <2>2, <2>3 DEF VerdictOf, ConflictPath
  <1>8. CASE LockRow(s)
    <2>1. VerdictOf(s) = "pending" /\ Cancels(s)
      BY <1>0, <1>8 DEF LockRow, VerdictOf, ConflictPath, Flow, CancelPath
    <2>2. CASE Refuse(s, "booking_not_found")
      BY <2>1, <2>2 DEF Refuse, Reply, VerdictOf, ConflictPath, TypeOK
    <2>3. CASE /\ Refuse(s, "booking_already_cancelled")
               /\ call[s].target # NoBooking
               /\ Owned(call[s].target, call[s].user)
               /\ table[call[s].target].status = "cancelled"
      BY <2>1, <2>3 DEF Refuse, Reply, VerdictOf, ConflictPath, TypeOK
    <2>4. CASE Goto(s, "update") /\ UNCHANGED <<txn, answer, body>>
      BY <1>0, <1>8, <2>1, <2>4 DEF LockRow, Goto, VerdictOf, ConflictPath, TypeOK
    <2> QED
      BY <1>8, <2>2, <2>3, <2>4 DEF LockRow
  <1>9. CASE Update(s)
    BY <1>0, <1>9 DEF Update, Goto, VerdictOf, ConflictPath, TypeOK
  <1>10. CASE ReadStep(s)
    <2>1. VerdictOf(s) = "pending"
      BY <1>0, <1>10 DEF ReadStep, GetForUser, ListForUser, ScheduleRoom,
         RoomSchedule, FreeRooms, VerdictOf, ConflictPath
    <2>2. \/ pc'[s] = "schedule" /\ UNCHANGED <<txn, answer>>
          \/ /\ pc'[s] = "done" /\ txn'[s] = "aborted"
             /\ answer'[s] \notin {"booking_conflict", "booking_already_cancelled"}
      BY <1>10 DEF ReadStep, GetForUser, ListForUser, ScheduleRoom,
         RoomSchedule, FreeRooms, ReplyRows, Refuse, Reply, Goto, TypeOK
    <2> QED
      BY <1>0, <2>1, <2>2 DEF VerdictOf, ConflictPath
  <1>11. CASE Refresh(s)
    BY <1>11 DEF Refresh, Reply, Flow, VerdictOf, TypeOK
  <1>12. CASE Fail(s)
    <2>1. CASE txn[s] = "committed"
      BY <1>12, <2>1 DEF Fail, Reply, VerdictOf, TypeOK
    <2>2. CASE txn[s] # "committed"
      BY <1>0, <1>12, <2>2 DEF Fail, Reply, VerdictOf, TypeOK, ConflictPath, Busy,
         CreatePath, CancelPath, ReadPath
    <2> QED
      BY <2>1, <2>2
  <1> QED
    BY <1>1, <1>2, <1>3, <1>4, <1>5, <1>6, <1>7, <1>8, <1>9, <1>10, <1>11, <1>12
       DEF Steps, HandlerStep, CreateStep, CancelStep

LEMMA TableUntouched ==
    ASSUME NEW s \in Requests, Steps(s), ~Commit(s)
    PROVE  UNCHANGED table
  BY DEF Steps, Submit, HandlerStep, CreateStep, ConflictStep, CancelStep,
     ReadStep, LookupRoom, Precheck, Insert, ExclusionPasses, ExclusionViolated,
     DeadlockVictim, ConflictRoom, ConflictRooms, SlotsRoom, ConflictSlots,
     LockRow, Update, GetForUser, ListForUser, ScheduleRoom, RoomSchedule,
     FreeRooms, Refresh, Fail

(* Each of them is a step of the ledger, or none.                          *)
LEMMA QuietRefines ==
    ASSUME IInv, Silent, NEW s \in Requests, Steps(s), ~Commit(s)
    PROVE  [Ledger!Next]_(Ledger!vars)
  <1>1. Alone(s) /\ UNCHANGED call
    BY StepsAlone DEF IInv
  <1>2. UNCHANGED table
    BY TableUntouched
  <1>3. UNCHANGED LedgerView
    BY <1>2, LedgerUnchanged
  <1>4. VerdictView[s] = VerdictOf(s)
    BY DEF VerdictView
  <1>5. CASE VerdictOf(s)' = VerdictOf(s)
    <2>1. UNCHANGED VerdictView
      BY <1>1, <1>4, <1>5, RuleStep DEF IInv, VerdictView
    <2> QED
      BY <1>1, <1>3, <2>1 DEF Ledger!vars
  <1>6. CASE /\ VerdictOf(s) = "pending" /\ VerdictOf(s)' = "conflict"
             /\ Creates(s) /\ ClashingRows(s) # {}
    <2>1. Ledger!Conflict(s)
      BY <1>1, <1>3, <1>4, <1>6, RuleStep, LedgerFree
         DEF IInv, Ledger!Conflict, Ledger!Rule, Creates
    <2> QED
      BY <2>1 DEF Ledger!Next
  <1>7. CASE /\ VerdictOf(s) = "pending" /\ VerdictOf(s)' = "stale"
             /\ Cancels(s) /\ call[s].target # NoBooking
             /\ Owned(call[s].target, call[s].user)
             /\ table[call[s].target].status = "cancelled"
    <2>1. call[s].target \in Requests
      BY <1>7 DEF IInv, TypeOK, Call
    <2>2. Ledger!Repeat(s)
      BY <1>1, <1>3, <1>4, <1>7, <2>1, RuleStep, LedgerRows
         DEF IInv, Ledger!Repeat, Ledger!Rule, Cancels, Owned
    <2> QED
      BY <2>2 DEF Ledger!Next
  <1>8. CASE /\ VerdictOf(s) \in {"pending", "conflict"}
             /\ VerdictOf(s)' = "closed"
    <2>1. Ledger!Close(s)
      BY <1>1, <1>3, <1>4, <1>8, RuleStep DEF IInv, Ledger!Close, Ledger!Rule
    <2> QED
      BY <2>1 DEF Ledger!Next
  <1> QED
    BY <1>5, <1>6, <1>7, <1>8, QuietVerdict

(* A commit is the instant a create books or a cancel cancels.             *)
LEMMA CommitRefines ==
    ASSUME IInv, Silent, NEW s \in Requests, Commit(s)
    PROVE  Ledger!Next
  <1> USE DEF IInv
  <1>1. Alone(s) /\ UNCHANGED call
    BY StepsAlone DEF Steps, HandlerStep
  <1>2. VerdictView[s] = "pending"
    BY DEF Commit, Flow, Silent, VerdictView, VerdictOf, ConflictPath
  <1>3. VerdictView' = [VerdictView EXCEPT ![s] = "applied"]
    <2>1. VerdictOf(s)' = "applied"
      BY DEF Commit, VerdictOf, TypeOK
    <2> QED
      BY <1>1, <2>1, RuleStep
  <1>4. CASE Creates(s)
    <2>1. table' = [table EXCEPT ![s] = NewRow(s)]
      BY <1>4 DEF Commit, Subject
    <2>2. Ledger!Free(s)
      BY <1>4, LedgerFree DEF Commit, ScanHolds
    <2>3. NewRow(s) # NoBooking
      BY NewRowType, NoBookingAssumption
    <2>4. LedgerView' = [LedgerView EXCEPT ![s] =
            [id |-> s, room |-> call[s].room, user |-> call[s].user,
             start |-> call[s].start, end |-> call[s].end,
             count |-> call[s].count, status |-> "confirmed"]]
      BY <2>1, <2>3 DEF LedgerView, NewRow, TypeOK
    <2>5. Ledger!Book(s)
      BY <1>1, <1>2, <1>3, <1>4, <2>2, <2>4 DEF Ledger!Book, Ledger!Rule, Creates
    <2> QED
      BY <2>5 DEF Ledger!Next
  <1>5. CASE ~Creates(s)
    <2> DEFINE c == call[s].target
    <2>1. /\ Cancels(s) /\ c \in Requests /\ Owned(c, call[s].user)
          /\ table[c].status = "confirmed" /\ table[c] \in Row /\ stamp[s] \in Nat
      BY <1>5 DEF Commit, Flow, LockHolds, Owned, TypeOK, Call
    <2>2. table' = [table EXCEPT ![c] = [table[c] EXCEPT
                       !.status = "cancelled", !.cancelled_at = stamp[s]]]
      BY <1>5 DEF Commit, Subject
    <2>3. table'[c] # NoBooking /\ table[c] # NoBooking
      <3>1. table'[c] \in Row
        BY <2>1, <2>2 DEF TypeOK, Row
      <3> QED
        BY <2>1, <3>1, NoBookingAssumption
    <2>4. LedgerView' = [LedgerView EXCEPT ![c].status = "cancelled"]
      <3>1. \A b \in Requests \ {c} : LedgerView'[b] = LedgerView[b]
        BY <2>1, <2>2 DEF LedgerView, TypeOK
      <3>2. LedgerView'[c] = [LedgerView[c] EXCEPT !.status = "cancelled"]
        BY <2>1, <2>2, <2>3 DEF LedgerView, TypeOK, Row
      <3> QED
        BY <2>1, <3>1, <3>2 DEF LedgerView
    <2>5. Ledger!Cancel(s)
      <3>1. c # NoBooking
        BY <2>1, NoBookingAssumption
      <3>2. /\ LedgerView[c] # NoBooking
            /\ LedgerView[c].user = call[s].user
            /\ LedgerView[c].status = "confirmed"
        BY <2>1, <2>3, LedgerRows DEF Owned
      <3> QED
        BY <1>1, <1>2, <1>3, <2>1, <2>4, <3>1, <3>2
           DEF Ledger!Cancel, Ledger!Rule, Cancels
    <2> QED
      BY <2>5 DEF Ledger!Next
  <1> QED
    BY <1>4, <1>5

(* Every behaviour of the service is one of the ledger: each request takes *)
(* effect at one instant, as if it ran alone.                              *)
THEOREM ServiceImplementsLedger == Spec => ImplementsLedger
  <1>1. Init => Ledger!Init
    BY DEF Init, Ledger!Init, LedgerView, VerdictView, VerdictOf, ConflictPath
  <1>2. IInv /\ Silent /\ [Next]_vars => [Ledger!Next]_(Ledger!vars)
    <2> SUFFICES ASSUME IInv, Silent, [Next]_vars
                 PROVE  [Ledger!Next]_(Ledger!vars)
      OBVIOUS
    <2>1. ASSUME NEW s \in Requests, Steps(s)
          PROVE  [Ledger!Next]_(Ledger!vars)
      BY <2>1, QuietRefines, CommitRefines
    <2>2. CASE UNCHANGED <<table, call, pc, txn, answer>>
      BY <2>2 DEF Ledger!vars, LedgerView, VerdictView, VerdictOf
    <2> QED
      BY <2>1, <2>2, OtherSteps
  <1> QED
    BY <1>1, <1>2, Invariance, SilentUntilDone, PTL
       DEF Spec, ImplementsLedger, Ledger!Spec

----------------------------------------------------------------------------
(* Conflicts, reads and what is stored: what they rest on.                 *)

(* What the handler checked of a create, and when.                         *)
Validated(r) ==
    /\ ValidInterval(call[r])
    /\ call[r].start >= stamp[r]
    /\ call[r].count # AnyCount => call[r].count <= Capacity[call[r].room]

(* The clock was read before, and a cancellation read it after the booking *)
(* it cancels was validated.                                               *)
Stamped(r) ==
    /\ stamp[r] <= now
    /\ pc[r] \in CreatePath \ {"lookup"} \/ (Creates(r) /\ pc[r] = "commit")
         => Validated(r)
    /\ Cancels(r) /\ pc[r] \in {"update", "commit"}
         => stamp[r] >= stamp[call[r].target]

(* A row is of the user of its call, and is cancelled by a cancellation    *)
(* that committed.                                                         *)
RowOfCall(b) ==
    table[b] # NoBooking =>
        /\ table[b].user = call[b].user
        /\ table[b].status = "cancelled" =>
             \E q \in Requests : /\ Cancels(q) /\ call[q].target = b
                                /\ txn[q] = "committed"

(* What was answered before a request arrived stays answered.              *)
BeforeIsDone(r) == \A q \in before[r] : pc[q] = "done"

ReadsItsKind(r) ==
    /\ pc[r] = "get" => call[r].kind = "get"
    /\ pc[r] = "list" => call[r].kind = "list"
    /\ pc[r] \in {"schedule_room", "schedule"} => call[r].kind = "schedule"
    /\ pc[r] = "free" => call[r].kind = "free"

(* What a conflict was decided on: a booking at the requested time whose   *)
(* cancellation was not answered before the request arrived.               *)
Taken(r) ==
    \E b \in Requests :
        /\ table[b] # NoBooking
        /\ call[b].room = call[r].room /\ Overlaps(call[b], call[r])
        /\ ~\E q \in before[r] : answer[q] = "cancelled" /\ call[q].target = b

HistoryInv ==
    /\ \A r \in Requests :
          /\ Stamped(r) /\ RowOfCall(r) /\ BeforeIsDone(r) /\ ReadsItsKind(r)
          /\ VerdictOf(r) = "conflict" => Taken(r)
    /\ RowsWereValid
    /\ ReadsAreCurrent

----------------------------------------------------------------------------
(* What a step leaves alone.                                               *)

(* All of a request but its row.                                           *)
Rests(r) ==
    /\ pc'[r] = pc[r] /\ txn'[r] = txn[r] /\ answer'[r] = answer[r]
    /\ body'[r] = body[r] /\ before'[r] = before[r] /\ stamp'[r] = stamp[r]

LEMMA OthersRest ==
    ASSUME TypeOK, NEW s \in Requests, Steps(s), NEW r \in Requests \ {s}
    PROVE  Rests(r)
  <1>1. pc'[r] = pc[r] /\ txn'[r] = txn[r] /\ answer'[r] = answer[r]
    BY StepsAlone DEF Alone
  <1>2. CASE Submit(s) \/ Fail(s) \/ Commit(s) \/ Refresh(s)
    BY <1>1, <1>2 DEF Submit, Fail, Commit, Refresh, Reply, Rests, TypeOK
  <1>3. CASE CreateStep(s)
    BY <1>1, <1>3 DEF CreateStep, LookupRoom, Precheck, Insert, ExclusionPasses,
       ExclusionViolated, DeadlockVictim, Refuse, Reply, Rests, TypeOK
  <1>4. CASE ConflictStep(s)
    BY <1>1, <1>4 DEF ConflictStep, ConflictRoom, ConflictRooms, SlotsRoom,
       ConflictSlots, Refuse, Reply, Rests, TypeOK
  <1>5. CASE CancelStep(s)
    BY <1>1, <1>5 DEF CancelStep, LockRow, Update, Refuse, Reply, Rests, TypeOK
  <1>6. CASE ReadStep(s)
    BY <1>1, <1>6 DEF ReadStep, GetForUser, ListForUser, ScheduleRoom,
       RoomSchedule, FreeRooms, ReplyRows, Refuse, Reply, Rests, TypeOK
  <1> QED
    BY <1>2, <1>3, <1>4, <1>5, <1>6 DEF Steps, HandlerStep

LEMMA OneMoves ==
    ASSUME TypeOK, [Next]_vars, NEW r \in Requests
    PROVE  Rests(r) \/ Steps(r)
  <1>1. CASE Tick \/ Quiescent \/ (\E room \in Switchable : ToggleRoom(room))
               \/ UNCHANGED vars
    BY <1>1 DEF Tick, Quiescent, ToggleRoom, vars, Rests
  <1>2. ASSUME NEW s \in Requests, Steps(s) PROVE Rests(r) \/ Steps(r)
    BY <1>2, OthersRest
  <1> QED
    BY <1>1, <1>2 DEF Next, Steps

LEMMA DoneRests ==
    ASSUME TypeOK, [Next]_vars, NEW r \in Requests, pc[r] = "done"
    PROVE  Rests(r)
  BY OneMoves, StepsNotDone

LEMMA CallsStay ==
    ASSUME TypeOK, [Next]_vars
    PROVE  UNCHANGED call
  BY StepsAlone, OtherSteps

(* The requests a request found answered are written once.                 *)
LEMMA BeforeOnce ==
    ASSUME TypeOK, [Next]_vars, NEW r \in Requests
    PROVE  \/ before'[r] = before[r] /\ ~Submit(r)
           \/ Submit(r) /\ before'[r] = {q \in Requests : pc[q] = "done"}
  <1>1. CASE Submit(r)
    BY <1>1 DEF Submit, TypeOK
  <1>2. CASE ~Submit(r)
    BY <1>2, OneMoves DEF Rests, Steps, HandlerStep, CreateStep, ConflictStep,
       CancelStep, ReadStep, LookupRoom, Precheck, Insert, ExclusionPasses,
       ExclusionViolated, DeadlockVictim, ConflictRoom, ConflictRooms, SlotsRoom,
       ConflictSlots, LockRow, Update, GetForUser, ListForUser, ScheduleRoom,
       RoomSchedule, FreeRooms, Commit, Refresh, Fail
  <1> QED
    BY <1>1, <1>2

(* The clock is read at two statements, and never goes back.               *)
LEMMA StampStep ==
    ASSUME TypeOK, [Next]_vars, NEW r \in Requests
    PROVE  /\ now' \in Nat /\ now <= now'
           /\ \/ stamp'[r] = stamp[r]
              \/ pc[r] \in {"lookup", "lock"} /\ stamp'[r] = now
  <1>1. now' = now \/ now' = now + 1
    BY DEF Next, Tick, Quiescent, ToggleRoom, vars, Submit, HandlerStep, CreateStep,
       ConflictStep, CancelStep, ReadStep, LookupRoom, Precheck, Insert,
       ExclusionPasses, ExclusionViolated, DeadlockVictim, ConflictRoom,
       ConflictRooms, SlotsRoom, ConflictSlots, LockRow, Update, GetForUser,
       ListForUser, ScheduleRoom, RoomSchedule, FreeRooms, Commit, Refresh, Fail
  <1>2. ASSUME Steps(r)
        PROVE  \/ stamp'[r] = stamp[r]
               \/ pc[r] \in {"lookup", "lock"} /\ stamp'[r] = now
    BY <1>2 DEF TypeOK, Steps, Submit, HandlerStep, CreateStep,
       ConflictStep, CancelStep, ReadStep, LookupRoom, Precheck, Insert,
       ExclusionPasses, ExclusionViolated, DeadlockVictim, ConflictRoom,
       ConflictRooms, SlotsRoom, ConflictSlots, LockRow, Update, GetForUser,
       ListForUser, ScheduleRoom, RoomSchedule, FreeRooms, Commit, Refresh, Fail
  <1> QED
    BY <1>1, <1>2, OneMoves DEF Rests, TypeOK

LEMMA CommittedStays ==
    ASSUME IInv, [Next]_vars, NEW r \in Requests, txn[r] = "committed"
    PROVE  txn'[r] = "committed"
  <1>1. pc[r] \in {"refresh", "done"}
    BY DEF IInv, Flow
  <1>2. ASSUME Steps(r), pc[r] = "refresh" PROVE Refresh(r) \/ Fail(r)
    BY <1>2 DEF Steps, Submit, HandlerStep, CreateStep, ConflictStep, CancelStep,
       ReadStep, LookupRoom, Precheck, Insert, ExclusionPasses, ExclusionViolated,
       DeadlockVictim, ConflictRoom, ConflictRooms, SlotsRoom, ConflictSlots,
       LockRow, Update, GetForUser, ListForUser, ScheduleRoom, RoomSchedule,
       FreeRooms, Commit
  <1>3. Refresh(r) \/ Fail(r) => txn'[r] = "committed"
    BY DEF Refresh, Fail, IInv, TypeOK
  <1> QED
    BY <1>1, <1>2, <1>3, OneMoves, DoneRests DEF Rests, IInv

(* A stored booking keeps its place, and the stamp of its create.          *)
LEMMA RowsStay ==
    ASSUME IInv, [Next]_vars, NEW b \in Requests, table[b] # NoBooking
    PROVE  /\ table'[b] # NoBooking /\ stamp'[b] = stamp[b] /\ Creates(b)
           /\ txn[b] = "committed"
  <1>1. /\ Creates(b) /\ txn[b] = "committed" /\ pc[b] \in {"refresh", "done"}
    BY DEF IInv, Flow
  <1>2. txn'[b] = "committed"
    BY <1>1, CommittedStays
  <1>3. IInv' /\ Creates(b)'
    BY <1>1, IInvStep, CallsStay DEF Creates, IInv
  <1>4. table'[b] # NoBooking
    BY <1>2, <1>3 DEF IInv, Flow, Subject
  <1>5. stamp'[b] = stamp[b]
    BY <1>1, StampStep DEF IInv
  <1> QED
    BY <1>1, <1>4, <1>5

----------------------------------------------------------------------------
(* The history is kept true by every step, one part at a time.             *)

LEMMA HistoryInit == Init => HistoryInv
  <1> SUFFICES ASSUME Init PROVE HistoryInv
    OBVIOUS
  <1>1. ASSUME NEW r \in Requests
        PROVE  /\ Stamped(r) /\ RowOfCall(r) /\ BeforeIsDone(r) /\ ReadsItsKind(r)
               /\ VerdictOf(r) # "conflict"
    BY DEF Init, Stamped, RowOfCall, BeforeIsDone, ReadsItsKind, VerdictOf,
           CreatePath, ConflictPath
  <1>2. RowsWereValid /\ ReadsAreCurrent
    BY DEF Init, RowsWereValid, ReadsAreCurrent
  <1> QED
    BY <1>1, <1>2 DEF HistoryInv

(* The bookings that requests wait on or cancel keep their stamp.          *)
LEMMA LockedStamp ==
    ASSUME IInv, [Next]_vars, NEW r \in Requests,
           Cancels(r), pc[r] \in {"update", "commit"}
    PROVE  stamp'[call[r].target] = stamp[call[r].target]
  <1>1. call[r].target \in Requests /\ table[call[r].target] # NoBooking
    BY DEF IInv, LockHolds, Owned, TypeOK, Call
  <1> QED
    BY <1>1, RowsStay

LEMMA StampedStep ==
    ASSUME IInv, HistoryInv, [Next]_vars, NEW r \in Requests
    PROVE  Stamped(r)'
  <1> USE DEF IInv
  <1>1. /\ UNCHANGED call /\ now \in Nat /\ now' \in Nat /\ now <= now'
        /\ stamp[r] \in Nat /\ Stamped(r)
    BY CallsStay, StampStep DEF TypeOK, HistoryInv
  <1>2. CASE stamp'[r] = stamp[r] /\ pc'[r] = pc[r]
    <2>1. Cancels(r) /\ pc[r] \in {"update", "commit"}
            => stamp'[call[r].target] = stamp[call[r].target]
      BY LockedStamp
    <2> QED
      BY <1>1, <1>2, <2>1 DEF Stamped, Validated, Creates, Cancels
  <1>3. CASE LookupRoom(r)
    <2>1. CASE stamp'[r] = now /\ Verdict(call[r], now) = "valid"
      <3>1. Creates(r)
        BY <1>3 DEF LookupRoom, Flow, CreatePath
      <3>2. /\ call[r].start \in Nat /\ call[r].end \in Nat /\ call[r].count \in Count
            /\ Capacity[call[r].room] \in Nat
        BY RoomsAssumption DEF TypeOK, Call
      <3>3. ValidInterval(call[r])
        BY <2>1 DEF Verdict
      <3>4. call[r].start >= now
        <4>1. ~(call[r].start < now)
          BY <2>1, <3>3 DEF Verdict
        <4> QED
          BY <1>1, <3>2, <4>1
      <3>5. call[r].count # AnyCount => call[r].count <= Capacity[call[r].room]
        <4>1. call[r].count # AnyCount => ~(call[r].count > Capacity[call[r].room])
          BY <2>1, <3>3, <3>4 DEF Verdict
        <4> QED
          BY <3>2, <4>1 DEF Count
      <3> QED
        BY <1>1, <2>1, <3>1, <3>3, <3>4, <3>5 DEF Stamped, Validated, Creates, Cancels
    <2>2. CASE stamp'[r] \in {stamp[r], now} /\ pc'[r] = "done"
      BY <1>1, <2>2 DEF Stamped, CreatePath
    <2> QED
      BY <1>3, <2>1, <2>2 DEF LookupRoom, Refuse, Reply, TypeOK
  <1>4. CASE LockRow(r)
    <2> DEFINE b == call[r].target
    <2>1. CASE stamp'[r] = stamp[r] /\ pc'[r] = "done"
      BY <1>1, <2>1 DEF Stamped, CreatePath
    <2>2. CASE stamp'[r] = now /\ pc'[r] = "update" /\ Owned(b, call[r].user)
               /\ b # NoBooking
      <3>1. b \in Requests /\ stamp'[b] = stamp[b]
        BY <2>2, RowsStay DEF Owned, TypeOK, Call
      <3>2. stamp[b] <= now
        BY <3>1 DEF HistoryInv, Stamped
      <3> QED
        BY <1>1, <2>2, <3>1, <3>2 DEF Stamped, CreatePath
    <2> QED
      BY <1>4, <2>1, <2>2 DEF LockRow, Refuse, Reply, Goto, TypeOK
  <1>5. CASE Precheck(r) \/ Insert(r) \/ ExclusionPasses(r)
    BY <1>1, <1>5 DEF Precheck, Insert, ExclusionPasses, Goto, TypeOK, Stamped,
       Validated, Creates, Cancels, CreatePath, Flow
  <1>6. CASE Update(r)
    <2>1. /\ Cancels(r) /\ pc[r] = "update" /\ pc'[r] = "commit"
          /\ stamp'[r] = stamp[r]
      BY <1>6 DEF Update, Goto, TypeOK, Flow, CancelPath
    <2>2. stamp'[call[r].target] = stamp[call[r].target]
      BY <2>1, LockedStamp
    <2> QED
      BY <1>1, <2>1, <2>2 DEF Stamped, Cancels, Creates, CreatePath
  <1>7. ASSUME Steps(r), ~LookupRoom(r), ~LockRow(r), ~Precheck(r), ~Insert(r),
               ~ExclusionPasses(r), ~Update(r)
        PROVE  /\ stamp'[r] = stamp[r]
               /\ pc'[r] \notin (CreatePath \ {"lookup"}) \cup {"update", "commit"}
    <2>1. CASE Submit(r)
      <3>1. call[r].kind \in Kinds
        BY DEF TypeOK, Call
      <3> QED
        BY <2>1, <3>1 DEF Submit, Goto, FirstStatement, Kinds, CreatePath, TypeOK
    <2>2. CASE ExclusionViolated(r) \/ DeadlockVictim(r) \/ ConflictStep(r)
      BY <2>2 DEF ExclusionViolated, DeadlockVictim, ConflictStep, ConflictRoom,
         ConflictRooms, SlotsRoom, ConflictSlots, Refuse, Reply, Goto, CreatePath,
         TypeOK
    <2>3. CASE ReadStep(r)
      BY <2>3 DEF ReadStep, GetForUser, ListForUser, ScheduleRoom, RoomSchedule,
         FreeRooms, ReplyRows, Refuse, Reply, Goto, CreatePath, TypeOK
    <2>4. CASE Commit(r) \/ Refresh(r) \/ Fail(r)
      BY <2>4 DEF Commit, Refresh, Fail, Reply, Goto, CreatePath, TypeOK
    <2> QED
      BY <1>7, <2>1, <2>2, <2>3, <2>4 DEF Steps, HandlerStep, CreateStep, CancelStep
  <1>8. CASE /\ stamp'[r] = stamp[r]
             /\ pc'[r] \notin (CreatePath \ {"lookup"}) \cup {"update", "commit"}
    BY <1>1, <1>8 DEF Stamped
  <1> QED
    BY <1>2, <1>3, <1>4, <1>5, <1>6, <1>7, <1>8, OneMoves DEF Rests

(* The same, of one row.                                                   *)
LEMMA RowStep ==
    ASSUME IInv, [Next]_vars, NEW b \in Requests
    PROVE  \/ table'[b] = table[b]
           \/ Commit(b) /\ Creates(b) /\ table'[b] = NewRow(b)
           \/ \E s \in Requests :
                /\ Commit(s) /\ Cancels(s) /\ b = call[s].target
                /\ Owned(b, call[s].user)
                /\ table'[b] = [table[b] EXCEPT !.status = "cancelled",
                                               !.cancelled_at = stamp[s]]
  <1>1. CASE UNCHANGED table
    BY <1>1
  <1>2. ASSUME NEW s \in Requests, Commit(s), Creates(s),
               table' = [table EXCEPT ![s] = NewRow(s)]
        PROVE  table'[b] = table[b] \/ (b = s /\ table'[b] = NewRow(b))
    BY <1>2 DEF IInv, TypeOK
  <1>3. ASSUME NEW s \in Requests, Commit(s), Cancels(s),
               call[s].target \in Requests, Owned(call[s].target, call[s].user),
               table' = [table EXCEPT ![call[s].target] =
                    [table[call[s].target] EXCEPT !.status = "cancelled",
                                                  !.cancelled_at = stamp[s]]]
        PROVE  \/ table'[b] = table[b]
               \/ /\ b = call[s].target
                  /\ table'[b] = [table[b] EXCEPT !.status = "cancelled",
                                                 !.cancelled_at = stamp[s]]
    BY <1>3 DEF IInv, TypeOK
  <1> QED
    BY <1>1, <1>2, <1>3, TableStep

LEMMA RowsValidStep ==
    ASSUME IInv, HistoryInv, [Next]_vars
    PROVE  RowsWereValid'
  <1> USE DEF IInv
  <1>1. SUFFICES ASSUME NEW b \in Requests, table'[b] # NoBooking
                 PROVE  /\ ValidInterval(table'[b])
                        /\ table'[b].start >= stamp'[b]
                        /\ table'[b].count # AnyCount
                             => table'[b].count <= Capacity[table'[b].room]
                        /\ table'[b].status = "cancelled"
                             <=> table'[b].cancelled_at # NoTime
                        /\ table'[b].status = "cancelled"
                             => /\ table'[b].cancelled_at >= stamp'[b]
                                /\ table'[b].cancelled_at <= now'
    BY DEF RowsWereValid, ValidInterval
  <1>2. now \in Nat /\ now' \in Nat /\ now <= now' /\ RowsWereValid
    BY StampStep DEF TypeOK, HistoryInv
  <1>3. CASE table'[b] = table[b]
    <2>1. table[b] \in Row /\ stamp'[b] = stamp[b]
      BY <1>1, <1>3, RowsStay DEF TypeOK
    <2>2. table[b].status = "cancelled" => table[b].cancelled_at <= now'
      BY <1>1, <1>2, <1>3, <2>1 DEF RowsWereValid, Row, NoTime
    <2> QED
      BY <1>1, <1>2, <1>3, <2>1, <2>2 DEF RowsWereValid
  <1>4. CASE Commit(b) /\ Creates(b) /\ table'[b] = NewRow(b)
    <2>1. Validated(b) /\ stamp'[b] = stamp[b]
      BY <1>4 DEF HistoryInv, Stamped, Commit
    <2> QED
      BY <1>4, <2>1 DEF Validated, NewRow, ValidInterval, NoTime
  <1>5. ASSUME NEW s \in Requests, Commit(s), Cancels(s), b = call[s].target,
               Owned(b, call[s].user),
               table'[b] = [table[b] EXCEPT !.status = "cancelled",
                                            !.cancelled_at = stamp[s]]
        PROVE  /\ ValidInterval(table'[b])
               /\ table'[b].start >= stamp'[b]
               /\ table'[b].count # AnyCount
                    => table'[b].count <= Capacity[table'[b].room]
               /\ table'[b].status = "cancelled" <=> table'[b].cancelled_at # NoTime
               /\ table'[b].cancelled_at >= stamp'[b]
               /\ table'[b].cancelled_at <= now'
    <2>1. table[b] \in Row /\ table[b] # NoBooking /\ stamp[s] \in Nat
      BY <1>5 DEF Owned, TypeOK
    <2>2. stamp'[b] = stamp[b] /\ stamp[s] >= stamp[b] /\ stamp[s] <= now
      BY <1>5, <2>1, RowsStay DEF HistoryInv, Stamped, Commit
    <2>3. /\ ValidInterval(table[b]) /\ table[b].start >= stamp[b]
          /\ table[b].count # AnyCount => table[b].count <= Capacity[table[b].room]
      BY <1>2, <2>1 DEF RowsWereValid
    <2>4. /\ table'[b].status = "cancelled" /\ table'[b].cancelled_at = stamp[s]
          /\ table'[b].room = table[b].room /\ table'[b].start = table[b].start
          /\ table'[b].end = table[b].end /\ table'[b].count = table[b].count
      BY <1>5, <2>1 DEF Row
    <2>5. stamp[s] # NoTime /\ stamp[s] <= now'
      BY <1>2, <2>1, <2>2 DEF NoTime
    <2> QED
      BY <2>2, <2>3, <2>4, <2>5 DEF ValidInterval
  <1>6. \/ table'[b] = table[b]
        \/ Commit(b) /\ Creates(b) /\ table'[b] = NewRow(b)
        \/ \E s \in Requests :
             /\ Commit(s) /\ Cancels(s) /\ b = call[s].target
             /\ Owned(b, call[s].user)
             /\ table'[b] = [table[b] EXCEPT !.status = "cancelled",
                                            !.cancelled_at = stamp[s]]
    BY RowStep
  <1> QED
    BY <1>3, <1>4, <1>5, <1>6

LEMMA RowOfCallStep ==
    ASSUME IInv, HistoryInv, [Next]_vars, NEW b \in Requests
    PROVE  RowOfCall(b)'
  <1> USE DEF IInv
  <1>1. UNCHANGED call /\ RowOfCall(b)
    BY CallsStay DEF HistoryInv
  <1>2. \A q \in Requests : txn[q] = "committed" => txn'[q] = "committed"
    BY CommittedStays
  <1>3. CASE table'[b] = table[b]
    BY <1>1, <1>2, <1>3 DEF RowOfCall, Cancels
  <1>4. CASE table'[b] = NewRow(b)
    BY <1>1, <1>4 DEF RowOfCall, NewRow
  <1>5. ASSUME NEW s \in Requests, Commit(s), Cancels(s), b = call[s].target,
               Owned(b, call[s].user),
               table'[b] = [table[b] EXCEPT !.status = "cancelled",
                                            !.cancelled_at = stamp[s]]
        PROVE  RowOfCall(b)'
    <2>1. table[b] \in Row /\ table[b] # NoBooking /\ stamp[s] \in Nat
      BY <1>5 DEF Owned, TypeOK
    <2>2. table'[b].user = table[b].user
      BY <1>5, <2>1 DEF Row
    <2>3. txn'[s] = "committed"
      BY <1>5 DEF Commit, TypeOK
    <2> QED
      BY <1>1, <1>5, <2>1, <2>2, <2>3 DEF RowOfCall, Cancels
  <1>6. \/ table'[b] = table[b]
        \/ Commit(b) /\ Creates(b) /\ table'[b] = NewRow(b)
        \/ \E s \in Requests :
             /\ Commit(s) /\ Cancels(s) /\ b = call[s].target
             /\ Owned(b, call[s].user)
             /\ table'[b] = [table[b] EXCEPT !.status = "cancelled",
                                            !.cancelled_at = stamp[s]]
    BY RowStep
  <1> QED
    BY <1>3, <1>4, <1>5, <1>6

LEMMA BeforeStep ==
    ASSUME IInv, HistoryInv, [Next]_vars, NEW r \in Requests
    PROVE  BeforeIsDone(r)'
  <1>1. \A q \in Requests : pc[q] = "done" => pc'[q] = "done"
    BY DoneRests DEF Rests, IInv
  <1>2. before[r] \subseteq Requests /\ BeforeIsDone(r)
    BY DEF IInv, TypeOK, HistoryInv
  <1> QED
    BY <1>1, <1>2, BeforeOnce DEF BeforeIsDone, IInv

LEMMA KindStep ==
    ASSUME IInv, HistoryInv, [Next]_vars, NEW r \in Requests
    PROVE  ReadsItsKind(r)'
  <1> USE DEF IInv
  <1>1. UNCHANGED call /\ ReadsItsKind(r)
    BY CallsStay DEF HistoryInv
  <1>2. CASE pc'[r] = pc[r] \/ pc'[r] \notin ReadPath
    BY <1>1, <1>2 DEF ReadsItsKind, ReadPath
  <1>3. CASE Submit(r)
    <2>1. call[r].kind \in Kinds
      BY DEF TypeOK, Call
    <2> QED
      BY <1>1, <1>3, <2>1
         DEF Submit, Goto, FirstStatement, Kinds, ReadsItsKind, TypeOK
  <1>4. CASE ReadStep(r)
    BY <1>1, <1>4 DEF ReadStep, GetForUser, ListForUser, ScheduleRoom,
       RoomSchedule, FreeRooms, ReplyRows, Refuse, Reply, Goto, ReadsItsKind, TypeOK
  <1>5. CASE CreateStep(r) \/ ConflictStep(r) \/ CancelStep(r)
    BY <1>2, <1>5 DEF CreateStep, LookupRoom, Precheck, Insert, ExclusionPasses,
       ExclusionViolated, DeadlockVictim, ConflictStep, ConflictRoom,
       ConflictRooms, SlotsRoom, ConflictSlots, CancelStep, LockRow, Update,
       Refuse, Reply, Goto, ReadPath, TypeOK
  <1>6. CASE Commit(r) \/ Refresh(r) \/ Fail(r)
    BY <1>2, <1>6 DEF Commit, Refresh, Fail, Reply, Goto, ReadPath, TypeOK
  <1> QED
    BY <1>2, <1>3, <1>4, <1>5, <1>6, OneMoves DEF Rests, Steps, HandlerStep

(* A slot that was taken when a conflict was decided stays taken.          *)
LEMMA TakenStays ==
    ASSUME IInv, HistoryInv, [Next]_vars, NEW r \in Requests,
           Taken(r), before'[r] = before[r]
    PROVE  Taken(r)'
  <1>1. PICK b \in Requests :
          /\ table[b] # NoBooking
          /\ call[b].room = call[r].room /\ Overlaps(call[b], call[r])
          /\ ~\E q \in before[r] : answer[q] = "cancelled" /\ call[q].target = b
    BY DEF Taken
  <1>2. UNCHANGED call
    BY CallsStay DEF IInv
  <1>3. \A q \in before[r] : answer'[q] = answer[q]
    BY DoneRests DEF Rests, IInv, TypeOK, HistoryInv, BeforeIsDone
  <1>4. table'[b] # NoBooking
    BY <1>1, RowsStay
  <1> QED
    BY <1>1, <1>2, <1>3, <1>4 DEF Taken, Overlaps

LEMMA ConflictTaken ==
    ASSUME IInv, Silent, AnswerFate, HistoryInv, [Next]_vars,
           NEW r \in Requests, VerdictOf(r)' = "conflict"
    PROVE  Taken(r)'
  <1> USE DEF IInv
  <1>1. UNCHANGED call
    BY CallsStay
  <1>2. CASE Rests(r)
    <2>1. VerdictOf(r) = "conflict" /\ before'[r] = before[r]
      BY <1>2 DEF Rests, VerdictOf
    <2> QED
      BY <2>1, TakenStays DEF HistoryInv
  <1>3. CASE Steps(r) /\ VerdictOf(r) = "conflict"
    <2>1. pc[r] # "idle"
      BY <1>3, StepsNotDone DEF VerdictOf, ConflictPath, Silent
    <2>2. before'[r] = before[r]
      BY <2>1, BeforeOnce DEF Submit
    <2> QED
      BY <1>3, <2>2, TakenStays DEF HistoryInv
  <1>4. CASE Steps(r) /\ VerdictOf(r) # "conflict"
    <2>1. ~Commit(r)
      BY DEF Commit, VerdictOf, TypeOK
    <2>2. ClashingRows(r) # {} /\ UNCHANGED table
      BY <1>4, <2>1, QuietVerdict, TableUntouched
    <2>3. PICK b \in Requests :
            table[b] # NoBooking /\ Clashes(table[b], call[r].room, call[r])
      BY <2>2 DEF ClashingRows
    <2>4. call[b].room = call[r].room /\ Overlaps(call[b], call[r])
      BY <2>3 DEF Flow, Clashes, Overlaps
    <2>5. table'[b].status = "confirmed" /\ table'[b] # NoBooking
      BY <2>2, <2>3 DEF Clashes
    <2>6. AnswerFate' /\ IInv'
      BY FateStep, IInvStep
    <2>7. ASSUME NEW q \in Requests, answer'[q] = "cancelled", call'[q].target = b
          PROVE  FALSE
      <3>1. Cancels(q)' /\ txn'[q] = "committed"
        BY <2>6, <2>7 DEF AnswerFate
      <3>2. Subject(q)' = b
        BY <2>7, <3>1 DEF Subject, Cancels, Creates
      <3> QED
        BY <2>5, <2>6, <3>1, <3>2 DEF Flow
    <2>8. before'[r] \subseteq Requests
      BY <2>6 DEF TypeOK
    <2> QED
      BY <1>1, <2>4, <2>5, <2>7, <2>8 DEF Taken, Overlaps
  <1> QED
    BY <1>2, <1>3, <1>4, OneMoves

(* The answers of the reads, one read at a time.                           *)
LEMMA ReadsStep ==
    ASSUME IInv, Silent, AnswerFate, HistoryInv, [Next]_vars
    PROVE  ReadsAreCurrent'
  <1> USE DEF IInv
  <1>1. SUFFICES ASSUME NEW r \in Requests, NEW b \in before'[r],
                        answer'[r] = "ok", answer'[b] = "created"
                 PROVE  Listed(r, b)' /\ Scheduled(r, b)'
    BY DEF ReadsAreCurrent
  <1>2. UNCHANGED call
    BY CallsStay
  <1>3. \A q \in before[r] : q \in Requests /\ pc[q] = "done" /\ Rests(q)
    BY DoneRests DEF TypeOK, HistoryInv, BeforeIsDone
  <1>4. CASE answer[r] = "ok"
    <2>1. Rests(r) /\ b \in before[r]
      BY <1>1, <1>4, DoneRests DEF Silent, Rests
    <2>2. Listed(r, b) /\ Scheduled(r, b)
      BY <1>1, <1>3, <1>4, <2>1 DEF HistoryInv, ReadsAreCurrent, Rests
    <2>3. Listed(r, b)'
      BY <1>2, <1>3, <2>1, <2>2 DEF Listed, Rests
    <2>4. Scheduled(r, b)'
      BY <1>2, <2>1, <2>2, CommittedStays DEF Scheduled, Overlaps, Cancels, Rests
    <2> QED
      BY <2>3, <2>4
  <1>5. CASE answer[r] # "ok"
    <2>1. Steps(r) /\ ~Submit(r)
      BY <1>1, <1>5, OneMoves DEF Rests, Submit
    <2>2. ReadStep(r)
      <3>1. ~CreateStep(r)
        BY <1>1, <1>5 DEF CreateStep, LookupRoom, Verdict, Precheck, Insert,
           ExclusionPasses, ExclusionViolated, DeadlockVictim, Refuse, Reply, TypeOK
      <3>2. ~ConflictStep(r) /\ ~CancelStep(r)
        BY <1>1, <1>5 DEF ConflictStep, ConflictRoom, ConflictRooms, SlotsRoom,
           ConflictSlots, CancelStep, LockRow, Update, Refuse, Reply, TypeOK
      <3>3. ~Commit(r) /\ ~Refresh(r) /\ ~Fail(r)
        BY <1>1, <1>5 DEF Commit, Refresh, Fail, Reply, TypeOK
      <3> QED
        BY <2>1, <3>1, <3>2, <3>3 DEF Steps, HandlerStep
    <2>3. b \in before[r] /\ b \in Requests /\ answer[b] = "created"
      BY <1>1, <1>3, <2>1, BeforeOnce DEF Rests
    <2>4. /\ Creates(b) /\ table[b] \in Row /\ table[b] # NoBooking
          /\ table[b].id = b /\ table[b].room = call[b].room
          /\ table[b].start = call[b].start /\ table[b].end = call[b].end
          /\ table[b].user = call[b].user
          /\ table[b] \in Rows
      <3>1. Creates(b) /\ txn[b] = "committed"
        BY <2>3 DEF AnswerFate
      <3>2. table[b] # NoBooking
        BY <2>3, <3>1 DEF Flow, Subject
      <3> QED
        BY <2>3, <3>1, <3>2 DEF Flow, TypeOK, Rows, HistoryInv, RowOfCall
    <2>5. ASSUME NEW q \in before'[r], answer'[q] = "cancelled", call'[q].target = b
          PROVE  table[b].status = "cancelled"
      <3>1. q \in Requests /\ Cancels(q) /\ txn[q] = "committed"
        BY <1>3, <2>1, <2>5, BeforeOnce DEF Rests, AnswerFate
      <3> QED
        BY <1>2, <2>5, <3>1 DEF Flow, Subject, Cancels, Creates
    <2>6. ASSUME NEW rows \in SUBSET Row, ReplyRows(r, rows)
          PROVE  body'[r].rows = rows
      BY <2>6 DEF ReplyRows, Reply, EmptyBody, TypeOK
    <2>7. CASE GetForUser(r) \/ FreeRooms(r)
      BY <1>2, <2>7 DEF GetForUser, FreeRooms, HistoryInv, ReadsItsKind,
         Listed, Scheduled
    <2>8. CASE ListForUser(r)
      <3> DEFINE rows == {row \in Rows : row.user = call[r].user}
      <3>1. call[r].kind = "list"
        BY <2>8 DEF ListForUser, HistoryInv, ReadsItsKind
      <3>2. rows \in SUBSET Row /\ ReplyRows(r, rows)
        BY <2>8, RowsType DEF ListForUser
      <3>3. body'[r].rows = rows
        BY <2>6, <3>2
      <3>4. call[r].user = call[b].user => table[b] \in body'[r].rows
        BY <2>4, <3>3
      <3> HIDE DEF rows
      <3> QED
        BY <1>2, <2>4, <2>5, <3>1, <3>4 DEF Listed, Scheduled
    <2>9. CASE RoomSchedule(r)
      <3> DEFINE rows == ConfirmedOverlapping(Rows, call[r].room, call[r])
      <3>1. call[r].kind = "schedule"
        BY <2>9 DEF RoomSchedule, HistoryInv, ReadsItsKind
      <3>2. rows \in SUBSET Row /\ ReplyRows(r, rows)
        BY <2>9, RowsType DEF RoomSchedule, ConfirmedOverlapping
      <3>3. body'[r].rows = rows
        BY <2>6, <3>2
      <3>4. ASSUME call[r].room = call[b].room, Overlaps(call[b], call[r]),
                   table[b].status = "confirmed"
            PROVE  table[b] \in body'[r].rows
        BY <2>4, <3>3, <3>4 DEF ConfirmedOverlapping, Clashes, Overlaps
      <3>5. ASSUME table[b].status # "confirmed"
            PROVE  \E q \in Requests : /\ Cancels(q) /\ call[q].target = b
                                       /\ txn'[q] = "committed"
        <4>1. table[b].status = "cancelled"
          BY <2>4, <3>5 DEF Row
        <4> QED
          BY <2>3, <2>4, <4>1, CommittedStays DEF HistoryInv, RowOfCall
      <3> HIDE DEF rows
      <3> QED
        BY <1>2, <2>4, <3>1, <3>4, <3>5 DEF Listed, Scheduled, Overlaps, Cancels
    <2>10. ~ScheduleRoom(r)
      BY <1>1, <1>5 DEF ScheduleRoom, Refuse, Reply, TypeOK
    <2> QED
      BY <2>2, <2>7, <2>8, <2>9, <2>10 DEF ReadStep
  <1> QED
    BY <1>4, <1>5

THEOREM HistoryInvariance == Spec => []HistoryInv
  <1>1. IInv /\ Silent /\ AnswerFate /\ HistoryInv /\ [Next]_vars => HistoryInv'
    BY StampedStep, RowOfCallStep, BeforeStep, KindStep, ConflictTaken,
       RowsValidStep, ReadsStep DEF HistoryInv
  <1> QED
    BY <1>1, HistoryInit, Invariance, SilentUntilDone, FateInvariance, PTL DEF Spec

(* What is stored was valid when it was validated, and no cancellation is   *)
(* dated before the booking it cancels.                                    *)
THEOREM StoredRowsWereValid == Spec => []RowsWereValid
  <1>1. HistoryInv => RowsWereValid
    BY DEF HistoryInv
  <1> QED
    BY <1>1, HistoryInvariance, PTL

(* A conflict is never reported for a slot that was free throughout the     *)
(* request, whatever was created and cancelled meanwhile.                  *)
THEOREM ConflictsAreReal == Spec => []ConflictIsReal
  <1>1. ASSUME IInv, AnswerFate, HistoryInv
        PROVE  ConflictIsReal
    <2> SUFFICES ASSUME NEW r \in Requests, answer[r] = "booking_conflict"
                 PROVE  \E b \in Requests :
                          /\ table[b] # NoBooking
                          /\ Clashes([table[b] EXCEPT !.status = "confirmed"],
                                     call[r].room, call[r])
                          /\ ~\E q \in before[r] :
                                answer[q] = "cancelled" /\ call[q].target = b
      BY DEF ConflictIsReal
    <2>1. txn[r] = "aborted"
      BY <1>1 DEF AnswerFate
    <2>2. Taken(r)
      BY <1>1, <2>1 DEF HistoryInv, VerdictOf
    <2>3. PICK b \in Requests :
            /\ table[b] # NoBooking
            /\ call[b].room = call[r].room /\ Overlaps(call[b], call[r])
            /\ ~\E q \in before[r] : answer[q] = "cancelled" /\ call[q].target = b
      BY <2>2 DEF Taken
    <2>4. /\ table[b] \in Row
          /\ table[b].room = call[b].room
          /\ table[b].start = call[b].start /\ table[b].end = call[b].end
      BY <1>1, <2>3 DEF IInv, TypeOK, Flow
    <2>5. Clashes([table[b] EXCEPT !.status = "confirmed"], call[r].room, call[r])
      BY <2>3, <2>4 DEF Clashes, Overlaps, Row
    <2> QED
      BY <2>3, <2>5
  <1> QED
    BY <1>1, Invariance, FateInvariance, HistoryInvariance, PTL

(* A user reads what was answered before: a booking whose 201 came first is *)
(* in the list and in the room's schedule, a cancellation that was          *)
(* answered first is shown.                                                *)
THEOREM ReadYourWrites == Spec => []ReadsAreCurrent
  <1>1. HistoryInv => ReadsAreCurrent
    BY DEF HistoryInv
  <1> QED
    BY <1>1, HistoryInvariance, PTL

----------------------------------------------------------------------------
(* The alternatives that a conflict offers.                                *)

(* A LIMIT keeps no more than its number, of any total order: an element   *)
(* is kept when fewer than the limit precede it, and no two elements are   *)
(* preceded by equally many.                                               *)
LEMMA LimitKeepsFew ==
    ASSUME NEW S, IsFiniteSet(S), NEW preceding \in [S -> SUBSET S],
           \A a \in S : a \notin preceding[a],
           \A a, b \in S : a # b =>
              \/ a \in preceding[b] /\ preceding[a] \subseteq preceding[b]
              \/ b \in preceding[a] /\ preceding[b] \subseteq preceding[a],
           NEW limit \in Nat
    PROVE  LET kept == {a \in S : Cardinality(preceding[a]) < limit}
           IN  IsFiniteSet(kept) /\ Cardinality(kept) <= limit
  <1> DEFINE kept == {a \in S : Cardinality(preceding[a]) < limit}
             places == 0 .. (limit - 1)
             place == [a \in kept |-> Cardinality(preceding[a])]
  <1>1. \A a \in S : IsFiniteSet(preceding[a]) /\ Cardinality(preceding[a]) \in Nat
    BY FS_Subset, FS_CardinalityType
  <1>2. ASSUME NEW a \in S, NEW b \in S, a \in preceding[b],
               preceding[a] \subseteq preceding[b]
        PROVE  Cardinality(preceding[a]) # Cardinality(preceding[b])
    <2>1. preceding[a] # preceding[b]
      BY <1>2
    <2>2. IsFiniteSet(preceding[b]) /\ preceding[a] \in SUBSET preceding[b]
      BY <1>1, <1>2
    <2> QED
      BY <2>1, <2>2, FS_Subset
  <1>3. \A a, b \in S :
          a # b => Cardinality(preceding[a]) # Cardinality(preceding[b])
    BY <1>2
  <1>4. place \in [kept -> places]
    BY <1>1
  <1>5. place \in Injection(kept, places)
    BY <1>3, <1>4 DEF Injection, IsInjective
  <1>6. IsFiniteSet(places) /\ Cardinality(places) = limit
    <2>1. 0 \in Int /\ limit - 1 \in Int
      OBVIOUS
    <2>2. /\ IsFiniteSet(places)
          /\ Cardinality(places)
               = IF 0 > limit - 1 THEN 0 ELSE (limit - 1) - 0 + 1
      BY <2>1, FS_Interval
    <2> QED
      BY <2>2
  <1> HIDE DEF kept, places, place
  <1>7. IsFiniteSet(kept) /\ Cardinality(kept) <= Cardinality(places)
    BY <1>5, <1>6, FS_Injection
  <1> QED
    BY <1>6, <1>7 DEF kept

(* So of rooms, and of the starts of slots.                                *)
LEMMA FewRooms ==
    ASSUME NEW S \in SUBSET Rooms
    PROVE  Cardinality(FirstRooms(S)) <= AlternativeLimit
  <1> DEFINE preceding == [a \in S |-> {b \in S : Before(b, a)}]
  <1>1. IsFiniteSet(S)
    BY FS_Subset, RoomsAssumption
  <1>2. \A a \in S : Capacity[a] \in Nat /\ NameOrder[a] \in Nat
    BY RoomsAssumption
  <1>3. \A a, b \in S : a # b => NameOrder[a] # NameOrder[b]
    BY RoomsAssumption
  <1>4. /\ \A a \in S : ~Before(a, a)
        /\ \A a, b \in S : a # b => Before(a, b) \/ Before(b, a)
        /\ \A a, b, c \in S : Before(a, b) /\ Before(b, c) => Before(a, c)
    BY <1>2, <1>3 DEF Before
  <1>5. preceding \in [S -> SUBSET S]
    OBVIOUS
  <1>6. \A a \in S : a \notin preceding[a]
    BY <1>4
  <1>7. \A a, b \in S : a # b =>
           \/ a \in preceding[b] /\ preceding[a] \subseteq preceding[b]
           \/ b \in preceding[a] /\ preceding[b] \subseteq preceding[a]
    BY <1>4
  <1>8. FirstRooms(S) = {a \in S : Cardinality(preceding[a]) < AlternativeLimit}
    BY DEF FirstRooms
  <1> HIDE DEF preceding
  <1> QED
    BY <1>1, <1>5, <1>6, <1>7, <1>8, LimitKeepsFew, SlotAssumption

LEMMA FewStarts ==
    ASSUME NEW S, IsFiniteSet(S)
    PROVE  S \subseteq Nat => Cardinality(FirstStarts(S)) <= AlternativeLimit
  <1> DEFINE preceding == [a \in S |-> {b \in S : b < a}]
             ordered == /\ \A a \in S : a \notin preceding[a]
                        /\ \A a, b \in S : a # b =>
                              \/ /\ a \in preceding[b]
                                 /\ preceding[a] \subseteq preceding[b]
                              \/ /\ b \in preceding[a]
                                 /\ preceding[b] \subseteq preceding[a]
  <1>1. ASSUME S \subseteq Nat PROVE ordered
    <2>1. /\ \A a \in S : ~(a < a)
          /\ \A a, b \in S : a # b => a < b \/ b < a
          /\ \A a, b, c \in S : a < b /\ b < c => a < c
      BY <1>1
    <2> QED
      BY <2>1
  <1>2. preceding \in [S -> SUBSET S] /\ AlternativeLimit \in Nat
    BY SlotAssumption
  <1>3. FirstStarts(S) = {a \in S : Cardinality(preceding[a]) < AlternativeLimit}
    BY DEF FirstStarts
  <1> HIDE DEF preceding
  <1>4. ASSUME ordered PROVE Cardinality(FirstStarts(S)) <= AlternativeLimit
    BY <1>2, <1>3, <1>4, LimitKeepsFew
  <1> QED
    BY <1>1, <1>4

(* The grid is finite, and lies behind the requested start.                *)
LEMMA GridIsLater ==
    ASSUME TypeOK, NEW r \in Requests
    PROVE  /\ IsFiniteSet(Grid(call[r]))
           /\ \A s \in Grid(call[r]) : s \in Nat /\ s > call[r].start
  <1> DEFINE steps == 1 .. SlotSearchHorizon
             start == [k \in steps |-> call[r].start + k * SlotGranularity]
  <1>1. /\ call[r].start \in Nat /\ SlotGranularity \in Nat \ {0}
        /\ SlotSearchHorizon \in Nat
    BY SlotAssumption DEF TypeOK, Call
  <1>2. ASSUME NEW k \in steps
        PROVE  /\ call[r].start + k * SlotGranularity \in Nat
               /\ call[r].start + k * SlotGranularity > call[r].start
    <2>1. k \in Nat \ {0}
      BY <1>1
    <2>2. PICK d \in Nat : SlotGranularity = d + 1
      BY <1>1
    <2>3. k * SlotGranularity = k * d + k /\ k * d \in Nat
      BY <2>1, <2>2
    <2> HIDE DEF steps
    <2> QED
      BY <1>1, <2>1, <2>3
  <1>3. \A s \in Grid(call[r]) : s \in Nat /\ s > call[r].start
    BY <1>2 DEF Grid
  <1>4. start \in Surjection(steps, Grid(call[r]))
    BY DEF Surjection, Grid
  <1>5. IsFiniteSet(steps)
    BY <1>1, FS_Interval, 1 \in Int, SlotSearchHorizon \in Int
  <1> HIDE DEF steps, start
  <1> QED
    BY <1>3, <1>4, <1>5, FS_Surjection

(* The rooms of an offer, as the query of the free rooms finds them.       *)
LEMMA RoomsAreBookable ==
    ASSUME TypeOK, NEW r \in Requests, NEW rooms,
           rooms = AlternativeRooms(Rows, active, call[r].room, call[r],
                                    call[r].count)
    PROVE  /\ \A room \in rooms :
                /\ room \in active \ {call[r].room}
                /\ call[r].count # AnyCount => Capacity[room] >= call[r].count
                /\ \A b \in Requests : table[b] # NoBooking =>
                       ~Clashes(table[b], room, call[r])
           /\ Cardinality(rooms) <= AlternativeLimit
  <1> DEFINE free == FreeActive(Rows, active, call[r],
                                MinimumCapacity(call[r].room, call[r].count))
                       \ {call[r].room}
  <1>1. free \subseteq Rooms
    BY DEF TypeOK, FreeActive
  <1>2. rooms = FirstRooms(free)
    BY DEF AlternativeRooms
  <1>3. rooms \subseteq free
    BY <1>2 DEF FirstRooms
  <1>4. ASSUME NEW room \in free
        PROVE  /\ room \in active \ {call[r].room}
               /\ call[r].count # AnyCount => Capacity[room] >= call[r].count
               /\ ~HasConfirmedOverlap(Rows, room, call[r])
    BY DEF FreeActive, MinimumCapacity
  <1>5. \A room : ~HasConfirmedOverlap(Rows, room, call[r]) =>
          \A b \in Requests : table[b] # NoBooking =>
             ~Clashes(table[b], room, call[r])
    BY DEF HasConfirmedOverlap, ConfirmedOverlapping, Rows
  <1> HIDE DEF free
  <1> QED
    BY <1>1, <1>2, <1>3, <1>4, <1>5, FewRooms

(* The slots of an offer: the bookings of the search window, loaded once,  *)
(* are all that a slot in it can clash with.                               *)
LEMMA SlotsAreBookable ==
    ASSUME TypeOK, NEW r \in Requests, NEW starts,
           starts = NearestSlots(Rows, call[r].room, call[r])
    PROVE  /\ \A s \in starts :
                /\ s > call[r].start
                /\ \A b \in Requests : table[b] # NoBooking =>
                       ~Clashes(table[b], call[r].room, Slot(call[r], s))
           /\ Cardinality(starts) <= AlternativeLimit
  <1> DEFINE window == SearchWindow(call[r])
             occupied == ConfirmedOverlapping(Rows, call[r].room, window)
             free == FreeStarts(occupied, call[r])
  <1>1. starts = FirstStarts(free)
    BY DEF NearestSlots, NearestAvailableSlots
  <1>2. starts \subseteq free
    BY <1>1 DEF FirstStarts
  <1>3. free \subseteq Grid(call[r])
    BY DEF FreeStarts, CandidateStarts
  <1>4. /\ call[r].start \in Nat /\ call[r].end \in Nat /\ SlotSearchHorizon \in Nat
    BY SlotAssumption DEF TypeOK, Call
  <1>5. ASSUME NEW s \in free, NEW b \in Requests, table[b] # NoBooking,
               Clashes(table[b], call[r].room, Slot(call[r], s))
        PROVE  FALSE
    <2>1. /\ table[b] \in Rows /\ table[b].start \in Nat /\ table[b].end \in Nat
          /\ s \in Nat /\ s > call[r].start
      BY <1>3, <1>5, GridIsLater DEF Rows, TypeOK, Row
    <2>2. Slot(call[r], s).end <= window.end
      BY DEF FreeStarts, CandidateStarts
    <2>3. Overlaps(table[b], Slot(call[r], s))
      BY <1>5 DEF Clashes
    <2>4. Overlaps(table[b], window)
      BY <1>4, <2>1, <2>2, <2>3 DEF Overlaps, Slot, SearchWindow
    <2>5. table[b] \in occupied
      BY <1>5, <2>1, <2>4 DEF ConfirmedOverlapping, Clashes
    <2> QED
      BY <2>3, <2>5 DEF FreeStarts
  <1>6. IsFiniteSet(free) /\ free \subseteq Nat
    BY <1>3, GridIsLater, FS_Subset
  <1> HIDE DEF free
  <1> QED
    BY <1>1, <1>2, <1>3, <1>5, <1>6, GridIsLater, FewStarts

(* The step that answers a conflict.                                       *)
LEMMA ConflictAnswered ==
    ASSUME IInv, [Next]_vars, NEW r \in Requests,
           answer[r] = "none", answer'[r] = "booking_conflict"
    PROVE  \/ /\ body'[r].rooms = AlternativeRooms(Rows, active, call[r].room,
                                                   call[r], call[r].count)
              /\ body'[r].starts = {}
           \/ /\ body'[r].rooms = {}
              /\ body'[r].starts = NearestSlots(Rows, call[r].room, call[r])
  <1> USE DEF IInv
  <1>1. Steps(r)
    BY OneMoves DEF Rests
  <1>2. ~Submit(r) /\ ~Commit(r) /\ ~Refresh(r) /\ ~Fail(r)
    BY DEF Submit, Commit, Refresh, Fail, Reply, TypeOK
  <1>3. ~CreateStep(r) /\ ~CancelStep(r)
    BY DEF CreateStep, LookupRoom, Verdict, Precheck, Insert, ExclusionPasses,
       ExclusionViolated, DeadlockVictim, CancelStep, LockRow, Update, Refuse,
       Reply, TypeOK
  <1>4. ~ReadStep(r)
    BY DEF ReadStep, GetForUser, ListForUser, ScheduleRoom, RoomSchedule,
       FreeRooms, ReplyRows, Refuse, Reply, TypeOK
  <1>5. ~ConflictRoom(r) /\ ~SlotsRoom(r)
    BY DEF ConflictRoom, SlotsRoom, Refuse, Reply, TypeOK
  <1>6. CASE ConflictRooms(r)
    <2> DEFINE offer == AlternativeRooms(Rows, active, call[r].room, call[r],
                                         call[r].count)
    <2> HIDE DEF offer
    <2>1. Reply(r, "booking_conflict", [EmptyBody EXCEPT !.rooms = offer])
      BY <1>6 DEF ConflictRooms, offer
    <2>2. body'[r].rooms = offer /\ body'[r].starts = {}
      BY <2>1 DEF Reply, EmptyBody, TypeOK
    <2> QED
      BY <2>2 DEF offer
  <1>7. CASE ConflictSlots(r)
    <2> DEFINE offer == NearestSlots(Rows, call[r].room, call[r])
    <2> HIDE DEF offer
    <2>1. Reply(r, "booking_conflict", [EmptyBody EXCEPT !.starts = offer])
      BY <1>7 DEF ConflictSlots, offer
    <2>2. body'[r].rooms = {} /\ body'[r].starts = offer
      BY <2>1 DEF Reply, EmptyBody, TypeOK
    <2> QED
      BY <2>2 DEF offer
  <1> QED
    BY <1>1, <1>2, <1>3, <1>4, <1>5, <1>6, <1>7
       DEF Steps, HandlerStep, ConflictStep

(* What a conflict offers can be booked when it is offered: rooms that are  *)
(* active, large enough and free, or else later slots of the room, free to  *)
(* their end although the bookings were loaded once; and never too many.   *)
THEOREM OffersCanBeBooked == Spec => OffersAreBookable
  <1>1. ASSUME IInv, [Next]_vars, NEW r \in Requests,
               answer[r] = "none", answer'[r] = "booking_conflict"
        PROVE  OfferIsBookable(r, body'[r].rooms, body'[r].starts)
    <2> DEFINE rooms == body'[r].rooms
               starts == body'[r].starts
    <2> HIDE DEF rooms, starts
    <2>1. TypeOK
      BY <1>1 DEF IInv
    <2>2. CASE /\ rooms = AlternativeRooms(Rows, active, call[r].room, call[r],
                                           call[r].count)
               /\ starts = {}
      <3>1. rooms \cup starts = rooms
        BY <2>2
      <3>2. OfferIsBookable(r, rooms, starts)
        BY <2>1, <2>2, <3>1, RoomsAreBookable DEF OfferIsBookable
      <3> QED
        BY <3>2 DEF rooms, starts
    <2>3. CASE rooms = {} /\ starts = NearestSlots(Rows, call[r].room, call[r])
      <3>1. rooms \cup starts = starts
        BY <2>3
      <3>2. OfferIsBookable(r, rooms, starts)
        BY <2>1, <2>3, <3>1, SlotsAreBookable DEF OfferIsBookable
      <3> QED
        BY <3>2 DEF rooms, starts
    <2> QED
      BY <1>1, <2>2, <2>3, ConflictAnswered DEF rooms, starts
  <1>2. IInv /\ [Next]_vars => [OffersBookable]_vars
    BY <1>1 DEF OffersBookable
  <1> QED
    BY <1>2, Invariance, PTL DEF Spec, OffersAreBookable
=============================================================================
