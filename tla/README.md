# A TLA+ model of AiSpace

AiSpace books meeting rooms: a FastAPI backend over PostgreSQL, a React client,
and an optional assistant that turns text into a booking draft. This directory
models the parts of it whose correctness depends on what happens between two
steps: statements of concurrent transactions, requests that are in flight when
the session changes, effects that run after a render, a provider that does not
answer. Paths below are relative to `src/`; `B/` is `backend/app/`, `F/` is
`frontend/src/`. `PROJECT.json` maps every definition to the lines it models.

## The system

| Component | State | Operations | Talks to |
|---|---|---|---|
| Booking requests: `B/services/bookings.py`, `B/repositories/bookings.py`, `alembic/versions/0003` | `bookings` rows; per request a session with one transaction | `POST /bookings`, cancel, get, list | Availability for the alternatives of a conflict; PostgreSQL for the exclusion constraint and row locks |
| Availability: `B/services/availability.py`, `B/repositories/rooms.py` | none of its own; reads `rooms`, `bookings` | schedule, free rooms, conflict details, nearest slots | the two tables |
| Accounts: `B/services/auth.py`, `B/core/security.py`, `B/api/v1/auth.py` | `users` rows; tokens live at the clients only | register, login, current user | guards every other endpoint |
| AI preview: `B/services/ai_booking.py`, `B/integrations/deepseek/` | none; holds a pooled connection while it waits | `POST /ai/booking-intent` | DeepSeek; reads `rooms`; never writes |
| Browser session: `F/App.tsx`, `F/api/client.ts`, `F/auth/` | token in `sessionStorage` and in React state; query cache; requests in flight | sign in, register, log out, reload, any 401 | every endpoint |
| Booking form: `F/features/bookings/BookingForm.tsx` | fields, `preserveDate`, conflict, one mutation | edit, submit, apply an alternative | schedule query, `POST /bookings` |
| My bookings, room schedules: `F/features/bookings/MyBookings.tsx`, `F/features/rooms/` | the date of a panel, the mutation of a button; the query cache they share with the form | list, cancel, browse | the query cache, which every create and cancellation invalidates |
| AI panel | the preview on display | preview | the form |
| Time: `F/lib/time.ts`, `local_day_bounds` | none | local time to instant and back, day bounds | form, schedules |
| Startup: Compose, migrations, `B/db/seed.py` | tables and constraints, demo rooms | one-shot services in order | PostgreSQL |
| Shell: `main.py`, config, logging, request ids, health, Nginx | settings | wiring | everything |

What is hard about it:

* **Interleaving.** Every `await` of a handler lets another request run, and
  each statement of a READ COMMITTED transaction has a snapshot of its own. The
  pre-check of a create is stale when it inserts, the lookup of a registration
  is stale when it inserts, the offers of a conflict come from four statements.
* **Waiting.** Inserts wait for inserts and for cancellations, `FOR UPDATE`
  waits for `FOR UPDATE`, a unique index makes registrations wait, a full pool
  makes every request wait. Two inserts may wait for each other.
* **Failure.** A connection can be lost between any two statements, before or
  after the commit. The provider may fail, answer nonsense, not answer, or
  answer so slowly that no timeout ends it.
* **Order in the browser.** Answers come in any order, after the user has
  signed out or in as someone else, or has turned to another panel; an effect
  dates the form whenever a schedule arrives; a list is fetched while what it
  lists is changed.
* **Edges.** Half-open intervals, the end of the search window, midnight, hours
  that the clocks skip or repeat, the expiry of a token, an address that two
  ways of folding case treat differently.

What makes each part correct is listed with the runs below; `PROJECT.json` has
the hazards, each at its line, with the properties that would catch it.

## Modules

| Module | Models | Role |
|---|---|---|
| `Availability` | the queries and pure functions of availability | library of the next three |
| `Bookings` | booking requests, statement by statement | component |
| `BookingLedger` | what booking requests promise, each one atomic | abstract specification, implemented by `Bookings` |
| `SlotSearch` | the loop of `nearest_available_slots` | algorithm, shown to compute `Availability!NearestSlots` |
| `Accounts` | registration, login, tokens | component |
| `AiPreview` | previews and the connection pool they share | component |
| `WebSession` | the session of one tab | component |
| `OfficeTime` | local times and instants in a zone that changes its clocks, day bounds | library of the next two |
| `BookingForm` | the form and its effect | component |
| `Screens` | My bookings, the schedules and what the form writes, over the query cache and the server | component, composed with the ledger of one user |
| `MC*` | constants for TLC | instances |
| `BookingsProofs`, `SlotSearchProofs`, `AccountsProofs`, `AiPreviewProofs`, `WebSessionProofs`, `OfficeTimeProofs`, `BookingFormProofs`, `ScreensProofs` | theorems | proofs |

**Bookings.** A request is a process. `pc` names the statement its session
awaits next, and an action is that statement with the code up to the next
`await`: `LookupRoom` is `get_active_by_id` and `validate_booking_request`,
`Precheck` is `has_confirmed_overlap`, `Insert` and `Exclusion*` are the two
halves of the INSERT (PostgreSQL writes the index entry before it scans for
conflicts), `Conflict*` and `SlotsRoom` are the four statements of
`conflict_details`, `LockRow`, `Update`, `Commit`, `Refresh` are `cancel`. Since
a transaction writes one row at most, the uncommitted write of a request is
known from its `pc` and its `call`. What PostgreSQL does is in six operators
(`InsertPending` to `MutualWait`): an exclusion scan waits for a transaction
that inserted or is updating a clashing row, goes on when that one ends, and is
ended by the deadlock detector when two scans wait for each other. `Fail` loses
the connection of a request before any statement; an open transaction is rolled
back, a committed one stays. `txn`, `before` and the content of `body` are kept
so that properties can say what an answer meant.

**Accounts** is built the same way. An account has the identity of the request
that inserts it; a token is the record of its claims, kept where it was
answered. `Unfit` are the addresses that `normalize_email` leaves in a form
`ck_users_email_normalized` refuses (`casefold` and `lower` differ): the handler
reports them as registered already, as it does every `IntegrityError`. `Retire`
is the operator's UPDATE of `is_active`, which no endpoint does.

**SlotSearch** takes one iteration of the loop a step, over the bookings that
`nearest_slots` loads. `Bookings` uses the set it computes as one operator.

**AiPreview.** A request waits for a pooled connection, holds it for its
statements, and a preview also holds it for the call to the provider, because
the session of `get_current_user` stays open until the response. `Verdict` is
`validate_booking_intent` over records in which each field is right, wrong or
missing. The configured timeout is not one for the call: it is passed as a
number, which the HTTP client applies to connecting, to sending and to every
read, so `ProviderProgress`, the end of such an operation, starts it anew
(`since`), and a call may go on for ever. Time passes only while every request
waits for a timeout: statements take none.

**WebSession.** A handler of the page runs to its end, so it is one step; a
request and its answer are two. A request carries the token of
`sessionStorage` when it was sent, and a query the key it was made for:
`["current-user", token]` names the session, `["bookings"]` and its like do
not. `queryClient.clear()` makes the results of queries in flight go nowhere
(`live`).

**OfficeTime.** A local time is the number its date and time make when they are
read as UTC, and a zone is an offset before and an offset after one instant:
the changes of a real zone are months apart, and nothing here looks further
than a day. `Candidate` is the loop of `localDateTimeToIso`, three corrections
long, `Accepted` the check that follows it; `DayStart` and `DayEnd` are
`local_day_bounds` with what `zoneinfo` does for a midnight that is repeated or
skipped.

**BookingForm.** The inputs hold the local date and times of an interval of
instants; a submit turns them back (`Asked`) or refuses a time that does not
exist (`SubmitRefused`). The effect of `BookingForm.tsx:84` runs some time
after a change of the date or of the schedule (`effectDue`), and does what the
code does with the office's today of that moment.

**Screens.** A query is three steps: it is sent, the server answers it from
what is committed then, the answer arrives or the query fails. A mutation is
four: sent, committed or refused, answered (the answer to a commit may be
lost), and, after a success, pending until the queries it invalidated are
fetched, because `onSuccess` awaits `invalidateQueries`. What TanStack Query
(query-core 5.103.2, the version of `frontend/package-lock.json`) does is in a few
operators: a query is fetched on mount and on focus if it is stale;
`invalidateQueries` marks every query, fetches those with a mounted observer
anew, and lets a fetch that has no data yet, or no observer, go on
(`Restarts`); the fetch of a panel that unmounts goes on; a failed fetch keeps
the data, marked as failed; a mutation whose panel unmounts goes on too, but
its button is a new one when the panel is opened again (`shown`).
`overtaken` marks the fetches that such an invalidation did not restart, and
the data they bring.

## What the runs show

Passing runs; every property has a mutant of the code that TLC refutes it on.

| Run | Instance | Shows |
|---|---|---|
| `race` | 3 requests, one room, two users, clock 0..1; each request creates one of two overlapping bookings or cancels the booking of the first request as either user; fair handlers | `NoConfirmedOverlap`; an answer can be believed (`AnswersAreTrue`, `ConflictIsReal`); one cancellation wins (`OneCancellation`); rows were valid and only ever get cancelled by their owner (`RowsWereValid`, `RowsOnlyGetCancelled`); the requests implement the ledger (`ImplementsLedger`); whatever waits for whatever, each of them is answered (`EveryRequestEnds`) |
| `answers` | 3 requests: creates in 3 rooms of 2 sizes, a cancellation, every read; one room switched on and off | what a conflict offers was bookable when it was read (`OffersAreBookable`); a read shows what was answered before it arrived (`ReadsAreCurrent`) |
| `slots` | 3 requests (one, two and one and a half grid steps long), every subset of 8 bookings around the window, granularity 2, horizon 10, limit 3 | only bookable slots (`SlotsAreBookable`), the nearest ones (`NothingNearerIsMissed`), equal to the definition `Bookings` uses (`LoopIsNearestSlots`), and the loop ends (`SearchEnds`) |
| `accounts` | 3 requests over two spellings of an address and one the table refuses, two passwords, lifetime 1, clock 0..1, retirements, fair handlers | `OneAccountPerEmail`, `TakenIsTrue`, `RegisteredCanLogIn`, `AnswersGoToOwners`, `RetiredGetNothing`, `EveryRequestIsAnswered` |
| `session` | two users, three tokens, three requests in flight | the cache is always the signed-in user's (`PageIsOwn`), the two copies of the token agree (`TokensAgree`), errors other than an expired token sign nobody out (`SessionsEndForAReason`) |
| `form` | two rooms, three days of three hours, clocks that stay, skip an hour or repeat one, browser date off by -1..1, with and without a preview | dates the user or a preview set are kept (`UserDatesStay`), an applied alternative stays on a dated form (`ChoiceStays`), a time that exists is never refused (`ExistingTimesAreTaken`), what is submitted is what is shown, with no alternative left to be put over it (`RequestsAreAsShown`) |
| `screens` | one booking, My bookings, the form and the schedules of two dates, clocks that repeat an hour or skip the first of a day; two mutations in flight, another tab that cancels, four turns to other panels or dates, agings or failures | what the user was told shows on every panel at rest, on the dates it lies on and no others (`OwnWritesShow`); a cancelled booking is not offered for cancellation again (`NotOfferedAgain`); pending buttons are released (`EveryWriteSettles`); one panel has one mutation pending (`ScreensTypeOK`) |
| `previews` | two previews, one other request, one connection, with and without an API key, an intent with one field wrong in each way, one room switched on and off | a preview could be confirmed as it is (`PreviewsAreBookable`), without a key no other request fails for want of a connection (`ManualWithoutKey`), who still waits after the two timeouts has a call that made progress within the last of them (`OnlyProgressDelays`), the pool is not exceeded (`PreviewTypeOK`) |

Runs that find a disagreement between the code and what its documents say:

| Run | Property | What happens |
|---|---|---|
| `loser` | `LoserIsToldConflict` | Two identical creates have both inserted before either scans. The deadlock detector ends one with an error that is not an `IntegrityError` (`B/services/bookings.py:82`): 500 instead of the 409 that `docs/TASK.md:88` and `test_booking_concurrency.py:80` expect. No double booking follows. |
| `redated` | `AlternativeIsKept` | An alternative on a later day is applied to a form whose date was never touched. When the schedule of that day has loaded, the effect puts today back (`BookingForm.tsx:85`); `docs/DECISIONS.md:88` says alternatives update the form. |
| `midnight` | `AlternativeCanBeSubmitted` | A slot that ends at or after midnight is offered, applied, and refused by the schema of the form, which compares two times of one date (`BookingForm.tsx:40`). `README.md:144` knows the limit; the list of alternatives offers the slot all the same. |
| `starved` | `ManualIsServed` | Previews that wait for a slow or unresponsive provider hold every connection until another request's wait times out; `README.md:12` says manual booking stays fully operational. A call that makes slow progress does it alone; with a silent provider it takes several previews. The instance has one connection where the deployment has fifteen, and timeouts in the same order. |

### Bounds

Three requests are enough for what two can do to each other while a third
watches or holds what they wait for: a create, a rival and a cancellation that
has not committed; two registrations and a login. Two rooms suffice where rooms
are compared, three where offers are ranked. The clock runs past the start of
one booking and past the expiry of a token; in `previews` it runs past the sum of
the two timeouts, so that a request can wait longer. Eight bookings cover the positions
an interval can have relative to the window of the slot search. Three tokens let
a tab sign in, out and in again with an answer of the first session still to
come. Since requests of `race` are interchangeable, cancelling the booking of one
of them stands for cancelling any. Three days let a date lie before and after
the one on which the clocks change. Two mutations let a booking be cancelled
while the form that made it is still refreshing, and four turns suffice to
make a booking, to cancel it, and to look at it later or after a failure.
`MaxTime`, `Tokens`, `Slots`, `LastDay`, `MaxLead`, `Writes`, `MaxTurns` bound what
is otherwise unbounded and are marked as bounds where they are declared.
Symmetry is used over interchangeable requests, users, tokens and slots, and in
no run with a liveness property. Deadlock is checked in every run but `screens`,
where the turns may be used up; requests that are all answered stutter
(`Quiescent`).

### Fairness

`Bookings!FairSpec` and `Accounts!FairSpec` have weak fairness of each request's
handler: the event loop runs every handler that is ready, and PostgreSQL answers
every statement that does not wait and wakes the waiting ones when the
transaction they wait for ends. Clients, the clock, the operator and failures
owe nothing. `SlotSearch!FairSpec` lets the loop go on. `Screens!FairSpec` has
the server answer every query and mutation that reached it, with success or
refusal, and the browser run the handlers of answers; no one has to click, and
failures need not happen. The client sets no timeout on a request: a mutation
whose request never ended would stay pending. The other modules claim no
liveness.

## What is proved

Every invariant and every action property that a passing run checks is also a
theorem, and so is the refinement. The theorems hold for every value of the
constants that satisfies the named assumptions (`RoomsAssumption`,
`SlotAssumption`, `CallsAssumption`, `NoBookingAssumption`, `SearchAssumption`,
`AccountsAssumption`, `NoneAssumption`, `PreviewAssumption`,
`SessionAssumption`, `RequestAssumption`, `DayAssumption`, `FormAssumption`,
`ScreensAssumption`, `NothingAssumption`): rooms are finitely many, capacities
and the granularity are positive, the order of rooms is strict, calls are well
formed, a pool makes a request wait for at least some time before it gives up
(SQLAlchemy's default, 30 seconds, which `B/db/session.py` leaves alone), a day
has a positive length, previews begin on the days of the instance, bookings end
after they start, the clocks of an office skip less than a day, "none" is not a
value.

* `BookingsProofs`, in three layers.
  * `NoDoubleBooking`, `CancelledOnce`, `TypeCorrect`. `NoConfirmedOverlap` is
    not inductive: that a commit adds no clash rests on `ScanHolds` (since the
    scan passed, no clashing row and no second insert has passed), which rests
    on waiting scans staying in the scan; that a cancellation cancels a
    confirmed row rests on `LockHolds`. `Flow` ties a request's place to its
    kind of call and its transaction to the table. The conjunction `IInv` is
    inductive. The proof separates steps that touch neither the table nor an
    index entry (`Still`), which keep everything, from the few that do.
  * `HistoryKept`, and `ServiceImplementsLedger`, the refinement: `Commit` maps
    to `Book` or `Cancel`, the statement that meets a clashing row to
    `Conflict`, the refused repetition to `Repeat`, every other end to `Close`
    and all else to a stutter. `ScanHolds` gives the guard of `Book`,
    `LockHolds` that of `Cancel`.
  * What clients are told. `AnswerFate` says which answers stand for a commit
    and which for a rollback, and `AnswersCanBeBelieved` follows. `HistoryInv`
    relates answers to what was answered before (`before`) and to the readings
    of the clock (`stamp`): a request past its validation is still `Validated`,
    a cancellation in hand is stamped after the booking it cancels (`Stamped`),
    a cancelled row has a committed cancellation (`RowOfCall`), what a request
    found answered stays answered (`BeforeIsDone`), and a slot for which a
    conflict was decided is `Taken` until the reply, by a booking whose
    cancellation nobody had been told of. It gives `ConflictsAreReal`,
    `StoredRowsWereValid` and `ReadYourWrites`. `OffersCanBeBooked` is about
    single steps: the bookings of the window, loaded once, are all that a slot
    in it can clash with, and a `LIMIT` keeps no more elements of a total order
    than its number (`LimitKeepsFew`), counted by an injection.
* `SlotSearchProofs`: `CollectedSlotsAreBookable`, `SearchIsCorrect`,
  `NearestComeFirst`, `SearchTypeCorrect`. The invariant says that what is
  collected is exactly the free grid points passed so far; that bookings outside
  the window matter to no slot inside it is a lemma, as is that every reachable
  start lies on the grid.
* `AccountsProofs`, in two layers. `EmailsAreUnique`, `RefusalsAreTrue`,
  `AccountsTypeCorrect` rest on `IndexIsUnique`: an address with an open insert
  is in no committed row and in no other open insert, which is what the unique
  index gives and what the lookup before it does not. `RegisteredLogIn`,
  `OwnersAreAnswered` and `RetiredAreRefused` rest on `HistoryInv`: the row of a
  registration has the address and the password of its call (`RowOfCall`), what
  a request found answered or retired when it arrived stays so (`Found`), a
  token is for an account with the address and the password its login gave
  (`TokenOfLogin`), and a request that awaits its user came with a token that
  had not expired (`BearerWasValid`).
* `AiPreviewProofs`: every property of the `previews` run, for any pool,
  timeouts and number of requests. `PreviewsCanBeBooked` is a lemma on `Verdict`
  (what it passes, `POST /bookings` would) and the catalog staying what it was
  read as. `NoOtherDelays` needs to know since when a request is where it is,
  and that its call began in time or has made progress since (`InTime`);
  `ManualUnharmed` that without a key nobody is at the provider, so
  that no time passes while a request waits (`NoWaiting`).
* `WebSessionProofs`: every property of the `session` run. `PageIsOwn` is not
  inductive: a query that may still write its result was sent with the token of
  this session (`LiveIsOwn`), and a login or registration under way is alone and
  only while nobody is signed in (`AuthIsAlone`), so that its answer finds no
  session to replace.
* `OfficeTimeProofs`, for any zone that changes its clocks once, by any amount:
  `AcceptedWhenItExists` (the loop of `localDateTimeToIso` finds every local
  time that some instant has, and two of its three turns are enough),
  `UnrepeatedComesBack`, `OrderIsKept`, `DayBoundsAreExact` (unless a change
  cuts a midnight of the date).
* `BookingFormProofs`: every property of the `form` run. `FormInv` adds to the
  types that the request in flight and the alternatives begin on a day of the
  instance, since they are what the fields are filled from; `RequestsAsShown`
  rests on `UnrepeatedComesBack` and `OrderIsKept`.
* `ScreensProofs`: every invariant of the `screens` run, for any bookings, dates
  and number of mutations. `ScreensTypeCorrect` needs to know which panel a
  button on display belongs to (`ButtonsOfPanel`). `DoneInv` says that what was
  answered with success is committed, and that statuses only go on.
  `NeverOfferedAgain` rests on `ListIsNewer`: no answer on its way lists as
  confirmed what this mount has cancelled, and while the list on display does, a
  cancellation that waits for a newer list keeps the buttons off.
  `OwnWritesAreShown` rests on `AnswersShow`: an answer that no invalidation has
  overtaken shows what the user was told, and data that does not is being
  fetched, or stale and not on display; that a schedule is what lies on its date
  comes from `DayBoundsAreExact`.

Only model-checked: the liveness properties (`EveryRequestEnds`, `SearchEnds`,
`EveryRequestIsAnswered`, `EveryWriteSettles`), since fairness and `ENABLED` are
outside the prover's reach.

## What is not modelled, and what comes next

Not modelled because there is nothing in it to check: wiring, configuration,
logging, request ids, the health endpoints, the prompt, Nginx, the MCP
documentation server, tests and CI. Startup is declarations of the order of
one-shot services and a seed that is one statement with `ON CONFLICT DO
NOTHING`. The AI panel keeps one preview, drops it when another is asked for
and disables its button meanwhile; what it hands to the form is in
`BookingForm`. Passwords' hashes and tokens' signatures are taken to be
perfect; titles, names and messages are left out. `Screens` has one room and
bookings that are still to come: whether a booking is labelled Upcoming, In
progress or Past, and whether it has a Cancel button, depends on the clock of
the last render, and the backend accepts the cancellation of any of them
(`README.md:74`). Its run has one booking, which the form makes at most once: that
the form starts no second mutation while one is pending is exercised by the
theorem only. The query for the rooms
is taken to succeed: when it fails in the background, `App.tsx:97` puts an error
in the place of the booking form, and what was entered is lost.

Plan: the safety half of liveness, that the place of a request only goes on and
that who waits, waits for one that can go on, for `Bookings` and `Accounts`;
that `BookingLedger` by itself never holds two clashing bookings; a property for
the 401 of a request of an earlier session (`F/api/client.ts:90`).

Runs are started with `tlc -config <run>.cfg <module>`, as listed in
`PROJECT.json`; proofs with `tlapm <module>.tla`.
