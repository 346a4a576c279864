------------------------------- MODULE Screens -------------------------------
(***************************************************************************)
(* The screens of one session over the query cache: My bookings with its   *)
(* cancel buttons, the schedule of a room, and the booking form as far as  *)
(* it writes.  The server is the ledger of the user's bookings in one      *)
(* room; a query and a mutation are each a request, what the server does   *)
(* and an answer, in any order.  TanStack Query is modelled by what its    *)
(* fetch, invalidateQueries and useMutation do with the options this       *)
(* client gives them: no retries, refetch when stale on mount and focus.   *)
(***************************************************************************)
EXTENDS OfficeTime, FiniteSets

CONSTANTS
    Bookings,       \* what the user may book, all of it still to come
    Interval,       \* the instants of each booking, from start to before end
    Dates,          \* bound: the dates a schedule is asked for
    BrowserToday,   \* the date of the browser
    OfficeToday,    \* the date in the office
    Zones,          \* what the timezone of the office may be
    Writes,         \* bound: how many mutations may be in flight
    MaxTurns,       \* bound: how often the user turns to another tab or date, the
                    \* cache ages, and the network fails a query
    Mine,           \* the key of the query for the user's bookings
    None            \* no data, no answer, no fetch, no mutation

ASSUME ScreensAssumption ==
    /\ Interval \in [Bookings -> [start : Int, end : Int]]
    /\ \A b \in Bookings : Interval[b].start < Interval[b].end
    /\ Dates \subseteq Int /\ BrowserToday \in Dates /\ OfficeToday \in Dates
    /\ Zones \subseteq Zone
    /\ \A office \in Zones : office.after - office.before < DayLength
    /\ MaxTurns \in Nat
    /\ Mine \notin Dates

Keys == Dates \cup {Mine}
Statuses == {"absent", "confirmed", "cancelled"}
Tabs == {"rooms", "form", "mine"}

Payload == [live : SUBSET Bookings, dead : SUBSET Bookings]
Fetch == [answer : Payload \cup {None}, overtaken : BOOLEAN]
Mutation == [kind : {"create", "cancel"}, booking : Bookings,
             at : {"sent", "answered", "refreshing"}, ok : BOOLEAN,
             shown : BOOLEAN, awaits : SUBSET Keys]

ASSUME NothingAssumption == None \notin Fetch /\ None \notin Mutation

VARIABLES
    zone,           \* OFFICE_TIMEZONE
    server,         \* the committed status of each booking
    cache,          \* per key: data, whether it is stale, whether it failed
    fetch,          \* per key: the fetch in flight
    tab,            \* the panel that is mounted
    date,           \* the date in that panel
    dateWasChanged, \* the ref that turns the effect of the panel off
    write,          \* the mutations in flight
    turns,          \* how many of them there have been
    told,           \* history: the status the user was last told of
    cancelledHere   \* history: what this mount of My bookings has cancelled

panel == <<tab, date, dateWasChanged>>
history == <<told, cancelledHere>>
screenVars == <<zone, server, cache, fetch, tab, date, dateWasChanged, write,
                turns, told, cancelledHere>>

----------------------------------------------------------------------------
(* The keys with a mounted observer; My bookings asks for a schedule to    *)
(* learn the timezone.                                                     *)
Active == IF tab = "mine" THEN {Mine, BrowserToday} ELSE {date}

With(status) == {b \in Bookings : server[b] = status}

(* room_schedule                                                           *)
Occupied(d) == {b \in With("confirmed") : /\ Interval[b].start < DayEnd(zone, d)
                                          /\ Interval[b].end > DayStart(zone, d)}

(* What the server answers a query with at this moment                     *)
Answer(key) == IF key = Mine
                 THEN [live |-> With("confirmed"), dead |-> With("cancelled")]
                 ELSE [live |-> Occupied(key), dead |-> {}]

Empty == [data |-> None, stale |-> TRUE, failed |-> FALSE, overtaken |-> FALSE]
Started == [answer |-> None, overtaken |-> FALSE]

Fetching(key) == fetch[key] # None
Outdated(key) == cache[key].stale /\ ~Fetching(key)

(* Observers of these keys mount, or the window has the focus again.       *)
Refetch(keys) ==
    fetch' = [key \in Keys |-> IF key \in keys /\ Outdated(key) THEN Started
                                                                ELSE fetch[key]]

(* A mutation whose button is still on display is pending.                 *)
Pending(kind) == \E w \in Writes : /\ write[w] # None
                                   /\ write[w].kind = kind /\ write[w].shown

(* A fetch has ended: what waits for nothing else is settled.              *)
Settled(key) ==
    [w \in Writes |->
       IF write[w] = None \/ write[w].at # "refreshing" THEN write[w]
       ELSE IF write[w].awaits \subseteq {key} THEN None
       ELSE [write[w] EXCEPT !.awaits = @ \ {key}]]

Init ==
    /\ zone \in Zones
    /\ server = [b \in Bookings |-> "absent"]
    /\ cache = [key \in Keys |-> Empty]
    /\ tab = "rooms" /\ date = BrowserToday /\ dateWasChanged = FALSE
    /\ fetch = [key \in Keys |-> IF key = BrowserToday THEN Started ELSE None]
    /\ write = [w \in Writes |-> None]
    /\ turns = 0
    /\ told = [b \in Bookings |-> "absent"]
    /\ cancelledHere = {}

----------------------------------------------------------------------------
(* Navigation                                                              *)

OpenTab(t) ==
    /\ t # tab
    /\ tab' = t
    /\ date' = BrowserToday /\ dateWasChanged' = FALSE
    /\ Refetch(IF t = "mine" THEN {Mine, BrowserToday} ELSE {BrowserToday})
    /\ write' = [w \in Writes |-> IF write[w] = None THEN None
                                  ELSE [write[w] EXCEPT !.shown = FALSE]]
    /\ cancelledHere' = {}
    /\ turns < MaxTurns /\ turns' = turns + 1
    /\ UNCHANGED <<zone, server, cache, told>>

(* The user dates a panel.                                                 *)
ShowDate(d) ==
    /\ tab # "mine" /\ d # date
    /\ date' = d /\ dateWasChanged' = TRUE
    /\ Refetch({d})
    /\ turns < MaxTurns /\ turns' = turns + 1
    /\ UNCHANGED <<zone, server, cache, tab, write, history>>

(* The effect of RoomsPanel, and that of the form                          *)
RunEffect ==
    /\ tab # "mine" /\ ~dateWasChanged
    /\ cache[date].data # None /\ date # OfficeToday
    /\ date' = OfficeToday
    /\ Refetch({OfficeToday})
    /\ UNCHANGED <<zone, server, cache, tab, dateWasChanged, write, turns, history>>

Refocus ==
    /\ \E key \in Active : Outdated(key)
    /\ Refetch(Active)
    /\ UNCHANGED <<zone, server, cache, panel, write, turns, history>>

----------------------------------------------------------------------------
(* Queries                                                                 *)

ServeFetch(key) ==
    /\ Fetching(key) /\ fetch[key].answer = None
    /\ fetch' = [fetch EXCEPT ![key].answer = Answer(key)]
    /\ UNCHANGED <<zone, server, cache, panel, write, turns, history>>

FetchSucceeds(key) ==
    /\ Fetching(key) /\ fetch[key].answer # None
    /\ cache' = [cache EXCEPT ![key] = [data |-> fetch[key].answer, stale |-> FALSE,
                                        failed |-> FALSE,
                                        overtaken |-> fetch[key].overtaken]]
    /\ fetch' = [fetch EXCEPT ![key] = None]
    /\ write' = Settled(key)
    /\ UNCHANGED <<zone, server, panel, turns, history>>

(* What was cached stays, marked as failed.                                *)
FetchFails(key) ==
    /\ Fetching(key)
    /\ cache' = [cache EXCEPT ![key].stale = TRUE, ![key].failed = TRUE]
    /\ fetch' = [fetch EXCEPT ![key] = None]
    /\ write' = Settled(key)
    /\ turns < MaxTurns /\ turns' = turns + 1
    /\ UNCHANGED <<zone, server, panel, history>>

(* 15 seconds have passed.                                                 *)
Age(key) ==
    /\ ~cache[key].stale
    /\ cache' = [cache EXCEPT ![key].stale = TRUE]
    /\ turns < MaxTurns /\ turns' = turns + 1
    /\ UNCHANGED <<zone, server, fetch, panel, write, history>>

(* Five minutes without an observer have passed.                           *)
Collect(key) ==
    /\ key \notin Active /\ ~Fetching(key) /\ cache[key] # Empty
    /\ cache' = [cache EXCEPT ![key] = Empty]
    /\ turns < MaxTurns /\ turns' = turns + 1
    /\ UNCHANGED <<zone, server, fetch, panel, write, history>>

----------------------------------------------------------------------------
(* Mutations                                                               *)

Mutate(kind, b) ==
    /\ \E w \in Writes :
         /\ write[w] = None
         /\ write' = [write EXCEPT ![w] =
                        [kind |-> kind, booking |-> b, at |-> "sent", ok |-> FALSE,
                         shown |-> TRUE, awaits |-> {}]]
    /\ UNCHANGED <<zone, server, cache, fetch, panel, turns, history>>

(* The fields of the form name the booking.                                *)
Filled(b) ==
    /\ tab = "form" /\ cache[date].data # None
    /\ DateOf(zone, Interval[b].start) = date
    /\ told[b] = "absent"

(* Mutant: the button stays enabled while a booking is being saved.        *)
CreateAgain(b) == Filled(b) /\ Mutate("create", b)

(* The form submits.  Bound: what may still be saved is not tried again.   *)
Create(b) ==
    /\ Filled(b) /\ ~Pending("create")
    /\ \A w \in Writes : write[w] # None => write[w].booking # b
    /\ Mutate("create", b)

(* The list is on display and b has an enabled button.                     *)
Offered(b) ==
    /\ tab = "mine"
    /\ cache[Mine].data # None /\ ~cache[Mine].failed
    /\ b \in cache[Mine].data.live
    /\ ~Pending("cancel")

Cancel(b) == Offered(b) /\ Mutate("cancel", b)

Becomes(kind) == IF kind = "create" THEN "confirmed" ELSE "cancelled"
Allowed(kind) == IF kind = "create" THEN "absent" ELSE "confirmed"

(* The server commits the mutation; the answer may still be lost.          *)
ServeWrite(w) ==
    /\ write[w] # None /\ write[w].at = "sent"
    /\ server[write[w].booking] = Allowed(write[w].kind)
    /\ server' = [server EXCEPT ![write[w].booking] = Becomes(write[w].kind)]
    /\ \E ok \in BOOLEAN :
         write' = [write EXCEPT ![w].at = "answered", ![w].ok = ok]
    /\ UNCHANGED <<zone, cache, fetch, panel, turns, history>>

(* It refuses, or the request is lost.                                     *)
RefuseWrite(w) ==
    /\ write[w] # None /\ write[w].at = "sent"
    /\ write' = [write EXCEPT ![w].at = "answered"]
    /\ UNCHANGED <<zone, server, cache, fetch, panel, turns, history>>

(* Another tab of the user cancels.                                        *)
CancelElsewhere(b) ==
    /\ server[b] = "confirmed"
    /\ server' = [server EXCEPT ![b] = "cancelled"]
    /\ UNCHANGED <<zone, cache, fetch, panel, write, turns, history>>

(* invalidateQueries: every query of these keys is marked, and those with  *)
(* an observer are fetched anew.  A fetch in flight is given up for the    *)
(* new one only if the query has data and an observer; any other goes on.  *)
Restarts(keys) == {key \in keys \cap Active : ~Fetching(key) \/ cache[key].data # None}

Invalidate(keys) ==
    /\ cache' = [key \in Keys |-> IF key \in keys
                                    THEN [cache[key] EXCEPT !.stale = TRUE]
                                    ELSE cache[key]]
    /\ fetch' = [key \in Keys |->
                   IF key \in Restarts(keys) THEN Started
                   ELSE IF key \in keys /\ Fetching(key)
                     THEN [fetch[key] EXCEPT !.overtaken = TRUE]
                   ELSE fetch[key]]

Told(w) ==
    /\ told' = [told EXCEPT ![write[w].booking] = Becomes(write[w].kind)]
    /\ cancelledHere' = IF write[w].kind = "cancel" /\ write[w].shown
                          THEN cancelledHere \cup {write[w].booking}
                          ELSE cancelledHere

(* Mutant: the schedules are not invalidated.                              *)
WriteSucceedsMineOnly(w) ==
    /\ write[w] # None /\ write[w].at = "answered" /\ write[w].ok
    /\ Told(w)
    /\ Invalidate({Mine})
    /\ write' = [write EXCEPT ![w] =
                   IF Mine \in Active THEN [@ EXCEPT !.at = "refreshing", !.awaits = {Mine}]
                                      ELSE None]
    /\ UNCHANGED <<zone, server, panel, turns>>

(* Mutant: onSuccess does not wait for the queries it invalidates.         *)
WriteSucceedsAtOnce(w) ==
    /\ write[w] # None /\ write[w].at = "answered" /\ write[w].ok
    /\ Told(w)
    /\ Invalidate(Keys)
    /\ write' = [write EXCEPT ![w] = None]
    /\ UNCHANGED <<zone, server, panel, turns>>

(* Mutant: it waits for every query, with and without an observer.         *)
WriteSucceedsAwaitingAll(w) ==
    /\ write[w] # None /\ write[w].at = "answered" /\ write[w].ok
    /\ Told(w)
    /\ Invalidate(Keys)
    /\ write' = [write EXCEPT ![w].at = "refreshing", ![w].awaits = Keys]
    /\ UNCHANGED <<zone, server, panel, turns>>

(* onSuccess of both mutations: the mutation is pending until the queries  *)
(* it invalidated and that have an observer are answered.                  *)
WriteSucceeds(w) ==
    /\ write[w] # None /\ write[w].at = "answered" /\ write[w].ok
    /\ Told(w)
    /\ Invalidate(Keys)
    /\ write' = [write EXCEPT ![w].at = "refreshing", ![w].awaits = Active]
    /\ UNCHANGED <<zone, server, panel, turns>>

(* An error: nothing is invalidated.                                       *)
WriteFails(w) ==
    /\ write[w] # None /\ write[w].at = "answered" /\ ~write[w].ok
    /\ write' = [write EXCEPT ![w] = None]
    /\ UNCHANGED <<zone, server, cache, fetch, panel, turns, history>>

Handle(w) == WriteSucceeds(w) \/ WriteFails(w)

Next ==
    \/ \E t \in Tabs : OpenTab(t)
    \/ \E d \in Dates : ShowDate(d)
    \/ RunEffect \/ Refocus
    \/ \E key \in Keys : \/ ServeFetch(key) \/ FetchSucceeds(key) \/ FetchFails(key)
                         \/ Age(key) \/ Collect(key)
    \/ \E b \in Bookings : Create(b) \/ Cancel(b) \/ CancelElsewhere(b)
    \/ \E w \in Writes : ServeWrite(w) \/ RefuseWrite(w) \/ Handle(w)

Spec == Init /\ [][Next]_screenVars

(* The server answers what reaches it, and the browser hands over answers. *)
FairSpec ==
    /\ Spec
    /\ \A key \in Keys : WF_screenVars(ServeFetch(key) \/ FetchSucceeds(key))
    /\ \A w \in Writes : WF_screenVars(ServeWrite(w) \/ RefuseWrite(w) \/ Handle(w))

----------------------------------------------------------------------------
(* Types; a mounted panel has one mutation pending at most, and one that   *)
(* has succeeded waits only for fetches that are in flight.                *)
ScreensTypeOK ==
    /\ zone \in Zones /\ tab \in Tabs /\ date \in Dates
    /\ dateWasChanged \in BOOLEAN
    /\ server \in [Bookings -> Statuses] /\ told \in [Bookings -> Statuses]
    /\ cache \in [Keys -> [data : Payload \cup {None}, stale : BOOLEAN,
                           failed : BOOLEAN, overtaken : BOOLEAN]]
    /\ fetch \in [Keys -> Fetch \cup {None}]
    /\ write \in [Writes -> Mutation \cup {None}]
    /\ \A v, w \in Writes :
         write[v] # None /\ write[w] # None /\ write[v].shown /\ write[w].shown => v = w
    /\ \A w \in Writes : write[w] # None =>
         \A key \in write[w].awaits : Fetching(key)
    /\ cancelledHere \subseteq Bookings

(* A panel at rest: its data is on display, and nothing is being fetched.  *)
AtRest(key) ==
    /\ key \in Active /\ ~Fetching(key)
    /\ cache[key].data # None /\ ~cache[key].failed

(* Some part of the booking lies on the date, by the clocks of the office. *)
LiesOn(b, d) ==
    \E instant \in Interval[b].start .. Interval[b].end - 1 : DateOf(zone, instant) = d

(* The list and the schedule of a date say what the user was told: what    *)
(* was confirmed is listed, and occupies every date it lies on and no      *)
(* other unless it was cancelled since; what was cancelled is listed as    *)
(* cancelled and occupies nothing.                                         *)
ListShows(payload) ==
    \A b \in Bookings :
      /\ told[b] = "confirmed" => b \in payload.live \cup payload.dead
      /\ told[b] = "cancelled" => b \in payload.dead

ScheduleShows(d, payload) ==
    \A b \in Bookings :
      /\ told[b] = "confirmed" /\ server[b] = "confirmed" /\ LiesOn(b, d)
           => b \in payload.live
      /\ told[b] = "cancelled" \/ ~LiesOn(b, d) => b \notin payload.live

Regular(d) == ~ChangedAcross(zone, d) /\ ~ChangedAcross(zone, d + 1)

(* What the user was told shows on every panel at rest.  Excepted are a    *)
(* fetch that was already in flight when the answer came, without data or  *)
(* without an observer, and dates that a change of the clocks cuts at      *)
(* midnight.                                                               *)
OwnWritesShow ==
    /\ AtRest(Mine) /\ ~cache[Mine].overtaken => ListShows(cache[Mine].data)
    /\ \A d \in Dates : Regular(d) /\ AtRest(d) /\ ~cache[d].overtaken
                          => ScheduleShows(d, cache[d].data)

(* A booking that My bookings has cancelled is not offered for             *)
(* cancellation by it again, although the list it shows is older than the  *)
(* answer for a while, may fail to be fetched, or may be fetched again     *)
(* before.                                                                 *)
NotOfferedAgain == \A b \in cancelledHere : ~Offered(b)

(* "Saving..." and the disabled buttons come to an end: a mutation that    *)
(* waits for its queries is not left waiting for one that was given up.    *)
EveryWriteSettles == \A w \in Writes : write[w] # None ~> write[w] = None
=============================================================================
