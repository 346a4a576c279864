---------------------------- MODULE ScreensProofs ----------------------------
(***************************************************************************)
(* What the screens promise for any bookings, dates, zones and any number  *)
(* of mutations in flight.                                                 *)
(***************************************************************************)
EXTENDS Screens, OfficeTimeProofs

----------------------------------------------------------------------------
(* Operators                                                               *)

LEMMA StartedIsFetch == Started \in Fetch /\ Started # None
<1>1. Started \in Fetch
  BY DEF Started, Fetch
<1> QED
  BY <1>1, NothingAssumption

LEMMA EmptyIsEntry ==
  Empty \in [data : Payload \cup {None}, stale : BOOLEAN, failed : BOOLEAN,
             overtaken : BOOLEAN]
  BY DEF Empty

LEMMA AnswerIsPayload ==
  ASSUME NEW key \in Keys
  PROVE  Answer(key) \in Payload
<1>1. /\ With("confirmed") \in SUBSET Bookings /\ With("cancelled") \in SUBSET Bookings
      /\ \A d : Occupied(d) \in SUBSET Bookings
  BY DEF With, Occupied
<1> QED
  BY <1>1 DEF Answer, Payload

LEMMA KeysOfPanel ==
  ASSUME date \in Dates
  PROVE  Active \subseteq Keys /\ BrowserToday \in Keys /\ Mine \in Keys /\ Dates \subseteq Keys
  BY ScreensAssumption DEF Active, Keys

(* A refetch starts fetches and touches none in flight.                    *)
LEMMA RefetchKeeps ==
  ASSUME fetch \in [Keys -> Fetch \cup {None}], NEW keys, Refetch(keys)
  PROVE  /\ fetch' \in [Keys -> Fetch \cup {None}]
         /\ \A key \in Keys : fetch'[key] = fetch[key] \/ (fetch[key] = None /\ fetch'[key] = Started)
         /\ \A key \in Keys : Outdated(key) /\ key \in keys => fetch'[key] = Started
  BY StartedIsFetch DEF Refetch, Outdated, Fetching

(* The end of a fetch ends mutations or shortens what they wait for.       *)
LEMMA SettledKeeps ==
  ASSUME write \in [Writes -> Mutation \cup {None}], NEW key \in Keys
  PROVE  /\ Settled(key) \in [Writes -> Mutation \cup {None}]
         /\ \A w \in Writes : Settled(key)[w] # None =>
              /\ write[w] # None
              /\ \/ write[w].at # "refreshing" /\ Settled(key)[w] = write[w]
                 \/ /\ write[w].at = "refreshing"
                    /\ Settled(key)[w] = [write[w] EXCEPT !.awaits = @ \ {key}]
         /\ \A w \in Writes :
              write[w] # None /\ write[w].at = "refreshing" /\ ~(write[w].awaits \subseteq {key})
                => Settled(key)[w] = [write[w] EXCEPT !.awaits = @ \ {key}]
<1>1. \A v \in Writes : write[v] # None =>
        [write[v] EXCEPT !.awaits = @ \ {key}] \in Mutation
  BY DEF Mutation
<1>2. Settled(key) \in [Writes -> Mutation \cup {None}]
  BY <1>1 DEF Settled
<1> QED
  BY <1>2 DEF Settled

LEMMA InvalidateKeeps ==
  ASSUME cache \in [Keys -> [data : Payload \cup {None}, stale : BOOLEAN,
                             failed : BOOLEAN, overtaken : BOOLEAN]],
         fetch \in [Keys -> Fetch \cup {None}], Invalidate(Keys)
  PROVE  /\ cache' \in [Keys -> [data : Payload \cup {None}, stale : BOOLEAN,
                                 failed : BOOLEAN, overtaken : BOOLEAN]]
         /\ fetch' \in [Keys -> Fetch \cup {None}]
         /\ \A key \in Keys :
              /\ cache'[key] = [cache[key] EXCEPT !.stale = TRUE]
              /\ \/ fetch'[key] = Started
                 \/ ~Fetching(key) /\ key \notin Active /\ fetch'[key] = None
                 \/ /\ Fetching(key) /\ fetch'[key] = [fetch[key] EXCEPT !.overtaken = TRUE]
                    /\ (key \notin Active \/ cache[key].data = None)
<1>1. \A key \in Keys : Fetching(key) => [fetch[key] EXCEPT !.overtaken = TRUE] \in Fetch
  BY DEF Fetch, Fetching
<1>2. \A key \in Keys :
        [cache[key] EXCEPT !.stale = TRUE]
          \in [data : Payload \cup {None}, stale : BOOLEAN, failed : BOOLEAN,
               overtaken : BOOLEAN]
  OBVIOUS
<1>3. \A key \in Keys : key \in Restarts(Keys)
        <=> key \in Active /\ (~Fetching(key) \/ cache[key].data # None)
  BY DEF Restarts
<1>4. /\ cache' = [key \in Keys |-> [cache[key] EXCEPT !.stale = TRUE]]
      /\ fetch' = [key \in Keys |->
                     IF key \in Restarts(Keys) THEN Started
                     ELSE IF Fetching(key) THEN [fetch[key] EXCEPT !.overtaken = TRUE]
                     ELSE fetch[key]]
  BY DEF Invalidate
<1>5. fetch' \in [Keys -> Fetch \cup {None}]
  BY <1>1, <1>4, StartedIsFetch
<1> QED
  BY <1>2, <1>3, <1>4, <1>5 DEF Fetching

----------------------------------------------------------------------------
(* Types.  That one panel has one mutation pending needs to know which     *)
(* panel a button on display belongs to.                                   *)
ButtonsOfPanel ==
    \A w \in Writes : write[w] # None =>
      /\ write[w].shown => tab = IF write[w].kind = "create" THEN "form" ELSE "mine"
      /\ write[w].shown /\ write[w].kind = "cancel" => cache[Mine].data # None
      /\ write[w].at # "refreshing" => write[w].awaits = {}

TypeInv == ScreensTypeOK /\ ButtonsOfPanel

LEMMA InitTypes == Init => TypeInv
<1> SUFFICES ASSUME Init PROVE TypeInv
  OBVIOUS
<1>1. fetch \in [Keys -> Fetch \cup {None}]
  BY StartedIsFetch DEF Init
<1>2. cache \in [Keys -> [data : Payload \cup {None}, stale : BOOLEAN,
                         failed : BOOLEAN, overtaken : BOOLEAN]]
  BY EmptyIsEntry DEF Init
<1> QED
  BY <1>1, <1>2, ScreensAssumption
     DEF Init, TypeInv, ScreensTypeOK, ButtonsOfPanel, Tabs, Statuses

(* Opening a tab, dating a panel, the effect and the focus only start      *)
(* fetches.                                                                *)
LEMMA NavigationTypes ==
  ASSUME TypeInv, \/ \E t \in Tabs : OpenTab(t)
                  \/ \E d \in Dates : ShowDate(d)
                  \/ RunEffect \/ Refocus
  PROVE  TypeInv'
<1> USE DEF TypeInv, ScreensTypeOK, ButtonsOfPanel, Fetching
<1>1. ASSUME NEW t \in Tabs, OpenTab(t) PROVE TypeInv'
  <2>1. /\ fetch' \in [Keys -> Fetch \cup {None}]
        /\ \A key \in Keys : fetch[key] # None => fetch'[key] # None
    BY <1>1, RefetchKeeps DEF OpenTab
  <2>2. \A w \in Writes : write[w] # None => [write[w] EXCEPT !.shown = FALSE] \in Mutation
    BY DEF Mutation
  <2>3. write' = [w \in Writes |-> IF write[w] = None THEN None
                                   ELSE [write[w] EXCEPT !.shown = FALSE]]
    BY <1>1 DEF OpenTab
  <2>4. \A w \in Writes : write'[w] # None =>
          /\ write[w] # None /\ ~write'[w].shown
          /\ write'[w].at = write[w].at /\ write'[w].awaits = write[w].awaits
    BY <2>3 DEF Mutation
  <2>5. write' \in [Writes -> Mutation \cup {None}]
    BY <2>2, <2>3
  <2>6. \A w \in Writes : write'[w] # None => write'[w].awaits \subseteq Keys
    BY <2>5 DEF Mutation
  <2>7. /\ zone' = zone /\ server' = server /\ cache' = cache /\ told' = told
        /\ tab' = t /\ date' = BrowserToday /\ dateWasChanged' = FALSE
        /\ cancelledHere' = {}
    BY <1>1 DEF OpenTab
  <2> QED
    BY <2>1, <2>4, <2>5, <2>6, <2>7, ScreensAssumption
<1>2. ASSUME \E keys : Refetch(keys), date' \in Dates, dateWasChanged' \in BOOLEAN,
             UNCHANGED <<zone, server, cache, tab, write, history>>
      PROVE  TypeInv'
  <2>1. /\ fetch' \in [Keys -> Fetch \cup {None}]
        /\ \A key \in Keys : fetch[key] # None => fetch'[key] # None
    BY <1>2, RefetchKeeps
  <2>2. \A w \in Writes : write[w] # None => write[w].awaits \subseteq Keys
    BY DEF Mutation
  <2> QED
    BY <1>2, <2>1, <2>2 DEF history
<1>3. ASSUME NEW d \in Dates, ShowDate(d) PROVE TypeInv'
  BY <1>2, <1>3 DEF ShowDate
<1>4. CASE RunEffect
  BY <1>2, <1>4, ScreensAssumption DEF RunEffect
<1>5. CASE Refocus
  BY <1>2, <1>5 DEF Refocus, panel
<1> QED
  BY <1>1, <1>3, <1>4, <1>5

LEMMA QueryTypes ==
  ASSUME TypeInv, NEW key \in Keys,
         ServeFetch(key) \/ FetchSucceeds(key) \/ FetchFails(key) \/ Age(key) \/ Collect(key)
  PROVE  TypeInv'
<1> USE DEF TypeInv, ScreensTypeOK, ButtonsOfPanel, Fetching
<1>1. CASE ServeFetch(key)
  <2>1. [fetch[key] EXCEPT !.answer = Answer(key)] \in Fetch
    BY <1>1, AnswerIsPayload DEF ServeFetch, Fetch
  <2>2. /\ fetch' \in [Keys -> Fetch \cup {None}]
        /\ \A k \in Keys : fetch[k] # None => fetch'[k] # None
    BY <1>1, <2>1, NothingAssumption DEF ServeFetch
  <2>3. \A w \in Writes : write[w] # None => write[w].awaits \subseteq Keys
    BY DEF Mutation
  <2> QED
    BY <1>1, <2>2, <2>3 DEF ServeFetch, panel, history
<1>2. ASSUME fetch' = [fetch EXCEPT ![key] = None], write' = Settled(key),
             cache' \in [Keys -> [data : Payload \cup {None}, stale : BOOLEAN,
                                  failed : BOOLEAN, overtaken : BOOLEAN]],
             cache[Mine].data # None => cache'[Mine].data # None,
             UNCHANGED <<zone, server, panel, history>>
      PROVE  TypeInv'
  <2>1. fetch' \in [Keys -> Fetch \cup {None}]
    BY <1>2
  <2>2. write' \in [Writes -> Mutation \cup {None}]
    BY <1>2, SettledKeeps
  <2>3. ASSUME NEW w \in Writes, write'[w] # None
        PROVE  /\ write[w] # None
               /\ write'[w].at = write[w].at /\ write'[w].shown = write[w].shown
               /\ write'[w].kind = write[w].kind
               /\ write'[w].awaits \subseteq write[w].awaits \ {key}
    <3>1. /\ write[w] # None
          /\ \/ write[w].at # "refreshing" /\ write'[w] = write[w]
             \/ write'[w] = [write[w] EXCEPT !.awaits = @ \ {key}]
      BY <1>2, <2>3, SettledKeeps
    <3>2. write[w] \in Mutation
      BY <3>1
    <3>3. CASE write[w].at # "refreshing" /\ write'[w] = write[w]
      <4>1. write[w].awaits = {}
        BY <3>1, <3>3
      <4> QED
        BY <3>1, <3>3, <4>1
    <3>4. CASE write'[w] = [write[w] EXCEPT !.awaits = @ \ {key}]
      BY <3>1, <3>2, <3>4 DEF Mutation
    <3> QED
      BY <3>1, <3>3, <3>4
  <2>4. \A w \in Writes : write'[w] # None => \A k \in write'[w].awaits : fetch'[k] # None
    <3>1. \A w \in Writes : write[w] # None => write[w].awaits \subseteq Keys
      BY DEF Mutation
    <3> QED
      BY <1>2, <2>3, <3>1
  <2>5. \A v, w \in Writes :
          write'[v] # None /\ write'[w] # None /\ write'[v].shown /\ write'[w].shown => v = w
    BY <2>3
  <2>6. ButtonsOfPanel'
    BY <1>2, <2>3 DEF panel
  <2> QED
    BY <1>2, <2>1, <2>2, <2>4, <2>5, <2>6 DEF panel, history
<1>3. CASE FetchSucceeds(key)
  <2>1. fetch[key].answer \in Payload /\ fetch[key].answer # None /\ fetch[key].overtaken \in BOOLEAN
    BY <1>3 DEF FetchSucceeds, Fetch
  <2>2. /\ cache' \in [Keys -> [data : Payload \cup {None}, stale : BOOLEAN,
                                failed : BOOLEAN, overtaken : BOOLEAN]]
        /\ cache[Mine].data # None => cache'[Mine].data # None
    BY <1>3, <2>1, KeysOfPanel DEF FetchSucceeds
  <2> QED
    BY <1>2, <1>3, <2>2 DEF FetchSucceeds
<1>4. CASE FetchFails(key)
  <2>1. /\ cache' \in [Keys -> [data : Payload \cup {None}, stale : BOOLEAN,
                                failed : BOOLEAN, overtaken : BOOLEAN]]
        /\ cache'[Mine].data = cache[Mine].data
    BY <1>4, KeysOfPanel DEF FetchFails
  <2> QED
    BY <1>2, <1>4, <2>1 DEF FetchFails
<1>5. CASE Age(key)
  <2>1. /\ cache' \in [Keys -> [data : Payload \cup {None}, stale : BOOLEAN,
                                failed : BOOLEAN, overtaken : BOOLEAN]]
        /\ cache'[Mine].data = cache[Mine].data
    BY <1>5, KeysOfPanel DEF Age
  <2> QED
    BY <1>5, <2>1 DEF Age, panel, history
<1>6. CASE Collect(key)
  <2>1. cache' \in [Keys -> [data : Payload \cup {None}, stale : BOOLEAN,
                             failed : BOOLEAN, overtaken : BOOLEAN]]
    BY <1>6, EmptyIsEntry DEF Collect
  <2>2. tab = "mine" => cache'[Mine] = cache[Mine]
    BY <1>6, KeysOfPanel DEF Collect, Active
  <2>3. \A w \in Writes : write[w] # None /\ write[w].shown /\ write[w].kind = "cancel" => tab = "mine"
    OBVIOUS
  <2> QED
    BY <1>6, <2>1, <2>2, <2>3 DEF Collect, panel, history
<1> QED
  BY <1>1, <1>3, <1>4, <1>5, <1>6

LEMMA MutateTypes ==
  ASSUME TypeInv, NEW b \in Bookings, Create(b) \/ Cancel(b)
  PROVE  TypeInv'
<1> USE DEF TypeInv, ScreensTypeOK, ButtonsOfPanel
<1>1. PICK kind \in {"create", "cancel"} :
        /\ Mutate(kind, b) /\ ~Pending(kind)
        /\ tab = IF kind = "create" THEN "form" ELSE "mine"
        /\ kind = "cancel" => cache[Mine].data # None
  BY DEF Create, Filled, Cancel, Offered
<1> DEFINE new == [kind |-> kind, booking |-> b, at |-> "sent", ok |-> FALSE,
                   shown |-> TRUE, awaits |-> {}]
<1>2. new \in Mutation /\ new # None
  <2>1. new \in Mutation
    BY DEF Mutation
  <2> QED
    BY <2>1, NothingAssumption
<1>3. PICK w \in Writes : write[w] = None /\ write' = [write EXCEPT ![w] = new]
  BY <1>1 DEF Mutate
<1>4. UNCHANGED <<zone, server, cache, fetch, tab, date, dateWasChanged, told,
                  cancelledHere>>
  BY <1>1 DEF Mutate, panel, history
<1>5. /\ write' \in [Writes -> Mutation \cup {None}]
      /\ write'[w] = new
      /\ \A v \in Writes \ {w} : write'[v] = write[v]
  BY <1>2, <1>3
<1>6. \A v \in Writes \ {w} : write'[v] # None => ~write'[v].shown
  <2>1. \A v \in Writes : write[v] # None /\ write[v].shown
          => write[v].kind = kind
    <3>1. \A v \in Writes : write[v] # None => write[v].kind \in {"create", "cancel"}
      BY DEF Mutation
    <3> QED
      BY <1>1, <3>1
  <2> QED
    BY <1>1, <1>5, <2>1 DEF Pending
<1>7. \A v \in Writes : write'[v] # None => \A key \in write'[v].awaits : fetch'[key] # None
  BY <1>4, <1>5 DEF Fetching
<1>8. \A v, u \in Writes :
        write'[v] # None /\ write'[u] # None /\ write'[v].shown /\ write'[u].shown => v = u
  BY <1>6
<1>9. ButtonsOfPanel'
  BY <1>1, <1>4, <1>5
<1> QED
  BY <1>4, <1>5, <1>7, <1>8, <1>9 DEF Fetching

(* What the server and the answers change of a mutation                    *)
LEMMA WriteTypes ==
  ASSUME TypeInv, NEW w \in Writes, ServeWrite(w) \/ RefuseWrite(w) \/ Handle(w)
  PROVE  TypeInv'
<1> USE DEF TypeInv, ScreensTypeOK, ButtonsOfPanel
<1>1. write[w] # None /\ write[w] \in Mutation
  BY DEF ServeWrite, RefuseWrite, Handle, WriteSucceeds, WriteFails
<1>2. ASSUME NEW m \in Mutation, m.kind = write[w].kind, m.shown = write[w].shown,
             m.at # "refreshing" => m.awaits = {},
             write' = [write EXCEPT ![w] = m],
             \A key \in m.awaits : fetch'[key] # None,
             fetch' \in [Keys -> Fetch \cup {None}],
             \A key \in Keys : fetch[key] # None => fetch'[key] # None,
             cache' \in [Keys -> [data : Payload \cup {None}, stale : BOOLEAN,
                                  failed : BOOLEAN, overtaken : BOOLEAN]],
             cache'[Mine].data = cache[Mine].data,
             server' \in [Bookings -> Statuses], told' \in [Bookings -> Statuses],
             cancelledHere' \subseteq Bookings,
             UNCHANGED <<zone, panel>>
      PROVE  TypeInv'
  <2>1. /\ write' \in [Writes -> Mutation \cup {None}]
        /\ write'[w] = m
        /\ \A v \in Writes \ {w} : write'[v] = write[v]
    BY <1>2
  <2>2. \A v \in Writes : write'[v] # None => \A key \in write'[v].awaits : fetch'[key] # None
    <3>1. \A v \in Writes : write[v] # None => write[v].awaits \subseteq Keys
      BY DEF Mutation
    <3> QED
      BY <1>2, <2>1, <3>1 DEF Fetching
  <2>3. \A v, u \in Writes :
          write'[v] # None /\ write'[u] # None /\ write'[v].shown /\ write'[u].shown => v = u
    BY <1>1, <1>2, <2>1
  <2>4. ButtonsOfPanel'
    BY <1>1, <1>2, <2>1 DEF panel
  <2> QED
    BY <1>2, <2>1, <2>2, <2>3, <2>4 DEF Fetching, panel
<1>3. \A at \in {"sent", "answered"}, ok \in BOOLEAN :
        [write[w] EXCEPT !.at = at, !.ok = ok] \in Mutation
  BY <1>1 DEF Mutation
<1>4. CASE ServeWrite(w)
  <2>1. PICK ok \in BOOLEAN :
          write' = [write EXCEPT ![w] = [write[w] EXCEPT !.at = "answered", !.ok = ok]]
    BY <1>4 DEF ServeWrite
  <2>2. server' \in [Bookings -> Statuses]
    BY <1>1, <1>4 DEF ServeWrite, Mutation, Becomes, Statuses
  <2>3. write[w].awaits = {}
    BY <1>1, <1>4 DEF ServeWrite
  <2> DEFINE m == [write[w] EXCEPT !.at = "answered", !.ok = ok]
  <2>4. /\ m \in Mutation /\ m.kind = write[w].kind /\ m.shown = write[w].shown
        /\ m.awaits = {}
    BY <1>1, <1>3, <2>3 DEF Mutation
  <2> HIDE DEF m
  <2> QED
    BY <1>2, <1>4, <2>1, <2>2, <2>4 DEF ServeWrite, history, m
<1>5. CASE RefuseWrite(w)
  <2> DEFINE m == [write[w] EXCEPT !.at = "answered"]
  <2>1. write[w].awaits = {}
    BY <1>1, <1>5 DEF RefuseWrite
  <2>2. /\ m \in Mutation /\ m.kind = write[w].kind /\ m.shown = write[w].shown
        /\ m.awaits = {}
    BY <1>1, <2>1 DEF Mutation
  <2> HIDE DEF m
  <2> QED
    BY <1>2, <1>5, <2>2 DEF RefuseWrite, history, m
<1>6. CASE WriteSucceeds(w)
  <2> DEFINE m == [write[w] EXCEPT !.at = "refreshing", !.awaits = Active]
  <2>1. /\ m \in Mutation /\ m.kind = write[w].kind /\ m.shown = write[w].shown
        /\ m.awaits = Active /\ m.at = "refreshing"
    BY <1>1, KeysOfPanel DEF Mutation
  <2>2. write' = [write EXCEPT ![w] = m]
    BY <1>6 DEF WriteSucceeds
  <2>3. /\ cache' \in [Keys -> [data : Payload \cup {None}, stale : BOOLEAN,
                                failed : BOOLEAN, overtaken : BOOLEAN]]
        /\ cache'[Mine].data = cache[Mine].data
    <3>1. /\ cache' \in [Keys -> [data : Payload \cup {None}, stale : BOOLEAN,
                                  failed : BOOLEAN, overtaken : BOOLEAN]]
          /\ \A key \in Keys : cache'[key] = [cache[key] EXCEPT !.stale = TRUE]
      BY <1>6, InvalidateKeeps DEF WriteSucceeds
    <3>2. Mine \in Keys
      BY DEF Keys
    <3>3. cache'[Mine] = [cache[Mine] EXCEPT !.stale = TRUE]
      BY <3>1, <3>2
    <3> QED
      BY <3>1, <3>2, <3>3
  <2>4. /\ fetch' \in [Keys -> Fetch \cup {None}]
        /\ \A key \in Keys : \/ fetch'[key] = Started
                             \/ fetch[key] = None /\ key \notin Active
                             \/ fetch'[key] = [fetch[key] EXCEPT !.overtaken = TRUE]
                                 /\ fetch[key] # None
    BY <1>6, InvalidateKeeps DEF WriteSucceeds, Fetching
  <2>5. \A key \in Keys : fetch[key] # None \/ key \in Active => fetch'[key] # None
    <3>1. \A key \in Keys : fetch[key] # None
            => [fetch[key] EXCEPT !.overtaken = TRUE] \in Fetch
      BY DEF Fetch
    <3> QED
      BY <2>4, <3>1, StartedIsFetch, NothingAssumption
  <2>6. /\ told' \in [Bookings -> Statuses] /\ cancelledHere' \subseteq Bookings
    BY <1>1, <1>6 DEF WriteSucceeds, Told, Mutation, Becomes, Statuses
  <2>7. UNCHANGED <<zone, server, panel>>
    BY <1>6 DEF WriteSucceeds
  <2>8. \A key \in m.awaits : fetch'[key] # None
    BY <2>1, <2>5, KeysOfPanel
  <2> HIDE DEF m
  <2> QED
    BY <1>2, <2>1, <2>2, <2>3, <2>4, <2>5, <2>6, <2>7, <2>8
<1>7. CASE WriteFails(w)
  <2>1. write' = [write EXCEPT ![w] = None]
    BY <1>7 DEF WriteFails
  <2>2. /\ write' \in [Writes -> Mutation \cup {None}]
        /\ \A v \in Writes : write'[v] # None => write'[v] = write[v] /\ write[v] # None
    BY <2>1
  <2> QED
    BY <1>7, <2>2 DEF WriteFails, panel, history, Fetching
<1> QED
  BY <1>4, <1>5, <1>6, <1>7 DEF Handle

LEMMA StepTypes == TypeInv /\ [Next]_screenVars => TypeInv'
<1> SUFFICES ASSUME TypeInv, [Next]_screenVars PROVE TypeInv'
  OBVIOUS
<1>1. CASE \E b \in Bookings : CancelElsewhere(b)
  BY <1>1 DEF CancelElsewhere, TypeInv, ScreensTypeOK, ButtonsOfPanel, Fetching, Statuses,
              panel, history
<1>2. CASE UNCHANGED screenVars
  BY <1>2 DEF screenVars, TypeInv, ScreensTypeOK, ButtonsOfPanel, Fetching
<1> QED
  BY <1>1, <1>2, NavigationTypes, QueryTypes, MutateTypes, WriteTypes DEF Next

LEMMA TypesHold == Spec => []TypeInv
  BY InitTypes, StepTypes, PTL DEF Spec

(* The screens are well typed: one panel never has two mutations pending   *)
(* (the buttons of BookingForm.tsx:228 and MyBookings.tsx:89 are disabled  *)
(* meanwhile), and none waits for a fetch that is not on its way.          *)
THEOREM ScreensTypeCorrect == Spec => []ScreensTypeOK
<1>1. TypeInv => ScreensTypeOK
  BY DEF TypeInv
<1> QED
  BY <1>1, TypesHold, PTL

----------------------------------------------------------------------------
(* What is answered and told is done: statuses go one way.                 *)
GoesOn(from, to) == \/ to = from
                    \/ from = "absent" /\ to = "confirmed"
                    \/ from = "confirmed" /\ to = "cancelled"

Done(kind, status) == IF kind = "create" THEN status # "absent" ELSE status = "cancelled"

DoneInv ==
    /\ \A w \in Writes : write[w] # None =>
         /\ write[w].at = "sent" => ~write[w].ok
         /\ write[w].at = "answered" /\ write[w].ok
              => Done(write[w].kind, server[write[w].booking])
    /\ \A b \in Bookings :
         /\ told[b] = "confirmed" => server[b] # "absent"
         /\ told[b] = "cancelled" => server[b] = "cancelled"

LEMMA ServerGoesOn ==
  ASSUME TypeInv, [Next]_screenVars
  PROVE  \A b \in Bookings : GoesOn(server[b], server'[b])
<1> USE DEF TypeInv, ScreensTypeOK, GoesOn
<1>1. CASE \E w \in Writes : ServeWrite(w)
  <2>1. PICK w \in Writes : ServeWrite(w)
    BY <1>1
  <2>2. write[w] \in Mutation
    BY <2>1 DEF ServeWrite
  <2> QED
    BY <2>1, <2>2 DEF ServeWrite, Mutation, Becomes, Allowed
<1>2. CASE \E b \in Bookings : CancelElsewhere(b)
  BY <1>2 DEF CancelElsewhere
<1>3. CASE UNCHANGED server
  BY <1>3
<1>4. \/ \E w \in Writes : ServeWrite(w)
      \/ \E b \in Bookings : CancelElsewhere(b)
      \/ UNCHANGED server
  BY DEF Next, OpenTab, ShowDate, RunEffect, Refocus, ServeFetch, FetchSucceeds, FetchFails,
         Age, Collect, Create, Cancel, Mutate, RefuseWrite, Handle, WriteSucceeds, WriteFails,
         screenVars
<1> QED
  BY <1>1, <1>2, <1>3, <1>4

LEMMA InitDone == Init => DoneInv
  BY DEF Init, DoneInv

LEMMA StepDone == TypeInv /\ DoneInv /\ [Next]_screenVars => DoneInv'
<1> SUFFICES ASSUME TypeInv, DoneInv, [Next]_screenVars PROVE DoneInv'
  OBVIOUS
<1> USE DEF TypeInv, ScreensTypeOK
<1>1. \A b \in Bookings : GoesOn(server[b], server'[b])
  BY ServerGoesOn
(* Mutations that are as they were, but for their button and what they     *)
(* wait for, or have just been sent                                        *)
<1>2. ASSUME told' = told,
             \A w \in Writes : write'[w] # None =>
               \/ write'[w].at = "sent" /\ ~write'[w].ok
               \/ write'[w].at = "refreshing"
               \/ write'[w].at = "answered" /\ ~write'[w].ok
               \/ /\ write[w] # None /\ write'[w].at = write[w].at /\ write'[w].ok = write[w].ok
                  /\ write'[w].kind = write[w].kind /\ write'[w].booking = write[w].booking
      PROVE  DoneInv'
  <2>1. \A w \in Writes : write[w] # None =>
          write[w].kind \in {"create", "cancel"} /\ write[w].booking \in Bookings
    BY DEF Mutation
  <2> QED
    BY <1>1, <1>2, <2>1 DEF DoneInv, GoesOn, Done
<1>3. ASSUME NEW w \in Writes, ServeWrite(w) PROVE DoneInv'
  <2>1. write[w] \in Mutation /\ write[w].booking \in Bookings
    BY <1>3 DEF ServeWrite, Mutation
  <2>2. PICK ok \in BOOLEAN :
          write' = [write EXCEPT ![w] = [write[w] EXCEPT !.at = "answered", !.ok = ok]]
    BY <1>3 DEF ServeWrite
  <2>3. server'[write[w].booking] = Becomes(write[w].kind)
    BY <1>3, <2>1 DEF ServeWrite
  <2>4. /\ write'[w].kind = write[w].kind /\ write'[w].booking = write[w].booking
        /\ write'[w].at = "answered"
        /\ \A v \in Writes \ {w} : write'[v] = write[v]
    BY <2>1, <2>2 DEF Mutation
  <2>5. \A v \in Writes : write[v] # None => write[v].booking \in Bookings
    BY DEF Mutation
  <2>6. Done(write'[w].kind, server'[write'[w].booking])
    BY <2>3, <2>4 DEF Done, Becomes
  <2>7. told' = told
    BY <1>3 DEF ServeWrite, history
  <2> QED
    BY <1>1, <2>4, <2>5, <2>6, <2>7 DEF DoneInv, GoesOn, Done
<1>4. ASSUME NEW w \in Writes, WriteSucceeds(w) PROVE DoneInv'
  <2>1. write[w] \in Mutation /\ write[w].booking \in Bookings
    BY <1>4 DEF WriteSucceeds, Mutation
  <2>2. told' = [told EXCEPT ![write[w].booking] = Becomes(write[w].kind)]
    BY <1>4 DEF WriteSucceeds, Told
  <2>3. Done(write[w].kind, server[write[w].booking])
    BY <1>4 DEF WriteSucceeds, DoneInv
  <2>4. server' = server
    BY <1>4 DEF WriteSucceeds
  <2>5. /\ write'[w].at = "refreshing"
        /\ \A v \in Writes \ {w} : write'[v] = write[v]
    BY <1>4, <2>1 DEF WriteSucceeds, Mutation
  <2>6. \A b \in Bookings :
          /\ told'[b] = "confirmed" => server[b] # "absent"
          /\ told'[b] = "cancelled" => server[b] = "cancelled"
    BY <2>1, <2>2, <2>3 DEF DoneInv, Done, Becomes
  <2> QED
    BY <2>4, <2>5, <2>6 DEF DoneInv
<1>5. ASSUME NEW t \in Tabs, OpenTab(t) PROVE DoneInv'
  <2>1. \A w \in Writes : write'[w] # None =>
          /\ write[w] # None /\ write'[w].at = write[w].at /\ write'[w].ok = write[w].ok
          /\ write'[w].kind = write[w].kind /\ write'[w].booking = write[w].booking
    BY <1>5 DEF OpenTab, Mutation
  <2> QED
    BY <1>2, <1>5, <2>1 DEF OpenTab
<1>6. ASSUME NEW key \in Keys, FetchSucceeds(key) \/ FetchFails(key) PROVE DoneInv'
  <2>1. write' = Settled(key) /\ told' = told
    BY <1>6 DEF FetchSucceeds, FetchFails, history
  <2>2. \A w \in Writes : write[w] # None =>
          [write[w] EXCEPT !.awaits = @ \ {key}].at = write[w].at
    BY DEF Mutation
  <2>3. \A w \in Writes : write'[w] # None =>
          \/ write'[w].at = "refreshing"
          \/ write[w] # None /\ write'[w] = write[w]
    BY <2>1, <2>2, SettledKeeps
  <2> QED
    BY <1>2, <2>1, <2>3
<1>7. ASSUME NEW b \in Bookings, Create(b) \/ Cancel(b) PROVE DoneInv'
  <2>1. PICK w \in Writes, kind \in {"create", "cancel"} :
          write' = [write EXCEPT ![w] =
                      [kind |-> kind, booking |-> b, at |-> "sent", ok |-> FALSE,
                       shown |-> TRUE, awaits |-> {}]]
    BY <1>7 DEF Create, Cancel, Mutate
  <2>2. told' = told
    BY <1>7 DEF Create, Cancel, Mutate, history
  <2> QED
    BY <1>2, <2>1, <2>2
<1>8. ASSUME NEW w \in Writes, RefuseWrite(w) PROVE DoneInv'
  <2>1. write[w] \in Mutation /\ ~write[w].ok
    BY <1>8 DEF RefuseWrite, DoneInv
  <2>2. /\ write'[w].at = "answered" /\ ~write'[w].ok
        /\ \A v \in Writes \ {w} : write'[v] = write[v]
    BY <1>8, <2>1 DEF RefuseWrite, Mutation
  <2> QED
    BY <1>2, <1>8, <2>2 DEF RefuseWrite, history
<1>9. ASSUME NEW w \in Writes, WriteFails(w) PROVE DoneInv'
  BY <1>2, <1>9 DEF WriteFails, history
<1>10. CASE write' = write /\ told' = told
  BY <1>2, <1>10
<1>11. ASSUME \/ \E d \in Dates : ShowDate(d)
              \/ RunEffect \/ Refocus \/ UNCHANGED screenVars
              \/ \E key \in Keys : ServeFetch(key) \/ Age(key) \/ Collect(key)
              \/ \E b \in Bookings : CancelElsewhere(b)
       PROVE  write' = write /\ told' = told
  BY <1>11 DEF ShowDate, RunEffect, Refocus, ServeFetch, Age, Collect, CancelElsewhere,
               screenVars, history
<1> QED
  BY <1>3, <1>4, <1>5, <1>6, <1>7, <1>8, <1>9, <1>10, <1>11 DEF Next, Handle

LEMMA DoneHolds == Spec => []DoneInv
  BY InitDone, StepDone, TypesHold, PTL DEF Spec

----------------------------------------------------------------------------
(* The list after a cancellation.  No answer on its way still has what     *)
(* this mount of My bookings cancelled, and while the list on display has  *)
(* it, the mutation that waits for a newer list keeps the buttons off.     *)
Keeping(w) == /\ write[w] # None /\ write[w].kind = "cancel" /\ write[w].shown
              /\ write[w].at = "refreshing" /\ Mine \in write[w].awaits

ListIsNewer ==
    \A b \in cancelledHere :
      /\ tab = "mine" /\ server[b] = "cancelled"
      /\ fetch[Mine] # None /\ fetch[Mine].answer # None => b \notin fetch[Mine].answer.live
      /\ cache[Mine].data # None /\ ~cache[Mine].failed /\ b \in cache[Mine].data.live
           => \E w \in Writes : Keeping(w)

(* A step that is not about the list keeps it, and the mutation.           *)
LEMMA ListKept ==
  ASSUME TypeInv, ListIsNewer, [Next]_screenVars,
         cancelledHere' = cancelledHere, tab' = tab,
         cache'[Mine].data = cache[Mine].data, cache'[Mine].failed = cache[Mine].failed,
         fetch'[Mine] # None /\ fetch'[Mine].answer # None =>
           /\ fetch[Mine] # None /\ fetch[Mine].answer # None
           /\ fetch'[Mine].answer = fetch[Mine].answer,
         \A w \in Writes : Keeping(w) => Keeping(w)'
  PROVE  ListIsNewer'
<1>1. cancelledHere \subseteq Bookings
  BY DEF TypeInv, ScreensTypeOK
<1>2. \A b \in cancelledHere : server'[b] = "cancelled"
  BY <1>1, ServerGoesOn DEF ListIsNewer, GoesOn
<1> QED
  BY <1>2 DEF ListIsNewer

LEMMA InitList == Init => ListIsNewer
  BY DEF Init, ListIsNewer

LEMMA StepList == TypeInv /\ DoneInv /\ ListIsNewer /\ [Next]_screenVars => ListIsNewer'
<1> SUFFICES ASSUME TypeInv, DoneInv, ListIsNewer, [Next]_screenVars PROVE ListIsNewer'
  OBVIOUS
<1>1. Mine \in Keys /\ Mine \notin Dates /\ BrowserToday \in Dates
  BY ScreensAssumption DEF Keys
<1>2. /\ fetch \in [Keys -> Fetch \cup {None}]
      /\ write \in [Writes -> Mutation \cup {None}]
      /\ cache \in [Keys -> [data : Payload \cup {None}, stale : BOOLEAN,
                             failed : BOOLEAN, overtaken : BOOLEAN]]
      /\ cancelledHere \subseteq Bookings
  BY DEF TypeInv, ScreensTypeOK
<1>3. ASSUME NEW t \in Tabs, OpenTab(t) PROVE ListIsNewer'
  BY <1>3 DEF OpenTab, ListIsNewer
<1>4. ASSUME \E keys : Refetch(keys), UNCHANGED <<cancelledHere, tab, cache, write>>
      PROVE  ListIsNewer'
  <2>1. fetch'[Mine] = fetch[Mine] \/ fetch'[Mine] = Started
    BY <1>1, <1>2, <1>4, RefetchKeeps
  <2>2. Started.answer = None
    BY DEF Started
  <2> QED
    BY <1>4, <2>1, <2>2, ListKept DEF Keeping
<1>5. ASSUME NEW d \in Dates, ShowDate(d) PROVE ListIsNewer'
  BY <1>4, <1>5 DEF ShowDate, history
<1>6. CASE RunEffect
  BY <1>4, <1>6 DEF RunEffect, history
<1>7. CASE Refocus
  BY <1>4, <1>7 DEF Refocus, panel, history
<1>8. ASSUME NEW key \in Keys, ServeFetch(key) PROVE ListIsNewer'
  <2>1. CASE key = Mine
    <3>1. fetch'[Mine].answer = Answer(Mine)
      BY <1>1, <1>2, <1>8, <2>1 DEF ServeFetch, Fetching, Fetch
    <3>2. \A b : b \in Answer(Mine).live => server[b] = "confirmed"
      BY DEF Answer, With
    <3> QED
      BY <1>8, <3>1, <3>2 DEF ServeFetch, ListIsNewer, panel, history, Keeping
  <2>2. CASE key # Mine
    <3>1. fetch'[Mine] = fetch[Mine]
      BY <1>1, <1>2, <1>8, <2>2 DEF ServeFetch
    <3> QED
      BY <1>8, <3>1, ListKept DEF ServeFetch, panel, history, Keeping
  <2> QED
    BY <2>1, <2>2
<1>9. ASSUME NEW key \in Keys, FetchSucceeds(key) \/ FetchFails(key) PROVE ListIsNewer'
  <2>1. /\ fetch' = [fetch EXCEPT ![key] = None] /\ write' = Settled(key)
        /\ UNCHANGED <<server, tab, cancelledHere>>
    BY <1>9 DEF FetchSucceeds, FetchFails, panel, history
  <2>2. CASE key = Mine /\ FetchSucceeds(key)
    <3>1. /\ cache'[Mine].data = fetch[Mine].answer
          /\ fetch[Mine] # None /\ fetch[Mine].answer # None /\ fetch'[Mine] = None
      BY <1>1, <1>2, <2>1, <2>2 DEF FetchSucceeds, Fetching
    <3> QED
      BY <2>1, <3>1 DEF ListIsNewer
  <2>3. CASE key = Mine /\ FetchFails(key)
    <3>1. cache'[Mine].failed = TRUE /\ fetch'[Mine] = None
      BY <1>1, <1>2, <2>1, <2>3 DEF FetchFails
    <3> QED
      BY <2>1, <3>1 DEF ListIsNewer
  <2>4. CASE key # Mine
    <3>1. fetch'[Mine] = fetch[Mine] /\ cache'[Mine] = cache[Mine]
      BY <1>1, <1>2, <1>9, <2>1, <2>4 DEF FetchSucceeds, FetchFails
    <3>2. ASSUME NEW w \in Writes, Keeping(w) PROVE Keeping(w)'
      <4>1. /\ write[w] \in Mutation /\ write[w] # None /\ write[w].at = "refreshing"
            /\ ~(write[w].awaits \subseteq {key})
        BY <1>2, <2>4, <3>2 DEF Keeping
      <4>2. write'[w] = [write[w] EXCEPT !.awaits = @ \ {key}]
        BY <1>2, <2>1, <4>1, SettledKeeps
      <4>3. write'[w] \in Mutation
        BY <4>1, <4>2 DEF Mutation
      <4> QED
        BY <2>4, <3>2, <4>1, <4>2, <4>3, NothingAssumption DEF Keeping, Mutation
    <3> QED
      BY <2>1, <3>1, <3>2, ListKept
  <2> QED
    BY <1>9, <2>2, <2>3, <2>4
<1>10. ASSUME NEW key \in Keys, Age(key) PROVE ListIsNewer'
  <2>1. cache'[Mine].data = cache[Mine].data /\ cache'[Mine].failed = cache[Mine].failed
    BY <1>1, <1>2, <1>10 DEF Age
  <2> QED
    BY <1>10, <2>1, ListKept DEF Age, panel, history, Keeping
<1>11. ASSUME NEW key \in Keys, Collect(key) PROVE ListIsNewer'
  <2>1. CASE cancelledHere = {}
    BY <1>11, <2>1 DEF Collect, history, ListIsNewer
  <2>2. CASE cancelledHere # {}
    <3>1. tab = "mine"
      BY <2>2 DEF ListIsNewer
    <3>2. key # Mine
      BY <1>11, <3>1 DEF Collect, Active
    <3>3. cache'[Mine] = cache[Mine]
      BY <1>1, <1>2, <1>11, <3>2 DEF Collect
    <3> QED
      BY <1>11, <3>3, ListKept DEF Collect, panel, history, Keeping
  <2> QED
    BY <2>1, <2>2
<1>12. ASSUME UNCHANGED <<cancelledHere, tab, cache, fetch>>,
              \A w \in Writes : Keeping(w) => write'[w] = write[w]
       PROVE  ListIsNewer'
  BY <1>12, ListKept DEF Keeping
<1>13. ASSUME NEW b \in Bookings, Create(b) \/ Cancel(b) PROVE ListIsNewer'
  <2>1. UNCHANGED <<cancelledHere, tab, cache, fetch>>
    BY <1>13 DEF Create, Cancel, Mutate, panel, history
  <2>2. \A w \in Writes : write[w] # None => write'[w] = write[w]
    <3>1. PICK v \in Writes, kind \in {"create", "cancel"} :
            /\ write[v] = None
            /\ write' = [write EXCEPT ![v] =
                      [kind |-> kind, booking |-> b, at |-> "sent", ok |-> FALSE,
                       shown |-> TRUE, awaits |-> {}]]
      BY <1>13 DEF Create, Cancel, Mutate
    <3> QED
      BY <1>2, <3>1
  <2> QED
    BY <1>12, <2>1, <2>2 DEF Keeping
<1>14. ASSUME NEW b \in Bookings, CancelElsewhere(b) PROVE ListIsNewer'
  BY <1>12, <1>14 DEF CancelElsewhere, panel, history
<1>15. ASSUME NEW w \in Writes, ServeWrite(w) \/ RefuseWrite(w) \/ WriteFails(w)
       PROVE  ListIsNewer'
  <2>1. UNCHANGED <<cancelledHere, tab, cache, fetch>>
    BY <1>15 DEF ServeWrite, RefuseWrite, WriteFails, panel, history
  <2>2. write[w].at # "refreshing" /\ \A v \in Writes \ {w} : write'[v] = write[v]
    BY <1>2, <1>15 DEF ServeWrite, RefuseWrite, WriteFails
  <2> QED
    BY <1>12, <2>1, <2>2 DEF Keeping
<1>16. ASSUME NEW w \in Writes, WriteSucceeds(w) PROVE ListIsNewer'
  <2>1. /\ write[w] # None /\ write[w] \in Mutation /\ write[w].booking \in Bookings
        /\ write[w].at = "answered" /\ write[w].ok
    BY <1>2, <1>16 DEF WriteSucceeds, Mutation
  <2>2. /\ write'[w] = [write[w] EXCEPT !.at = "refreshing", !.awaits = Active]
        /\ \A v \in Writes \ {w} : write'[v] = write[v]
        /\ server' = server /\ tab' = tab
    BY <1>2, <1>16 DEF WriteSucceeds, panel
  <2>3. \A v \in Writes : Keeping(v) => Keeping(v)'
    BY <2>1, <2>2 DEF Keeping
  <2>4. /\ cache'[Mine].data = cache[Mine].data /\ cache'[Mine].failed = cache[Mine].failed
        /\ fetch'[Mine] # None /\ fetch'[Mine].answer # None =>
             /\ fetch[Mine] # None /\ fetch'[Mine].answer = fetch[Mine].answer
             /\ Mine \notin Active \/ cache[Mine].data = None
    <3>1. /\ cache'[Mine] = [cache[Mine] EXCEPT !.stale = TRUE]
          /\ \/ fetch'[Mine] = Started
             \/ fetch'[Mine] = None
             \/ /\ fetch[Mine] # None /\ fetch'[Mine] = [fetch[Mine] EXCEPT !.overtaken = TRUE]
                /\ Mine \notin Active \/ cache[Mine].data = None
      BY <1>1, <1>2, <1>16, InvalidateKeeps DEF WriteSucceeds, Fetching
    <3>2. fetch[Mine] # None => [fetch[Mine] EXCEPT !.overtaken = TRUE].answer = fetch[Mine].answer
      BY <1>1, <1>2 DEF Fetch
    <3>3. cache[Mine] \in [data : Payload \cup {None}, stale : BOOLEAN,
                           failed : BOOLEAN, overtaken : BOOLEAN]
      BY <1>1, <1>2
    <3>4. /\ [cache[Mine] EXCEPT !.stale = TRUE].data = cache[Mine].data
          /\ [cache[Mine] EXCEPT !.stale = TRUE].failed = cache[Mine].failed
      BY <3>3
    <3>5. Started.answer = None
      BY DEF Started
    <3> QED
      BY <3>1, <3>2, <3>4, <3>5
  <2>5. CASE cancelledHere' = cancelledHere
    BY <2>2, <2>3, <2>4, <2>5, ListKept
  <2>6. CASE write[w].kind = "cancel" /\ write[w].shown
    <3>1. tab = "mine" /\ cache[Mine].data # None /\ Mine \in Active
      BY <2>1, <2>6 DEF TypeInv, ButtonsOfPanel, Active
    <3>2. server[write[w].booking] = "cancelled"
      BY <2>1, <2>6 DEF DoneInv, Done
    <3>3. \A b \in cancelledHere' : server[b] = "cancelled"
      BY <1>16, <3>2 DEF WriteSucceeds, Told, ListIsNewer
    <3>4. Keeping(w)'
      <4>1. Active \subseteq Keys
        BY KeysOfPanel DEF TypeInv, ScreensTypeOK
      <4>2. /\ write'[w] \in Mutation
            /\ write'[w].kind = write[w].kind /\ write'[w].shown = write[w].shown
            /\ write'[w].at = "refreshing" /\ write'[w].awaits = Active
        BY <2>1, <2>2, <4>1 DEF Mutation
      <4> QED
        BY <2>6, <3>1, <4>2, NothingAssumption DEF Keeping
    <3>5. ~(fetch'[Mine] # None /\ fetch'[Mine].answer # None)
      BY <2>4, <3>1
    <3> QED
      BY <2>2, <3>1, <3>3, <3>4, <3>5 DEF ListIsNewer
  <2> QED
    BY <1>16, <2>5, <2>6 DEF WriteSucceeds, Told
<1>17. CASE UNCHANGED screenVars
  BY <1>12, <1>17 DEF screenVars
<1> QED
  BY <1>3, <1>5, <1>6, <1>7, <1>8, <1>9, <1>10, <1>11, <1>13, <1>14, <1>15, <1>16, <1>17
     DEF Next, Handle

(* My bookings never offers what it has cancelled for cancellation again   *)
(* (the buttons of MyBookings.tsx:89, with the invalidation that the       *)
(* mutation of MyBookings.tsx:29 waits for).                               *)
THEOREM NeverOfferedAgain == Spec => []NotOfferedAgain
<1>1. ListIsNewer => NotOfferedAgain
  BY DEF ListIsNewer, NotOfferedAgain, Offered, Pending, Keeping
<1> QED
  BY <1>1, InitList, StepList, TypesHold, DoneHolds, PTL DEF Spec

----------------------------------------------------------------------------
(* The panels and what the user was told.  A schedule is what lies on its  *)
(* date.                                                                   *)
LEMMA OccupiedIs ==
  ASSUME zone \in Zones, NEW d \in Dates, Regular(d), NEW b \in Bookings
  PROVE  b \in Occupied(d) <=> server[b] = "confirmed" /\ LiesOn(b, d)
<1>1. PICK office \in Zone : office = zone /\ office.after - office.before < DayLength
  BY ScreensAssumption
<1>2. PICK begin \in Int, stop \in Int, from \in Int, to \in Int :
        /\ begin = Interval[b].start /\ stop = Interval[b].end /\ begin < stop
        /\ from = DayStart(zone, d) /\ to = DayEnd(zone, d) /\ from < to
  <2>1. PICK first \in Int, last \in Int :
          /\ first = LocalTime(d, 0) /\ last = LocalTime(d + 1, 0)
          /\ last = first + DayLength
    BY ScreensAssumption, DayAssumption DEF LocalTime
  <2>2. /\ FirstInstant(office, first) \in Int /\ FirstInstant(office, last) \in Int
        /\ FirstInstant(office, first) < FirstInstant(office, last)
    BY <1>1, <2>1, DayAssumption DEF FirstInstant, Zone
  <2> QED
    BY <1>1, <2>1, <2>2, ScreensAssumption DEF DayStart, DayEnd
<1>3. \A instant \in Int :
        DateOf(zone, instant) = d <=> from <= instant /\ instant < to
  BY <1>1, <1>2, DayBoundsAreExact, DateIsOnDate, ScreensAssumption DEF Regular
<1>4. LiesOn(b, d) <=> begin < to /\ stop > from
  <2>1. ASSUME LiesOn(b, d) PROVE begin < to /\ stop > from
    BY <1>2, <1>3, <2>1 DEF LiesOn
  <2>2. ASSUME begin < to, stop > from PROVE LiesOn(b, d)
    <3>1. PICK instant \in Int : instant = IF begin < from THEN from ELSE begin
      BY <1>2
    <3>2. instant \in begin .. stop - 1 /\ from <= instant /\ instant < to
      BY <1>2, <2>2, <3>1
    <3> QED
      BY <1>2, <1>3, <3>2 DEF LiesOn
  <2> QED
    BY <2>1, <2>2
<1> QED
  BY <1>2, <1>4 DEF Occupied, With

(* The answers that show what the user was told                            *)
Good(key) == {payload \in Payload : IF key = Mine THEN ListShows(payload)
                                    ELSE Regular(key) => ScheduleShows(key, payload)}

(* What is wrong on a panel is being fetched, or will be when it is        *)
(* mounted.                                                                *)
AnswersShow ==
    \A key \in Keys :
      /\ fetch[key] # None /\ fetch[key].answer # None /\ ~fetch[key].overtaken
           => fetch[key].answer \in Good(key)
      /\ cache[key].data # None /\ ~cache[key].failed /\ ~cache[key].overtaken
           => \/ cache[key].data \in Good(key)
              \/ fetch[key] # None
              \/ cache[key].stale /\ key \notin Active

LEMMA AnswerGood ==
  ASSUME TypeInv, DoneInv, NEW key \in Keys
  PROVE  Answer(key) \in Good(key)
<1>1. CASE key = Mine
  <2>1. \A b \in Bookings : server[b] \in {"absent", "confirmed", "cancelled"}
    BY DEF TypeInv, ScreensTypeOK, Statuses
  <2>2. ListShows(Answer(key))
    BY <1>1, <2>1 DEF ListShows, Answer, With, DoneInv
  <2> QED
    BY <1>1, <2>2, AnswerIsPayload DEF Good
<1>2. CASE key # Mine
  <2>1. ASSUME Regular(key) PROVE ScheduleShows(key, Answer(key))
    <3>1. key \in Dates /\ zone \in Zones
      BY <1>2 DEF Keys, TypeInv, ScreensTypeOK
    <3>2. \A b \in Bookings :
            b \in Answer(key).live <=> server[b] = "confirmed" /\ LiesOn(b, key)
      BY <1>2, <2>1, <3>1, OccupiedIs DEF Answer
    <3> QED
      BY <3>2 DEF ScheduleShows, DoneInv
  <2> QED
    BY <1>2, <2>1, AnswerIsPayload DEF Good
<1> QED
  BY <1>1, <1>2

(* What the server does keeps good answers good.                           *)
LEMMA GoodStays ==
  ASSUME TypeInv, DoneInv, [Next]_screenVars, told' = told, NEW key \in Keys
  PROVE  \A payload : payload \in Good(key) => payload \in Good(key)'
<1>1. zone' = zone
  BY DEF Next, OpenTab, ShowDate, RunEffect, Refocus, ServeFetch, FetchSucceeds, FetchFails,
         Age, Collect, Create, Cancel, CancelElsewhere, Mutate, ServeWrite, RefuseWrite,
         Handle, WriteSucceeds, WriteFails, screenVars
<1>2. \A b \in Bookings :
        told[b] = "confirmed" /\ server'[b] = "confirmed" => server[b] = "confirmed"
  BY ServerGoesOn DEF DoneInv, GoesOn
<1>3. \A b : LiesOn(b, key)' <=> LiesOn(b, key)
  BY <1>1 DEF LiesOn
<1>4. Regular(key)' <=> Regular(key)
  BY <1>1 DEF Regular
<1> QED
  BY <1>2, <1>3, <1>4 DEF Good, ListShows, ScheduleShows

(* A step that answers nothing, keeps what is on its way on its way and    *)
(* fetches what it mounts                                                  *)
LEMMA AnswersKept ==
  ASSUME TypeInv, DoneInv, AnswersShow, [Next]_screenVars, told' = told,
         \A key \in Keys :
           /\ fetch'[key] # None /\ fetch'[key].answer # None =>
                fetch[key] # None /\ fetch'[key] = fetch[key]
           /\ fetch[key] # None => fetch'[key] # None
           /\ \/ cache'[key].data = None
              \/ /\ cache'[key].data = cache[key].data
                 /\ cache'[key].failed = cache[key].failed
                 /\ cache'[key].overtaken = cache[key].overtaken
                 /\ cache[key].stale => cache'[key].stale
           /\ cache[key].stale /\ fetch'[key] = None /\ key \notin Active => key \notin Active'
  PROVE  AnswersShow'
<1>1. \A key \in Keys : \A payload : payload \in Good(key) => payload \in Good(key)'
  BY GoodStays
<1> QED
  BY <1>1 DEF AnswersShow

(* Navigation refetches what it mounts.                                    *)
LEMMA MountedAreFetched ==
  ASSUME TypeInv, DoneInv, AnswersShow, [Next]_screenVars, told' = told, cache' = cache,
         Refetch(Active')
  PROVE  AnswersShow'
<1>1. /\ fetch \in [Keys -> Fetch \cup {None}]
      /\ \A key \in Keys : \/ fetch'[key] = fetch[key]
                           \/ fetch[key] = None /\ fetch'[key] = Started
      /\ \A key \in Keys : Outdated(key) /\ key \in Active' => fetch'[key] = Started
  BY RefetchKeeps DEF TypeInv, ScreensTypeOK
<1>2. Started.answer = None /\ Started # None
  BY StartedIsFetch DEF Started
<1> QED
  BY <1>1, <1>2, AnswersKept DEF Outdated, Fetching

LEMMA InitAnswers == Init => AnswersShow
<1>1. Empty.data = None /\ Started.answer = None
  BY DEF Empty, Started
<1> QED
  BY <1>1 DEF Init, AnswersShow

LEMMA StepAnswers == TypeInv /\ DoneInv /\ AnswersShow /\ [Next]_screenVars => AnswersShow'
<1> SUFFICES ASSUME TypeInv, DoneInv, AnswersShow, [Next]_screenVars PROVE AnswersShow'
  OBVIOUS
<1>1. /\ fetch \in [Keys -> Fetch \cup {None}]
      /\ write \in [Writes -> Mutation \cup {None}]
      /\ cache \in [Keys -> [data : Payload \cup {None}, stale : BOOLEAN,
                             failed : BOOLEAN, overtaken : BOOLEAN]]
  BY DEF TypeInv, ScreensTypeOK
<1>2. \A key \in Keys : \A payload :
        told' = told /\ payload \in Good(key) => payload \in Good(key)'
  BY GoodStays
<1>3. ASSUME NEW t \in Tabs, OpenTab(t) PROVE AnswersShow'
  BY <1>3, MountedAreFetched DEF OpenTab, Active
<1>4. ASSUME NEW d \in Dates, ShowDate(d) PROVE AnswersShow'
  BY <1>4, MountedAreFetched DEF ShowDate, Active, history
<1>5. CASE RunEffect
  BY <1>5, MountedAreFetched DEF RunEffect, Active, history
<1>6. CASE Refocus
  <2>1. Active' = Active
    BY <1>6 DEF Refocus, Active, panel
  <2> QED
    BY <1>6, <2>1, MountedAreFetched DEF Refocus, history
<1>7. ASSUME NEW key \in Keys, ServeFetch(key) PROVE AnswersShow'
  <2>1. fetch[key] \in Fetch /\ fetch'[key] = [fetch[key] EXCEPT !.answer = Answer(key)]
    BY <1>1, <1>7 DEF ServeFetch, Fetching
  <2>2. fetch'[key] \in Fetch /\ fetch'[key] # None /\ fetch'[key].answer = Answer(key)
    BY <2>1, AnswerIsPayload, NothingAssumption DEF Fetch
  <2>3. UNCHANGED <<cache, told>> /\ Active' = Active
    BY <1>7 DEF ServeFetch, panel, history, Active
  <2>4. \A k \in Keys \ {key} : fetch'[k] = fetch[k]
    BY <1>1, <1>7 DEF ServeFetch
  <2>5. fetch'[key].answer \in Good(key)'
    BY <1>2, <2>2, <2>3, AnswerGood
  <2> QED
    BY <1>2, <2>2, <2>3, <2>4, <2>5 DEF AnswersShow
<1>8. ASSUME NEW key \in Keys, FetchSucceeds(key) PROVE AnswersShow'
  <2>1. /\ fetch[key] # None /\ fetch[key].answer # None /\ fetch'[key] = None
        /\ cache'[key].data = fetch[key].answer
        /\ cache'[key].overtaken = fetch[key].overtaken
    BY <1>1, <1>8 DEF FetchSucceeds, Fetching
  <2>2. told' = told /\ Active' = Active
    BY <1>8 DEF FetchSucceeds, panel, history, Active
  <2>3. \A k \in Keys \ {key} : fetch'[k] = fetch[k] /\ cache'[k] = cache[k]
    BY <1>1, <1>8 DEF FetchSucceeds
  <2> QED
    BY <1>2, <2>1, <2>2, <2>3 DEF AnswersShow
<1>9. ASSUME NEW key \in Keys, FetchFails(key) PROVE AnswersShow'
  <2>1. fetch'[key] = None /\ cache'[key].failed
    BY <1>1, <1>9 DEF FetchFails
  <2>2. told' = told /\ Active' = Active
    BY <1>9 DEF FetchFails, panel, history, Active
  <2>3. \A k \in Keys \ {key} : fetch'[k] = fetch[k] /\ cache'[k] = cache[k]
    BY <1>1, <1>9 DEF FetchFails
  <2> QED
    BY <1>2, <2>1, <2>2, <2>3 DEF AnswersShow
<1>10. ASSUME NEW key \in Keys, Age(key) \/ Collect(key) PROVE AnswersShow'
  <2>1. UNCHANGED <<fetch, told>> /\ Active' = Active
    BY <1>10 DEF Age, Collect, panel, history, Active
  <2>2. \A k \in Keys \ {key} : cache'[k] = cache[k]
    BY <1>1, <1>10 DEF Age, Collect
  <2>3. \/ cache'[key].data = None
        \/ /\ cache'[key].data = cache[key].data
           /\ cache'[key].failed = cache[key].failed
           /\ cache'[key].overtaken = cache[key].overtaken
           /\ cache'[key].stale
    <3>1. CASE Age(key)
      BY <1>1, <3>1 DEF Age
    <3>2. CASE Collect(key)
      BY <1>1, <3>2 DEF Collect, Empty
    <3> QED
      BY <1>10, <3>1, <3>2
  <2> QED
    BY <2>1, <2>2, <2>3, AnswersKept
<1>11. ASSUME UNCHANGED <<fetch, cache, told>>, Active' = Active PROVE AnswersShow'
  BY <1>11, AnswersKept
<1>12. ASSUME NEW b \in Bookings, Create(b) \/ Cancel(b) \/ CancelElsewhere(b)
       PROVE  AnswersShow'
  BY <1>11, <1>12 DEF Create, Cancel, Mutate, CancelElsewhere, panel, history, Active
<1>13. ASSUME NEW w \in Writes, ServeWrite(w) \/ RefuseWrite(w) \/ WriteFails(w)
       PROVE  AnswersShow'
  BY <1>11, <1>13 DEF ServeWrite, RefuseWrite, WriteFails, panel, history, Active
<1>14. ASSUME NEW w \in Writes, WriteSucceeds(w) PROVE AnswersShow'
  <2>1. Active' = Active
    BY <1>14 DEF WriteSucceeds, panel, Active
  <2>2. ASSUME NEW key \in Keys
        PROVE  /\ ~(fetch'[key] # None /\ fetch'[key].answer # None /\ ~fetch'[key].overtaken)
               /\ \/ fetch'[key] # None
                  \/ cache'[key].stale /\ key \notin Active
    <3>1. /\ cache'[key] = [cache[key] EXCEPT !.stale = TRUE]
          /\ \/ fetch'[key] = Started
             \/ fetch'[key] = None /\ key \notin Active
             \/ fetch[key] # None /\ fetch'[key] = [fetch[key] EXCEPT !.overtaken = TRUE]
      BY <1>1, <1>14, InvalidateKeeps DEF WriteSucceeds, Fetching
    <3>2. cache'[key].stale
      BY <1>1, <3>1
    <3>3. Started.answer = None /\ Started # None
      BY StartedIsFetch DEF Started
    <3>4. fetch[key] # None => /\ [fetch[key] EXCEPT !.overtaken = TRUE].overtaken
                               /\ [fetch[key] EXCEPT !.overtaken = TRUE] \in Fetch
      BY <1>1 DEF Fetch
    <3> QED
      BY <3>1, <3>2, <3>3, <3>4, NothingAssumption
  <2> QED
    BY <2>1, <2>2 DEF AnswersShow
<1>15. CASE UNCHANGED screenVars
  BY <1>11, <1>15 DEF screenVars, Active
<1> QED
  BY <1>3, <1>4, <1>5, <1>6, <1>7, <1>8, <1>9, <1>10, <1>12, <1>13, <1>14, <1>15
     DEF Next, Handle

(* The panels at rest show what the user was told, for any bookings and    *)
(* any order of answers: the invalidations of BookingForm.tsx:98 and       *)
(* MyBookings.tsx:29 name every query that a mutation changes.             *)
THEOREM OwnWritesAreShown == Spec => []OwnWritesShow
<1>1. TypeInv /\ AnswersShow => OwnWritesShow
  <2> SUFFICES ASSUME TypeInv, AnswersShow PROVE OwnWritesShow
    OBVIOUS
  <2>1. Mine \in Keys /\ Mine \notin Dates /\ Dates \subseteq Keys
    BY ScreensAssumption DEF Keys
  <2>2. \A key \in Keys : AtRest(key) /\ ~cache[key].overtaken => cache[key].data \in Good(key)
    BY DEF AnswersShow, AtRest, Fetching
  <2> QED
    BY <2>1, <2>2 DEF OwnWritesShow, Good
<1> QED
  BY <1>1, InitAnswers, StepAnswers, TypesHold, DoneHolds, PTL DEF Spec
=============================================================================
