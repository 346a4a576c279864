------------------------------ MODULE AiPreview ------------------------------
(***************************************************************************)
(* POST /ai/booking-intent: the parser, the validation of what the         *)
(* provider answers, and the connection the request holds meanwhile.  The  *)
(* session of get_current_user takes a connection from the engine's pool   *)
(* with its first statement and gives it back when the request ends, so a  *)
(* request that waits for the provider keeps other requests waiting for a  *)
(* connection.  Of those only that they need one matters here; Bookings    *)
(* models what they do with it.                                            *)
(***************************************************************************)
EXTENDS Integers, FiniteSets

CONSTANTS
    Rooms,
    Capacity,
    Previews,           \* requests of the AI endpoint
    Manual,             \* requests of any other endpoint
    Deployments,        \* whether there may be a DEEPSEEK_API_KEY
    Intents,            \* the intents the provider may answer
    PoolSize,           \* pool_size + max_overflow of the engine
    PoolTimeout,        \* how long a request waits for a connection
    ProviderTimeout,    \* deepseek_timeout_seconds, for each operation
    MaxTime,            \* bound on the clock
    Missing,            \* None in a field of an intent
    Unknown             \* a room the catalog does not have

Requests == Previews \cup Manual

Intent == [room : Rooms \cup {Missing, Unknown}, start : Nat \cup {Missing},
           end : Nat \cup {Missing}, title : BOOLEAN,
           count : Nat \cup {Missing}, in_office_zone : BOOLEAN,
           needs_clarification : BOOLEAN]

ASSUME PreviewAssumption ==
    /\ Previews \cap Manual = {}
    /\ Capacity \in [Rooms -> Nat \ {0}]
    /\ Deployments \subseteq BOOLEAN
    /\ Intents \subseteq Intent
    /\ PoolSize \in Nat \ {0}
    /\ PoolTimeout \in Nat \ {0} /\ ProviderTimeout \in Nat /\ MaxTime \in Nat
    /\ Missing \notin Nat \cup Rooms /\ Unknown \notin Nat \cup Rooms

VARIABLES
    configured, \* there is a DEEPSEEK_API_KEY
    now,        \* the wall clock
    active,     \* rooms with is_active
    pc,         \* where each request is
    since,      \* when it began to wait for what it waits for
    arrived,    \* history: when it arrived
    heard,      \* history: when its call to the provider last made progress
    known,      \* the catalog it has read, and when
    answer      \* the code and the intent it answered

previewVars == <<configured, now, active, pc, since, arrived, heard, known, answer>>

----------------------------------------------------------------------------
Holding == {"catalog", "provider", "statements"}
Holders == {r \in Requests : pc[r] \in Holding}

NoCatalog == [rooms |-> {}, at |-> 0]
Silence == [code |-> "none", intent |-> Missing]

(* The response is sent and the session closed.                            *)
Reply(r, code, intent) ==
    /\ pc' = [pc EXCEPT ![r] = "done"]
    /\ answer' = [answer EXCEPT ![r] = [code |-> code, intent |-> intent]]

Init ==
    /\ configured \in Deployments
    /\ now = 0
    /\ active = Rooms
    /\ pc = [r \in Requests |-> "idle"]
    /\ since = [r \in Requests |-> 0]
    /\ arrived = [r \in Requests |-> 0]
    /\ heard = [r \in Requests |-> 0]
    /\ known = [r \in Requests |-> NoCatalog]
    /\ answer = [r \in Requests |-> Silence]

----------------------------------------------------------------------------
(* validate_booking_intent                                                 *)

(* The provider may also name missing_fields itself, which has the effect  *)
(* of needs_clarification and is not told apart from it.                   *)
HasMissing(i) == Missing \in {i.room, i.start, i.end} \/ ~i.title

(* Mutant: an intent is checked against the rooms of the moment only.      *)
RefusedUncounted(i, catalog) ==
    \/ i.room # Missing /\ i.room \notin catalog.rooms
    \/ ~i.in_office_zone
    \/ i.start # Missing /\ i.start < catalog.at
    \/ i.start # Missing /\ i.end # Missing /\ i.end <= i.start

Refused(i, catalog) ==
    \/ i.room # Missing /\ i.room \notin catalog.rooms
    \/ ~i.in_office_zone
    \/ i.start # Missing /\ i.start < catalog.at
    \/ i.start # Missing /\ i.end # Missing /\ i.end <= i.start
    \/ i.count # Missing /\ i.count < 1
    \/ i.room # Missing /\ i.count # Missing /\ i.count > Capacity[i.room]

Verdict(i, catalog) ==
    IF Refused(i, catalog) THEN "ai_invalid_response"
    ELSE IF i.needs_clarification \/ HasMissing(i) THEN "clarification"
    ELSE "preview"

----------------------------------------------------------------------------
Arrive(r) ==
    /\ pc[r] = "idle"
    /\ pc' = [pc EXCEPT ![r] = "waiting"]
    /\ since' = [since EXCEPT ![r] = now]
    /\ arrived' = [arrived EXCEPT ![r] = now]
    /\ UNCHANGED <<configured, now, active, heard, known, answer>>

(* Mutant: the pool opens a connection whenever one is wanted.             *)
ConnectUnbounded(r) ==
    /\ pc[r] = "waiting"
    /\ pc' = [pc EXCEPT ![r] = IF r \in Previews THEN "catalog" ELSE "statements"]
    /\ UNCHANGED <<configured, now, active, since, arrived, heard, known, answer>>

(* A connection is free: any of the waiting requests may get it.           *)
Connect(r) ==
    /\ pc[r] = "waiting"
    /\ Cardinality(Holders) < PoolSize
    /\ pc' = [pc EXCEPT ![r] = IF r \in Previews THEN "catalog" ELSE "statements"]
    /\ UNCHANGED <<configured, now, active, since, arrived, heard, known, answer>>

(* No connection in time: an error that no handler translates, 500.        *)
ConnectTimeout(r) ==
    /\ pc[r] = "waiting"
    /\ now >= since[r] + PoolTimeout
    /\ Cardinality(Holders) = PoolSize
    /\ Reply(r, "server_error", Missing)
    /\ UNCHANGED <<configured, now, active, since, arrived, heard, known>>

(* Mutant: the missing key is noticed by the provider only.                *)
CatalogUnguarded(r) ==
    /\ pc[r] = "catalog"
    /\ known' = [known EXCEPT ![r] = [rooms |-> active, at |-> now]]
    /\ since' = [since EXCEPT ![r] = now]
    /\ pc' = [pc EXCEPT ![r] = "provider"]
    /\ UNCHANGED <<configured, now, active, arrived, heard, answer>>

(* list_active, the clock, and the call to the provider                    *)
Catalog(r) ==
    /\ pc[r] = "catalog"
    /\ known' = [known EXCEPT ![r] = [rooms |-> active, at |-> now]]
    /\ since' = [since EXCEPT ![r] = now]
    /\ IF configured
         THEN pc' = [pc EXCEPT ![r] = "provider"] /\ UNCHANGED answer
         ELSE Reply(r, "ai_unavailable", Missing)
    /\ UNCHANGED <<configured, now, active, arrived, heard>>

(* The timeout is a number, which the HTTP client applies to each of its   *)
(* operations: connecting, sending, every read of a part of the response.  *)
(* Each that ends starts the next with a timeout of its own; nothing       *)
(* limits the call as a whole.                                             *)
ProviderProgress(r) ==
    /\ pc[r] = "provider"
    /\ since' = [since EXCEPT ![r] = now]
    /\ heard' = [heard EXCEPT ![r] = now]
    /\ UNCHANGED <<configured, now, active, pc, arrived, known, answer>>

ProviderAnswers(r) ==
    /\ pc[r] = "provider"
    /\ \E i \in Intents :
         LET code == Verdict(i, known[r])
         IN  Reply(r, code, IF code = "ai_invalid_response" THEN Missing ELSE i)
    /\ UNCHANGED <<configured, now, active, since, arrived, heard, known>>

(* The provider is not reached or refuses, or its content is not an intent *)
ProviderFails(r) ==
    /\ pc[r] = "provider"
    /\ \E code \in {"ai_unavailable", "ai_invalid_response"} :
         Reply(r, code, Missing)
    /\ UNCHANGED <<configured, now, active, since, arrived, heard, known>>

(* Mutant: the client of the SDK retries a call that timed out.            *)
ProviderTimesOutRetried(r) ==
    /\ pc[r] = "provider"
    /\ now >= since[r] + ProviderTimeout
    /\ since' = [since EXCEPT ![r] = now]
    /\ UNCHANGED <<configured, now, active, pc, arrived, heard, known, answer>>

(* The operation that the call has reached takes too long.                 *)
ProviderTimesOut(r) ==
    /\ pc[r] = "provider"
    /\ now >= since[r] + ProviderTimeout
    /\ Reply(r, "ai_timeout", Missing)
    /\ UNCHANGED <<configured, now, active, since, arrived, heard, known>>

Statements(r) ==
    /\ pc[r] = "statements"
    /\ Reply(r, "served", Missing)
    /\ UNCHANGED <<configured, now, active, since, arrived, heard, known>>

(* Time does not pass a timeout that is due, of the pool or of the         *)
(* operation a call has reached; a call that goes on may outlast both.     *)
Tick ==
    /\ now < MaxTime
    /\ \A r \in Requests :
         /\ pc[r] = "waiting" => /\ now < since[r] + PoolTimeout
                                 /\ Cardinality(Holders) = PoolSize
         /\ pc[r] = "provider" => now < since[r] + ProviderTimeout
         /\ pc[r] \notin {"catalog", "statements"}
    /\ now' = now + 1
    /\ UNCHANGED <<configured, active, pc, since, arrived, heard, known, answer>>

ToggleRoom(room) ==
    /\ active' = IF room \in active THEN active \ {room} ELSE active \cup {room}
    /\ UNCHANGED <<configured, now, pc, since, arrived, heard, known, answer>>

Quiescent ==
    /\ \A r \in Requests : pc[r] = "done"
    /\ UNCHANGED previewVars

Handle(r) ==
    \/ Connect(r) \/ ConnectTimeout(r)
    \/ Catalog(r)
    \/ ProviderProgress(r)
    \/ ProviderAnswers(r) \/ ProviderFails(r) \/ ProviderTimesOut(r)
    \/ Statements(r)

Next ==
    \/ \E r \in Requests : Arrive(r) \/ Handle(r)
    \/ Tick
    \/ \E room \in Rooms : ToggleRoom(room)
    \/ Quiescent

Spec == Init /\ [][Next]_previewVars

----------------------------------------------------------------------------
Codes == {"none", "served", "server_error", "preview", "clarification",
          "ai_unavailable", "ai_timeout", "ai_invalid_response"}

(* Types; and no more connections than the pool has.                       *)
PreviewTypeOK ==
    /\ configured \in BOOLEAN
    /\ now \in 0 .. MaxTime
    /\ active \subseteq Rooms
    /\ pc \in [Requests -> Holding \cup {"idle", "waiting", "done"}]
    /\ since \in [Requests -> 0 .. now]
    /\ arrived \in [Requests -> 0 .. now] /\ heard \in [Requests -> 0 .. now]
    /\ known \in [Requests -> [rooms : SUBSET Rooms, at : 0 .. now]]
    /\ answer \in [Requests -> [code : Codes, intent : Intents \cup {Missing}]]
    /\ \A r \in Requests : pc[r] = "done" <=> answer[r].code # "none"
    /\ Cardinality(Holders) <= PoolSize

(* What is shown for confirmation could have been confirmed as it is when  *)
(* the catalog was read: every value POST /bookings needs is there and     *)
(* passes its validation (docs/ARCHITECTURE.md:91).                        *)
PreviewsAreBookable ==
    \A r \in Previews :
        answer[r].code = "preview" =>
            LET i == answer[r].intent
            IN  /\ i.room \in known[r].rooms /\ i.title
                /\ i.start \in Nat /\ i.end \in Nat
                /\ known[r].at <= i.start /\ i.start < i.end
                /\ i.count # Missing => i.count \in 1 .. Capacity[i.room]

(* "Keep manual booking fully operational when DeepSeek is unavailable"    *)
(* (README.md:12): no request of another endpoint fails for want of a      *)
(* connection.                                                             *)
ManualIsServed == \A r \in Manual : answer[r].code # "server_error"

(* "With no key, manual booking and all non-AI functionality remain         *)
(* available" (README.md:48), however many previews are asked for.         *)
ManualWithoutKey == ~configured => ManualIsServed

(* Whoever still waits when the two timeouts have passed has a call that   *)
(* made progress within the last ProviderTimeout: those before it in the   *)
(* queue for a connection delay a request by no more than PoolTimeout, and *)
(* a provider that falls silent by no more than one timeout after its last *)
(* sign of life, since the client of the SDK does not retry.               *)
OnlyProgressDelays ==
    \A r \in Requests :
        pc[r] \notin {"idle", "done"} =>
            \/ now <= arrived[r] + PoolTimeout + ProviderTimeout
            \/ now <= heard[r] + ProviderTimeout
=============================================================================
