--------------------------- MODULE AiPreviewProofs ---------------------------
(***************************************************************************)
(* Theorems about AiPreview for every number of requests, every size of    *)
(* the pool, every timeout and whatever intents the provider may answer.   *)
(***************************************************************************)
EXTENDS AiPreview, FiniteSetTheorems, TLAPS

(* Where a request may be, and since when.                                 *)
InTime(r) ==
    /\ pc[r] = "waiting" => /\ since[r] = arrived[r]
                            /\ now <= since[r] + PoolTimeout
    /\ pc[r] \in {"catalog", "statements"} => now <= arrived[r] + PoolTimeout
    /\ pc[r] = "provider" => /\ \/ since[r] <= arrived[r] + PoolTimeout
                                \/ since[r] <= heard[r]
                             /\ now <= since[r] + ProviderTimeout

(* Without a key nobody waits for the provider, so that no time passes     *)
(* while a request waits for a connection.                                 *)
NoWaiting(r) ==
    ~configured => /\ pc[r] # "provider"
                   /\ pc[r] = "waiting" => since[r] = now

PreviewInv ==
    /\ PreviewTypeOK
    /\ IsFiniteSet(Holders)
    /\ \A r \in Requests : InTime(r) /\ NoWaiting(r)
    /\ PreviewsAreBookable
    /\ ManualWithoutKey

(* What makes a preview of a request one that can be booked.               *)
Bookable(i, catalog) ==
    /\ i.room \in catalog.rooms /\ i.title
    /\ i.start \in Nat /\ i.end \in Nat
    /\ catalog.at <= i.start /\ i.start < i.end
    /\ i.count # Missing => i.count \in 1 .. Capacity[i.room]

----------------------------------------------------------------------------
(* validate_booking_intent lets no intent through that POST /bookings      *)
(* refuses, whatever the provider answers.                                 *)
LEMMA VerdictSound ==
    ASSUME NEW i \in Intents, NEW catalog \in [rooms : SUBSET Rooms, at : Nat],
           Verdict(i, catalog) = "preview"
    PROVE  Bookable(i, catalog)
  <1>1. i \in Intent
    BY PreviewAssumption
  <1>2. ~Refused(i, catalog) /\ ~HasMissing(i)
    BY DEF Verdict
  <1>3. /\ i.room # Missing /\ i.title
        /\ i.start # Missing /\ i.end # Missing
    BY <1>2 DEF HasMissing
  <1>4. /\ i.room \in catalog.rooms /\ i.room \in Rooms
        /\ i.start \in Nat /\ i.end \in Nat
    BY <1>1, <1>2, <1>3 DEF Intent, Refused
  <1>5. Capacity[i.room] \in Nat
    BY <1>4, PreviewAssumption
  <1>6. i.count # Missing => i.count \in 1 .. Capacity[i.room]
    BY <1>1, <1>2, <1>3, <1>5 DEF Intent, Refused
  <1> QED
    BY <1>2, <1>3, <1>4, <1>6 DEF Refused, Bookable

(* A request that moves takes a connection only while one is free.         *)
LEMMA HoldersMove ==
    ASSUME PreviewInv, NEW r \in Requests, NEW p, pc' = [pc EXCEPT ![r] = p],
           p \notin Holding \/ pc[r] \in Holding \/ Cardinality(Holders) < PoolSize
    PROVE  IsFiniteSet(Holders') /\ Cardinality(Holders') <= PoolSize
  <1>1. pc'[r] = p /\ \A q \in Requests \ {r} : pc'[q] = pc[q]
    BY DEF PreviewInv, PreviewTypeOK
  <1>2. /\ IsFiniteSet(Holders) /\ Cardinality(Holders) \in Nat
        /\ Cardinality(Holders) <= PoolSize /\ PoolSize \in Nat
    BY FS_CardinalityType, PreviewAssumption DEF PreviewInv, PreviewTypeOK
  <1>3. CASE p \notin Holding \/ pc[r] \in Holding
    <2>1. Holders' \subseteq Holders
      BY <1>1, <1>3 DEF Holders
    <2>2. /\ IsFiniteSet(Holders') /\ Cardinality(Holders') \in Nat
          /\ Cardinality(Holders') <= Cardinality(Holders)
      BY <1>2, <2>1, FS_Subset, FS_CardinalityType
    <2> QED
      BY <1>2, <2>2
  <1>4. CASE p \in Holding /\ pc[r] \notin Holding /\ Cardinality(Holders) < PoolSize
    <2>1. Holders' = Holders \cup {r} /\ r \notin Holders
      BY <1>1, <1>4 DEF Holders
    <2>2. /\ IsFiniteSet(Holders \cup {r})
          /\ Cardinality(Holders \cup {r}) = Cardinality(Holders) + 1
      BY <1>2, <2>1, FS_AddElement
    <2> QED
      BY <1>2, <1>4, <2>1, <2>2
  <1> QED
    BY <1>3, <1>4

LEMMA HoldersStay ==
    ASSUME PreviewInv, UNCHANGED pc
    PROVE  IsFiniteSet(Holders') /\ Cardinality(Holders') <= PoolSize
  BY DEF PreviewInv, PreviewTypeOK, Holders

(* The answers that stay what they were, over the catalog they were        *)
(* checked against.                                                        *)
LEMMA AnswersKeep ==
    ASSUME PreviewInv, NEW r \in Requests, UNCHANGED configured,
           \A q \in Requests \ {r} : answer'[q] = answer[q] /\ known'[q] = known[q],
           answer'[r].code = "preview" => Bookable(answer'[r].intent, known'[r]),
           answer'[r].code = "server_error" => configured
    PROVE  PreviewsAreBookable' /\ ManualWithoutKey'
  <1>1. \A q \in Previews : answer'[q].code = "preview"
                            => Bookable(answer'[q].intent, known'[q])
    BY DEF PreviewInv, PreviewsAreBookable, Bookable, Requests
  <1>2. PreviewsAreBookable'
    BY <1>1 DEF PreviewsAreBookable, Bookable
  <1>3. ManualWithoutKey'
    BY DEF PreviewInv, ManualWithoutKey, ManualIsServed, Requests
  <1> QED
    BY <1>2, <1>3

----------------------------------------------------------------------------
LEMMA InitPreview == Init => PreviewInv
  <1> SUFFICES ASSUME Init PROVE PreviewInv
    OBVIOUS
  <1>1. Holders = {} /\ IsFiniteSet(Holders) /\ Cardinality(Holders) = 0
    BY FS_EmptySet DEF Init, Holders, Holding
  <1>2. NoCatalog \in [rooms : SUBSET Rooms, at : 0 .. now]
    BY DEF Init, NoCatalog
  <1>3. Silence \in [code : Codes, intent : Intents \cup {Missing}]
    BY DEF Silence, Codes
  <1>4. PreviewTypeOK
    <2>1. /\ configured \in BOOLEAN /\ now \in 0 .. MaxTime /\ active \subseteq Rooms
          /\ pc \in [Requests -> Holding \cup {"idle", "waiting", "done"}]
      BY PreviewAssumption DEF Init
    <2>2. /\ since \in [Requests -> 0 .. now] /\ arrived \in [Requests -> 0 .. now]
          /\ heard \in [Requests -> 0 .. now]
          /\ known \in [Requests -> [rooms : SUBSET Rooms, at : 0 .. now]]
          /\ answer \in [Requests -> [code : Codes, intent : Intents \cup {Missing}]]
      BY <1>2, <1>3 DEF Init
    <2>3. \A r \in Requests : pc[r] = "done" <=> answer[r].code # "none"
      BY DEF Init, Silence
    <2> QED
      BY <1>1, <2>1, <2>2, <2>3, PreviewAssumption DEF PreviewTypeOK
  <1>5. \A r \in Requests : InTime(r) /\ NoWaiting(r)
    BY DEF Init, InTime, NoWaiting
  <1>6. PreviewsAreBookable /\ ManualWithoutKey
    BY DEF Init, Silence, PreviewsAreBookable, ManualWithoutKey, ManualIsServed, Requests
  <1> QED
    BY <1>1, <1>4, <1>5, <1>6 DEF PreviewInv

(* A request that is answered gives its connection back.                   *)
LEMMA ReplyKeeps ==
    ASSUME PreviewInv, NEW r \in Requests, NEW code \in Codes \ {"none"},
           NEW intent \in Intents \cup {Missing}, Reply(r, code, intent),
           UNCHANGED <<configured, now, active, arrived, heard>>,
           since' \in [Requests -> 0 .. now],
           known' \in [Requests -> [rooms : SUBSET Rooms, at : 0 .. now]],
           \A q \in Requests \ {r} : since'[q] = since[q] /\ known'[q] = known[q],
           code = "preview" => Bookable(intent, known'[r]),
           code = "server_error" => configured
    PROVE  PreviewInv'
  <1> USE DEF PreviewInv
  <1> DEFINE said == [code |-> code, intent |-> intent]
  <1>1. pc' = [pc EXCEPT ![r] = "done"] /\ answer' = [answer EXCEPT ![r] = said]
    BY DEF Reply
  <1>2. /\ said \in [code : Codes, intent : Intents \cup {Missing}]
        /\ said.code = code /\ said.intent = intent
    OBVIOUS
  <1> HIDE DEF said
  <1>3. /\ pc'[r] = "done" /\ answer'[r] = said
        /\ \A q \in Requests \ {r} : pc'[q] = pc[q] /\ answer'[q] = answer[q]
    BY <1>1 DEF PreviewTypeOK
  <1>4. IsFiniteSet(Holders') /\ Cardinality(Holders') <= PoolSize
    BY <1>1, HoldersMove DEF Holding
  <1>5. PreviewTypeOK'
    BY <1>1, <1>2, <1>3, <1>4 DEF PreviewTypeOK
  <1>6. \A q \in Requests : InTime(q)' /\ NoWaiting(q)'
    BY <1>3 DEF InTime, NoWaiting
  <1>7. PreviewsAreBookable' /\ ManualWithoutKey'
    BY <1>2, <1>3, AnswersKeep
  <1> QED
    BY <1>4, <1>5, <1>6, <1>7

LEMMA ArriveKeeps ==
    ASSUME PreviewInv, NEW r \in Requests, Arrive(r)
    PROVE  PreviewInv'
  <1> USE DEF PreviewInv
  <1>1. /\ pc[r] = "idle" /\ pc' = [pc EXCEPT ![r] = "waiting"]
        /\ since' = [since EXCEPT ![r] = now] /\ arrived' = [arrived EXCEPT ![r] = now]
        /\ UNCHANGED <<configured, now, active, heard, known, answer>>
    BY DEF Arrive
  <1>2. /\ pc'[r] = "waiting" /\ since'[r] = now /\ arrived'[r] = now
        /\ \A q \in Requests \ {r} : /\ pc'[q] = pc[q] /\ since'[q] = since[q]
                                     /\ arrived'[q] = arrived[q]
    BY <1>1 DEF PreviewTypeOK
  <1>3. IsFiniteSet(Holders') /\ Cardinality(Holders') <= PoolSize
    BY <1>1, HoldersMove DEF Holding
  <1>4. PreviewTypeOK'
    BY <1>1, <1>2, <1>3 DEF PreviewTypeOK
  <1>5. \A q \in Requests : InTime(q)' /\ NoWaiting(q)'
    BY <1>1, <1>2, PreviewAssumption DEF InTime, NoWaiting, PreviewTypeOK
  <1>6. PreviewsAreBookable' /\ ManualWithoutKey'
    BY <1>1 DEF PreviewsAreBookable, ManualWithoutKey, ManualIsServed
  <1> QED
    BY <1>3, <1>4, <1>5, <1>6

LEMMA ConnectKeeps ==
    ASSUME PreviewInv, NEW r \in Requests, Connect(r)
    PROVE  PreviewInv'
  <1> USE DEF PreviewInv
  <1> DEFINE p == IF r \in Previews THEN "catalog" ELSE "statements"
  <1>1. /\ pc[r] = "waiting" /\ pc' = [pc EXCEPT ![r] = p]
        /\ Cardinality(Holders) < PoolSize
        /\ UNCHANGED <<configured, now, active, since, arrived, heard, known, answer>>
    BY DEF Connect
  <1>2. p \in {"catalog", "statements"}
    OBVIOUS
  <1> HIDE DEF p
  <1>3. pc'[r] = p /\ \A q \in Requests \ {r} : pc'[q] = pc[q]
    BY <1>1 DEF PreviewTypeOK
  <1>4. IsFiniteSet(Holders') /\ Cardinality(Holders') <= PoolSize
    BY <1>1, HoldersMove
  <1>5. PreviewTypeOK'
    BY <1>1, <1>2, <1>3, <1>4 DEF PreviewTypeOK, Holding
  <1>6. \A q \in Requests : InTime(q)' /\ NoWaiting(q)'
    BY <1>1, <1>2, <1>3 DEF InTime, NoWaiting
  <1>7. PreviewsAreBookable' /\ ManualWithoutKey'
    BY <1>1 DEF PreviewsAreBookable, ManualWithoutKey, ManualIsServed
  <1> QED
    BY <1>4, <1>5, <1>6, <1>7

(* Only a request that has waited is refused a connection, and it waits    *)
(* only while others wait for the provider.                                *)
LEMMA ConnectTimeoutKeeps ==
    ASSUME PreviewInv, NEW r \in Requests, ConnectTimeout(r)
    PROVE  PreviewInv'
  <1>1. configured
    BY PreviewAssumption DEF ConnectTimeout, PreviewInv, NoWaiting, PreviewTypeOK
  <1>2. /\ Reply(r, "server_error", Missing) /\ pc[r] = "waiting"
        /\ UNCHANGED <<configured, now, active, since, arrived, heard, known>>
    BY DEF ConnectTimeout
  <1> QED
    BY <1>1, <1>2, ReplyKeeps DEF PreviewInv, PreviewTypeOK, Codes

LEMMA CatalogKeeps ==
    ASSUME PreviewInv, NEW r \in Requests, Catalog(r)
    PROVE  PreviewInv'
  <1> USE DEF PreviewInv
  <1> DEFINE read == [rooms |-> active, at |-> now]
  <1>1. /\ pc[r] = "catalog" /\ known' = [known EXCEPT ![r] = read]
        /\ since' = [since EXCEPT ![r] = now]
        /\ UNCHANGED <<configured, now, active, arrived, heard>>
    BY DEF Catalog
  <1>2. read \in [rooms : SUBSET Rooms, at : 0 .. now]
    BY DEF PreviewTypeOK
  <1> HIDE DEF read
  <1>3. /\ since' \in [Requests -> 0 .. now]
        /\ known' \in [Requests -> [rooms : SUBSET Rooms, at : 0 .. now]]
        /\ since'[r] = now
        /\ \A q \in Requests \ {r} : since'[q] = since[q] /\ known'[q] = known[q]
    BY <1>1, <1>2 DEF PreviewTypeOK
  <1>4. CASE ~configured
    <2>1. Reply(r, "ai_unavailable", Missing)
      BY <1>4 DEF Catalog
    <2> QED
      BY <1>1, <1>3, <2>1, ReplyKeeps DEF Codes
  <1>5. CASE configured
    <2>1. pc' = [pc EXCEPT ![r] = "provider"] /\ UNCHANGED answer
      BY <1>5 DEF Catalog
    <2>2. pc'[r] = "provider" /\ \A q \in Requests \ {r} : pc'[q] = pc[q]
      BY <2>1 DEF PreviewTypeOK
    <2>3. IsFiniteSet(Holders') /\ Cardinality(Holders') <= PoolSize
      BY <1>1, <2>1, HoldersMove DEF Holding
    <2>4. PreviewTypeOK'
      BY <1>1, <1>3, <2>1, <2>2, <2>3 DEF PreviewTypeOK, Holding
    <2>5. \A q \in Requests : InTime(q)' /\ NoWaiting(q)'
      BY <1>1, <1>3, <1>5, <2>2, PreviewAssumption DEF InTime, NoWaiting, PreviewTypeOK
    <2>6. answer[r].code = "none"
      BY <1>1 DEF PreviewTypeOK
    <2>7. PreviewsAreBookable' /\ ManualWithoutKey'
      BY <1>1, <1>3, <2>1, <2>6, AnswersKeep
    <2> QED
      BY <2>3, <2>4, <2>5, <2>7
  <1> QED
    BY <1>4, <1>5 DEF PreviewTypeOK

(* Progress starts the timeout anew, and is what excuses the wait.         *)
LEMMA ProgressKeeps ==
    ASSUME PreviewInv, NEW r \in Requests, ProviderProgress(r)
    PROVE  PreviewInv'
  <1> USE DEF PreviewInv
  <1>1. /\ pc[r] = "provider"
        /\ since' = [since EXCEPT ![r] = now] /\ heard' = [heard EXCEPT ![r] = now]
        /\ UNCHANGED <<configured, now, active, pc, arrived, known, answer>>
    BY DEF ProviderProgress
  <1>2. /\ since'[r] = now /\ heard'[r] = now
        /\ \A q \in Requests \ {r} : since'[q] = since[q] /\ heard'[q] = heard[q]
    BY <1>1 DEF PreviewTypeOK
  <1>3. IsFiniteSet(Holders') /\ Cardinality(Holders') <= PoolSize
    BY <1>1, HoldersStay
  <1>4. PreviewTypeOK'
    BY <1>1, <1>3 DEF PreviewTypeOK
  <1>5. \A q \in Requests : InTime(q)' /\ NoWaiting(q)'
    BY <1>1, <1>2, PreviewAssumption DEF InTime, NoWaiting, PreviewTypeOK
  <1>6. PreviewsAreBookable' /\ ManualWithoutKey'
    BY <1>1 DEF PreviewsAreBookable, ManualWithoutKey, ManualIsServed
  <1> QED
    BY <1>3, <1>4, <1>5, <1>6

LEMMA ProviderKeeps ==
    ASSUME PreviewInv, NEW r \in Requests,
           ProviderAnswers(r) \/ ProviderFails(r) \/ ProviderTimesOut(r)
    PROVE  PreviewInv'
  <1> USE DEF PreviewInv
  <1>1. UNCHANGED <<configured, now, active, since, arrived, heard, known>>
    BY DEF ProviderAnswers, ProviderFails, ProviderTimesOut
  <1>2. /\ since' \in [Requests -> 0 .. now]
        /\ known' \in [Requests -> [rooms : SUBSET Rooms, at : 0 .. now]]
        /\ \A q \in Requests \ {r} : since'[q] = since[q] /\ known'[q] = known[q]
    BY <1>1 DEF PreviewTypeOK
  <1>3. CASE ProviderAnswers(r)
    <2> DEFINE Given(code, i) == IF code = "ai_invalid_response" THEN Missing ELSE i
    <2>1. PICK i \in Intents :
            Reply(r, Verdict(i, known[r]), Given(Verdict(i, known[r]), i))
      BY <1>3 DEF ProviderAnswers
    <2> DEFINE code == Verdict(i, known[r])
               intent == Given(code, i)
    <2>2. code \in {"ai_invalid_response", "clarification", "preview"}
      BY DEF Verdict
    <2>3. code \in Codes \ {"none"} /\ code # "server_error"
      BY <2>2 DEF Codes
    <2>4. intent \in Intents \cup {Missing}
      OBVIOUS
    <2>5. known[r] \in [rooms : SUBSET Rooms, at : Nat]
      BY DEF PreviewTypeOK
    <2>6. code = "preview" => Bookable(intent, known'[r])
      BY <1>1, <2>5, VerdictSound
    <2>7. Reply(r, code, intent)
      BY <2>1
    <2> HIDE DEF code, intent
    <2> QED
      BY <1>1, <1>2, <2>3, <2>4, <2>6, <2>7, ReplyKeeps
  <1>4. CASE ProviderFails(r)
    <2>1. PICK code \in {"ai_unavailable", "ai_invalid_response"} :
            Reply(r, code, Missing)
      BY <1>4 DEF ProviderFails
    <2> QED
      BY <1>1, <1>2, <2>1, ReplyKeeps DEF Codes
  <1>5. CASE ProviderTimesOut(r)
    BY <1>1, <1>2, <1>5, ReplyKeeps DEF ProviderTimesOut, Codes
  <1> QED
    BY <1>3, <1>4, <1>5

LEMMA StatementsKeep ==
    ASSUME PreviewInv, NEW r \in Requests, Statements(r)
    PROVE  PreviewInv'
  <1>1. /\ Reply(r, "served", Missing)
        /\ UNCHANGED <<configured, now, active, since, arrived, heard, known>>
    BY DEF Statements
  <1> QED
    BY <1>1, ReplyKeeps DEF PreviewInv, PreviewTypeOK, Codes

(* Time passes, while somebody waits for a connection, only if all of them *)
(* are held by requests that wait for the provider.                        *)
LEMMA TickKeeps ==
    ASSUME PreviewInv, Tick
    PROVE  PreviewInv'
  <1> USE DEF PreviewInv
  <1>1. /\ now < MaxTime /\ now' = now + 1
        /\ UNCHANGED <<configured, active, pc, since, arrived, heard, known, answer>>
    BY DEF Tick
  <1>2. \A r \in Requests :
          /\ pc[r] = "waiting" => /\ now < since[r] + PoolTimeout
                                  /\ Cardinality(Holders) = PoolSize
          /\ pc[r] = "provider" => now < since[r] + ProviderTimeout
          /\ pc[r] \notin {"catalog", "statements"}
    BY DEF Tick
  <1>3. IsFiniteSet(Holders') /\ Cardinality(Holders') <= PoolSize
    BY <1>1, HoldersStay
  <1>4. PreviewTypeOK'
    <2>1. now \in Nat /\ 0 .. now \subseteq 0 .. now'
      BY <1>1 DEF PreviewTypeOK
    <2>2. /\ since' \in [Requests -> 0 .. now'] /\ arrived' \in [Requests -> 0 .. now']
          /\ heard' \in [Requests -> 0 .. now']
          /\ now' \in 0 .. MaxTime
      BY <1>1, <2>1, PreviewAssumption DEF PreviewTypeOK
    <2>3. known' \in [Requests -> [rooms : SUBSET Rooms, at : 0 .. now']]
      BY <1>1, <2>1 DEF PreviewTypeOK
    <2> QED
      BY <1>1, <1>3, <2>2, <2>3 DEF PreviewTypeOK
  <1>5. \A r \in Requests : InTime(r)'
    BY <1>1, <1>2, PreviewAssumption DEF InTime, PreviewTypeOK
  <1>6. \A r \in Requests : NoWaiting(r)'
    <2>1. SUFFICES ASSUME NEW r \in Requests, ~configured, pc[r] = "waiting"
                   PROVE  FALSE
      BY <1>1 DEF NoWaiting
    <2>2. Holders = {}
      BY <1>2, <2>1 DEF Holders, Holding, NoWaiting
    <2> QED
      BY <1>2, <2>1, <2>2, FS_EmptySet, PreviewAssumption
  <1>7. PreviewsAreBookable' /\ ManualWithoutKey'
    BY <1>1 DEF PreviewsAreBookable, ManualWithoutKey, ManualIsServed
  <1> QED
    BY <1>3, <1>4, <1>5, <1>6, <1>7

LEMMA OthersKeep ==
    ASSUME PreviewInv,
           (\E room \in Rooms : ToggleRoom(room)) \/ UNCHANGED previewVars
    PROVE  PreviewInv'
  <1> USE DEF PreviewInv
  <1>1. /\ UNCHANGED <<configured, now, pc, since, arrived, heard, known, answer>>
        /\ active' \subseteq Rooms
    BY DEF ToggleRoom, previewVars, PreviewTypeOK
  <1>2. IsFiniteSet(Holders') /\ Cardinality(Holders') <= PoolSize
    BY <1>1, HoldersStay
  <1>3. PreviewTypeOK'
    BY <1>1, <1>2 DEF PreviewTypeOK
  <1>4. \A r \in Requests : InTime(r)' /\ NoWaiting(r)'
    BY <1>1 DEF InTime, NoWaiting
  <1>5. PreviewsAreBookable' /\ ManualWithoutKey'
    BY <1>1 DEF PreviewsAreBookable, ManualWithoutKey, ManualIsServed
  <1> QED
    BY <1>2, <1>3, <1>4, <1>5

LEMMA PreviewStep == PreviewInv /\ [Next]_previewVars => PreviewInv'
  BY ArriveKeeps, ConnectKeeps, ConnectTimeoutKeeps, CatalogKeeps, ProgressKeeps,
     ProviderKeeps, StatementsKeep, TickKeeps, OthersKeep DEF Next, Handle, Quiescent

THEOREM PreviewInvariance == Spec => []PreviewInv
  BY InitPreview, PreviewStep, PTL DEF Spec

----------------------------------------------------------------------------
(* The endpoint never holds more connections than the pool has.            *)
THEOREM PreviewTypeCorrect == Spec => []PreviewTypeOK
  <1>1. PreviewInv => PreviewTypeOK
    BY DEF PreviewInv
  <1> QED
    BY <1>1, PreviewInvariance, PTL

(* Whatever the provider answers, a preview could have been booked as it   *)
(* is when the catalog was read.                                           *)
THEOREM PreviewsCanBeBooked == Spec => []PreviewsAreBookable
  <1>1. PreviewInv => PreviewsAreBookable
    BY DEF PreviewInv
  <1> QED
    BY <1>1, PreviewInvariance, PTL

(* Without a key no number of previews costs another request its           *)
(* connection.                                                             *)
THEOREM ManualUnharmed == Spec => []ManualWithoutKey
  <1>1. PreviewInv => ManualWithoutKey
    BY DEF PreviewInv
  <1> QED
    BY <1>1, PreviewInvariance, PTL

(* Every request that is not answered is within the two timeouts of its    *)
(* arrival, or within one of the last progress of its call, whatever the   *)
(* size of the pool and the number of requests.                            *)
THEOREM NoOtherDelays == Spec => []OnlyProgressDelays
  <1>1. ASSUME PreviewInv, NEW r \in Requests, pc[r] \notin {"idle", "done"}
        PROVE  \/ now <= arrived[r] + PoolTimeout + ProviderTimeout
               \/ now <= heard[r] + ProviderTimeout
    <2>1. /\ pc[r] \in {"waiting", "catalog", "statements", "provider"}
          /\ since[r] \in Nat /\ arrived[r] \in Nat /\ heard[r] \in Nat
          /\ now \in Nat /\ InTime(r)
      BY <1>1 DEF PreviewInv, PreviewTypeOK, Holding
    <2> QED
      BY <2>1, PreviewAssumption DEF InTime
  <1>2. PreviewInv => OnlyProgressDelays
    BY <1>1 DEF OnlyProgressDelays
  <1> QED
    BY <1>2, PreviewInvariance, PTL
=============================================================================
