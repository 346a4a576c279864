----------------------------- MODULE WebSession -----------------------------
(***************************************************************************)
(* The session of one browser tab: the token in sessionStorage, the token  *)
(* in the state of App, the query cache and the requests in flight.  A     *)
(* handler of the page runs to its end, so it is one step; a request and   *)
(* its answer are two, and anything may happen between them.  The queries  *)
(* of the pages behind the login all behave as "bookings" does.            *)
(***************************************************************************)
EXTENDS Integers, FiniteSets

CONSTANTS
    Users,
    Tokens,     \* bound: the tokens the server can issue
    Slots,      \* bound: the requests that can be in flight
    None        \* no token, no owner, no request

ASSUME SessionAssumption == None \notin Users \cup Tokens

VARIABLES
    owner,      \* server: whom each issued token is for
    expired,    \* server: the tokens whose time is over
    storage,    \* sessionStorage["aispace.access-token"]
    token,      \* useState(getAccessToken) of App
    cache,      \* the query cache: key and owner of what was fetched
    flight      \* requests in flight, by slot

sessionVars == <<owner, expired, storage, token, cache, flight>>

----------------------------------------------------------------------------
Queries == {"current-user", "bookings"}
Kinds == Queries \cup {"login", "register", "mutation"}

\* user is whom a login or a registration is for; page is the App token in
\* the key of the query; live is FALSE once its query was removed.
Request == [kind : Kinds, user : Users \cup {None}, bearer : Tokens \cup {None},
            page : Tokens \cup {None}, live : BOOLEAN]

ASSUME RequestAssumption == None \notin Request

\* The key ["current-user", token] holds the token, ["bookings"] does not.
Key(r) == IF r.kind = "current-user" THEN <<r.kind, r.page>> ELSE <<r.kind>>

InFlight == {flight[s] : s \in {x \in Slots : flight[x] # None}}

Fetching(kind) ==
    \E r \in InFlight : r.kind = kind /\ r.live

\* request reads the token when it is called, not when it is answered
Send(s, kind, user) ==
    /\ flight[s] = None
    /\ flight' = [flight EXCEPT ![s] =
                    [kind |-> kind, user |-> user, bearer |-> storage,
                     page |-> token, live |-> TRUE]]
    /\ UNCHANGED <<owner, expired, storage, token, cache>>

Settle(s) == flight' = [flight EXCEPT ![s] = None]

(* queryClient.clear(): the results of queries in flight are dropped, the  *)
(* requests themselves go on.                                              *)
Orphaned(f) ==
    [s \in Slots |-> IF f[s] # None /\ f[s].kind \in Queries
                       THEN [f[s] EXCEPT !.live = FALSE]
                       ELSE f[s]]

Init ==
    /\ owner = [t \in Tokens |-> None]
    /\ expired = {}
    /\ storage = None
    /\ token = None
    /\ cache = {}
    /\ flight = [s \in Slots |-> None]

----------------------------------------------------------------------------
(* The buttons of AuthScreen are disabled while either form is submitting. *)
SubmitAuth(s, u) ==
    /\ token = None
    /\ ~Fetching("login") /\ ~Fetching("register")
    /\ \E kind \in {"login", "register"} : Send(s, kind, u)

(* Registered: the same form goes on to log in.                            *)
Registered(s) ==
    /\ flight[s] # None
    /\ flight[s].kind = "register"
    /\ flight' = [flight EXCEPT ![s].kind = "login", ![s].bearer = storage]
    /\ UNCHANGED <<owner, expired, storage, token, cache>>

LoggedIn(s) ==
    /\ flight[s] # None
    /\ flight[s].kind = "login"
    /\ \E t \in Tokens :
         /\ owner[t] = None
         /\ owner' = [owner EXCEPT ![t] = flight[s].user]
         /\ storage' = t
         /\ token' = t
    /\ Settle(s)
    /\ UNCHANGED <<expired, cache>>

(* App restores the session as soon as there is a token, and a query that  *)
(* is mounted may be fetched again when it is stale.                       *)
FetchCurrentUser(s) ==
    /\ token # None
    /\ ~Fetching("current-user")
    /\ Send(s, "current-user", None)

(* The pages are mounted once current-user has succeeded.                  *)
PageMounted == \E c \in cache : c.key = <<"current-user", token>>

FetchBookings(s) ==
    /\ token # None /\ PageMounted
    /\ ~Fetching("bookings")
    /\ Send(s, "bookings", None)

Mutate(s) ==
    /\ token # None /\ PageMounted
    /\ Send(s, "mutation", None)

(* Mutant: results are written whatever became of the query.               *)
SucceededLate(s) ==
    /\ flight[s] # None
    /\ flight[s].kind \in {"current-user", "bookings", "mutation"}
    /\ flight[s].bearer # None /\ flight[s].bearer \notin expired
    /\ LET r == flight[s]
       IN  cache' = IF r.kind # "mutation"
                      THEN {c \in cache : c.key # Key(r)}
                             \cup {[key |-> Key(r), of |-> owner[r.bearer]]}
                      ELSE cache
    /\ Settle(s)
    /\ UNCHANGED <<owner, expired, storage, token>>

(* Mutant: the answer to a mutation is cached as well.                     *)
SucceededKept(s) ==
    /\ flight[s] # None
    /\ flight[s].kind \in {"current-user", "bookings", "mutation"}
    /\ flight[s].bearer # None /\ flight[s].bearer \notin expired
    /\ LET r == flight[s]
       IN  cache' = IF r.live
                      THEN {c \in cache : c.key # Key(r)}
                             \cup {[key |-> Key(r), of |-> owner[r.bearer]]}
                      ELSE cache
    /\ Settle(s)
    /\ UNCHANGED <<owner, expired, storage, token>>

(* A 2xx answer to a request with a token that is valid.                   *)
Succeeded(s) ==
    /\ flight[s] # None
    /\ flight[s].kind \in {"current-user", "bookings", "mutation"}
    /\ flight[s].bearer # None /\ flight[s].bearer \notin expired
    /\ LET r == flight[s]
       IN  cache' = IF r.live /\ r.kind # "mutation"
                      THEN {c \in cache : c.key # Key(r)}
                             \cup {[key |-> Key(r), of |-> owner[r.bearer]]}
                      ELSE cache
    /\ Settle(s)
    /\ UNCHANGED <<owner, expired, storage, token>>

(* Mutant: App does not listen for the event.                              *)
UnauthorizedUnheard(s) ==
    /\ flight[s] # None
    /\ flight[s].bearer \in expired
    /\ storage' = None
    /\ Settle(s)
    /\ UNCHANGED <<owner, expired, token, cache>>

(* 401 to a request that carried a token: notifyUnauthorized and the       *)
(* listener of App, whichever token the tab has by now.                    *)
Unauthorized(s) ==
    /\ flight[s] # None
    /\ flight[s].bearer \in expired
    /\ storage' = None
    /\ cache' = {}
    /\ token' = None
    /\ flight' = Orphaned([flight EXCEPT ![s] = None])
    /\ UNCHANGED <<owner, expired>>

(* Mutant: every error of the API signs out.                               *)
FailedSignsOut(s) ==
    /\ flight[s] # None
    /\ storage' = None
    /\ cache' = {}
    /\ token' = None
    /\ flight' = Orphaned([flight EXCEPT ![s] = None])
    /\ UNCHANGED <<owner, expired>>

(* Any other answer: an error that the caller shows.  A login is refused   *)
(* with a 401 too, but it carried no token.                                *)
Failed(s) ==
    /\ flight[s] # None
    /\ Settle(s)
    /\ UNCHANGED <<owner, expired, storage, token, cache>>

Logout ==
    /\ token # None
    /\ storage' = None
    /\ cache' = {}
    /\ token' = None
    /\ flight' = Orphaned(flight)
    /\ UNCHANGED <<owner, expired>>

(* The page is loaded again: sessionStorage is all that survives.          *)
Reload ==
    /\ token' = storage
    /\ cache' = {}
    /\ flight' = [s \in Slots |-> None]
    /\ UNCHANGED <<owner, expired, storage>>

Expire(t) ==
    /\ owner[t] # None /\ t \notin expired
    /\ expired' = expired \cup {t}
    /\ UNCHANGED <<owner, storage, token, cache, flight>>

Next ==
    \/ \E s \in Slots :
         \/ \E u \in Users : SubmitAuth(s, u)
         \/ Registered(s) \/ LoggedIn(s)
         \/ FetchCurrentUser(s) \/ FetchBookings(s) \/ Mutate(s)
         \/ Succeeded(s) \/ Unauthorized(s) \/ Failed(s)
    \/ Logout
    \/ Reload
    \/ \E t \in Tokens : Expire(t)

Spec == Init /\ [][Next]_sessionVars

----------------------------------------------------------------------------
(* Types: only issued tokens are in use, and the cache holds the results   *)
(* of queries, each of them somebody's, and of nothing else.               *)
SessionTypeOK ==
    /\ owner \in [Tokens -> Users \cup {None}]
    /\ expired \subseteq {t \in Tokens : owner[t] # None}
    /\ token \in {t \in Tokens : owner[t] # None} \cup {None}
    /\ cache \subseteq
         [key : {<<"bookings">>} \cup ({"current-user"} \X (Tokens \cup {None})),
          of : Users]
    /\ flight \in [Slots -> Request \cup {None}]

(* What is cached belongs to the user who is signed in, and nothing is     *)
(* cached when nobody is: signing in as someone else on the same tab never *)
(* shows the bookings of the user before, however late they arrive (the    *)
(* key ["bookings"] does not name the user).                               *)
PageIsOwn == \A c \in cache : token # None /\ c.of = owner[token]

(* The token that requests carry is the one that App shows a page for.     *)
TokensAgree == storage = token

(* Only the user or a token that expired ends a session: a failure of the  *)
(* network or of the server does not.                                      *)
EndsForAReason ==
    token # None /\ token' = None =>
        \/ \A s \in Slots : flight[s] # None => flight'[s] # None
        \/ \E s \in Slots : /\ flight[s] # None /\ flight'[s] = None
                            /\ flight[s].bearer \in expired

SessionsEndForAReason == [][EndsForAReason]_sessionVars
=============================================================================
