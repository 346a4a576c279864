-------------------------- MODULE WebSessionProofs --------------------------
(***************************************************************************)
(* Theorems about WebSession for every set of users and tokens and every   *)
(* number of requests in flight.                                           *)
(***************************************************************************)
EXTENDS WebSession, TLAPS

Auth == {"login", "register"}

Pending(s) == flight[s] # None

(* A request of AuthScreen is alone, it is for a user, and it is only made *)
(* and only on its way while nobody is signed in.                          *)
AuthIsAlone ==
    \A s \in Slots :
        Pending(s) /\ flight[s].kind \in Auth =>
            /\ token = None
            /\ flight[s].live /\ flight[s].user \in Users
            /\ \A x \in Slots : Pending(x) /\ flight[x].kind \in Auth => x = s

(* A query whose result will still be written was sent in this session.    *)
LiveIsOwn ==
    \A s \in Slots :
        Pending(s) /\ flight[s].kind \in Queries /\ flight[s].live =>
            /\ token # None
            /\ flight[s].bearer = token

SessionInv == SessionTypeOK /\ TokensAgree /\ AuthIsAlone /\ LiveIsOwn /\ PageIsOwn

----------------------------------------------------------------------------
LEMMA InitSession == Init => SessionInv
  <1> SUFFICES ASSUME Init PROVE SessionInv
    OBVIOUS
  <1>1. SessionTypeOK
    BY DEF Init, SessionTypeOK
  <1>2. TokensAgree /\ AuthIsAlone /\ LiveIsOwn /\ PageIsOwn
    BY DEF Init, TokensAgree, AuthIsAlone, LiveIsOwn, PageIsOwn, Pending
  <1> QED
    BY <1>1, <1>2 DEF SessionInv

(* A request that is sent changes nothing but its slot.                    *)
LEMMA SendKeeps ==
    ASSUME SessionInv, NEW s \in Slots, NEW kind \in Kinds, NEW user \in Users \cup {None},
           Send(s, kind, user),
           kind \in Queries \cup {"mutation"} => token # None,
           kind \in Auth => /\ token = None /\ user \in Users
                           /\ ~Fetching("login") /\ ~Fetching("register")
    PROVE  SessionInv'
  <1> USE DEF SessionInv
  <1> DEFINE sent == [kind |-> kind, user |-> user, bearer |-> storage,
                      page |-> token, live |-> TRUE]
  <1>1. /\ UNCHANGED <<owner, expired, storage, token, cache>>
        /\ ~Pending(s) /\ flight' = [flight EXCEPT ![s] = sent]
    BY DEF Send, Pending
  <1>2. sent \in Request /\ sent # None
    <2>1. sent \in Request
      BY DEF SessionTypeOK, TokensAgree, Request
    <2> QED
      BY <2>1, RequestAssumption
  <1>3. flight'[s] = sent /\ \A x \in Slots \ {s} : flight'[x] = flight[x]
    BY <1>1 DEF SessionTypeOK
  <1>4. SessionTypeOK' /\ TokensAgree' /\ PageIsOwn'
    BY <1>1, <1>2 DEF SessionTypeOK, TokensAgree, PageIsOwn
  <1>5. AuthIsAlone'
    <2>1. CASE kind \in Auth
      <3>1. \A x \in Slots : Pending(x) => flight[x].kind \notin Auth
        BY <2>1 DEF Fetching, InFlight, Pending, AuthIsAlone, Auth
      <3> QED
        BY <1>1, <1>2, <1>3, <2>1, <3>1 DEF AuthIsAlone, Pending
    <2>2. CASE kind \notin Auth
      BY <1>1, <1>2, <1>3, <2>2 DEF AuthIsAlone, Pending
    <2> QED
      BY <2>1, <2>2
  <1>6. LiveIsOwn'
    BY <1>1, <1>2, <1>3 DEF LiveIsOwn, Pending, TokensAgree
  <1> QED
    BY <1>4, <1>5, <1>6

(* A request that ends without signing anyone in or out.                   *)
LEMMA SettleKeeps ==
    ASSUME SessionInv, NEW s \in Slots, Settle(s),
           UNCHANGED <<owner, expired, storage, token>>
    PROVE  /\ AuthIsAlone' /\ LiveIsOwn' /\ TokensAgree'
           /\ flight' \in [Slots -> Request \cup {None}]
  <1>1. flight'[s] = None /\ \A x \in Slots \ {s} : flight'[x] = flight[x]
    BY DEF Settle, SessionInv, SessionTypeOK
  <1>2. flight' \in [Slots -> Request \cup {None}]
    BY DEF Settle, SessionInv, SessionTypeOK
  <1>3. TokensAgree'
    BY DEF SessionInv, TokensAgree
  <1>4. AuthIsAlone'
    BY <1>1 DEF AuthIsAlone, Pending, SessionInv
  <1>5. LiveIsOwn'
    BY <1>1 DEF LiveIsOwn, Pending, SessionInv
  <1> QED
    BY <1>2, <1>3, <1>4, <1>5

(* Signing out: no query of the old session is written afterwards.         *)
LEMMA SignOutKeeps ==
    ASSUME SessionInv, NEW f \in [Slots -> Request \cup {None}],
           \A x \in Slots : f[x] = flight[x] \/ f[x] = None,
           flight' = Orphaned(f), storage' = None, token' = None, cache' = {},
           UNCHANGED <<owner, expired>>
    PROVE  /\ SessionInv'
           /\ \A x \in Slots : f[x] # None => flight'[x] # None
  <1> USE DEF SessionInv
  <1>1. ASSUME NEW x \in Slots, f[x] # None
        PROVE  /\ flight'[x] \in Request
               /\ flight'[x].kind = flight[x].kind /\ flight'[x].user = flight[x].user
               /\ flight'[x].live = (flight[x].kind \notin Queries /\ flight[x].live)
    <2>1. f[x] = flight[x] /\ flight[x] \in Request
      BY <1>1 DEF SessionTypeOK
    <2>2. CASE flight[x].kind \in Queries
      <3>1. flight'[x] = [flight[x] EXCEPT !.live = FALSE]
        BY <1>1, <2>1, <2>2 DEF Orphaned
      <3> QED
        BY <2>1, <2>2, <3>1 DEF Request
    <2>3. CASE flight[x].kind \notin Queries
      <3>1. flight'[x] = flight[x]
        BY <1>1, <2>1, <2>3 DEF Orphaned
      <3> QED
        BY <2>1, <2>3, <3>1 DEF Request
    <2> QED
      BY <2>2, <2>3
  <1>2. \A x \in Slots : f[x] = None => flight'[x] = None
    BY DEF Orphaned
  <1>3. \A x \in Slots : f[x] # None => Pending(x) /\ flight'[x] # None
    BY <1>1, RequestAssumption DEF Pending
  <1>4. flight' \in [Slots -> Request \cup {None}]
    <2>1. flight' = [x \in Slots |-> flight'[x]]
      BY DEF Orphaned
    <2> QED
      BY <1>1, <1>2, <2>1
  <1>5. SessionTypeOK'
    BY <1>4 DEF SessionTypeOK
  <1>6. TokensAgree' /\ PageIsOwn'
    BY DEF TokensAgree, PageIsOwn
  <1>7. AuthIsAlone'
    BY <1>1, <1>2, <1>3 DEF AuthIsAlone, Pending, Auth, Queries
  <1>8. LiveIsOwn'
    BY <1>1, <1>2, <1>3 DEF LiveIsOwn, Pending
  <1> QED
    BY <1>3, <1>5, <1>6, <1>7, <1>8

----------------------------------------------------------------------------
LEMMA AuthKeeps ==
    ASSUME SessionInv, NEW s \in Slots,
           (\E u \in Users : SubmitAuth(s, u)) \/ Registered(s)
    PROVE  SessionInv'
  <1> USE DEF SessionInv
  <1>1. ASSUME NEW u \in Users, SubmitAuth(s, u) PROVE SessionInv'
    BY <1>1, SendKeeps DEF SubmitAuth, Kinds, Queries, Auth
  <1>2. CASE Registered(s)
    <2> DEFINE r == [flight[s] EXCEPT !.kind = "login", !.bearer = storage]
    <2>1. /\ flight[s] \in Request /\ flight[s].kind = "register"
          /\ UNCHANGED <<owner, expired, storage, token, cache>>
          /\ flight' = [flight EXCEPT ![s] = r]
      BY <1>2 DEF Registered, SessionTypeOK
    <2>2. /\ r \in Request /\ r # None
          /\ r.kind = "login" /\ r.user = flight[s].user /\ r.live = flight[s].live
      BY <2>1, RequestAssumption DEF SessionTypeOK, TokensAgree, Request, Kinds
    <2>3. flight'[s] = r /\ \A x \in Slots \ {s} : flight'[x] = flight[x]
      BY <2>1 DEF SessionTypeOK
    <2>4. SessionTypeOK' /\ TokensAgree' /\ PageIsOwn'
      BY <2>1, <2>2 DEF SessionTypeOK, TokensAgree, PageIsOwn
    <2>5. Pending(s)
      BY <1>2 DEF Registered, Pending
    <2>6. AuthIsAlone'
      BY <2>1, <2>2, <2>3, <2>5 DEF AuthIsAlone, Pending, Auth
    <2>7. LiveIsOwn'
      BY <2>1, <2>2, <2>3 DEF LiveIsOwn, Pending, Queries
    <2> QED
      BY <2>4, <2>6, <2>7
  <1> QED
    BY <1>1, <1>2

LEMMA LoginKeeps ==
    ASSUME SessionInv, NEW s \in Slots, LoggedIn(s)
    PROVE  SessionInv'
  <1> USE DEF SessionInv
  <1>1. PICK t \in Tokens :
          /\ owner[t] = None /\ owner' = [owner EXCEPT ![t] = flight[s].user]
          /\ storage' = t /\ token' = t
    BY DEF LoggedIn
  <1>2. /\ Pending(s) /\ flight[s].kind = "login"
        /\ flight' = [flight EXCEPT ![s] = None] /\ UNCHANGED <<expired, cache>>
    BY DEF LoggedIn, Settle, Pending
  <1>3. /\ token = None /\ flight[s].user \in Users
        /\ \A x \in Slots \ {s} : Pending(x) => flight[x].kind \notin Auth
    BY <1>2 DEF AuthIsAlone, Auth
  <1>4. flight'[s] = None /\ \A x \in Slots \ {s} : flight'[x] = flight[x]
    BY <1>2 DEF SessionTypeOK
  <1>5. cache = {}
    BY <1>3 DEF PageIsOwn
  <1>6. SessionTypeOK'
    BY <1>1, <1>2, <1>3, <1>5, SessionAssumption DEF SessionTypeOK
  <1>7. TokensAgree' /\ PageIsOwn'
    BY <1>1, <1>2, <1>5 DEF TokensAgree, PageIsOwn
  <1>8. AuthIsAlone'
    BY <1>3, <1>4 DEF AuthIsAlone, Pending
  <1>9. LiveIsOwn'
    BY <1>3, <1>4 DEF LiveIsOwn, Pending
  <1> QED
    BY <1>6, <1>7, <1>8, <1>9

(* What is written was asked for with the token of this session.           *)
LEMMA SuccessKeeps ==
    ASSUME SessionInv, NEW s \in Slots, Succeeded(s)
    PROVE  SessionInv'
  <1> USE DEF SessionInv
  <1> DEFINE r == flight[s]
             entry == [key |-> Key(r), of |-> owner[r.bearer]]
  <1>1. /\ Settle(s) /\ UNCHANGED <<owner, expired, storage, token>>
        /\ Pending(s) /\ r \in Request /\ r.kind \in Queries \cup {"mutation"}
    BY DEF Succeeded, Pending, SessionTypeOK, Queries
  <1>2. CASE r.live /\ r.kind # "mutation"
    <2>1. cache' = {c \in cache : c.key # Key(r)} \cup {entry}
      BY <1>2 DEF Succeeded
    <2>2. r.kind \in Queries /\ token # None /\ r.bearer = token
      BY <1>1, <1>2 DEF LiveIsOwn
    <2>3. owner[token] \in Users
      BY <2>2 DEF SessionTypeOK
    <2>4. Key(r) \in {<<"bookings">>} \cup ({"current-user"} \X (Tokens \cup {None}))
      BY <1>1, <2>2 DEF Key, Queries, Request
    <2>5. entry \in [key : {<<"bookings">>} \cup ({"current-user"} \X (Tokens \cup {None})),
                     of : Users]
      BY <2>2, <2>3, <2>4
    <2>6. SessionTypeOK'
      <3> HIDE DEF entry
      <3> QED
        BY <1>1, <2>1, <2>5, SettleKeeps DEF SessionTypeOK
    <2>7. PageIsOwn'
      BY <1>1, <2>1, <2>2 DEF PageIsOwn
    <2> QED
      BY <1>1, <2>6, <2>7, SettleKeeps
  <1>3. CASE ~(r.live /\ r.kind # "mutation")
    <2>1. UNCHANGED cache
      BY <1>3 DEF Succeeded
    <2> QED
      BY <1>1, <2>1, SettleKeeps DEF SessionTypeOK, PageIsOwn
  <1> QED
    BY <1>2, <1>3

LEMMA TabKeeps ==
    ASSUME SessionInv, Reload \/ \E t \in Tokens : Expire(t)
    PROVE  SessionInv'
  <1> USE DEF SessionInv
  <1>1. CASE Reload
    <2>1. \A x \in Slots : flight'[x] = None
      BY <1>1 DEF Reload
    <2>2. SessionTypeOK' /\ TokensAgree' /\ PageIsOwn'
      BY <1>1 DEF Reload, SessionTypeOK, TokensAgree, PageIsOwn
    <2> QED
      BY <2>1, <2>2 DEF AuthIsAlone, LiveIsOwn, Pending
  <1>2. ASSUME NEW t \in Tokens, Expire(t) PROVE SessionInv'
    <2>1. SessionTypeOK' /\ TokensAgree' /\ PageIsOwn'
      BY <1>2 DEF Expire, SessionTypeOK, TokensAgree, PageIsOwn
    <2>2. AuthIsAlone' /\ LiveIsOwn'
      BY <1>2 DEF Expire, AuthIsAlone, LiveIsOwn, Pending
    <2> QED
      BY <2>1, <2>2
  <1> QED
    BY <1>1, <1>2

(* Both ways to sign out, and what becomes of the requests on their way.   *)
LEMMA UnauthorizedKeeps ==
    ASSUME SessionInv, NEW s \in Slots, Unauthorized(s)
    PROVE  SessionInv'
  <1> DEFINE f == [flight EXCEPT ![s] = None]
  <1>1. f \in [Slots -> Request \cup {None}]
    BY DEF SessionInv, SessionTypeOK
  <1>2. \A x \in Slots : f[x] = flight[x] \/ f[x] = None
    BY DEF SessionInv, SessionTypeOK
  <1>3. /\ flight' = Orphaned(f) /\ storage' = None /\ token' = None /\ cache' = {}
        /\ UNCHANGED <<owner, expired>>
    BY DEF Unauthorized
  <1> HIDE DEF f
  <1> QED
    BY <1>1, <1>2, <1>3, SignOutKeeps

LEMMA LogoutKeeps ==
    ASSUME SessionInv, Logout
    PROVE  /\ SessionInv'
           /\ \A x \in Slots : flight[x] # None => flight'[x] # None
  <1>1. flight \in [Slots -> Request \cup {None}]
    BY DEF SessionInv, SessionTypeOK
  <1>2. /\ flight' = Orphaned(flight) /\ storage' = None /\ token' = None
        /\ cache' = {} /\ UNCHANGED <<owner, expired>>
    BY DEF Logout
  <1> QED
    BY <1>1, <1>2, SignOutKeeps

LEMMA SessionStep == SessionInv /\ [Next]_sessionVars => SessionInv'
  <1> SUFFICES ASSUME SessionInv, [Next]_sessionVars PROVE SessionInv'
    OBVIOUS
  <1>1. ASSUME NEW s \in Slots, FetchCurrentUser(s) \/ FetchBookings(s) \/ Mutate(s)
        PROVE  SessionInv'
    BY <1>1, SendKeeps
       DEF FetchCurrentUser, FetchBookings, Mutate, Kinds, Queries, Auth
  <1>2. ASSUME NEW s \in Slots, Failed(s) PROVE SessionInv'
    <2>1. Settle(s) /\ UNCHANGED <<owner, expired, storage, token, cache>>
      BY <1>2 DEF Failed
    <2> QED
      BY <2>1, SettleKeeps DEF SessionInv, SessionTypeOK, PageIsOwn
  <1>3. CASE UNCHANGED sessionVars
    <2>1. SessionTypeOK' /\ TokensAgree' /\ PageIsOwn'
      BY <1>3 DEF sessionVars, SessionInv, SessionTypeOK, TokensAgree, PageIsOwn
    <2>2. AuthIsAlone' /\ LiveIsOwn'
      BY <1>3 DEF sessionVars, SessionInv, AuthIsAlone, LiveIsOwn, Pending
    <2> QED
      BY <2>1, <2>2 DEF SessionInv
  <1> QED
    BY <1>1, <1>2, <1>3, AuthKeeps, LoginKeeps, SuccessKeeps, UnauthorizedKeeps,
       LogoutKeeps, TabKeeps DEF Next

THEOREM SessionInvariance == Spec => []SessionInv
  BY InitSession, SessionStep, PTL DEF Spec

(* Only issued tokens are in use and only results of queries are cached.   *)
THEOREM SessionTypeCorrect == Spec => []SessionTypeOK
  <1>1. SessionInv => SessionTypeOK
    BY DEF SessionInv
  <1> QED
    BY <1>1, SessionInvariance, PTL

(* What a tab has cached is never another user's, however many users sign  *)
(* in on it and however late the answers to the requests of one come.      *)
THEOREM NobodyElsesPage == Spec => []PageIsOwn
  <1>1. SessionInv => PageIsOwn
    BY DEF SessionInv
  <1> QED
    BY <1>1, SessionInvariance, PTL

(* The token in sessionStorage and the token of App never differ.          *)
THEOREM OneToken == Spec => []TokensAgree
  <1>1. SessionInv => TokensAgree
    BY DEF SessionInv
  <1> QED
    BY <1>1, SessionInvariance, PTL

----------------------------------------------------------------------------
(* No step ends a session but a sign-out and an answer to a request whose  *)
(* token has expired.                                                      *)
THEOREM SessionsLast == Spec => SessionsEndForAReason
  <1>1. ASSUME SessionInv, [Next]_sessionVars
        PROVE  [EndsForAReason]_sessionVars
    <2>1. ASSUME token # None, token' = None
          PROVE  Reload \/ Logout \/ \E s \in Slots : Unauthorized(s)
      <3>1. ASSUME NEW s \in Slots, LoggedIn(s) PROVE FALSE
        BY <2>1, <3>1, SessionAssumption DEF LoggedIn
      <3>2. ASSUME UNCHANGED token PROVE FALSE
        BY <2>1, <3>2
      <3> QED
        BY <1>1, <3>1, <3>2 DEF Next, sessionVars, SubmitAuth, Registered,
           FetchCurrentUser, FetchBookings, Mutate, Send, Succeeded, Failed, Expire
    <2>2. CASE Reload
      BY <1>1, <2>2 DEF Reload, SessionInv, TokensAgree, EndsForAReason
    <2>3. CASE Logout
      BY <1>1, <2>3, LogoutKeeps DEF EndsForAReason
    <2>4. ASSUME NEW s \in Slots, Unauthorized(s) PROVE EndsForAReason
      <3>1. flight'[s] = None
        BY <1>1, <2>4 DEF Unauthorized, Orphaned, SessionInv, SessionTypeOK
      <3> QED
        BY <2>4, <3>1 DEF Unauthorized, EndsForAReason
    <2> QED
      BY <2>1, <2>2, <2>3, <2>4 DEF EndsForAReason
  <1> QED
    BY <1>1, SessionInvariance, PTL DEF Spec, SessionsEndForAReason
=============================================================================
