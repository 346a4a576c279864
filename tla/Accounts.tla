------------------------------ MODULE Accounts ------------------------------
(***************************************************************************)
(* Registration, login and the access tokens: AuthService, the /auth and   *)
(* /users/me endpoints and the users table.  As in Bookings a request is a *)
(* process and a step is a statement its session awaits, with the code up  *)
(* to the next await.  A password stands for its hash: verify_password     *)
(* holds of a hash and the password it was made from, and of no other.     *)
(***************************************************************************)
EXTENDS Integers, FiniteSets

CONSTANTS
    Emails,      \* addresses as clients write them
    Normal,      \* normalize_email
    Unfit,       \* normalized addresses that the CHECK of the table refuses
    Passwords,
    Requests,    \* a registration's request names the account it inserts
    Calls,       \* the calls that clients of this instance make
    Lifetime,    \* access_token_expire_minutes
    MaxTime,     \* bound on the clock
    None         \* no account, no token

Call == [kind : {"register", "login", "me"}, email : Emails,
         password : Passwords, bearer : Requests \cup {None}]

ASSUME AccountsAssumption ==
    /\ Normal \in [Emails -> Emails]
    /\ Unfit \subseteq Emails
    /\ Calls \subseteq Call
    /\ Lifetime \in Nat \ {0}
    /\ MaxTime \in Nat

VARIABLES
    now,        \* the wall clock
    users,      \* committed rows of users, by id
    call,       \* what each request asks
    pc,         \* the statement each request awaits next
    answer,     \* the error code or the kind of success it answered
    subject,    \* the account the token in its answer, or its answer, is about
    token,      \* the claims a login answered
    seen        \* history: clock and answers when the request arrived

accountVars == <<now, users, call, pc, answer, subject, token, seen>>

----------------------------------------------------------------------------
User == [email : Emails, password : Passwords, is_active : BOOLEAN]
Token == [sub : Requests, iat : Nat, exp : Nat]

ASSUME NoneAssumption == None \notin Requests /\ None \notin User /\ None \notin Token

Ids == {u \in Requests : users[u] # None}
Email(r) == Normal[call[r].email]

(* get_by_email *)
WithEmail(email) == {u \in Ids : users[u].email = email}

Busy == {"lookup", "insert", "commit", "refresh", "find", "user"}

(* A row in the unique index whose transaction is open.                    *)
Inserting(email) == \E q \in Requests : pc[q] = "commit" /\ Email(q) = email

Reply(r, code) ==
    /\ pc' = [pc EXCEPT ![r] = "done"]
    /\ answer' = [answer EXCEPT ![r] = code]

Goto(r, label) ==
    /\ pc' = [pc EXCEPT ![r] = label]
    /\ UNCHANGED answer

Nothing == [at |-> 0, answered |-> {}, retired |-> {}]

Init ==
    /\ now = 0
    /\ users = [u \in Requests |-> None]
    /\ call \in [Requests -> Calls]
    /\ pc = [r \in Requests |-> "idle"]
    /\ answer = [r \in Requests |-> "none"]
    /\ subject = [r \in Requests |-> None]
    /\ token = [r \in Requests |-> None]
    /\ seen = [r \in Requests |-> Nothing]

(* Mutant: the expiry is not checked.                                      *)
DecodesExpired(bearer) == bearer # None /\ token[bearer] # None

----------------------------------------------------------------------------
(* decode_access_token: a token this server signed that is not expired.    *)
Decodes(bearer) ==
    /\ bearer # None
    /\ token[bearer] # None
    /\ token[bearer].iat <= now /\ now < token[bearer].exp

(* A request arrives.  get_current_user decodes the token of "me" before   *)
(* it awaits the user, and needs no statement to refuse a bad one.         *)
Submit(r) ==
    /\ pc[r] = "idle"
    /\ \/ call[r].kind = "register" /\ Goto(r, "lookup")
       \/ call[r].kind = "login" /\ Goto(r, "find")
       \/ call[r].kind = "me" /\ IF Decodes(call[r].bearer)
                                   THEN Goto(r, "user")
                                   ELSE Reply(r, "not_authenticated")
    /\ seen' = [seen EXCEPT ![r] =
                  [at |-> now,
                   answered |-> {q \in Requests : pc[q] = "done"},
                   retired |-> {u \in Ids : ~users[u].is_active}]]
    /\ UNCHANGED <<now, users, call, subject, token>>

Lookup(r) ==
    /\ pc[r] = "lookup"
    /\ IF WithEmail(Email(r)) # {}
         THEN Reply(r, "email_already_registered")
         ELSE Goto(r, "insert")
    /\ UNCHANGED <<now, users, call, subject, token, seen>>

(* Mutant: the lookup is trusted, there is no unique index.                *)
InsertUnchecked(r) ==
    /\ pc[r] = "insert"
    /\ Goto(r, "commit")
    /\ UNCHANGED <<now, users, call, subject, token, seen>>

(* Mutant: an open insert of the address is taken for a registration.      *)
InsertImpatient(r) ==
    /\ pc[r] = "insert"
    /\ IF Inserting(Email(r)) \/ WithEmail(Email(r)) # {} \/ Email(r) \in Unfit
         THEN Reply(r, "email_already_registered")
         ELSE Goto(r, "commit")
    /\ UNCHANGED <<now, users, call, subject, token, seen>>

(* Mutant: the unique violation is not turned into an answer.              *)
InsertRetried(r) ==
    /\ pc[r] = "insert"
    /\ ~Inserting(Email(r)) /\ WithEmail(Email(r)) = {}
    /\ IF Email(r) \in Unfit
         THEN Reply(r, "email_already_registered")
         ELSE Goto(r, "commit")
    /\ UNCHANGED <<now, users, call, subject, token, seen>>

(* The flush of the new row.  It waits for another open insert of the      *)
(* address, and any IntegrityError answers that the address is taken.      *)
Insert(r) ==
    /\ pc[r] = "insert"
    /\ ~Inserting(Email(r))
    /\ IF WithEmail(Email(r)) # {} \/ Email(r) \in Unfit
         THEN Reply(r, "email_already_registered")
         ELSE Goto(r, "commit")
    /\ UNCHANGED <<now, users, call, subject, token, seen>>

(* Mutant: the session is closed without a commit.                         *)
CommitForgotten(r) ==
    /\ pc[r] = "commit"
    /\ Goto(r, "refresh")
    /\ UNCHANGED <<now, users, call, subject, token, seen>>

Commit(r) ==
    /\ pc[r] = "commit"
    /\ users' = [users EXCEPT ![r] = [email |-> Email(r),
                                      password |-> call[r].password,
                                      is_active |-> TRUE]]
    /\ Goto(r, "refresh")
    /\ UNCHANGED <<now, call, subject, token, seen>>

Refresh(r) ==
    /\ pc[r] = "refresh"
    /\ Reply(r, "registered")
    /\ subject' = [subject EXCEPT ![r] = r]
    /\ UNCHANGED <<now, users, call, token, seen>>

(* Mutant: that authenticate found no user is not looked at.               *)
LoginUnchecked(r) ==
    /\ pc[r] = "find"
    /\ Reply(r, "token")
    /\ \/ \E u \in WithEmail(Email(r)) :
             /\ users[u].password = call[r].password /\ users[u].is_active
             /\ subject' = [subject EXCEPT ![r] = u]
             /\ token' = [token EXCEPT ![r] =
                            [sub |-> u, iat |-> now, exp |-> now + Lifetime]]
       \/ /\ ~\E u \in WithEmail(Email(r)) :
                users[u].password = call[r].password /\ users[u].is_active
          /\ UNCHANGED <<subject, token>>
    /\ UNCHANGED <<now, users, call, seen>>

(* authenticate and create_access_token                                    *)
Login(r) ==
    /\ pc[r] = "find"
    /\ \/ \E u \in WithEmail(Email(r)) :
             /\ users[u].password = call[r].password /\ users[u].is_active
             /\ Reply(r, "token")
             /\ subject' = [subject EXCEPT ![r] = u]
             /\ token' = [token EXCEPT ![r] =
                            [sub |-> u, iat |-> now, exp |-> now + Lifetime]]
       \/ /\ ~\E u \in WithEmail(Email(r)) :
                users[u].password = call[r].password /\ users[u].is_active
          /\ Reply(r, "invalid_credentials")
          /\ UNCHANGED <<subject, token>>
    /\ UNCHANGED <<now, users, call, seen>>

(* Mutant: the signature of the token is enough.                           *)
CurrentUserOfToken(r) ==
    /\ pc[r] = "user"
    /\ Reply(r, "current_user")
    /\ subject' = [subject EXCEPT ![r] = token[call[r].bearer].sub]
    /\ UNCHANGED <<now, users, call, token, seen>>

(* get_current_user, once the user is loaded                               *)
CurrentUser(r) ==
    /\ pc[r] = "user"
    /\ LET u == token[call[r].bearer].sub
       IN  \/ /\ u \in Ids /\ users[u].is_active
              /\ Reply(r, "current_user")
              /\ subject' = [subject EXCEPT ![r] = u]
           \/ /\ ~(u \in Ids /\ users[u].is_active)
              /\ Reply(r, "not_authenticated")
              /\ UNCHANGED subject
    /\ UNCHANGED <<now, users, call, token, seen>>

(* The connection of a request is lost: 500, and its transaction is rolled *)
(* back unless it had committed.                                           *)
Fail(r) ==
    /\ pc[r] \in Busy
    /\ Reply(r, "server_error")
    /\ UNCHANGED <<now, users, call, subject, token, seen>>

Tick ==
    /\ now < MaxTime
    /\ now' = now + 1
    /\ UNCHANGED <<users, call, pc, answer, subject, token, seen>>

(* No endpoint writes is_active: the operator retires an account.          *)
Retire(u) ==
    /\ u \in Ids
    /\ users[u].is_active
    /\ users' = [users EXCEPT ![u].is_active = FALSE]
    /\ UNCHANGED <<now, call, pc, answer, subject, token, seen>>

Quiescent ==
    /\ \A r \in Requests : pc[r] = "done"
    /\ UNCHANGED accountVars

Handle(r) ==
    \/ Submit(r)
    \/ Lookup(r) \/ Insert(r) \/ Commit(r) \/ Refresh(r)
    \/ Login(r)
    \/ CurrentUser(r)

Next ==
    \/ \E r \in Requests : Handle(r) \/ Fail(r) \/ Retire(r)
    \/ Tick
    \/ Quiescent

Spec == Init /\ [][Next]_accountVars

FairSpec == Spec /\ \A r \in Requests : WF_accountVars(Handle(r))

----------------------------------------------------------------------------
Answers == {"none", "registered", "email_already_registered", "token",
            "invalid_credentials", "current_user", "not_authenticated",
            "server_error"}

(* Types; and only a login holds a token.                                  *)
AccountsTypeOK ==
    /\ now \in 0 .. MaxTime
    /\ users \in [Requests -> User \cup {None}]
    /\ call \in [Requests -> Calls]
    /\ pc \in [Requests -> Busy \cup {"idle", "done"}]
    /\ answer \in [Requests -> Answers]
    /\ subject \in [Requests -> Requests \cup {None}]
    /\ token \in [Requests -> Token \cup {None}]
    /\ \A r \in Requests : token[r] # None <=> answer[r] = "token"
    /\ seen \in [Requests -> [at : 0 .. now, answered : SUBSET Requests,
                              retired : SUBSET Ids]]

(* Two registrations of an address, however they are written and however   *)
(* they interleave, never both make an account (docs/TASK.md:23).          *)
OneAccountPerEmail ==
    \A u, v \in Ids : users[u].email = users[v].email => u = v

(* Who is told that the address is taken is told the truth: the account    *)
(* exists, and was not one that is rolled back after the answer.  The      *)
(* exception is an address the CHECK refuses, which gets the same answer.  *)
TakenIsTrue ==
    \A r \in Requests :
        answer[r] = "email_already_registered" =>
            WithEmail(Email(r)) # {} \/ Email(r) \in Unfit

(* Who was told "registered" can log in from then on, with the password of *)
(* the registration that won, until the account is retired.                *)
RegisteredCanLogIn ==
    \A r, q \in Requests :
        /\ answer[r] = "registered" /\ r \in seen[q].answered
        /\ call[q].kind = "login"
        /\ Email(q) = Email(r) /\ call[q].password = call[r].password
        /\ answer[q] = "invalid_credentials"
        => r \in Ids /\ ~users[r].is_active

(* An answer about an account went to its owner: through a token that was  *)
(* issued for the account's password and had not expired on arrival.       *)
AnswersGoToOwners ==
    \A r \in Requests :
        answer[r] = "current_user" =>
            LET login == call[r].bearer
            IN  /\ login \in seen[r].answered
                /\ subject[r] = token[login].sub
                /\ subject[r] \in Ids
                /\ users[subject[r]].email = Email(login)
                /\ users[subject[r]].password = call[login].password
                /\ seen[r].at < token[login].iat + Lifetime

(* A retired account gets no token, and no answer for the tokens it still  *)
(* holds, from the moment it is retired on.                                *)
RetiredGetNothing ==
    \A r \in Requests :
        answer[r] \in {"token", "current_user"} => subject[r] \notin seen[r].retired

(* Every request that arrives is answered: a registration that waits for   *)
(* another is released by its commit or its failure.                       *)
EveryRequestIsAnswered ==
    \A r \in Requests : pc[r] \in Busy ~> pc[r] = "done"
=============================================================================
