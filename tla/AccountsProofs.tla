--------------------------- MODULE AccountsProofs ---------------------------
(***************************************************************************)
(* Theorems about Accounts for every set of requests, addresses, passwords *)
(* and calls, every lifetime of a token and every bound on the clock.      *)
(***************************************************************************)
EXTENDS Accounts, TLAPS

(* Where a request is tells what it has answered and written.              *)
Progress ==
    \A r \in Requests :
        /\ pc[r] # "done" => answer[r] = "none"
        /\ pc[r] \notin {"refresh", "done"} => users[r] = None

(* The unique index: an address with an open insert is in no committed row *)
(* and in no other open insert.                                            *)
IndexIsUnique ==
    \A q \in Requests :
        pc[q] = "commit" =>
            /\ \A u \in Requests : users[u] # None => users[u].email # Email(q)
            /\ \A r \in Requests : pc[r] = "commit" /\ Email(r) = Email(q) => r = q

(* The inductive invariant.                                                *)
AccountsInv ==
    /\ AccountsTypeOK
    /\ Progress
    /\ IndexIsUnique
    /\ OneAccountPerEmail
    /\ TakenIsTrue

Labels == Busy \cup {"idle", "done"}

----------------------------------------------------------------------------
LEMMA EmailType ==
    ASSUME AccountsTypeOK, NEW r \in Requests
    PROVE  Email(r) \in Emails /\ call[r].password \in Passwords
  BY AccountsAssumption DEF AccountsTypeOK, Email, Call

LEMMA AccountsInit == Init => AccountsInv
  <1> SUFFICES ASSUME Init PROVE AccountsInv
    OBVIOUS
  <1>1. AccountsTypeOK
    BY AccountsAssumption, NoneAssumption
       DEF Init, AccountsTypeOK, Answers, Nothing, Ids, Busy
  <1>2. Progress /\ IndexIsUnique /\ OneAccountPerEmail /\ TakenIsTrue
    BY DEF Init, Progress, IndexIsUnique, OneAccountPerEmail, TakenIsTrue, Ids
  <1> QED
    BY <1>1, <1>2 DEF AccountsInv

----------------------------------------------------------------------------
(* Types.                                                                  *)
LEMMA ReplyKeepsTypes ==
    ASSUME AccountsInv, NEW r \in Requests, pc[r] # "done",
           NEW code \in Answers \ {"token"}, Reply(r, code),
           UNCHANGED <<now, users, call, token, seen>>,
           subject' \in [Requests -> Requests \cup {None}]
    PROVE  AccountsTypeOK'
  <1>1. /\ pc' \in [Requests -> Labels]
        /\ answer' \in [Requests -> Answers]
    BY DEF AccountsInv, AccountsTypeOK, Reply, Labels
  <1>2. token[r] = None
    BY DEF AccountsInv, AccountsTypeOK, Progress
  <1>3. \A q \in Requests : token'[q] # None <=> answer'[q] = "token"
    BY <1>2 DEF AccountsInv, AccountsTypeOK, Reply
  <1> QED
    BY <1>1, <1>3 DEF AccountsInv, AccountsTypeOK, Labels, Ids

LEMMA GotoKeepsTypes ==
    ASSUME AccountsInv, NEW r \in Requests, NEW label \in Busy, Goto(r, label),
           UNCHANGED <<now, users, call, subject, token, seen>>
    PROVE  AccountsTypeOK'
  BY DEF AccountsInv, AccountsTypeOK, Goto, Ids

LEMMA SubmitTypes ==
    ASSUME AccountsInv, NEW r \in Requests, Submit(r)
    PROVE  AccountsTypeOK'
  <1> DEFINE arrival == [at |-> now,
                         answered |-> {q \in Requests : pc[q] = "done"},
                         retired |-> {u \in Ids : ~users[u].is_active}]
  <1>1. /\ pc' \in [Requests -> Labels]
        /\ answer' \in [Requests -> Answers]
    BY DEF AccountsInv, AccountsTypeOK, Submit, Goto, Reply, Labels, Busy, Answers
  <1>2. \A q \in Requests : token'[q] # None <=> answer'[q] = "token"
    BY DEF AccountsInv, AccountsTypeOK, Submit, Goto, Reply, Progress
  <1>3. seen' = [seen EXCEPT ![r] = arrival]
    BY DEF Submit
  <1>4. UNCHANGED <<now, users, call, subject, token>>
    BY DEF Submit
  <1>5. seen' \in [Requests -> [at : 0 .. now, answered : SUBSET Requests,
                                retired : SUBSET Ids]]
    <2>1. arrival \in [at : 0 .. now, answered : SUBSET Requests, retired : SUBSET Ids]
      BY AccountsAssumption DEF AccountsInv, AccountsTypeOK
    <2> HIDE DEF arrival
    <2> QED
      BY <1>3, <2>1 DEF AccountsInv, AccountsTypeOK
  <1>6. now' \in 0 .. MaxTime /\ Ids' = Ids
    BY <1>4 DEF AccountsInv, AccountsTypeOK, Ids
  <1> HIDE DEF arrival
  <1> QED
    BY <1>1, <1>2, <1>4, <1>5, <1>6 DEF AccountsInv, AccountsTypeOK, Labels

LEMMA CommitTypes ==
    ASSUME AccountsInv, NEW r \in Requests, Commit(r)
    PROVE  AccountsTypeOK'
  <1>1. users' \in [Requests -> User \cup {None}]
    BY EmailType DEF AccountsInv, AccountsTypeOK, Commit, User
  <1>2. Ids \subseteq Ids'
    <2>1. users'[r] \in User
      BY EmailType DEF AccountsInv, AccountsTypeOK, Commit, User
    <2>2. users'[r] # None
      BY <2>1, NoneAssumption
    <2> QED
      BY <2>2 DEF AccountsInv, AccountsTypeOK, Commit, Ids
  <1>3. pc' \in [Requests -> Labels] /\ UNCHANGED answer
    BY DEF AccountsInv, AccountsTypeOK, Commit, Goto, Labels, Busy
  <1> QED
    BY <1>1, <1>2, <1>3 DEF AccountsInv, AccountsTypeOK, Commit, Labels

LEMMA LoginTypes ==
    ASSUME AccountsInv, NEW r \in Requests, Login(r)
    PROVE  AccountsTypeOK'
  <1>1. CASE \E u \in WithEmail(Email(r)) :
                /\ Reply(r, "token")
                /\ subject' = [subject EXCEPT ![r] = u]
                /\ token' = [token EXCEPT ![r] =
                               [sub |-> u, iat |-> now, exp |-> now + Lifetime]]
    <2>1. PICK u \in Requests :
             /\ Reply(r, "token")
             /\ subject' = [subject EXCEPT ![r] = u]
             /\ token' = [token EXCEPT ![r] =
                            [sub |-> u, iat |-> now, exp |-> now + Lifetime]]
      BY <1>1 DEF WithEmail, Ids
    <2>2. [sub |-> u, iat |-> now, exp |-> now + Lifetime] \in Token
      BY AccountsAssumption DEF AccountsInv, AccountsTypeOK, Token
    <2>3. UNCHANGED <<now, users, call, seen>>
      BY DEF Login
    <2>4. /\ pc' \in [Requests -> Labels]
          /\ answer' \in [Requests -> Answers]
          /\ subject' \in [Requests -> Requests \cup {None}]
          /\ token' \in [Requests -> Token \cup {None}]
      BY <2>1, <2>2 DEF AccountsInv, AccountsTypeOK, Reply, Labels, Answers
    <2>5. \A q \in Requests : token'[q] # None <=> answer'[q] = "token"
      BY <2>1, <2>2, NoneAssumption DEF AccountsInv, AccountsTypeOK, Reply
    <2> QED
      BY <2>3, <2>4, <2>5 DEF AccountsInv, AccountsTypeOK, Labels, Ids
  <1>2. CASE Reply(r, "invalid_credentials") /\ UNCHANGED <<subject, token>>
    BY <1>2, ReplyKeepsTypes
       DEF AccountsInv, AccountsTypeOK, Login, Answers
  <1> QED
    BY <1>1, <1>2 DEF Login

LEMMA RetireTypes ==
    ASSUME AccountsInv, NEW u \in Requests, Retire(u)
    PROVE  AccountsTypeOK'
  <1>1. users[u] \in User
    BY DEF AccountsInv, AccountsTypeOK, Retire, Ids
  <1>2. /\ users' \in [Requests -> User \cup {None}]
        /\ users'[u] \in User
        /\ \A v \in Requests \ {u} : users'[v] = users[v]
    BY <1>1 DEF AccountsInv, AccountsTypeOK, Retire, User
  <1>3. Ids \subseteq Ids'
    BY <1>2, NoneAssumption DEF Ids
  <1> QED
    BY <1>2, <1>3 DEF AccountsInv, AccountsTypeOK, Retire

LEMMA TypesStep == AccountsInv /\ [Next]_accountVars => AccountsTypeOK'
  <1> SUFFICES ASSUME AccountsInv, [Next]_accountVars PROVE AccountsTypeOK'
    OBVIOUS
  <1>0. subject \in [Requests -> Requests \cup {None}]
    BY DEF AccountsInv, AccountsTypeOK
  <1>1. ASSUME NEW r \in Requests, Lookup(r) PROVE AccountsTypeOK'
    BY <1>0, <1>1, ReplyKeepsTypes, GotoKeepsTypes DEF Lookup, Answers, Busy
  <1>2. ASSUME NEW r \in Requests, Insert(r) PROVE AccountsTypeOK'
    BY <1>0, <1>2, ReplyKeepsTypes, GotoKeepsTypes DEF Insert, Answers, Busy
  <1>3. ASSUME NEW r \in Requests, Refresh(r) PROVE AccountsTypeOK'
    BY <1>0, <1>3, ReplyKeepsTypes DEF Refresh, Answers
  <1>4. ASSUME NEW r \in Requests, CurrentUser(r) PROVE AccountsTypeOK'
    <2>1. subject' \in [Requests -> Requests \cup {None}]
      BY <1>0, <1>4 DEF CurrentUser, Ids
    <2> QED
      BY <1>4, <2>1, ReplyKeepsTypes DEF CurrentUser, Answers
  <1>5. ASSUME NEW r \in Requests, Fail(r) PROVE AccountsTypeOK'
    BY <1>0, <1>5, ReplyKeepsTypes DEF Fail, Answers, Busy
  <1>6. CASE Tick
    BY <1>6, AccountsAssumption DEF AccountsInv, AccountsTypeOK, Tick, Ids
  <1>7. CASE UNCHANGED accountVars
    BY <1>7 DEF AccountsInv, AccountsTypeOK, accountVars, Ids
  <1> QED
    BY <1>1, <1>2, <1>3, <1>4, <1>5, <1>6, <1>7, SubmitTypes, CommitTypes,
       LoginTypes, RetireTypes DEF Next, Handle, Quiescent

----------------------------------------------------------------------------
(* The unique index.                                                       *)

(* No step changes a committed row but to retire it.                       *)
LEMMA RowsStay ==
    ASSUME AccountsInv, [Next]_accountVars, NEW u \in Requests, users[u] # None
    PROVE  /\ users'[u] # None
           /\ users'[u].email = users[u].email
           /\ users'[u].password = users[u].password
           /\ ~users[u].is_active => ~users'[u].is_active
  <1>1. ASSUME NEW r \in Requests, Commit(r)
        PROVE  users'[u] = users[u]
    <2>1. u # r
      BY <1>1 DEF AccountsInv, Progress, Commit
    <2> QED
      BY <1>1, <2>1 DEF AccountsInv, AccountsTypeOK, Commit
  <1>2. ASSUME NEW r \in Requests, Retire(r)
        PROVE  /\ users'[u] # None
               /\ users'[u].email = users[u].email
               /\ users'[u].password = users[u].password
               /\ ~users[u].is_active => ~users'[u].is_active
    <2>1. users[r] \in User /\ users[u] \in User
      BY <1>2 DEF AccountsInv, AccountsTypeOK, Retire, Ids
    <2>2. [users[r] EXCEPT !.is_active = FALSE] \in User
      BY <2>1 DEF User
    <2> QED
      BY <1>2, <2>1, <2>2, NoneAssumption
         DEF AccountsInv, AccountsTypeOK, Retire, User
  <1>3. CASE UNCHANGED users
    BY <1>3
  <1> QED
    BY <1>1, <1>2, <1>3
       DEF Next, Handle, Submit, Lookup, Insert, Refresh, Login, CurrentUser,
           Fail, Tick, Quiescent, accountVars

(* Who enters the index, and what a commit adds to the table.              *)
LEMMA OnlyInsertEnters ==
    ASSUME AccountsInv, [Next]_accountVars, NEW q \in Requests,
           pc'[q] = "commit", pc[q] # "commit"
    PROVE  Insert(q) /\ WithEmail(Email(q)) = {} /\ ~Inserting(Email(q))
             /\ UNCHANGED users /\ \A r \in Requests \ {q} : pc'[r] = pc[r]
  <1>1. ASSUME NEW r \in Requests, Insert(r)
        PROVE  Insert(q) /\ WithEmail(Email(q)) = {} /\ ~Inserting(Email(q))
                 /\ UNCHANGED users /\ \A p \in Requests \ {q} : pc'[p] = pc[p]
    BY <1>1 DEF AccountsInv, AccountsTypeOK, Insert, Goto, Reply
  <1>2. ASSUME NEW r \in Requests,
               Submit(r) \/ Lookup(r) \/ Commit(r) \/ Refresh(r) \/ Login(r)
                 \/ CurrentUser(r) \/ Fail(r)
        PROVE  FALSE
    BY <1>2 DEF AccountsInv, AccountsTypeOK, Submit, Lookup, Commit, Refresh,
                Login, CurrentUser, Fail, Goto, Reply
  <1>3. ASSUME Tick \/ Quiescent \/ UNCHANGED accountVars
                 \/ \E u \in Requests : Retire(u)
        PROVE  FALSE
    BY <1>3 DEF Tick, Quiescent, accountVars, Retire
  <1> QED
    BY <1>1, <1>2, <1>3 DEF Next, Handle

LEMMA OnlyCommitAdds ==
    ASSUME AccountsInv, [Next]_accountVars, NEW u \in Requests,
           users[u] = None, users'[u] # None
    PROVE  Commit(u)
  <1>1. ASSUME NEW r \in Requests, Commit(r) PROVE Commit(u)
    BY <1>1 DEF AccountsInv, AccountsTypeOK, Commit
  <1>2. ASSUME NEW r \in Requests, Retire(r) PROVE FALSE
    BY <1>2 DEF AccountsInv, AccountsTypeOK, Retire, Ids
  <1> QED
    BY <1>1, <1>2
       DEF Next, Handle, Submit, Lookup, Insert, Refresh, Login, CurrentUser,
           Fail, Tick, Quiescent, accountVars

LEMMA CallsStay ==
    ASSUME [Next]_accountVars
    PROVE  call' = call
  BY DEF Next, Handle, Submit, Lookup, Insert, Commit, Refresh, Login,
         CurrentUser, Fail, Tick, Quiescent, Retire, accountVars

LEMMA IndexStep == AccountsInv /\ [Next]_accountVars => IndexIsUnique'
  <1> SUFFICES ASSUME AccountsInv, [Next]_accountVars, NEW q \in Requests,
                      pc'[q] = "commit"
               PROVE  /\ \A u \in Requests :
                            users'[u] # None => users'[u].email # Email(q)
                      /\ \A r \in Requests :
                            pc'[r] = "commit" /\ Email(r) = Email(q) => r = q
    BY CallsStay DEF IndexIsUnique, Email
  <1>1. CASE pc[q] # "commit"
    <2>1. WithEmail(Email(q)) = {} /\ ~Inserting(Email(q)) /\ UNCHANGED users
            /\ \A r \in Requests \ {q} : pc'[r] = pc[r]
      BY <1>1, OnlyInsertEnters
    <2> QED
      BY <2>1 DEF WithEmail, Ids, Inserting
  <1>2. CASE pc[q] = "commit"
    <2>1. ASSUME NEW u \in Requests, users'[u] # None
          PROVE  users'[u].email # Email(q)
      <3>1. CASE users[u] # None
        BY <1>2, <3>1, RowsStay DEF AccountsInv, IndexIsUnique
      <3>2. CASE users[u] = None
        <4>1. Commit(u)
          BY <2>1, <3>2, OnlyCommitAdds
        <4>2. pc[u] = "commit" /\ users'[u].email = Email(u) /\ pc'[u] = "refresh"
          BY <4>1 DEF AccountsInv, AccountsTypeOK, Commit, Goto
        <4> QED
          BY <1>2, <4>2 DEF AccountsInv, IndexIsUnique
      <3> QED
        BY <3>1, <3>2
    <2>2. ASSUME NEW r \in Requests, pc'[r] = "commit", Email(r) = Email(q)
          PROVE  r = q
      <3>1. CASE pc[r] = "commit"
        BY <1>2, <2>2, <3>1 DEF AccountsInv, IndexIsUnique
      <3>2. CASE pc[r] # "commit"
        BY <1>2, <2>2, <3>2, OnlyInsertEnters DEF Inserting
      <3> QED
        BY <3>1, <3>2
    <2> QED
      BY <2>1, <2>2
  <1> QED
    BY <1>1, <1>2

LEMMA OneAccountStep == AccountsInv /\ [Next]_accountVars => OneAccountPerEmail'
  <1> SUFFICES ASSUME AccountsInv, [Next]_accountVars,
                      NEW u \in Requests, NEW v \in Requests,
                      users'[u] # None, users'[v] # None,
                      users'[u].email = users'[v].email
               PROVE  u = v
    BY DEF OneAccountPerEmail, Ids
  <1>1. ASSUME NEW w \in Requests, users[w] = None, users'[w] # None
        PROVE  pc[w] = "commit" /\ users'[w].email = Email(w)
    <2>1. Commit(w)
      BY <1>1, OnlyCommitAdds
    <2> QED
      BY <2>1 DEF AccountsInv, AccountsTypeOK, Commit
  <1>2. CASE users[u] # None /\ users[v] # None
    BY <1>2, RowsStay DEF AccountsInv, OneAccountPerEmail, Ids
  <1>3. CASE users[u] = None /\ users[v] # None
    BY <1>1, <1>3, RowsStay DEF AccountsInv, IndexIsUnique
  <1>4. CASE users[u] # None /\ users[v] = None
    BY <1>1, <1>4, RowsStay DEF AccountsInv, IndexIsUnique
  <1>5. CASE users[u] = None /\ users[v] = None
    BY <1>1, <1>5 DEF AccountsInv, IndexIsUnique
  <1> QED
    BY <1>2, <1>3, <1>4, <1>5

----------------------------------------------------------------------------
LEMMA ProgressStep == AccountsInv /\ [Next]_accountVars => Progress'
  <1> SUFFICES ASSUME AccountsInv, [Next]_accountVars, NEW r \in Requests
               PROVE  /\ pc'[r] # "done" => answer'[r] = "none"
                      /\ pc'[r] \notin {"refresh", "done"} => users'[r] = None
    BY DEF Progress
  <1>1. ASSUME NEW q \in Requests, Handle(q) \/ Fail(q)
        PROVE  /\ pc'[r] # "done" => answer'[r] = "none"
               /\ pc[r] \in {"refresh", "done"} => pc'[r] \in {"refresh", "done"}
               /\ Commit(r) => pc'[r] = "refresh"
    BY <1>1 DEF AccountsInv, AccountsTypeOK, Progress, Handle, Submit, Lookup,
                Insert, Commit, Refresh, Login, CurrentUser, Fail, Goto, Reply,
                Busy
  <1>2. ASSUME Tick \/ Quiescent \/ UNCHANGED accountVars
                 \/ \E u \in Requests : Retire(u)
        PROVE  UNCHANGED <<pc, answer>> /\ ~Commit(r)
    BY <1>2 DEF AccountsInv, AccountsTypeOK, Tick, Quiescent, accountVars,
                Retire, Commit, Goto
  <1>3. /\ pc'[r] # "done" => answer'[r] = "none"
        /\ pc[r] \in {"refresh", "done"} => pc'[r] \in {"refresh", "done"}
        /\ Commit(r) => pc'[r] = "refresh"
    BY <1>1, <1>2 DEF Next, AccountsInv, Progress
  <1> QED
    BY <1>3, OnlyCommitAdds DEF AccountsInv, Progress, AccountsTypeOK

LEMMA TakenStep == AccountsInv /\ [Next]_accountVars => TakenIsTrue'
  <1> SUFFICES ASSUME AccountsInv, [Next]_accountVars, NEW r \in Requests,
                      answer'[r] = "email_already_registered", Email(r) \notin Unfit
               PROVE  \E u \in Requests : /\ users'[u] # None
                                          /\ users'[u].email = Email(r)
    BY CallsStay DEF TakenIsTrue, WithEmail, Ids, Email
  <1>1. \E u \in Requests : users[u] # None /\ users[u].email = Email(r)
    <2>1. CASE answer[r] = "email_already_registered"
      BY <2>1 DEF AccountsInv, TakenIsTrue, WithEmail, Ids
    <2>2. CASE answer[r] # "email_already_registered"
      <3>1. Lookup(r) \/ Insert(r)
        BY <2>2 DEF AccountsInv, AccountsTypeOK, Next, Handle, Submit, Lookup,
                    Insert, Commit, Refresh, Login, CurrentUser, Fail, Goto,
                    Reply, Tick, Quiescent, Retire, accountVars
      <3>2. WithEmail(Email(r)) # {}
        BY <2>2, <3>1 DEF Lookup, Insert, Goto
      <3> QED
        BY <3>2 DEF WithEmail, Ids
    <2> QED
      BY <2>1, <2>2
  <1> QED
    BY <1>1, RowsStay

----------------------------------------------------------------------------
(* The invariant is inductive.                                             *)
THEOREM AccountsInvariance == Spec => []AccountsInv
  <1>1. AccountsInv /\ [Next]_accountVars => AccountsInv'
    BY TypesStep, ProgressStep, IndexStep, OneAccountStep, TakenStep
       DEF AccountsInv
  <1> QED
    BY AccountsInit, <1>1, PTL DEF Spec

(* Type correctness.                                                       *)
THEOREM AccountsTypeCorrect == Spec => []AccountsTypeOK
  <1>1. AccountsInv => AccountsTypeOK
    BY DEF AccountsInv
  <1> QED
    BY <1>1, AccountsInvariance, PTL

(* However many registrations of an address interleave, at most one makes  *)
(* an account (docs/TASK.md:23).                                           *)
THEOREM EmailsAreUnique == Spec => []OneAccountPerEmail
  <1>1. AccountsInv => OneAccountPerEmail
    BY DEF AccountsInv
  <1> QED
    BY <1>1, AccountsInvariance, PTL

(* The refusal of an address is true when it is given and stays true.      *)
THEOREM RefusalsAreTrue == Spec => []TakenIsTrue
  <1>1. AccountsInv => TakenIsTrue
    BY DEF AccountsInv
  <1> QED
    BY <1>1, AccountsInvariance, PTL

----------------------------------------------------------------------------
(* What the answers rest on: the rows, the tokens and what a request found *)
(* when it arrived.                                                        *)

(* A row is that of the registration it is named after, which is committed *)
(* before it is answered.                                                  *)
RowOfCall(r) ==
    /\ users[r] # None => /\ users[r].email = Email(r)
                          /\ users[r].password = call[r].password
    /\ pc[r] = "refresh" \/ answer[r] = "registered" => users[r] # None

(* What a request found: answers that were given, accounts that were       *)
(* retired.  Neither is ever taken back.                                   *)
Found(r) ==
    /\ \A q \in seen[r].answered : pc[q] = "done"
    /\ \A u \in seen[r].retired : users[u] # None /\ ~users[u].is_active

(* A token is for the account whose password its login knew.               *)
TokenOfLogin(l) ==
    token[l] # None =>
        /\ token[l].sub \in Ids
        /\ users[token[l].sub].email = Email(l)
        /\ users[token[l].sub].password = call[l].password
        /\ token[l].exp = token[l].iat + Lifetime

(* A request that awaits the user came with a token that had not expired.  *)
BearerWasValid(r) ==
    pc[r] = "user" =>
        /\ call[r].bearer \in seen[r].answered
        /\ token[call[r].bearer] # None
        /\ seen[r].at < token[call[r].bearer].exp

HistoryInv ==
    /\ \A r \in Requests : /\ RowOfCall(r) /\ Found(r)
                            /\ TokenOfLogin(r) /\ BearerWasValid(r)
    /\ RegisteredCanLogIn
    /\ AnswersGoToOwners
    /\ RetiredGetNothing

(* A step that is not of request r leaves all of it but its row.           *)
Rests(r) ==
    /\ pc'[r] = pc[r] /\ answer'[r] = answer[r] /\ subject'[r] = subject[r]
    /\ token'[r] = token[r] /\ seen'[r] = seen[r]

LEMMA OneMoves ==
    ASSUME AccountsInv, [Next]_accountVars, NEW r \in Requests
    PROVE  Rests(r) \/ Handle(r) \/ Fail(r)
  <1>1. ASSUME NEW q \in Requests \ {r}, Handle(q) \/ Fail(q)
        PROVE  Rests(r)
    <2>1. CASE Login(q) \/ CurrentUser(q)
      BY <2>1 DEF AccountsInv, AccountsTypeOK, Rests, Login, CurrentUser, Reply
    <2>2. CASE Submit(q)
      BY <2>2 DEF AccountsInv, AccountsTypeOK, Rests, Submit, Goto, Reply
    <2> QED
      BY <1>1, <2>1, <2>2 DEF AccountsInv, AccountsTypeOK, Rests, Handle, Lookup,
         Insert, Commit, Refresh, Fail, Goto, Reply
  <1>2. ASSUME Tick \/ Quiescent \/ UNCHANGED accountVars
                 \/ \E u \in Requests : Retire(u)
        PROVE  Rests(r)
    BY <1>2 DEF Rests, Tick, Quiescent, accountVars, Retire
  <1> QED
    BY <1>1, <1>2 DEF Next

LEMMA DoneStays ==
    ASSUME AccountsInv, [Next]_accountVars, NEW r \in Requests, pc[r] = "done"
    PROVE  Rests(r)
  BY OneMoves DEF Handle, Submit, Lookup, Insert, Commit, Refresh, Login,
     CurrentUser, Fail, Busy

(* Only a login that answers makes a token; the answer is then given.      *)
LEMMA TokensStay ==
    ASSUME AccountsInv, [Next]_accountVars, NEW l \in Requests, token[l] # None
    PROVE  pc[l] = "done" /\ Rests(l)
  BY DoneStays DEF AccountsInv, AccountsTypeOK, Progress

(* What a request found on arrival is written once.                        *)
LEMMA SeenOnce ==
    ASSUME AccountsInv, [Next]_accountVars, NEW r \in Requests
    PROVE  \/ seen'[r] = seen[r] /\ ~Submit(r)
           \/ /\ Submit(r)
              /\ seen'[r].at = now
              /\ seen'[r].answered = {q \in Requests : pc[q] = "done"}
              /\ seen'[r].retired = {u \in Ids : ~users[u].is_active}
  <1>1. CASE Submit(r)
    BY <1>1 DEF Submit, AccountsInv, AccountsTypeOK
  <1>2. CASE ~Submit(r)
    BY <1>2, OneMoves DEF Rests, Handle, Lookup, Insert, Commit, Refresh, Login,
       CurrentUser, Fail
  <1> QED
    BY <1>1, <1>2

LEMMA HistoryInit == Init => HistoryInv
  BY DEF Init, HistoryInv, RowOfCall, Found, TokenOfLogin, BearerWasValid, Nothing,
     RegisteredCanLogIn, AnswersGoToOwners, RetiredGetNothing

LEMMA RowOfCallStep ==
    ASSUME AccountsInv, HistoryInv, [Next]_accountVars, NEW r \in Requests
    PROVE  RowOfCall(r)'
  <1>0. call' = call /\ RowOfCall(r)
    BY CallsStay DEF HistoryInv
  <1>1. ASSUME users'[r] # None
        PROVE  users'[r].email = Email(r) /\ users'[r].password = call[r].password
    <2>1. CASE users[r] # None
      BY <1>0, <2>1, RowsStay DEF RowOfCall
    <2>2. CASE users[r] = None
      <3>1. Commit(r)
        BY <1>1, <2>2, OnlyCommitAdds
      <3> QED
        BY <3>1 DEF Commit, AccountsInv, AccountsTypeOK
    <2> QED
      BY <2>1, <2>2
  <1>2. ASSUME pc'[r] = "refresh" \/ answer'[r] = "registered"
        PROVE  users'[r] # None
    <2>1. CASE Rests(r)
      BY <1>0, <1>2, <2>1, RowsStay DEF RowOfCall, Rests
    <2>2. CASE Commit(r)
      <3>1. users'[r] \in User
        BY <2>2, EmailType DEF Commit, AccountsInv, AccountsTypeOK, User
      <3> QED
        BY <3>1, NoneAssumption
    <2>3. CASE (Handle(r) \/ Fail(r)) /\ ~Commit(r)
      <3>1. pc[r] = "refresh"
        BY <1>2, <2>3 DEF AccountsInv, AccountsTypeOK, Progress, Handle, Submit,
           Lookup, Insert, Refresh, Login, CurrentUser, Fail, Goto, Reply, Busy
      <3> QED
        BY <1>0, <3>1, RowsStay DEF RowOfCall
    <2> QED
      BY <2>1, <2>2, <2>3, OneMoves
  <1> QED
    BY <1>0, <1>1, <1>2 DEF RowOfCall, Email

LEMMA FoundStep ==
    ASSUME AccountsInv, HistoryInv, [Next]_accountVars, NEW r \in Requests
    PROVE  Found(r)'
  <1>1. /\ seen[r].answered \subseteq Requests /\ seen[r].retired \subseteq Requests
        /\ Found(r)
    BY DEF AccountsInv, AccountsTypeOK, HistoryInv, Ids
  <1>2. CASE seen'[r] = seen[r]
    BY <1>1, <1>2, DoneStays, RowsStay DEF Found, Rests
  <1>3. CASE /\ seen'[r].answered = {q \in Requests : pc[q] = "done"}
             /\ seen'[r].retired = {u \in Ids : ~users[u].is_active}
    BY <1>3, DoneStays, RowsStay DEF Found, Rests, Ids
  <1> QED
    BY <1>2, <1>3, SeenOnce

LEMMA TokenOfLoginStep ==
    ASSUME AccountsInv, HistoryInv, [Next]_accountVars, NEW l \in Requests
    PROVE  TokenOfLogin(l)'
  <1>0. call' = call /\ TokenOfLogin(l)
    BY CallsStay DEF HistoryInv
  <1>1. CASE token'[l] = token[l]
    BY <1>0, <1>1, RowsStay DEF TokenOfLogin, Ids, Email
  <1>2. CASE Login(l) /\ token'[l] # token[l]
    <2>1. PICK u \in WithEmail(Email(l)) :
             /\ users[u].password = call[l].password
             /\ token' = [token EXCEPT ![l] =
                            [sub |-> u, iat |-> now, exp |-> now + Lifetime]]
      BY <1>2 DEF Login
    <2>2. token'[l] = [sub |-> u, iat |-> now, exp |-> now + Lifetime]
      BY <2>1 DEF AccountsInv, AccountsTypeOK
    <2>3. u \in Ids /\ users[u].email = Email(l) /\ users' = users
      BY <1>2, <2>1 DEF Login, WithEmail
    <2> QED
      BY <1>0, <2>1, <2>2, <2>3 DEF TokenOfLogin, Ids, Email
  <1> QED
    BY <1>1, <1>2, OneMoves DEF Rests, Handle, Submit, Lookup, Insert, Commit, Refresh,
       CurrentUser, Fail

LEMMA BearerStep ==
    ASSUME AccountsInv, HistoryInv, [Next]_accountVars, NEW r \in Requests
    PROVE  BearerWasValid(r)'
  <1>0. /\ call' = call /\ BearerWasValid(r)
        /\ call[r].bearer \in Requests \cup {None}
    BY CallsStay, AccountsAssumption DEF HistoryInv, AccountsInv, AccountsTypeOK, Call
  <1> DEFINE bearer == call[r].bearer
  <1>1. SUFFICES ASSUME pc'[r] = "user"
                 PROVE  /\ bearer \in seen'[r].answered /\ token'[bearer] # None
                        /\ seen'[r].at < token'[bearer].exp
    BY <1>0 DEF BearerWasValid
  <1>2. CASE Submit(r)
    <2>1. Decodes(bearer) /\ UNCHANGED token
      BY <1>1, <1>2 DEF Submit, Goto, Reply, AccountsInv, AccountsTypeOK
    <2>2. bearer \in Requests /\ token[bearer] # None /\ now < token[bearer].exp
      BY <1>0, <2>1 DEF Decodes
    <2>3. pc[bearer] = "done"
      BY <2>2, TokensStay
    <2> QED
      BY <1>2, <2>1, <2>2, <2>3, SeenOnce
  <1>3. CASE ~Submit(r)
    <2>1. pc[r] = "user"
      BY <1>1, <1>3, OneMoves DEF Rests, Handle, Lookup, Insert, Commit, Refresh,
         Login, CurrentUser, Fail, Goto, Reply, AccountsInv, AccountsTypeOK
    <2>2. /\ bearer \in seen[r].answered /\ token[bearer] # None
          /\ seen[r].at < token[bearer].exp /\ bearer \in Requests
      BY <2>1, <1>0 DEF BearerWasValid, AccountsInv, AccountsTypeOK
    <2>3. seen'[r] = seen[r] /\ token'[bearer] = token[bearer]
      BY <1>3, <2>2, SeenOnce, TokensStay DEF Rests
    <2> QED
      BY <2>2, <2>3
  <1> QED
    BY <1>2, <1>3

LEMMA OwnersStep ==
    ASSUME AccountsInv, HistoryInv, [Next]_accountVars
    PROVE  AnswersGoToOwners'
  <1>1. SUFFICES ASSUME NEW r \in Requests, answer'[r] = "current_user",
                        NEW login, login = call[r].bearer
                 PROVE  /\ login \in seen'[r].answered
                        /\ subject'[r] = token'[login].sub
                        /\ subject'[r] \in Ids'
                        /\ users'[subject'[r]].email = Email(login)
                        /\ users'[subject'[r]].password = call[login].password
                        /\ seen'[r].at < token'[login].iat + Lifetime
    BY CallsStay DEF AnswersGoToOwners, Email
  <1>2. CASE answer[r] = "current_user"
    <2>1. pc[r] = "done"
      BY <1>2 DEF AccountsInv, Progress
    <2>2. /\ seen'[r] = seen[r] /\ subject'[r] = subject[r]
      BY <2>1, DoneStays DEF Rests
    <2>3. /\ login \in seen[r].answered /\ subject[r] = token[login].sub
          /\ subject[r] \in Ids
          /\ users[subject[r]].email = Email(login)
          /\ users[subject[r]].password = call[login].password
          /\ seen[r].at < token[login].iat + Lifetime
      BY <1>1, <1>2 DEF HistoryInv, AnswersGoToOwners
    <2>4. login \in Requests /\ pc[login] = "done"
      BY <2>3 DEF HistoryInv, Found, AccountsInv, AccountsTypeOK
    <2>5. token'[login] = token[login]
      BY <2>4, DoneStays DEF Rests
    <2>6. /\ users'[subject[r]] # None
          /\ users'[subject[r]].email = users[subject[r]].email
          /\ users'[subject[r]].password = users[subject[r]].password
      BY <2>3, RowsStay DEF Ids
    <2> QED
      BY <2>2, <2>3, <2>5, <2>6 DEF Ids
  <1>3. CASE answer[r] # "current_user"
    <2>1. CurrentUser(r)
      BY <1>1, <1>3, OneMoves DEF Rests, Handle, Submit, Lookup, Insert, Commit,
         Refresh, Login, Fail, Goto, Reply, AccountsInv, AccountsTypeOK
    <2>2. /\ pc[r] = "user" /\ token[login].sub \in Ids
          /\ subject' = [subject EXCEPT ![r] = token[login].sub]
          /\ UNCHANGED <<users, token, seen>>
      BY <1>1, <1>3, <2>1 DEF CurrentUser, Reply, AccountsInv, AccountsTypeOK
    <2>3. subject'[r] = token[login].sub /\ Ids' = Ids
      BY <2>2 DEF AccountsInv, AccountsTypeOK, Ids
    <2>4. /\ login \in seen[r].answered /\ token[login] # None
          /\ seen[r].at < token[login].exp /\ login \in Requests
      BY <1>1, <2>2 DEF HistoryInv, BearerWasValid, AccountsInv, AccountsTypeOK
    <2>5. TokenOfLogin(login)
      BY <2>4 DEF HistoryInv
    <2> QED
      BY <2>2, <2>3, <2>4, <2>5 DEF TokenOfLogin
  <1> QED
    BY <1>2, <1>3

LEMMA RetiredStep ==
    ASSUME AccountsInv, HistoryInv, [Next]_accountVars
    PROVE  RetiredGetNothing'
  <1>1. SUFFICES ASSUME NEW r \in Requests, answer'[r] \in {"token", "current_user"}
                 PROVE  subject'[r] \notin seen'[r].retired
    BY DEF RetiredGetNothing
  <1>2. CASE answer[r] \in {"token", "current_user"}
    <2>1. pc[r] = "done"
      BY <1>2 DEF AccountsInv, Progress
    <2> QED
      BY <1>2, <2>1, DoneStays DEF Rests, HistoryInv, RetiredGetNothing
  <1>3. CASE answer[r] \notin {"token", "current_user"}
    <2>1. Login(r) \/ CurrentUser(r)
      BY <1>1, <1>3, OneMoves DEF Rests, Handle, Submit, Lookup, Insert, Commit,
         Refresh, Fail, Goto, Reply, AccountsInv, AccountsTypeOK
    <2>2. seen'[r] = seen[r]
      BY <2>1 DEF Login, CurrentUser
    <2>3. \E u \in Ids : users[u].is_active /\ subject' = [subject EXCEPT ![r] = u]
      <3>1. CASE Login(r)
        BY <1>1, <3>1 DEF Login, WithEmail, Reply, AccountsInv, AccountsTypeOK
      <3>2. CASE CurrentUser(r)
        BY <1>1, <3>2 DEF CurrentUser, Reply, AccountsInv, AccountsTypeOK
      <3> QED
        BY <2>1, <3>1, <3>2
    <2>4. \E u \in Ids : users[u].is_active /\ subject'[r] = u
      BY <2>3 DEF AccountsInv, AccountsTypeOK
    <2> QED
      BY <2>2, <2>4 DEF HistoryInv, Found
  <1> QED
    BY <1>2, <1>3

LEMMA LoginStep ==
    ASSUME AccountsInv, HistoryInv, [Next]_accountVars
    PROVE  RegisteredCanLogIn'
  <1>1. SUFFICES ASSUME NEW r \in Requests, NEW q \in Requests,
                        answer'[r] = "registered", r \in seen'[q].answered,
                        call[q].kind = "login", Email(q) = Email(r),
                        call[q].password = call[r].password,
                        answer'[q] = "invalid_credentials"
                 PROVE  r \in Ids' /\ ~users'[r].is_active
    BY CallsStay DEF RegisteredCanLogIn, Email
  <1>2. CASE answer[q] = "invalid_credentials"
    <2>1. pc[q] = "done"
      BY <1>2 DEF AccountsInv, Progress
    <2>2. r \in seen[q].answered
      BY <1>1, <2>1, DoneStays DEF Rests
    <2>3. answer[r] = "registered"
      BY <1>1, <2>2, DoneStays DEF Rests, HistoryInv, Found
    <2>4. r \in Ids /\ ~users[r].is_active
      BY <1>1, <1>2, <2>2, <2>3 DEF HistoryInv, RegisteredCanLogIn
    <2> QED
      BY <2>4, RowsStay DEF Ids
  <1>3. CASE answer[q] # "invalid_credentials"
    <2>1. Login(q)
      BY <1>1, <1>3, OneMoves DEF Rests, Handle, Submit, Lookup, Insert, Commit,
         Refresh, CurrentUser, Fail, Goto, Reply, AccountsInv, AccountsTypeOK
    <2>2. /\ UNCHANGED <<users, seen>>
          /\ ~\E u \in WithEmail(Email(q)) :
                users[u].password = call[q].password /\ users[u].is_active
      BY <1>1, <2>1 DEF Login, Reply, AccountsInv, AccountsTypeOK
    <2>3. answer[r] = "registered"
      BY <1>1, <2>2, DoneStays DEF Rests, HistoryInv, Found
    <2>4. RowOfCall(r)
      BY DEF HistoryInv
    <2> QED
      BY <1>1, <2>2, <2>3, <2>4 DEF RowOfCall, WithEmail, Ids
  <1> QED
    BY <1>2, <1>3

THEOREM HistoryInvariance == Spec => []HistoryInv
  <1>1. AccountsInv /\ HistoryInv /\ [Next]_accountVars => HistoryInv'
    BY RowOfCallStep, FoundStep, TokenOfLoginStep, BearerStep, OwnersStep,
       RetiredStep, LoginStep DEF HistoryInv
  <1> QED
    BY HistoryInit, <1>1, AccountsInvariance, PTL DEF Spec

(* Who was told "registered" can log in until the account is retired,      *)
(* however many registrations of the address there are.                    *)
THEOREM RegisteredLogIn == Spec => []RegisteredCanLogIn
  <1>1. HistoryInv => RegisteredCanLogIn
    BY DEF HistoryInv
  <1> QED
    BY <1>1, HistoryInvariance, PTL

(* An answer about an account went to who knew its password, through a     *)
(* token that had not expired when the request arrived.                    *)
THEOREM OwnersAreAnswered == Spec => []AnswersGoToOwners
  <1>1. HistoryInv => AnswersGoToOwners
    BY DEF HistoryInv
  <1> QED
    BY <1>1, HistoryInvariance, PTL

(* A request that arrives after an account is retired gets nothing for it. *)
THEOREM RetiredAreRefused == Spec => []RetiredGetNothing
  <1>1. HistoryInv => RetiredGetNothing
    BY DEF HistoryInv
  <1> QED
    BY <1>1, HistoryInvariance, PTL
=============================================================================
