------------------------ MODULE ConsoleAccessProofs ------------------------
(***************************************************************************)
(* An administrator remains, the cap on API tokens holds, what an account  *)
(* lost its sessions lose, a code works once, and guesses are bounded: for *)
(* every set of accounts, of requests that run together and of changes     *)
(* they ask for, every limit, and every restart and store error in         *)
(* between.  The sessions rest on one fact: a step of a request moves that *)
(* request only, and marks the logins that have read what it changed.      *)
(***************************************************************************)
EXTENDS ConsoleAccess, FiniteSetTheorems, SequenceTheorems, TLAPS

\* The state of a request that changes accounts, of which there is one then.
Managing == {"create", "update", "delete"}

Shape ==
  /\ pc \in [Threads -> Steps]
  /\ job = [x \in Threads |-> job[x]]
  /\ config_write \in Threads \cup {None}

\* While an administrator's request changes accounts there are accounts: it was
\* let in by one, and the last administrator stays.  (No account was overwritten.)
AccountInv ==
  /\ user \in [Users -> [exists : BOOLEAN, enabled : BOOLEAN, role : Role]]
  /\ overwritten \in BOOLEAN
  /\ AdminRemains
  /\ \A t \in Threads : ~overwritten /\ pc[t] \in Managing => \E u \in Users : user[u].exists

\* A request that is going to store an API token has the lock, and room for it.
TokenInv ==
  /\ tokens \in [Users -> Nat]
  /\ TokensCapped
  /\ \A t \in Threads : pc[t] = "token" =>
       /\ config_write = t
       /\ job[t].user \in Users => tokens[job[t].user] < MaxTokens

IndInv == Shape /\ AccountInv /\ TokenInv

\* A step of request t that changes no API token, and no job of a request that is
\* about to store one.
TokenQuiet(t) ==
  /\ tokens' = tokens
  /\ \E s \in Steps \ {"token"} : pc' = [pc EXCEPT ![t] = s]
  /\ job' = [x \in Threads |-> job'[x]]
  /\ \A x \in Threads \ {t} : pc[x] = "token" => job'[x] = job[x]
  /\ config_write' \in {config_write, Released(config_write, t)}

\* A step of request t that changes no account.
UserQuiet(t) ==
  /\ user' = user /\ overwritten' = overwritten
  /\ ~overwritten /\ pc'[t] \in Managing => \E u \in Users : user[u].exists
----------------------------------------------------------------------------
(* Facts about accounts and quiet steps *)

\* Where there is more than one administrator, there is another one.
LEMMA AnotherAdmin ==
  ASSUME NEW S, NEW u, ~(Cardinality(S) <= 1), S # {}
  PROVE  S \ {u} # {}
<1>1. SUFFICES ASSUME S \ {u} = {} PROVE FALSE
  OBVIOUS
<1>2. S = {u}
  BY <1>1
<1>3. Cardinality(S) = 1
  BY <1>2, FS_Singleton
<1>4. QED
  BY <1>3

\* A quiet step keeps the shape of the state and the invariant of the API tokens.
LEMMA QuietTokens ==
  ASSUME Shape, TokenInv, NEW t \in Threads, TokenQuiet(t)
  PROVE  Shape' /\ TokenInv'
<1>1. PICK s \in Steps \ {"token"} : pc' = [pc EXCEPT ![t] = s]
  BY DEF TokenQuiet
<1>2. Shape'
  BY <1>1 DEF Shape, TokenQuiet, Released
<1>3. ASSUME NEW x \in Threads, pc'[x] = "token"
      PROVE  /\ config_write' = x
             /\ job'[x].user \in Users => tokens'[job'[x].user] < MaxTokens
  <2>1. x # t /\ pc[x] = "token"
    BY <1>1, <1>3 DEF Shape
  <2>2. config_write = x /\ job'[x] = job[x]
    BY <2>1 DEF TokenInv, TokenQuiet
  <2>3. config_write' = x
    BY <2>1, <2>2 DEF TokenQuiet, Released
  <2>4. QED
    BY <2>1, <2>2, <2>3 DEF TokenInv, TokenQuiet
<1>4. TokenInv'
  BY <1>3 DEF TokenInv, TokenQuiet, TokensCapped
<1>5. QED
  BY <1>2, <1>4

\* A step that changes no account keeps the invariant of the accounts.
LEMMA QuietAccounts ==
  ASSUME Shape, AccountInv, NEW t \in Threads, NEW s, pc' = [pc EXCEPT ![t] = s], UserQuiet(t)
  PROVE  AccountInv'
<1>1. AdminRemains'
  BY DEF AccountInv, AdminRemains, UserQuiet, EnabledAdmins
<1>2. \A x \in Threads : ~overwritten' /\ pc'[x] \in Managing => \E u \in Users : user'[u].exists
  BY DEF Shape, AccountInv, UserQuiet
<1>3. QED
  BY <1>1, <1>2 DEF AccountInv, UserQuiet

\* A step that changes neither accounts nor API tokens.
LEMMA QuietStep ==
  ASSUME IndInv, NEW t \in Threads, TokenQuiet(t), UserQuiet(t)
  PROVE  IndInv'
<1>1. PICK s \in Steps : pc' = [pc EXCEPT ![t] = s]
  BY DEF TokenQuiet
<1>2. QED
  BY <1>1, QuietTokens, QuietAccounts DEF IndInv

\* A step that changes accounts: an administrator is left, if no account was ever
\* overwritten.
LEMMA AccountStep ==
  ASSUME IndInv, NEW t \in Threads, TokenQuiet(t),
         user' \in [Users -> [exists : BOOLEAN, enabled : BOOLEAN, role : Role]],
         overwritten' \in BOOLEAN,
         ~overwritten' => EnabledAdmins' # {}
  PROVE  IndInv'
<1>1. AccountInv'
  BY DEF AccountInv, AdminRemains, EnabledAdmins
<1>2. QED
  BY <1>1, QuietTokens DEF IndInv

\* A step that leaves the accounts as they are (or has no account to change).
LEMMA SameAccountsStep ==
  ASSUME IndInv, NEW t \in Threads, TokenQuiet(t),
         user' = user, overwritten' \in BOOLEAN, overwritten => overwritten',
         ~overwritten /\ pc'[t] \in Managing => \E u \in Users : user[u].exists
  PROVE  IndInv'
<1>1. PICK s \in Steps : pc' = [pc EXCEPT ![t] = s]
  BY DEF TokenQuiet
<1>2. AccountInv'
  BY <1>1 DEF IndInv, AccountInv, AdminRemains, EnabledAdmins, Shape
<1>3. QED
  BY <1>2, QuietTokens DEF IndInv

\* A request that returns, or goes on, is quiet.
LEMMA FinishQuiet ==
  ASSUME Shape, NEW t \in Threads, Finish(t), tokens' = tokens
  PROVE  TokenQuiet(t) /\ pc'[t] \notin Managing
BY DEF Shape, Finish, GoTo, TokenQuiet, Managing, Steps

\* A request that goes on, without a lock to take or give back, is quiet.
LEMMA GoToQuiet ==
  ASSUME Shape, NEW t \in Threads, NEW s \in Steps \ {"token"}, NEW j, GoTo(t, s, j),
         tokens' = tokens, config_write' = config_write
  PROVE  TokenQuiet(t) /\ pc'[t] = s
BY DEF Shape, GoTo, TokenQuiet

\* A request that changes an account marks the logins that have read it, which store no API token.
LEMMA AgeJobsQuiet ==
  ASSUME Shape, NEW t \in Threads, NEW s \in Steps \ {"token"}, NEW u, NEW j,
         AgeJobs(u, t, j), pc' = [pc EXCEPT ![t] = s],
         tokens' = tokens, config_write' = config_write
  PROVE  TokenQuiet(t) /\ pc'[t] = s
BY DEF Shape, AgeJobs, LoginSteps, TokenQuiet

\* An administrator's request means that there is an account.
LEMMA AdminRequestUser ==
  ASSUME NEW t \in Threads, AdminRequest(t)
  PROVE  \E u \in Users : user[u].exists
BY DEF AdminRequest, SignedIn, TokenOf, EnabledAdmins
----------------------------------------------------------------------------
(* Sign-in *)

\* Logins change no account; first-run setup makes an administrator.
LEMMA SignInStep ==
  ASSUME IndInv, NEW t \in Threads, SignIn(t)
  PROVE  IndInv'
<1> USE DEF accountVars, lockVars
<1>1. Shape
  BY DEF IndInv
<1>2. ASSUME NEW u \in Users, LoginRead(t, u) PROVE IndInv'
  <2>1. TokenQuiet(t) /\ pc'[t] = "permit"
    BY <1>1, <1>2, GoToQuiet DEF LoginRead, Steps
  <2>2. UserQuiet(t)
    BY <1>2, <2>1 DEF LoginRead, UserQuiet, Managing
  <2>3. QED
    BY <2>1, <2>2, QuietStep
<1>3. CASE LoginPermit(t)
  <2>1. TokenQuiet(t) /\ pc'[t] \notin Managing
    <3>1. CASE Throttled /\ Finish(t)
      BY <1>1, <1>3, <3>1, FinishQuiet DEF LoginPermit
    <3>2. CASE GoTo(t, "verify", job[t]) /\ UNCHANGED lockVars
      BY <1>1, <1>3, <3>2, GoToQuiet DEF LoginPermit, Steps, Managing
    <3>3. QED
      BY <1>3, <3>1, <3>2 DEF LoginPermit
  <2>2. UserQuiet(t)
    BY <1>3, <2>1 DEF LoginPermit, UserQuiet
  <2>3. QED
    BY <2>1, <2>2, QuietStep
<1>4. CASE LoginVerify(t)
  <2>0. tokens' = tokens /\ user' = user /\ overwritten' = overwritten
    BY <1>4 DEF LoginVerify
  <2>1. TokenQuiet(t) /\ pc'[t] \notin Managing
    <3>1. CASE Finish(t)
      BY <1>1, <2>0, <3>1, FinishQuiet
    <3>2. CASE (\E s \in {"touch", "use"}, j \in {job[t]} \cup {[job[t] EXCEPT !.secret =
                  twofactor[job[t].user].secret, !.code = c] : c \in Codes} : GoTo(t, s, j))
                  /\ UNCHANGED lockVars
      BY <1>1, <2>0, <3>2, GoToQuiet DEF Steps, Managing
    <3>3. QED
      BY <1>4, <3>1, <3>2 DEF LoginVerify
  <2>2. UserQuiet(t)
    BY <2>0, <2>1 DEF UserQuiet
  <2>3. QED
    BY <2>1, <2>2, QuietStep
<1>5. CASE LoginUse(t)
  <2>1. TokenQuiet(t) /\ pc'[t] \notin Managing
    <3>1. CASE Finish(t)
      BY <1>1, <1>5, <3>1, FinishQuiet DEF LoginUse
    <3>2. CASE GoTo(t, "touch", job[t]) /\ UNCHANGED lockVars
      BY <1>1, <1>5, <3>2, GoToQuiet DEF LoginUse, Steps, Managing
    <3>3. QED
      BY <1>5, <3>1, <3>2 DEF LoginUse
  <2>2. UserQuiet(t)
    BY <1>5, <2>1 DEF LoginUse, UserQuiet
  <2>3. QED
    BY <2>1, <2>2, QuietStep
<1>6. CASE LoginTouch(t)
  <2>1. TokenQuiet(t) /\ pc'[t] \notin Managing
    <3>1. CASE Finish(t)
      BY <1>1, <1>6, <3>1, FinishQuiet DEF LoginTouch
    <3>2. CASE GoTo(t, "put", job[t]) /\ UNCHANGED lockVars
      BY <1>1, <1>6, <3>2, GoToQuiet DEF LoginTouch, Steps, Managing
    <3>3. QED
      BY <1>6, <3>1, <3>2 DEF LoginTouch
  <2>2. UserQuiet(t)
    BY <1>6, <2>1 DEF LoginTouch, UserQuiet
  <2>3. QED
    BY <2>1, <2>2, QuietStep
<1>7. CASE SessionPut(t)
  <2>1. TokenQuiet(t) /\ pc'[t] = "insert"
    BY <1>1, <1>7, GoToQuiet DEF SessionPut, Steps
  <2>2. UserQuiet(t)
    BY <1>7, <2>1 DEF SessionPut, UserQuiet, Managing
  <2>3. QED
    BY <2>1, <2>2, QuietStep
<1>8. CASE SessionInsert(t)
  <2>1. TokenQuiet(t) /\ pc'[t] \notin Managing
    BY <1>1, <1>8, FinishQuiet DEF SessionInsert
  <2>2. UserQuiet(t)
    BY <1>8, <2>1 DEF SessionInsert, UserQuiet
  <2>3. QED
    BY <2>1, <2>2, QuietStep
<1>9. ASSUME NEW u \in Users, SetupCheck(t, u) PROVE IndInv'
  <2>1. TokenQuiet(t) /\ pc'[t] = "setup"
    BY <1>1, <1>9, GoToQuiet DEF SetupCheck, Steps
  <2>2. UserQuiet(t)
    BY <1>9, <2>1 DEF SetupCheck, UserQuiet, Managing
  <2>3. QED
    BY <2>1, <2>2, QuietStep
<1>10. CASE SetupCreate(t)
  <2> DEFINE u == job[t].user
  <2>1. TokenQuiet(t) /\ pc'[t] = "put"
    BY <1>1, <1>10, GoToQuiet DEF SetupCreate, Steps
  <2>2. CASE u \in Users
    <3>1. user' = [user EXCEPT ![u] = Admin] /\ overwritten' \in BOOLEAN
      BY <1>10 DEF SetupCreate
    <3>2. user' \in [Users -> [exists : BOOLEAN, enabled : BOOLEAN, role : Role]]
      BY <3>1 DEF IndInv, AccountInv, Admin, Role
    <3>3. user'[u].exists /\ u \in EnabledAdmins'
      BY <2>2, <3>1 DEF IndInv, AccountInv, Admin, EnabledAdmins
    <3>4. QED
      BY <2>1, <2>2, <3>1, <3>2, <3>3, AccountStep
  <2>3. CASE u \notin Users
    <3>1. user' = user /\ overwritten' \in BOOLEAN /\ (overwritten => overwritten')
      BY <1>10, <2>3 DEF SetupCreate, IndInv, AccountInv
    <3>2. QED
      BY <2>1, <3>1, SameAccountsStep DEF Managing
  <2>4. QED
    BY <2>2, <2>3
<1>11. QED
  BY <1>2, <1>3, <1>4, <1>5, <1>6, <1>7, <1>8, <1>9, <1>10 DEF SignIn
----------------------------------------------------------------------------
(* Accounts, for administrators *)

\* create_user adds an account; if it overwrites one, that is what overwritten tells.
LEMMA CreateStep ==
  ASSUME IndInv, NEW t \in Threads, CreateWrite(t)
  PROVE  IndInv'
<1> DEFINE u == job[t].user
<1>1. TokenQuiet(t) /\ pc'[t] = "idle"
  BY AgeJobsQuiet DEF IndInv, CreateWrite, lockVars, Steps
<1>2. /\ overwritten' = (overwritten \/ user[u].exists) /\ overwritten' \in BOOLEAN
      /\ \E role \in Role :
           user' = [user EXCEPT ![u] = [exists |-> TRUE, enabled |-> TRUE, role |-> role]]
  BY DEF CreateWrite
<1>3. CASE u \in Users
  <2>1. user' \in [Users -> [exists : BOOLEAN, enabled : BOOLEAN, role : Role]]
    <3>1. PICK role \in Role :
            user' = [user EXCEPT ![u] = [exists |-> TRUE, enabled |-> TRUE, role |-> role]]
      BY <1>2
    <3>2. [exists |-> TRUE, enabled |-> TRUE, role |-> role]
            \in [exists : BOOLEAN, enabled : BOOLEAN, role : Role]
      OBVIOUS
    <3>3. QED
      BY <3>1, <3>2 DEF IndInv, AccountInv
  <2>2. user'[u].exists
    BY <1>2, <1>3 DEF IndInv, AccountInv
  <2>3. ASSUME ~overwritten' PROVE EnabledAdmins' # {}
    <3>1. ~overwritten /\ ~user[u].exists
      BY <1>2, <2>3
    <3>2. \E w \in Users : user[w].exists
      BY <3>1 DEF IndInv, AccountInv, CreateWrite, Managing
    <3>3. PICK w \in EnabledAdmins : TRUE
      BY <3>1, <3>2 DEF IndInv, AccountInv, AdminRemains
    <3>4. w \in Users /\ w # u
      BY <3>1, <3>3 DEF EnabledAdmins
    <3>5. user'[w] = user[w]
      BY <1>2, <3>4 DEF IndInv, AccountInv
    <3>6. QED
      BY <3>3, <3>4, <3>5 DEF EnabledAdmins
  <2>4. QED
    BY <1>1, <1>2, <1>3, <2>1, <2>2, <2>3, AccountStep
<1>4. CASE u \notin Users
  <2>1. user' = user /\ (overwritten => overwritten')
    BY <1>2, <1>4 DEF IndInv, AccountInv
  <2>2. QED
    BY <1>1, <1>2, <2>1, SameAccountsStep DEF Managing
<1>5. QED
  BY <1>3, <1>4

\* update_user's changes keep an administrator, whatever other requests have
\* done since its own check: the store looks again.
LEMMA UpdateStep ==
  ASSUME IndInv, NEW t \in Threads, UpdateApply(t)
  PROVE  IndInv'
<1> DEFINE u == job[t].user
           change == Head(job[t].todo)
<1>1. pc[t] = "update" /\ tokens' = tokens /\ overwritten' = overwritten
  BY DEF UpdateApply
<1>2. ~overwritten => \E w \in Users : user[w].exists
  BY <1>1 DEF IndInv, AccountInv, Managing
<1>3. CASE Refused(u, change)
  <2>1. Finish(t) /\ user' = user
    BY <1>3 DEF UpdateApply
  <2>2. TokenQuiet(t) /\ pc'[t] \notin Managing
    BY <1>1, <2>1, FinishQuiet DEF IndInv
  <2>3. QED
    BY <1>1, <2>1, <2>2, QuietStep DEF UserQuiet
<1>4. CASE ~Refused(u, change)
  <2>1. /\ user' = [user EXCEPT ![u] = ChangedUser(u, change)]
        /\ AgeJobs(u, t, [job[t] EXCEPT !.todo = Tail(@), !.done = TRUE])
        /\ pc' = [pc EXCEPT ![t] = IF Len(job[t].todo) = 1 THEN "revoke_db" ELSE "update"]
        /\ config_write' = config_write
    BY <1>4 DEF UpdateApply, lockVars
  <2>2. TokenQuiet(t)
    <3>1. \E s \in {"revoke_db", "update"} : pc' = [pc EXCEPT ![t] = s]
      BY <2>1
    <3>2. QED
      BY <1>1, <2>1, <3>1, AgeJobsQuiet DEF IndInv, Steps
  <2>3. CASE u \in Users
    <3>1. user[u] \in [exists : BOOLEAN, enabled : BOOLEAN, role : Role] /\ user[u].exists
      BY <1>4, <2>3 DEF IndInv, AccountInv, Refused
    <3>2. /\ ChangedUser(u, change) \in [exists : BOOLEAN, enabled : BOOLEAN, role : Role]
          /\ ChangedUser(u, change).exists
      BY <3>1 DEF ChangedUser, Role
    <3>3. user' \in [Users -> [exists : BOOLEAN, enabled : BOOLEAN, role : Role]]
            /\ user'[u].exists
      BY <2>1, <2>3, <3>2 DEF IndInv, AccountInv
    <3>4. ASSUME ~overwritten PROVE EnabledAdmins' # {}
      <4>1. EnabledAdmins # {}
        BY <1>2, <3>4 DEF IndInv, AccountInv, AdminRemains
      <4>2. ASSUME NEW x \in EnabledAdmins, x # u PROVE x \in EnabledAdmins'
        <5>1. x \in Users /\ user'[x] = user[x]
          BY <2>1, <4>2 DEF EnabledAdmins, IndInv, AccountInv
        <5>2. QED
          BY <4>2, <5>1 DEF EnabledAdmins
      <4>3. CASE change \in {"viewer", "disable"} /\ u \in EnabledAdmins
        <5>1. ~(Cardinality(EnabledAdmins) <= 1)
          BY <1>4, <4>3 DEF Refused, LastAdmin, EnabledAdmins
        <5>2. EnabledAdmins \ {u} # {}
          BY <4>1, <5>1, AnotherAdmin
        <5>3. QED
          BY <4>2, <5>2
      <4>4. CASE change \notin {"viewer", "disable"} /\ u \in EnabledAdmins
        <5>1. /\ ChangedUser(u, change).enabled
              /\ ChangedUser(u, change).role = "admin"
          BY <3>1, <4>4 DEF ChangedUser, EnabledAdmins, Role
        <5>2. u \in EnabledAdmins'
          BY <2>1, <2>3, <3>3, <5>1 DEF EnabledAdmins, IndInv, AccountInv
        <5>3. QED
          BY <5>2
      <4>5. CASE u \notin EnabledAdmins
        BY <4>1, <4>2, <4>5
      <4>6. QED
        BY <4>3, <4>4, <4>5
    <3>5. QED
      BY <1>1, <2>2, <2>3, <3>3, <3>4, AccountStep DEF IndInv, AccountInv
  <2>4. CASE u \notin Users
    <3>1. user' = user
      BY <2>1, <2>4 DEF IndInv, AccountInv
    <3>2. QED
      BY <1>1, <1>2, <2>2, <3>1, QuietStep DEF UserQuiet
  <2>5. QED
    BY <2>3, <2>4
<1>5. QED
  BY <1>3, <1>4

\* delete_user never deletes the last administrator.
LEMMA DeleteStep ==
  ASSUME IndInv, NEW t \in Threads, DeleteWrite(t)
  PROVE  IndInv'
<1> DEFINE u == job[t].user
<1>1. pc[t] = "delete" /\ overwritten' = overwritten
  BY DEF DeleteWrite
<1>2. ~overwritten => \E w \in Users : user[w].exists
  BY <1>1 DEF IndInv, AccountInv, Managing
<1>3. CASE ~user[u].exists \/ LastAdmin(u)
  <2>1. Finish(t) /\ user' = user /\ tokens' = tokens
    BY <1>3 DEF DeleteWrite
  <2>2. TokenQuiet(t) /\ pc'[t] \notin Managing
    BY <2>1, FinishQuiet DEF IndInv
  <2>3. QED
    BY <1>1, <2>1, <2>2, QuietStep DEF UserQuiet
<1>4. CASE user[u].exists /\ ~LastAdmin(u)
  <2>1. /\ user' = [user EXCEPT ![u] = NoUser]
        /\ tokens' = [tokens EXCEPT ![u] = 0]
        /\ AgeJobs(u, t, job[t]) /\ pc' = [pc EXCEPT ![t] = "revoke_db"]
        /\ config_write' = config_write
    BY <1>4 DEF DeleteWrite, lockVars
  <2>2. Shape' /\ \A x \in Threads : pc'[x] # pc[x] => x = t
    BY <2>1 DEF IndInv, Shape, AgeJobs, Steps
  <2>3. TokenInv'
    <3>1. tokens' \in [Users -> Nat] /\ \A x \in Users : tokens'[x] <= tokens[x]
      <4>1. tokens \in [Users -> Nat]
        BY DEF IndInv, TokenInv
      <4>2. \A x \in Users : tokens'[x] = (IF x = u THEN 0 ELSE tokens[x])
        BY <2>1, <4>1
      <4>3. tokens' \in [Users -> Nat]
        BY <2>1, <4>1
      <4>4. ASSUME NEW x \in Users PROVE tokens'[x] <= tokens[x]
        <5>1. tokens[x] \in Nat
          BY <4>1
        <5>2. QED
          BY <4>2, <5>1
      <4>5. QED
        BY <4>3, <4>4
    <3>2. TokensCapped'
      BY <3>1, LimitsAssumption DEF IndInv, TokenInv, TokensCapped
    <3>3. ASSUME NEW x \in Threads, pc'[x] = "token"
          PROVE  pc[x] = "token" /\ job'[x] = job[x] /\ config_write' = config_write
      BY <2>1, <3>3 DEF IndInv, Shape, AgeJobs, LoginSteps
    <3>4. \A x \in Threads : pc'[x] = "token" =>
             /\ config_write' = x
             /\ job'[x].user \in Users => tokens'[job'[x].user] < MaxTokens
      BY <3>1, <3>3, LimitsAssumption DEF IndInv, TokenInv
    <3>5. QED
      BY <3>1, <3>2, <3>4 DEF TokenInv
  <2>4. user' \in [Users -> [exists : BOOLEAN, enabled : BOOLEAN, role : Role]]
    BY <2>1 DEF IndInv, AccountInv, NoUser, Role
  <2>5. ASSUME NEW x \in EnabledAdmins, x # u PROVE x \in EnabledAdmins' /\ user'[x].exists
    BY <2>1, <2>5 DEF EnabledAdmins, IndInv, AccountInv
  <2>6. ASSUME ~overwritten PROVE EnabledAdmins' # {}
    <3>1. EnabledAdmins # {}
      BY <1>2, <2>6 DEF IndInv, AccountInv, AdminRemains
    <3>2. EnabledAdmins \ {u} # {}
      BY <1>4, <3>1, AnotherAdmin DEF LastAdmin
    <3>3. QED
      BY <2>5, <3>2
  <2>7. AccountInv'
    BY <1>1, <2>4, <2>6 DEF IndInv, AccountInv, AdminRemains, EnabledAdmins
  <2>8. QED
    BY <2>2, <2>3, <2>7 DEF IndInv
<1>5. QED
  BY <1>3, <1>4

\* The requests of administrators keep the inductive invariant.
LEMMA ManageStep ==
  ASSUME IndInv, NEW t \in Threads, Manage(t)
  PROVE  IndInv'
<1> USE DEF accountVars, lockVars
<1>1. Shape
  BY DEF IndInv
<1>2. ASSUME NEW u \in Users, CreateCheck(t, u) PROVE IndInv'
  <2>1. TokenQuiet(t)
    BY <1>1, <1>2, GoToQuiet DEF CreateCheck, Steps
  <2>2. UserQuiet(t)
    BY <1>2, AdminRequestUser DEF CreateCheck, UserQuiet
  <2>3. QED
    BY <2>1, <2>2, QuietStep
<1>3. ASSUME NEW u \in Users, UpdateCheck(t, u) PROVE IndInv'
  <2>1. TokenQuiet(t)
    BY <1>1, <1>3, GoToQuiet DEF UpdateCheck, Steps
  <2>2. UserQuiet(t)
    BY <1>3, AdminRequestUser DEF UpdateCheck, UserQuiet
  <2>3. QED
    BY <2>1, <2>2, QuietStep
<1>4. ASSUME NEW u \in Users, DeleteCheck(t, u) PROVE IndInv'
  <2>1. TokenQuiet(t)
    BY <1>1, <1>4, GoToQuiet DEF DeleteCheck, Steps
  <2>2. UserQuiet(t)
    BY <1>4, AdminRequestUser DEF DeleteCheck, UserQuiet
  <2>3. QED
    BY <2>1, <2>2, QuietStep
<1>5. ASSUME NEW u \in Users, ResetTwoFactor(t, u) PROVE IndInv'
  <2>1. TokenQuiet(t)
    <3>1. CASE twofactor[u].secret # 0
      BY <1>1, <1>5, <3>1, AgeJobsQuiet DEF ResetTwoFactor, Steps
    <3>2. CASE twofactor[u].secret = 0
      BY <1>1, <1>5, <3>2 DEF ResetTwoFactor, AdminRequest, Begin, Shape, TokenQuiet, Steps
    <3>3. QED
      BY <3>1, <3>2
  <2>2. UserQuiet(t)
    BY <1>5, AdminRequestUser DEF ResetTwoFactor, UserQuiet
  <2>3. QED
    BY <2>1, <2>2, QuietStep
<1>6. CASE RevokeDb(t)
  <2>1. TokenQuiet(t) /\ pc'[t] = "revoke_mem"
    BY <1>1, <1>6, GoToQuiet DEF RevokeDb, Steps
  <2>2. UserQuiet(t)
    BY <1>6, <2>1 DEF RevokeDb, UserQuiet, Managing
  <2>3. QED
    BY <2>1, <2>2, QuietStep
<1>7. CASE RevokeMem(t)
  <2>1. TokenQuiet(t) /\ pc'[t] \notin Managing
    BY <1>1, <1>7, FinishQuiet DEF RevokeMem
  <2>2. UserQuiet(t)
    BY <1>7, <2>1 DEF RevokeMem, UserQuiet
  <2>3. QED
    BY <2>1, <2>2, QuietStep
<1>8. QED
  BY <1>2, <1>3, <1>4, <1>5, <1>6, <1>7, CreateStep, UpdateStep, DeleteStep DEF Manage
----------------------------------------------------------------------------
(* One's own account *)

\* The count and the insertion of an API token are under one lock.
LEMMA TokenStep ==
  ASSUME IndInv, NEW t \in Threads, TokenCount(t) \/ TokenPut(t)
  PROVE  IndInv'
<1> USE DEF accountVars, lockVars
<1>1. Shape /\ TokenInv
  BY DEF IndInv
<1>2. CASE TokenCount(t) /\ tokens[job[t].user] < MaxTokens /\ config_write' = t
             /\ GoTo(t, "token", job[t])
  <2>1. Shape' /\ pc' = [pc EXCEPT ![t] = "token"] /\ job' = [job EXCEPT ![t] = job[t]]
    BY <1>1, <1>2 DEF Shape, GoTo, Steps
  <2>2. AccountInv'
    BY <1>1, <1>2, <2>1, QuietAccounts DEF IndInv, Shape, TokenCount, UserQuiet, Managing
  <2>3. config_write = None /\ tokens' = tokens
    BY <1>2 DEF TokenCount
  <2>4. \A x \in Threads : pc[x] # "token"
    BY <1>1, <2>3, NoneAssumption DEF TokenInv
  <2>5. TokenInv'
    BY <1>1, <1>2, <2>1, <2>3, <2>4 DEF TokenInv, TokensCapped, Shape
  <2>6. QED
    BY <2>1, <2>2, <2>5 DEF IndInv
<1>3. CASE TokenCount(t) /\ Finish(t)
  <2>1. TokenQuiet(t) /\ pc'[t] \notin Managing
    BY <1>1, <1>3, FinishQuiet DEF TokenCount
  <2>2. UserQuiet(t)
    BY <1>3, <2>1 DEF TokenCount, UserQuiet
  <2>3. QED
    BY <2>1, <2>2, QuietStep
<1>4. CASE TokenPut(t)
  <2> DEFINE u == job[t].user
  <2>1. pc[t] = "token" /\ pc' = [pc EXCEPT ![t] = "idle"] /\ config_write = t
    BY <1>1, <1>4 DEF TokenPut, Finish, GoTo, TokenInv
  <2>2. Shape'
    BY <1>1, <1>4 DEF TokenPut, Finish, GoTo, Shape, Released, Steps
  <2>3. AccountInv'
    BY <1>1, <1>4, <2>1, QuietAccounts DEF IndInv, Shape, TokenPut, UserQuiet, Managing
  <2>4. \A x \in Threads : pc'[x] # "token"
    BY <1>1, <2>1 DEF TokenInv, Shape
  <2>5. tokens' = tokens \/ tokens' = [tokens EXCEPT ![u] = tokens[u] + 1]
    BY <1>4 DEF TokenPut
  <2>6. tokens' \in [Users -> Nat] /\ TokensCapped'
    <3>1. CASE tokens' = tokens
      BY <1>1, <3>1 DEF TokenInv, TokensCapped
    <3>2. CASE tokens' = [tokens EXCEPT ![u] = tokens[u] + 1] /\ u \in Users
      <4>1. tokens[u] \in Nat /\ tokens[u] < MaxTokens /\ MaxTokens \in Nat
        BY <1>1, <2>1, <3>2, LimitsAssumption DEF TokenInv
      <4>2. tokens' \in [Users -> Nat] /\ tokens'[u] <= MaxTokens
        BY <1>1, <3>2, <4>1 DEF TokenInv
      <4>3. \A x \in Users \ {u} : tokens'[x] = tokens[x]
        BY <1>1, <3>2 DEF TokenInv
      <4>4. QED
        BY <1>1, <4>2, <4>3 DEF TokenInv, TokensCapped
    <3>3. CASE tokens' = [tokens EXCEPT ![u] = tokens[u] + 1] /\ u \notin Users
      <4>1. tokens' = tokens
        BY <1>1, <3>3 DEF TokenInv
      <4>2. QED
        BY <3>1, <4>1
    <3>4. QED
      BY <2>5, <3>1, <3>2, <3>3
  <2>7. QED
    BY <2>2, <2>3, <2>4, <2>6 DEF IndInv, TokenInv
<1>5. QED
  BY <1>2, <1>3, <1>4 DEF TokenCount

\* delete_api_token only makes room.
LEMMA TokenDeleteStep ==
  ASSUME IndInv, NEW t \in Threads, NEW i \in Ids, TokenDelete(t, i)
  PROVE  IndInv'
<1> DEFINE u == session[i].user
<1>1. /\ UNCHANGED <<user, overwritten, pc, job, config_write>>
      /\ tokens[u] > 0 /\ tokens' = [tokens EXCEPT ![u] = tokens[u] - 1]
  BY DEF TokenDelete, accountVars, lockVars
<1>2. Shape' /\ AccountInv'
  BY <1>1 DEF IndInv, Shape, AccountInv, AdminRemains, EnabledAdmins
<1>3. tokens \in [Users -> Nat]
  BY DEF IndInv, TokenInv
<1>4. tokens' \in [Users -> Nat] /\ \A x \in Users : tokens'[x] <= tokens[x]
  <2>1. CASE u \in Users
    <3>1. tokens[u] \in Nat /\ tokens[u] - 1 \in Nat /\ tokens[u] - 1 <= tokens[u]
      BY <1>1, <1>3, <2>1
    <3>2. \A x \in Users : tokens'[x] = IF x = u THEN tokens[u] - 1 ELSE tokens[x]
      BY <1>1, <1>3
    <3>3. tokens' \in [Users -> Nat]
      BY <1>1, <1>3, <3>1
    <3>4. \A x \in Users : tokens[x] \in Nat
      BY <1>3
    <3>5. QED
      BY <3>1, <3>2, <3>3, <3>4
  <2>2. CASE u \notin Users
    <3>1. tokens' = tokens /\ \A x \in Users : tokens[x] \in Nat
      BY <1>1, <1>3, <2>2
    <3>2. QED
      BY <1>3, <3>1
  <2>3. QED
    BY <2>1, <2>2
<1>5. TokenInv'
  <2>1. \A x \in Users : tokens[x] \in Nat /\ tokens'[x] \in Nat
    BY <1>3, <1>4
  <2>2. MaxTokens \in Nat
    BY LimitsAssumption
  <2>3. TokensCapped'
    BY <1>4, <2>1, <2>2 DEF IndInv, TokenInv, TokensCapped
  <2>4. ASSUME NEW x \in Threads, pc'[x] = "token"
        PROVE  /\ config_write' = x
               /\ job'[x].user \in Users => tokens'[job'[x].user] < MaxTokens
    BY <1>1, <1>4, <2>1, <2>2, <2>4 DEF IndInv, TokenInv
  <2>5. QED
    BY <1>4, <2>3, <2>4 DEF TokenInv
<1>6. QED
  BY <1>2, <1>5 DEF IndInv

\* The requests on one's own account change neither accounts nor, but for two, API tokens.
LEMMA OwnStep ==
  ASSUME IndInv, NEW t \in Threads, Own(t)
  PROVE  IndInv'
<1> USE DEF accountVars, lockVars, counts
<1>1. Shape
  BY DEF IndInv
<1>2. ASSUME NEW i \in Ids, ConfirmRead(t, i) PROVE IndInv'
  <2>1. TokenQuiet(t) /\ pc'[t] = "confirm"
    BY <1>1, <1>2, GoToQuiet DEF ConfirmRead, Steps
  <2>2. UserQuiet(t)
    BY <1>2, <2>1 DEF ConfirmRead, UserQuiet, Managing
  <2>3. QED
    BY <2>1, <2>2, QuietStep
<1>3. ASSUME NEW i \in Ids, EnableCheck(t, i) PROVE IndInv'
  <2>1. TokenQuiet(t) /\ pc'[t] = "enable"
    BY <1>1, <1>3, GoToQuiet DEF EnableCheck, Steps
  <2>2. UserQuiet(t)
    BY <1>3, <2>1 DEF EnableCheck, UserQuiet, Managing
  <2>3. QED
    BY <2>1, <2>2, QuietStep
<1>4. ASSUME NEW i \in Ids, LogoutDb(t, i) PROVE IndInv'
  <2>1. TokenQuiet(t) /\ pc'[t] = "logout"
    BY <1>1, <1>4, GoToQuiet DEF LogoutDb, Steps
  <2>2. UserQuiet(t)
    BY <1>4, <2>1 DEF LogoutDb, UserQuiet, Managing
  <2>3. QED
    BY <2>1, <2>2, QuietStep
<1>5. ASSUME NEW i \in Ids, TokenRead(t, i) PROVE IndInv'
  <2>1. TokenQuiet(t) /\ pc'[t] = "count"
    BY <1>1, <1>5, GoToQuiet DEF TokenRead, Steps
  <2>2. UserQuiet(t)
    BY <1>5, <2>1 DEF TokenRead, UserQuiet, Managing
  <2>3. QED
    BY <2>1, <2>2, QuietStep
<1>6. CASE ConfirmPermit(t)
  <2>1. TokenQuiet(t) /\ pc'[t] \notin Managing
    <3>1. CASE Finish(t)
      BY <1>1, <1>6, <3>1, FinishQuiet DEF ConfirmPermit
    <3>2. CASE GoTo(t, "check", job[t]) /\ UNCHANGED lockVars
      BY <1>1, <1>6, <3>2, GoToQuiet DEF ConfirmPermit, Steps, Managing
    <3>3. QED
      BY <1>6, <3>1, <3>2 DEF ConfirmPermit
  <2>2. UserQuiet(t)
    BY <1>6, <2>1 DEF ConfirmPermit, UserQuiet
  <2>3. QED
    BY <2>1, <2>2, QuietStep
<1>7. CASE ConfirmCheck(t)
  <2>1. PICK next \in {"wrong", "change", "pending", "codes", "disable"} : GoTo(t, next, job[t])
    BY <1>7 DEF ConfirmCheck
  <2>2. TokenQuiet(t) /\ pc'[t] = next
    BY <1>1, <1>7, <2>1, GoToQuiet DEF ConfirmCheck, Steps
  <2>3. UserQuiet(t)
    BY <1>7, <2>2 DEF ConfirmCheck, UserQuiet, Managing
  <2>4. QED
    BY <2>2, <2>3, QuietStep
<1>8. CASE ConfirmWrong(t)
  <2>1. TokenQuiet(t) /\ pc'[t] \notin Managing
    BY <1>1, <1>8, FinishQuiet DEF ConfirmWrong
  <2>2. UserQuiet(t)
    BY <1>8, <2>1 DEF ConfirmWrong, UserQuiet
  <2>3. QED
    BY <2>1, <2>2, QuietStep
<1>9. CASE ChangePassword(t)
  <2>1. TokenQuiet(t) /\ pc'[t] \notin Managing
    <3>1. CASE Finish(t)
      BY <1>1, <1>9, <3>1, FinishQuiet DEF ChangePassword
    <3>2. CASE AgeJobs(job[t].user, t, job[t]) /\ pc' = [pc EXCEPT ![t] = "revoke_db"]
               /\ UNCHANGED lockVars
      BY ZenonT(30), <1>1, <1>9, <3>2, AgeJobsQuiet DEF ChangePassword, Steps, Managing
    <3>3. QED
      BY <1>9, <3>1, <3>2 DEF ChangePassword
  <2>2. UserQuiet(t)
    BY <1>9, <2>1 DEF ChangePassword, UserQuiet
  <2>3. QED
    BY <2>1, <2>2, QuietStep
<1>10. CASE SetPending(t)
  <2>1. TokenQuiet(t) /\ pc'[t] \notin Managing
    BY <1>1, <1>10, FinishQuiet DEF SetPending
  <2>2. UserQuiet(t)
    BY <1>10, <2>1 DEF SetPending, UserQuiet
  <2>3. QED
    BY <2>1, <2>2, QuietStep
<1>11. CASE NewRecoveryCodes(t)
  <2>1. TokenQuiet(t) /\ pc'[t] \notin Managing
    BY <1>1, <1>11, FinishQuiet DEF NewRecoveryCodes
  <2>2. UserQuiet(t)
    BY <1>11, <2>1 DEF NewRecoveryCodes, UserQuiet
  <2>3. QED
    BY <2>1, <2>2, QuietStep
<1>12. CASE DisableTwoFactor(t)
  <2>1. TokenQuiet(t) /\ pc'[t] \notin Managing
    BY <1>1, <1>12, FinishQuiet DEF DisableTwoFactor
  <2>2. UserQuiet(t)
    BY <1>12, <2>1 DEF DisableTwoFactor, UserQuiet
  <2>3. QED
    BY <2>1, <2>2, QuietStep
<1>13. CASE EnableWrite(t)
  <2>0. tokens' = tokens /\ user' = user /\ overwritten' = overwritten
    BY <1>13 DEF EnableWrite
  <2>1. TokenQuiet(t) /\ pc'[t] \notin Managing
    <3>1. CASE twofactor[job[t].user].pending = 0
      <4>1. Finish(t)
        BY <1>13, <3>1 DEF EnableWrite
      <4>2. QED
        BY <1>1, <2>0, <4>1, FinishQuiet
    <3>2. CASE twofactor[job[t].user].pending # 0
      <4>1. /\ AgeJobs(job[t].user, t, job[t]) /\ pc' = [pc EXCEPT ![t] = "revoke_db"]
            /\ config_write' = config_write
        BY <1>13, <3>2 DEF EnableWrite
      <4>2. "revoke_db" \in Steps \ {"token"} /\ "revoke_db" \notin Managing
        BY DEF Steps, Managing
      <4>3. QED
        BY <1>1, <2>0, <4>1, <4>2, AgeJobsQuiet
    <3>3. QED
      BY <3>1, <3>2
  <2>2. UserQuiet(t)
    BY <2>0, <2>1 DEF UserQuiet
  <2>3. QED
    BY <2>1, <2>2, QuietStep
<1>14. CASE LogoutMem(t)
  <2>1. TokenQuiet(t) /\ pc'[t] \notin Managing
    BY <1>1, <1>14, FinishQuiet DEF LogoutMem
  <2>2. UserQuiet(t)
    BY <1>14, <2>1 DEF LogoutMem, UserQuiet
  <2>3. QED
    BY <2>1, <2>2, QuietStep
<1>15. QED
  BY <1>2, <1>3, <1>4, <1>5, <1>6, <1>7, <1>8, <1>9, <1>10, <1>11, <1>12, <1>13, <1>14,
     TokenStep, TokenDeleteStep DEF Own
----------------------------------------------------------------------------
(* Time, restarts, and the theorems *)

\* Time changes neither accounts nor API tokens.
LEMMA TimeStep ==
  ASSUME IndInv, Lapse \/ \E i \in Ids : Expire(i)
  PROVE  IndInv'
<1>1. UNCHANGED <<user, overwritten, tokens, pc, job, config_write>>
  BY DEF Lapse, Expire, accountVars, lockVars
<1>2. QED
  BY <1>1 DEF IndInv, Shape, AccountInv, TokenInv, AdminRemains, EnabledAdmins, TokensCapped

\* A restart ends every request; accounts of the config file are administrators.
LEMMA RestartStep ==
  ASSUME IndInv, Restart
  PROVE  IndInv'
<1>1. PICK imported \in SUBSET {u \in Seeds : ~user[u].exists} :
        user' = [u \in Users |-> IF u \in imported THEN Admin ELSE user[u]]
  BY DEF Restart
<1>2. /\ pc' = [t \in Threads |-> "idle"] /\ job' = [t \in Threads |-> NoJob]
      /\ config_write' = None /\ overwritten' = overwritten /\ tokens' = tokens
  BY DEF Restart
<1>3. Shape' /\ TokenInv'
  BY <1>2 DEF IndInv, Shape, TokenInv, TokensCapped, Steps
<1>4. user' \in [Users -> [exists : BOOLEAN, enabled : BOOLEAN, role : Role]]
  BY <1>1 DEF IndInv, AccountInv, Admin, Role
<1>5. AdminRemains'
  <2>1. SUFFICES ASSUME ~overwritten, NEW u \in Users, user'[u].exists
                 PROVE  EnabledAdmins' # {}
    BY <1>2 DEF AdminRemains
  <2>2. CASE u \in imported
    <3>1. u \in EnabledAdmins'
      BY <1>1, <2>1, <2>2 DEF EnabledAdmins, Admin
    <3>2. QED
      BY <3>1
  <2>3. CASE u \notin imported
    <3>1. user[u].exists
      BY <1>1, <2>1, <2>3
    <3>2. PICK w \in EnabledAdmins : TRUE
      BY <2>1, <3>1 DEF IndInv, AccountInv, AdminRemains
    <3>3. w \in EnabledAdmins'
      BY <1>1, <3>2 DEF EnabledAdmins, Admin
    <3>4. QED
      BY <3>3
  <2>4. QED
    BY <2>2, <2>3
<1>6. AccountInv'
  BY <1>2, <1>4, <1>5 DEF IndInv, AccountInv, Managing
<1>7. QED
  BY <1>3, <1>6 DEF IndInv

\* The inductive invariant of the accounts and the API tokens holds.
THEOREM IndCorrect == Spec => []IndInv
<1>1. Init => IndInv
  <2>1. SUFFICES ASSUME Init PROVE IndInv
    OBVIOUS
  <2>2. Shape
    BY <2>1 DEF Init, Shape, Steps
  <2>3. user \in [Users -> [exists : BOOLEAN, enabled : BOOLEAN, role : Role]]
    <3>1. user = [u \in Users |-> NoUser] \/ user = [u \in Users |-> Admin]
      BY <2>1 DEF Init
    <3>2. /\ NoUser \in [exists : BOOLEAN, enabled : BOOLEAN, role : Role]
          /\ Admin \in [exists : BOOLEAN, enabled : BOOLEAN, role : Role]
      BY DEF NoUser, Admin, Role
    <3>3. QED
      BY <3>1, <3>2
  <2>4. AdminRemains
    <3>1. user = [u \in Users |-> NoUser] \/ user = [u \in Users |-> Admin]
      BY <2>1 DEF Init
    <3>2. QED
      BY <3>1 DEF AdminRemains, EnabledAdmins, NoUser, Admin
  <2>5. AccountInv
    BY <2>1, <2>3, <2>4 DEF Init, AccountInv, Managing
  <2>6. TokenInv
    BY <2>1, LimitsAssumption DEF Init, TokenInv, TokensCapped
  <2>7. QED
    BY <2>2, <2>5, <2>6 DEF IndInv
<1>2. IndInv /\ [Next]_vars => IndInv'
  <2>1. SUFFICES ASSUME IndInv, [Next]_vars PROVE IndInv'
    OBVIOUS
  <2>2. CASE UNCHANGED vars
    BY <2>1, <2>2 DEF vars, IndInv, Shape, AccountInv, TokenInv, AdminRemains, EnabledAdmins,
       TokensCapped
  <2>3. QED
    BY <2>1, <2>2, SignInStep, ManageStep, OwnStep, TimeStep, RestartStep DEF Next
<1>3. QED
  BY <1>1, <1>2, PTL DEF Spec

\* Someone can administer the server: requests that run together never take the
\* last enabled administrator away (unless two create_user requests for one name
\* overlapped).
THEOREM AdminRemainsCorrect == Spec => []AdminRemains
<1>1. IndInv => AdminRemains
  BY DEF IndInv, AccountInv
<1>2. QED
  BY <1>1, IndCorrect, PTL

\* The cap on an account's API tokens holds, however many requests to make one
\* run together.
THEOREM TokensCappedCorrect == Spec => []TokensCapped
<1>1. IndInv => TokensCapped
  BY DEF IndInv, TokenInv
<1>2. QED
  BY <1>1, IndCorrect, PTL

----------------------------------------------------------------------------
(* The types *)

AccountType ==
  /\ user \in [Users -> [exists : BOOLEAN, enabled : BOOLEAN, role : Role]]
  /\ unrevoked \subseteq Users /\ overwritten \in BOOLEAN

FactorRow == [exists : BOOLEAN, secret : 0 .. MaxFresh, pending : 0 .. MaxFresh,
              recovery : 0 .. MaxFresh, last : {0} \cup CodeSteps]

\* An account without a two-factor row has no secrets.
FactorType ==
  /\ twofactor \in [Users -> FactorRow]
  /\ \A u \in Users : twofactor[u].exists => user[u].exists
  /\ \A u \in Users : ~twofactor[u].exists => twofactor[u] = NoTwoFactor
  /\ used \subseteq Codes /\ reused \in BOOLEAN
  /\ fresh \in 0 .. MaxFresh

\* The sessions there are were made.
SessionType ==
  /\ session \in [Ids -> Session]
  /\ \A i \in Ids : session[i].mem \/ session[i].db => session[i].user \in Users /\ i <= sessions
  /\ sessions \in 0 .. MaxSessions

LockType ==
  /\ tokens \in [Users -> Nat]
  /\ failures \in Nat /\ guesses \in Nat
  /\ permits \subseteq Threads
  /\ setup_lock \in Threads \cup {None} /\ config_write \in Threads \cup {None}
  /\ requests \in 0 .. MaxRequests
  /\ errors \in Nat /\ crashes \in Nat /\ errors + crashes <= MaxTroubles

\* A request works on an account of Users (a logout on a session), an update has
\* changes left to make, and a login that saved its session has an identifier for it.
Fits(s, j, n) ==
  /\ s \in Steps /\ j \in Job
  /\ s \notin {"idle", "logout"} => j.user \in Users
  /\ s = "update" => j.todo # <<>>
  /\ s \in {"insert", "logout"} => j.id \in 1 .. n

JobType ==
  /\ pc \in [Threads -> Steps] /\ job \in [Threads -> Job]
  /\ \A t \in Threads : Fits(pc[t], job[t], sessions)

TypeInv == AccountType /\ FactorType /\ SessionType /\ LockType /\ JobType

\* Request t moves on to step s, with j to work on; the logins that have read an
\* account that changed are marked.
Moves(t, s, j) ==
  /\ pc' = [pc EXCEPT ![t] = s]
  /\ job' = [x \in Threads |-> job'[x]]
  /\ job'[t] = j
  /\ \A x \in Threads \ {t} : job'[x] \in {job[x], [job[x] EXCEPT !.old = TRUE]}

LocksMove(t) ==
  /\ permits' \in {permits, permits \cup {t}, permits \ {t}}
  /\ setup_lock' \in {setup_lock, t, None} /\ config_write' \in {config_write, t, None}
  /\ failures' \in {failures, failures + 1, 0} /\ guesses' \in {guesses, guesses + 1, 0}
  /\ requests' = requests \/ (requests < MaxRequests /\ requests' = requests + 1)
  /\ errors' = errors \/ (Trouble /\ errors' = errors + 1)
  /\ crashes' = crashes

\* The three ways in which a request moves on.
LEMMA GoToMoves ==
  ASSUME TypeInv, NEW t \in Threads, NEW s, NEW j, GoTo(t, s, j)
  PROVE  Moves(t, s, j)
BY DEF TypeInv, JobType, GoTo, Moves

\* One that returns gives back its slot and its locks.
LEMMA FinishMoves ==
  ASSUME TypeInv, NEW t \in Threads, Finish(t)
  PROVE  /\ Moves(t, "idle", NoJob) /\ permits' = permits \ {t}
         /\ setup_lock' \in {setup_lock, None} /\ config_write' \in {config_write, None}
BY GoToMoves DEF Finish, Released

\* One that changes an account marks the logins that have read it.
LEMMA AgeMoves ==
  ASSUME TypeInv, NEW t \in Threads, NEW s, NEW u, NEW j, AgeJobs(u, t, j),
         pc' = [pc EXCEPT ![t] = s]
  PROVE  Moves(t, s, j)
BY DEF TypeInv, JobType, AgeJobs, Moves

\* What a request works on when it begins, and when it works on its own account.
LEMMA NoJobFits == NoJob \in Job /\ \A n : Fits("idle", NoJob, n)
<1>1. NoCode \in Codes /\ <<>> \in Seq(Changes) /\ 0 \in 0 .. MaxFresh /\ 0 \in 0 .. MaxSessions
  BY LimitsAssumption DEF Codes
<1>2. NoJob \in Job
  BY <1>1 DEF NoJob, Job, Role
<1>3. QED
  BY <1>2 DEF Fits, Steps

\* A request on one's own account works on the account of its session.
LEMMA OwnJobFits ==
  ASSUME TypeInv, NEW t \in Threads, NEW i \in Ids, OwnRequest(t, i)
  PROVE  OwnJob(i) \in Job /\ OwnJob(i).user = session[i].user /\ OwnJob(i).user \in Users
           /\ OwnJob(i).id = i
<1>1. session[i].user \in Users
  BY DEF OwnRequest, SignedIn, TypeInv, SessionType
<1>2. twofactor[session[i].user].secret \in 0 .. MaxFresh
  BY <1>1 DEF TypeInv, FactorType, FactorRow
<1>3. i \in 0 .. MaxSessions
  BY LimitsAssumption DEF Ids
<1>4. QED
  BY <1>1, <1>2, <1>3, NoJobFits DEF OwnJob, NoJob, Job

\* A step of request t keeps the types of what it works on, and of the locks.
LEMMA JobStep ==
  ASSUME TypeInv, NEW t \in Threads, NEW s, NEW j, Moves(t, s, j),
         Fits(s, j, sessions'), sessions' = sessions \/ (sessions' = sessions + 1 /\ sessions < MaxSessions)
  PROVE  JobType'
<1>1. sessions \in 0 .. MaxSessions
  BY DEF TypeInv, SessionType
<1>2. ASSUME NEW x \in Threads PROVE Fits(pc'[x], job'[x], sessions')
  <2>1. CASE x = t
    BY <2>1 DEF TypeInv, JobType, Moves
  <2>2. CASE x # t
    <3>1. /\ pc'[x] = pc[x] /\ job[x] \in Job
          /\ job'[x] \in {job[x], [job[x] EXCEPT !.old = TRUE]}
      BY <2>2 DEF TypeInv, JobType, Moves
    <3>2. /\ job'[x] \in Job /\ job'[x].user = job[x].user /\ job'[x].todo = job[x].todo
          /\ job'[x].id = job[x].id
      BY <3>1 DEF Job
    <3>3. Fits(pc[x], job[x], sessions)
      BY DEF TypeInv, JobType
    <3>4. QED
      BY <1>1, <3>1, <3>2, <3>3, LimitsAssumption DEF Fits
  <2>3. QED
    BY <2>1, <2>2
<1>3. pc' \in [Threads -> Steps]
  BY DEF TypeInv, JobType, Moves, Fits
<1>4. job' \in [Threads -> Job]
  BY <1>2 DEF Moves, Fits
<1>5. QED
  BY <1>2, <1>3, <1>4 DEF JobType

\* The locks, slots and counters keep their types.
LEMMA LockStep ==
  ASSUME TypeInv, NEW t \in Threads, LocksMove(t), tokens' \in [Users -> Nat]
  PROVE  LockType'
BY LimitsAssumption DEF TypeInv, LockType, LocksMove, Trouble

\* A step that changes nothing but what requests work on, and locks.
LEMMA PlainStep ==
  ASSUME TypeInv, NEW t \in Threads, NEW s, NEW j, Moves(t, s, j), Fits(s, j, sessions),
         LocksMove(t), tokens' \in [Users -> Nat],
         UNCHANGED <<accountVars, codeVars, session, fresh, sessions>>
  PROVE  TypeInv'
<1>1. JobType' /\ LockType'
  BY JobStep, LockStep
<1>2. AccountType' /\ FactorType' /\ SessionType'
  BY DEF TypeInv, AccountType, FactorType, SessionType, accountVars, codeVars
<1>3. QED
  BY <1>1, <1>2 DEF TypeInv
----------------------------------------------------------------------------
(* The requests that only read *)

\* The code a request that goes on to step s has just checked: of the secret in
\* force for a login, of the pending one for two_factor_enable.
Checked(s, j) ==
  /\ s = "use" =>
       /\ j.code.of \in 1 .. fresh /\ j.code.kind \in {"totp", "recovery"}
       /\ j.code.kind = "totp" => j.code.of = j.secret /\ twofactor[j.user].secret = j.secret
  /\ s = "enable" => j.code.kind = "totp" /\ j.code.of = twofactor[j.user].pending /\ j.code.of # 0

\* A step of request t that changes no account, two-factor row or session.
Plain(t, s, j) ==
  /\ Moves(t, s, j) /\ Fits(s, j, sessions) /\ Checked(s, j)
  /\ UNCHANGED <<accountVars, codeVars, session, fresh, sessions, errors>>
  /\ pc[t] \notin {"update", "revoke_db", "revoke_mem"}
  /\ s \notin {"logout", "revoke_db", "revoke_mem"}
  /\ s \in {"update", "delete"} => j.id = 0

\* A request that begins with nothing but an account to work on.
LEMMA BeginPlain ==
  ASSUME TypeInv, NEW t \in Threads, Begin(t), NEW s, NEW j, GoTo(t, s, j), Fits(s, j, sessions),
         s \notin {"use", "enable", "logout", "revoke_db", "revoke_mem"},
         s \in {"update", "delete"} => j.id = 0,
         UNCHANGED <<accountVars, codeVars, session, throttle, permits, config_write, counts>>,
         setup_lock' \in {setup_lock, t}
  PROVE  Plain(t, s, j) /\ LocksMove(t)
<1>1. Moves(t, s, j)
  BY GoToMoves
<1>2. Plain(t, s, j)
  BY <1>1 DEF Plain, Begin, Checked, counts
<1>3. LocksMove(t)
  BY DEF LocksMove, Begin, throttle, counts
<1>4. QED
  BY <1>2, <1>3

\* A request that goes on from step pc[t] to another one, with the same work.
LEMMA OnPlain ==
  ASSUME TypeInv, NEW t \in Threads, NEW s \in Steps, GoTo(t, s, job[t]),
         pc[t] \notin {"idle", "logout", "update", "revoke_db", "revoke_mem"},
         s \notin {"use", "enable", "logout", "revoke_db", "revoke_mem", "update", "delete", "insert"},
         UNCHANGED <<accountVars, codeVars, session, fresh, sessions, errors>>
  PROVE  Plain(t, s, job[t])
<1>1. Moves(t, s, job[t])
  BY GoToMoves
<1>2. Fits(s, job[t], sessions)
  BY DEF TypeInv, JobType, Fits
<1>3. QED
  BY <1>1, <1>2 DEF Plain, Checked

\* A request that returns.
LEMMA FinishPlain ==
  ASSUME TypeInv, NEW t \in Threads, Finish(t),
         pc[t] \notin {"update", "revoke_db", "revoke_mem"},
         UNCHANGED <<accountVars, codeVars, session, fresh, sessions, errors>>
  PROVE  Plain(t, "idle", NoJob)
BY FinishMoves, NoJobFits DEF Plain, Checked

\* The login's steps up to the code it has entered.
LEMMA LoginPlain ==
  ASSUME TypeInv, NEW t \in Threads,
         (\E u \in Users : LoginRead(t, u) \/ SetupCheck(t, u)) \/ LoginPermit(t) \/ LoginVerify(t)
           \/ LoginTouch(t)
  PROVE  LocksMove(t) /\ tokens' = tokens /\ \E s, j : Plain(t, s, j)
<1>1. ASSUME NEW u \in Users, LoginRead(t, u) PROVE LocksMove(t) /\ tokens' = tokens /\ \E s, j : Plain(t, s, j)
  <2> DEFINE j == [NoJob EXCEPT !.user = u, !.role = user[u].role,
                                !.active = user[u].exists /\ user[u].enabled]
  <2>1. j \in Job /\ j.user = u
    BY <1>1, NoJobFits DEF TypeInv, AccountType, NoJob, Job
  <2>2. Fits("permit", j, sessions)
    BY <2>1 DEF Fits, Steps
  <2>3. Begin(t) /\ GoTo(t, "permit", j)
    BY <1>1 DEF LoginRead
  <2> HIDE DEF j
  <2>4. QED
    BY <1>1, <2>2, <2>3, BeginPlain DEF LoginRead, lockVars
<1>2. ASSUME NEW u \in Users, SetupCheck(t, u) PROVE LocksMove(t) /\ tokens' = tokens /\ \E s, j : Plain(t, s, j)
  <2> DEFINE j == [NoJob EXCEPT !.user = u, !.role = "admin"]
  <2>1. j \in Job /\ j.user = u
    BY NoJobFits DEF NoJob, Job, Role
  <2>2. Fits("setup", j, sessions)
    BY <2>1 DEF Fits, Steps
  <2>3. Begin(t) /\ GoTo(t, "setup", j)
    BY <1>2 DEF SetupCheck
  <2> HIDE DEF j
  <2>4. QED
    BY <1>2, <2>2, <2>3, BeginPlain DEF SetupCheck
<1>3. CASE LoginPermit(t)
  <2>1. pc[t] = "permit" /\ UNCHANGED <<accountVars, codeVars, session, tokens, throttle, requests, counts>>
    BY <1>3 DEF LoginPermit
  <2>2. CASE GoTo(t, "verify", job[t]) /\ permits' = permits \cup {t} /\ UNCHANGED lockVars
    <3>1. Plain(t, "verify", job[t])
      BY <2>1, <2>2, OnPlain DEF Steps, counts
    <3>2. QED
      BY <2>1, <2>2, <3>1 DEF LocksMove, throttle, lockVars, counts
  <2>3. CASE Finish(t)
    <3>1. Plain(t, "idle", NoJob)
      BY <2>1, <2>3, FinishPlain DEF counts
    <3>2. QED
      BY <2>1, <2>3, <3>1, FinishMoves DEF LocksMove, throttle, lockVars, counts
  <2>4. QED
    BY <1>3, <2>2, <2>3 DEF LoginPermit
<1>4. CASE LoginVerify(t)
  <2> DEFINE row == twofactor[job[t].user]
             wrong(code) == code.kind = "totp" /\ ~CodeMatches(code, row.secret, row.last)
  <2>1. pc[t] = "verify" /\ UNCHANGED <<accountVars, codeVars, session, tokens, requests, counts>>
    BY <1>4 DEF LoginVerify
  <2>2. CASE (RecordFailure(TRUE) \/ UNCHANGED throttle) /\ Finish(t)
    <3>1. Plain(t, "idle", NoJob)
      BY <2>1, <2>2, FinishPlain DEF counts
    <3>2. QED
      BY <2>1, <2>2, <3>1, FinishMoves DEF LocksMove, RecordFailure, throttle, lockVars, counts
  <2>3. CASE GoTo(t, "touch", job[t]) /\ UNCHANGED <<throttle, permits, lockVars>>
    <3>1. Plain(t, "touch", job[t])
      BY <2>1, <2>3, OnPlain DEF Steps, counts
    <3>2. QED
      BY <2>1, <2>3, <3>1 DEF LocksMove, throttle, lockVars, counts
  <2>4. ASSUME NEW code \in {c \in Codes : c.of <= fresh}, code # NoCode, ~wrong(code), row.secret # 0,
               GoTo(t, "use", [job[t] EXCEPT !.secret = row.secret, !.code = code]),
               UNCHANGED <<throttle, permits, lockVars>>
        PROVE  LocksMove(t) /\ tokens' = tokens /\ \E s, j : Plain(t, s, j)
    <3> DEFINE j == [job[t] EXCEPT !.secret = row.secret, !.code = code]
    <3>1. job[t] \in Job /\ job[t].user \in Users /\ row.secret \in 0 .. MaxFresh
      BY <2>1 DEF TypeInv, JobType, Fits, FactorType, FactorRow
    <3>2. /\ j \in Job /\ j.user = job[t].user /\ j.code = code /\ j.secret = row.secret
      BY <3>1 DEF Job
    <3>3. code.kind = "totp" => code.of = row.secret
      BY <2>4 DEF CodeMatches
    <3>4. code.kind \in {"totp", "recovery"} /\ code.of \in 1 .. fresh
      <4>1. CASE code = BadCode
        BY <2>4, <3>3, <4>1 DEF BadCode
      <4>2. CASE code # BadCode
        BY <2>4, <4>2, LimitsAssumption DEF Codes, Fresh, TypeInv, FactorType
      <4>3. QED
        BY <4>1, <4>2
    <3>5. Checked("use", j) /\ Fits("use", j, sessions)
      BY <3>1, <3>2, <3>3, <3>4 DEF Checked, Fits, Steps
    <3>6. Moves(t, "use", j)
      BY <2>4, GoToMoves
    <3> HIDE DEF j
    <3>7. Plain(t, "use", j)
      BY <2>1, <3>5, <3>6 DEF Plain, counts
    <3>8. QED
      BY <2>1, <2>4, <3>7 DEF LocksMove, throttle, lockVars, counts
  <2>5. QED
    BY <1>4, <2>2, <2>3, <2>4 DEF LoginVerify
<1>5. CASE LoginTouch(t)
  <2>1. /\ pc[t] = "touch" /\ failures' = 0 /\ guesses' = 0
        /\ UNCHANGED <<accountVars, codeVars, session, tokens, requests, counts>>
    BY <1>5 DEF LoginTouch
  <2>2. CASE GoTo(t, "put", job[t]) /\ UNCHANGED <<permits, lockVars>>
    <3>1. Plain(t, "put", job[t])
      BY <2>1, <2>2, OnPlain DEF Steps, counts
    <3>2. QED
      BY <2>1, <2>2, <3>1 DEF LocksMove, lockVars, counts
  <2>3. CASE Finish(t)
    <3>1. Plain(t, "idle", NoJob)
      BY <2>1, <2>3, FinishPlain DEF counts
    <3>2. QED
      BY <2>1, <2>3, <3>1, FinishMoves DEF LocksMove, counts
  <2>4. QED
    BY <1>5, <2>2, <2>3 DEF LoginTouch
<1>6. QED
  BY <1>1, <1>2, <1>3, <1>4, <1>5

\* What an administrator's request looks up before it changes an account.
LEMMA ManagePlain ==
  ASSUME TypeInv, NEW t \in Threads, NEW u \in Users,
         CreateCheck(t, u) \/ UpdateCheck(t, u) \/ DeleteCheck(t, u)
  PROVE  LocksMove(t) /\ tokens' = tokens /\ \E s, j : Plain(t, s, j)
<1>1. CASE CreateCheck(t, u) \/ DeleteCheck(t, u)
  <2> DEFINE j == [NoJob EXCEPT !.user = u]
  <2>1. j \in Job /\ j.user = u /\ j.id = 0
    BY NoJobFits DEF NoJob, Job
  <2>2. Fits("create", j, sessions) /\ Fits("delete", j, sessions)
    BY <2>1 DEF Fits, Steps
  <2>3. Begin(t) /\ \E s \in {"create", "delete"} : GoTo(t, s, j)
    BY <1>1 DEF CreateCheck, DeleteCheck, AdminRequest
  <2> HIDE DEF j
  <2>4. QED
    BY <1>1, <2>1, <2>2, <2>3, BeginPlain DEF CreateCheck, DeleteCheck, lockVars
<1>2. CASE UpdateCheck(t, u)
  <2>1. PICK todo \in Updates : GoTo(t, "update", [NoJob EXCEPT !.user = u, !.todo = todo])
    BY <1>2 DEF UpdateCheck
  <2> DEFINE j == [NoJob EXCEPT !.user = u, !.todo = todo]
  <2>2. j \in Job /\ j.user = u /\ j.todo = todo /\ todo # <<>> /\ j.id = 0
    BY NoJobFits, UpdatesAssumption DEF NoJob, Job
  <2>3. Fits("update", j, sessions)
    BY <2>2 DEF Fits, Steps
  <2>4. Begin(t) /\ GoTo(t, "update", j)
    BY <1>2, <2>1 DEF UpdateCheck, AdminRequest
  <2> HIDE DEF j
  <2>5. QED
    BY <1>2, <2>2, <2>3, <2>4, BeginPlain DEF UpdateCheck, lockVars
<1>3. QED
  BY <1>1, <1>2

\* What a request on one's own account asks for and looks up, and the API tokens.
LEMMA OwnPlain ==
  ASSUME TypeInv, NEW t \in Threads,
         (\E i \in Ids : ConfirmRead(t, i) \/ EnableCheck(t, i) \/ TokenRead(t, i) \/ TokenDelete(t, i))
           \/ ConfirmPermit(t) \/ ConfirmCheck(t) \/ ConfirmWrong(t) \/ TokenCount(t) \/ TokenPut(t)
  PROVE  LocksMove(t) /\ tokens' \in [Users -> Nat] /\ \E s, j : Plain(t, s, j)
<1>0. tokens \in [Users -> Nat]
  BY DEF TypeInv, LockType
<1>1. ASSUME NEW i \in Ids, ConfirmRead(t, i) \/ TokenRead(t, i)
      PROVE  LocksMove(t) /\ tokens' \in [Users -> Nat] /\ \E s, j : Plain(t, s, j)
  <2>1. OwnJob(i) \in Job /\ OwnJob(i).user \in Users
    BY <1>1, OwnJobFits DEF ConfirmRead, TokenRead
  <2>2. Fits("confirm", OwnJob(i), sessions) /\ Fits("count", OwnJob(i), sessions)
    BY <2>1 DEF Fits, Steps
  <2>3. Begin(t) /\ \E s \in {"confirm", "count"} : GoTo(t, s, OwnJob(i))
    BY <1>1 DEF ConfirmRead, TokenRead, OwnRequest
  <2>4. QED
    BY <1>0, <1>1, <2>2, <2>3, BeginPlain DEF ConfirmRead, TokenRead, lockVars
<1>2. ASSUME NEW i \in Ids, EnableCheck(t, i)
      PROVE  LocksMove(t) /\ tokens' \in [Users -> Nat] /\ \E s, j : Plain(t, s, j)
  <2> DEFINE pending == twofactor[session[i].user].pending
  <2>1. PICK step \in CodeSteps :
          GoTo(t, "enable", [OwnJob(i) EXCEPT !.code = [kind |-> "totp", of |-> pending, step |-> step]])
    BY <1>2 DEF EnableCheck
  <2> DEFINE code == [kind |-> "totp", of |-> pending, step |-> step]
             j == [OwnJob(i) EXCEPT !.code = code]
  <2>2. OwnJob(i) \in Job /\ OwnJob(i).user = session[i].user /\ OwnJob(i).user \in Users
    BY <1>2, OwnJobFits DEF EnableCheck
  <2>3. pending \in 1 .. MaxFresh
    BY <1>2, <2>2, LimitsAssumption DEF EnableCheck, TypeInv, FactorType, FactorRow
  <2>4. code \in Codes
    BY <2>3 DEF Codes, Fresh
  <2>5. j \in Job /\ j.user = session[i].user /\ j.code = code
    BY <2>2, <2>4 DEF Job
  <2>6. Fits("enable", j, sessions) /\ Checked("enable", j)
    BY <2>2, <2>3, <2>5 DEF Fits, Steps, Checked
  <2>7. Moves(t, "enable", j)
    BY <2>1, GoToMoves
  <2> HIDE DEF j
  <2>8. Plain(t, "enable", j)
    BY <1>2, <2>6, <2>7 DEF Plain, EnableCheck, OwnRequest, Begin, counts
  <2>9. QED
    BY <1>0, <1>2, <2>8 DEF EnableCheck, OwnRequest, Begin, LocksMove, throttle, lockVars, counts
<1>3. ASSUME NEW i \in Ids, TokenDelete(t, i)
      PROVE  LocksMove(t) /\ tokens' \in [Users -> Nat] /\ \E s, j : Plain(t, s, j)
  <2> DEFINE u == session[i].user
  <2>1. u \in Users
    BY <1>3 DEF TokenDelete, OwnRequest, SignedIn, TypeInv, SessionType
  <2>2. tokens[u] \in Nat /\ tokens[u] > 0 /\ tokens' = [tokens EXCEPT ![u] = tokens[u] - 1]
    BY <1>0, <1>3, <2>1 DEF TokenDelete
  <2>3. tokens' \in [Users -> Nat]
    <3>1. tokens[u] - 1 \in Nat
      BY <2>2
    <3>2. QED
      BY <1>0, <2>2, <3>1
  <2>4. pc[t] = "idle" /\ pc' = pc /\ job' = job
    BY <1>3 DEF TokenDelete, OwnRequest, Begin
  <2>5. Moves(t, "idle", job[t]) /\ Fits("idle", job[t], sessions)
    BY <2>4 DEF Moves, TypeInv, JobType
  <2>6. Plain(t, "idle", job[t])
    BY <1>3, <2>4, <2>5 DEF Plain, Checked, TokenDelete, counts
  <2>7. QED
    BY <1>3, <2>3, <2>6 DEF TokenDelete, OwnRequest, Begin, LocksMove, throttle, lockVars, counts
<1>4. CASE ConfirmPermit(t)
  <2>1. pc[t] = "confirm" /\ UNCHANGED <<accountVars, codeVars, session, tokens, throttle, requests, counts>>
    BY <1>4 DEF ConfirmPermit
  <2>2. CASE GoTo(t, "check", job[t]) /\ permits' = permits \cup {t} /\ UNCHANGED lockVars
    <3>1. Plain(t, "check", job[t])
      BY <2>1, <2>2, OnPlain DEF Steps, counts
    <3>2. QED
      BY <1>0, <2>1, <2>2, <3>1 DEF LocksMove, throttle, lockVars, counts
  <2>3. CASE Finish(t)
    <3>1. Plain(t, "idle", NoJob)
      BY <2>1, <2>3, FinishPlain DEF counts
    <3>2. QED
      BY <1>0, <2>1, <2>3, <3>1, FinishMoves DEF LocksMove, throttle, lockVars, counts
  <2>4. QED
    BY <1>4, <2>2, <2>3 DEF ConfirmPermit
<1>5. CASE ConfirmCheck(t)
  <2>1. PICK s \in {"wrong", "change", "pending", "codes", "disable"} : GoTo(t, s, job[t])
    BY <1>5 DEF ConfirmCheck
  <2>2. Plain(t, s, job[t])
    BY <1>5, <2>1, OnPlain DEF ConfirmCheck, Steps, counts
  <2>3. QED
    BY <1>0, <1>5, <2>2 DEF ConfirmCheck, LocksMove, throttle, lockVars, counts
<1>6. CASE ConfirmWrong(t)
  <2>1. Plain(t, "idle", NoJob)
    BY <1>6, FinishPlain DEF ConfirmWrong, counts
  <2>2. QED
    BY <1>0, <1>6, <2>1, FinishMoves DEF ConfirmWrong, RecordFailure, LocksMove, counts
<1>7. CASE TokenCount(t)
  <2>1. pc[t] = "count" /\ UNCHANGED <<accountVars, codeVars, session, tokens, throttle, requests, counts>>
    BY <1>7 DEF TokenCount
  <2>2. CASE GoTo(t, "token", job[t]) /\ config_write' = t /\ UNCHANGED <<permits, setup_lock>>
    <3>1. Plain(t, "token", job[t])
      BY <2>1, <2>2, OnPlain DEF Steps, counts
    <3>2. QED
      BY <1>0, <2>1, <2>2, <3>1 DEF LocksMove, throttle, counts
  <2>3. CASE Finish(t)
    <3>1. Plain(t, "idle", NoJob)
      BY <2>1, <2>3, FinishPlain DEF counts
    <3>2. QED
      BY <1>0, <2>1, <2>3, <3>1, FinishMoves DEF LocksMove, throttle, lockVars, counts
  <2>4. QED
    BY <1>7, <2>2, <2>3 DEF TokenCount
<1>8. CASE TokenPut(t)
  <2>1. Plain(t, "idle", NoJob)
    BY <1>8, FinishPlain DEF TokenPut, counts
  <2>2. job[t].user \in Users
    BY <1>8 DEF TokenPut, TypeInv, JobType, Fits
  <2>3. tokens' \in [Users -> Nat]
    BY <1>0, <1>8, <2>2 DEF TokenPut
  <2>4. QED
    BY <1>8, <2>1, <2>3, FinishMoves DEF TokenPut, LocksMove, throttle, lockVars, counts
<1>9. QED
  BY <1>1, <1>2, <1>3, <1>4, <1>5, <1>6, <1>7, <1>8
----------------------------------------------------------------------------
(* The types, after the requests that change something *)

\* Sessions are marked, or taken away, one field at a time.
LEMMA AgedFacts ==
  ASSUME TypeInv, NEW u, NEW keep
  PROVE  /\ Aged(u, keep) \in [Ids -> Session]
         /\ \A i \in Ids : LET s == Aged(u, keep)[i] IN
              /\ s.user = session[i].user /\ s.mem = session[i].mem /\ s.db = session[i].db
              /\ s.role = session[i].role
              /\ s.state = IF session[i].user = u /\ i # keep THEN "old" ELSE session[i].state
BY DEF TypeInv, SessionType, Aged, Session

\* A session that is neither in memory nor in the store is none.
LEMMA KeptFacts ==
  ASSUME NEW s \in Session
  PROVE  /\ Kept(s) \in Session /\ NoSession \in Session
         /\ Kept(s).mem = s.mem /\ Kept(s).db = s.db
         /\ s.mem \/ s.db => Kept(s) = s
BY DEF Kept, NoSession, Session, Role

\* Sessions of which only marks change, or that lose their place in memory or in
\* the store.
LEMMA FewerSessions ==
  ASSUME TypeInv, session' \in [Ids -> Session], sessions' = sessions,
         \A i \in Ids : session'[i].mem \/ session'[i].db =>
           /\ session'[i].user = session[i].user
           /\ session[i].mem \/ session[i].db
  PROVE  SessionType'
BY DEF TypeInv, SessionType

\* A row of its secrets is written for one account; accounts may have been added.
LEMMA RowWritten ==
  ASSUME TypeInv, NEW u \in Users, NEW row \in FactorRow,
         twofactor' = [twofactor EXCEPT ![u] = row],
         row.exists => user'[u].exists, ~row.exists => row = NoTwoFactor,
         \A w \in Users \ {u} : user[w].exists => user'[w].exists,
         used' \subseteq Codes, reused' \in BOOLEAN, fresh' \in 0 .. MaxFresh
  PROVE  FactorType'
BY DEF TypeInv, FactorType

\* The two-factor rows stay as they are.
LEMMA SameRows ==
  ASSUME TypeInv, UNCHANGED codeVars, fresh' = fresh,
         \A w \in Users : user[w].exists => user'[w].exists
  PROVE  FactorType'
BY DEF TypeInv, FactorType, codeVars

\* The row of an account without two-factor login.
LEMMA NoRow == NoTwoFactor \in FactorRow /\ ~NoTwoFactor.exists
BY LimitsAssumption DEF NoTwoFactor, FactorRow

\* The login uses up its code, and makes its session; first-run setup.
LEMMA SignInType ==
  ASSUME TypeInv, NEW t \in Threads,
         LoginUse(t) \/ SessionPut(t) \/ SessionInsert(t) \/ SetupCreate(t)
  PROVE  TypeInv'
<1> DEFINE u == job[t].user
<1>0. tokens \in [Users -> Nat] /\ job[t] \in Job /\ Fits(pc[t], job[t], sessions)
  BY DEF TypeInv, LockType, JobType
<1>1. CASE LoginUse(t)
  <2> DEFINE row == twofactor[u]
             code == job[t].code
  <2>1. /\ pc[t] = "use" /\ u \in Users /\ row \in FactorRow /\ code \in Codes
        /\ UNCHANGED <<accountVars, session, tokens, requests, counts>>
    BY <1>0, <1>1 DEF LoginUse, Fits, TypeInv, FactorType, Job
  <2>2. CASE Accepted(row, code) /\ GoTo(t, "touch", job[t]) /\ UNCHANGED <<throttle, permits, lockVars>>
             /\ twofactor' = [twofactor EXCEPT ![u] = IF code.kind = "totp"
                                THEN [row EXCEPT !.last = code.step] ELSE [row EXCEPT !.recovery = 0]]
             /\ used' = used \cup {code}
             /\ reused' = (reused \/ (code \in used /\ row.secret = job[t].secret))
    <3> DEFINE new == IF code.kind = "totp" THEN [row EXCEPT !.last = code.step] ELSE [row EXCEPT !.recovery = 0]
    <3>1. Moves(t, "touch", job[t]) /\ Fits("touch", job[t], sessions')
      BY <1>0, <2>1, <2>2, GoToMoves DEF Fits, Steps
    <3>2. JobType' /\ LockType'
      BY <1>0, <2>1, <2>2, <3>1, JobStep, LockStep DEF LocksMove, throttle, lockVars, counts
    <3>3. code.kind = "totp" => code.step \in {0} \cup CodeSteps
      BY <2>1 DEF Codes, BadCode, NoCode
    <3>4. row.exists
      BY <2>1, <2>2 DEF Accepted, TypeInv, FactorType, NoTwoFactor
    <3>5. 0 \in 0 .. MaxFresh
      BY LimitsAssumption
    <3>6. new \in FactorRow /\ new.exists
      BY <2>1, <3>3, <3>4, <3>5 DEF FactorRow
    <3>7. user[u].exists /\ user' = user
      BY <2>1, <3>4 DEF TypeInv, FactorType, accountVars
    <3>8. used' \subseteq Codes /\ reused' \in BOOLEAN /\ fresh' \in 0 .. MaxFresh
      BY <2>1, <2>2 DEF TypeInv, FactorType, counts
    <3>9. twofactor' = [twofactor EXCEPT ![u] = new]
      BY <2>2
    <3> HIDE DEF new
    <3>10. FactorType'
      BY <2>1, <3>6, <3>7, <3>8, <3>9, RowWritten
    <3>11. AccountType' /\ SessionType'
      BY <2>1 DEF TypeInv, AccountType, SessionType, accountVars, counts
    <3>12. QED
      BY <3>2, <3>10, <3>11 DEF TypeInv
  <2>3. CASE RecordFailure(TRUE) /\ Finish(t) /\ UNCHANGED codeVars
    <3>1. Plain(t, "idle", NoJob)
      BY <2>1, <2>3, FinishPlain DEF counts
    <3>2. LocksMove(t)
      BY <2>1, <2>3, FinishMoves DEF RecordFailure, LocksMove, counts
    <3>3. QED
      BY <1>0, <2>1, <3>1, <3>2, PlainStep DEF Plain
  <2>4. QED
    BY <1>1, <2>2, <2>3 DEF LoginUse
<1>2. CASE SessionPut(t)
  <2> DEFINE i == sessions + 1
             j == [job[t] EXCEPT !.id = i]
  <2>1. /\ pc[t] = "put" /\ u \in Users /\ sessions < MaxSessions /\ sessions' = i
        /\ GoTo(t, "insert", j)
        /\ UNCHANGED <<accountVars, codeVars, tokens, throttle, permits, lockVars, requests, fresh, crashes>>
    BY <1>0, <1>2 DEF SessionPut, Fits
  <2>2. sessions \in 0 .. MaxSessions /\ i \in Ids /\ i \in 1 .. sessions'
    BY <2>1, LimitsAssumption DEF TypeInv, SessionType, Ids
  <2>3. j \in Job /\ j.user = u /\ j.id = i
    <3>1. \A n \in 0 .. MaxSessions : LET k == [job[t] EXCEPT !.id = n]
                                     IN k \in Job /\ k.user = u /\ k.id = n
      BY <1>0 DEF Job
    <3>2. i \in 0 .. MaxSessions
      BY <2>2, LimitsAssumption DEF Ids
    <3>3. QED
      BY <3>1, <3>2
  <2>4. Moves(t, "insert", j) /\ Fits("insert", j, sessions')
    BY <2>1, <2>2, <2>3, GoToMoves DEF Fits, Steps
  <2> HIDE DEF j
  <2>5. JobType'
    BY <2>1, <2>4, JobStep
  <2>6. LockType'
    BY <1>0, <1>2, <2>1, LockStep DEF SessionPut, LocksMove, throttle, lockVars, counts
  <2>7. AccountType' /\ FactorType'
    BY <2>1, SameRows DEF TypeInv, AccountType, accountVars
  <2>8. PICK ok \in BOOLEAN : session' = [session EXCEPT ![i] = IF ok /\ user[u].exists
               THEN [user |-> u, role |-> job[t].role, mem |-> FALSE, db |-> TRUE,
                     state |-> IF job[t].old THEN "late" ELSE "fresh"]
               ELSE NoSession]
    BY <1>2 DEF SessionPut
  <2>9. job[t].role \in Role /\ u \in Users \cup {None} /\ NoSession \in Session
    BY <1>0 DEF Job, NoSession, Session, Role
  <2>10. [user |-> u, role |-> job[t].role, mem |-> FALSE, db |-> TRUE,
          state |-> IF job[t].old THEN "late" ELSE "fresh"] \in Session
    BY <2>9 DEF Session
  <2>11. session' \in [Ids -> Session]
    BY <2>8, <2>9, <2>10 DEF TypeInv, SessionType
  <2>12. session'[i].mem \/ session'[i].db => session'[i].user = u
    BY <2>2, <2>8 DEF TypeInv, SessionType, NoSession
  <2>13. \A n \in Ids \ {i} : session'[n] = session[n]
    BY <2>8 DEF TypeInv, SessionType
  <2>14. SessionType'
    <3>1. ASSUME NEW n \in Ids, session'[n].mem \/ session'[n].db
          PROVE  session'[n].user \in Users /\ n <= sessions'
      BY <2>1, <2>2, <2>12, <2>13, <3>1 DEF TypeInv, SessionType, Ids
    <3>2. sessions' \in 0 .. MaxSessions
      BY <2>1, <2>2, LimitsAssumption
    <3>3. QED
      BY <2>11, <3>1, <3>2 DEF SessionType
  <2>15. QED
    BY <2>5, <2>6, <2>7, <2>14 DEF TypeInv
<1>3. CASE SessionInsert(t)
  <2> DEFINE i == job[t].id
  <2>1. /\ pc[t] = "insert" /\ u \in Users /\ i \in 1 .. sessions /\ Finish(t)
        /\ UNCHANGED <<accountVars, codeVars, tokens, throttle, requests, counts>>
    BY <1>0, <1>3 DEF SessionInsert, Fits
  <2>2. i \in Ids /\ i <= sessions
    BY <2>1, LimitsAssumption DEF TypeInv, SessionType, Ids
  <2>3. JobType' /\ LockType'
    BY <1>0, <2>1, FinishMoves, NoJobFits, JobStep, LockStep DEF LocksMove, throttle, counts
  <2>4. AccountType' /\ FactorType'
    BY <2>1, SameRows DEF TypeInv, AccountType, accountVars, counts
  <2> DEFINE new == [user |-> u, role |-> job[t].role, mem |-> TRUE, db |-> session[i].db,
                     state |-> IF job[t].old THEN "late" ELSE "fresh"]
  <2>5. session' = [session EXCEPT ![i] = new]
    BY <1>3 DEF SessionInsert
  <2>6. new \in Session
    BY <1>0, <2>2 DEF Session, Job, TypeInv, SessionType
  <2>7. new.user = u
    OBVIOUS
  <2> HIDE DEF new
  <2>8. SessionType'
    <3>1. session' \in [Ids -> Session] /\ sessions' = sessions
      BY <2>1, <2>5, <2>6 DEF TypeInv, SessionType, counts
    <3>2. ASSUME NEW n \in Ids, session'[n].mem \/ session'[n].db
          PROVE  session'[n].user \in Users /\ n <= sessions
      <4>1. CASE n = i
        BY <2>1, <2>2, <2>5, <2>7, <4>1 DEF TypeInv, SessionType
      <4>2. CASE n # i
        BY <2>5, <3>2, <4>2 DEF TypeInv, SessionType
      <4>3. QED
        BY <4>1, <4>2
    <3>3. QED
      BY <3>1, <3>2 DEF TypeInv, SessionType
  <2>9. QED
    BY <2>3, <2>4, <2>8 DEF TypeInv
<1>4. CASE SetupCreate(t)
  <2>1. /\ pc[t] = "setup" /\ u \in Users /\ user' = [user EXCEPT ![u] = Admin]
        /\ overwritten' = (overwritten \/ user[u].exists) /\ GoTo(t, "put", job[t])
        /\ UNCHANGED <<codeVars, session, tokens, throttle, permits, lockVars, unrevoked, requests, counts>>
    BY <1>0, <1>4 DEF SetupCreate, Fits
  <2>2. Moves(t, "put", job[t]) /\ Fits("put", job[t], sessions')
    BY <1>0, <2>1, GoToMoves DEF Fits, Steps
  <2>3. JobType' /\ LockType'
    BY <1>0, <2>1, <2>2, JobStep, LockStep DEF LocksMove, throttle, lockVars, counts
  <2>4. AccountType'
    BY <2>1 DEF TypeInv, AccountType, Admin, Role
  <2>5. \A w \in Users : user[w].exists => user'[w].exists
    BY <2>1 DEF TypeInv, AccountType, Admin
  <2>6. FactorType' /\ SessionType'
    BY <2>1, <2>5, SameRows DEF TypeInv, SessionType, counts
  <2>7. QED
    BY <2>3, <2>4, <2>6 DEF TypeInv
<1>5. QED
  BY <1>1, <1>2, <1>3, <1>4

\* An administrator's request writes the account it has looked up.
LEMMA WriteType ==
  ASSUME TypeInv, NEW t \in Threads, CreateWrite(t) \/ UpdateApply(t) \/ DeleteWrite(t)
  PROVE  TypeInv'
<1> DEFINE u == job[t].user
<1>0. /\ tokens \in [Users -> Nat] /\ job[t] \in Job /\ Fits(pc[t], job[t], sessions)
      /\ user \in [Users -> [exists : BOOLEAN, enabled : BOOLEAN, role : Role]]
  BY DEF TypeInv, LockType, JobType, AccountType
<1>1. CASE CreateWrite(t)
  <2>1. /\ u \in Users /\ AgeJobs(u, t, NoJob) /\ pc' = [pc EXCEPT ![t] = "idle"]
        /\ overwritten' = (overwritten \/ user[u].exists)
        /\ unrevoked' = IF user[u].exists THEN unrevoked \cup {u} ELSE unrevoked
        /\ session' = IF user[u].exists THEN Aged(u, 0) ELSE session
        /\ UNCHANGED <<codeVars, tokens, throttle, permits, lockVars, requests, counts>>
    BY <1>0, <1>1 DEF CreateWrite, Fits
  <2>2. PICK role \in Role :
          user' = [user EXCEPT ![u] = [exists |-> TRUE, enabled |-> TRUE, role |-> role]]
    BY <1>1 DEF CreateWrite
  <2>3. JobType' /\ LockType'
    BY <1>0, <2>1, AgeMoves, NoJobFits, JobStep, LockStep DEF LocksMove, throttle, lockVars, counts
  <2>4. [exists |-> TRUE, enabled |-> TRUE, role |-> role]
          \in [exists : BOOLEAN, enabled : BOOLEAN, role : Role]
    OBVIOUS
  <2>5. AccountType'
    BY <1>0, <2>1, <2>2, <2>4 DEF TypeInv, AccountType
  <2>6. FactorType'
    BY <1>0, <2>1, <2>2, SameRows DEF counts
  <2>7. SessionType'
    BY <2>1, AgedFacts, FewerSessions DEF TypeInv, SessionType, counts
  <2>8. QED
    BY <2>3, <2>5, <2>6, <2>7 DEF TypeInv
<1>2. CASE UpdateApply(t)
  <2> DEFINE change == Head(job[t].todo)
             j == [job[t] EXCEPT !.todo = Tail(job[t].todo), !.done = TRUE]
             s == IF Len(job[t].todo) = 1 THEN "revoke_db" ELSE "update"
  <2>1. /\ pc[t] = "update" /\ u \in Users /\ job[t].todo # <<>> /\ job[t].todo \in Seq(Changes)
        /\ UNCHANGED <<codeVars, tokens, throttle, overwritten, requests, counts>>
    BY <1>0, <1>2 DEF UpdateApply, Fits, Job
  <2>2. CASE ~Refused(u, change)
    <3>1. /\ user' = [user EXCEPT ![u] = ChangedUser(u, change)] /\ session' = Aged(u, 0)
          /\ AgeJobs(u, t, j) /\ pc' = [pc EXCEPT ![t] = s]
          /\ UNCHANGED <<permits, lockVars, unrevoked>>
      BY <1>2, <2>2 DEF UpdateApply
    <3>2. /\ Tail(job[t].todo) \in Seq(Changes)
          /\ Len(job[t].todo) # 1 => Tail(job[t].todo) # <<>>
      <4>1. Len(job[t].todo) \in Nat \ {0}
        BY <2>1, EmptySeq
      <4>2. Tail(job[t].todo) \in Seq(Changes) /\ Len(Tail(job[t].todo)) = Len(job[t].todo) - 1
        BY <2>1, HeadTailProperties
      <4>3. Len(job[t].todo) # 1 => Len(Tail(job[t].todo)) # 0
        BY <4>1, <4>2
      <4>4. Len(<<>>) = 0
        OBVIOUS
      <4>5. QED
        BY <4>2, <4>3, <4>4
    <3>3. j \in Job /\ j.user = u /\ j.todo = Tail(job[t].todo)
      BY <1>0, <3>2 DEF Job
    <3>4. Fits(s, j, sessions')
      BY <2>1, <3>2, <3>3 DEF Fits, Steps
    <3> HIDE DEF j, s
    <3>5. JobType' /\ LockType'
      BY <1>0, <2>1, <3>1, <3>4, AgeMoves, JobStep, LockStep DEF LocksMove, throttle, lockVars, counts
    <3>6. user[u].exists
      BY <2>2 DEF Refused
    <3>7. /\ ChangedUser(u, change) \in [exists : BOOLEAN, enabled : BOOLEAN, role : Role]
          /\ ChangedUser(u, change).exists
      BY <1>0, <2>1, <3>6 DEF ChangedUser, Role
    <3>8. AccountType'
      BY <1>0, <2>1, <3>1, <3>7 DEF TypeInv, AccountType
    <3>9. FactorType'
      BY <1>0, <2>1, <3>1, <3>7, SameRows DEF counts
    <3>10. SessionType'
      BY <2>1, <3>1, AgedFacts, FewerSessions DEF counts
    <3>11. QED
      BY <3>5, <3>8, <3>9, <3>10 DEF TypeInv
  <2>3. CASE Refused(u, change)
    <3>1. /\ unrevoked' = IF job[t].done THEN unrevoked \cup {u} ELSE unrevoked
          /\ Finish(t) /\ UNCHANGED <<user, session>>
      BY <1>2, <2>3 DEF UpdateApply
    <3>2. JobType' /\ LockType'
      BY <1>0, <2>1, <3>1, FinishMoves, NoJobFits, JobStep, LockStep DEF LocksMove, throttle, counts
    <3>3. AccountType' /\ FactorType' /\ SessionType'
      BY <2>1, <3>1, SameRows DEF TypeInv, AccountType, SessionType, counts
    <3>4. QED
      BY <3>2, <3>3 DEF TypeInv
  <2>4. QED
    BY <2>2, <2>3
<1>3. CASE DeleteWrite(t)
  <2>1. /\ pc[t] = "delete" /\ u \in Users
        /\ UNCHANGED <<used, reused, throttle, unrevoked, overwritten, requests, counts>>
    BY <1>0, <1>3 DEF DeleteWrite, Fits
  <2>2. CASE user[u].exists /\ ~LastAdmin(u)
    <3>1. /\ user' = [user EXCEPT ![u] = NoUser] /\ twofactor' = [twofactor EXCEPT ![u] = NoTwoFactor]
          /\ tokens' = [tokens EXCEPT ![u] = 0]
          /\ session' = [i \in Ids |-> IF session[i].user = u
                           THEN Kept([Aged(u, 0)[i] EXCEPT !.db = FALSE]) ELSE session[i]]
          /\ AgeJobs(u, t, job[t]) /\ pc' = [pc EXCEPT ![t] = "revoke_db"]
          /\ UNCHANGED <<permits, lockVars>>
      BY <1>3, <2>2 DEF DeleteWrite
    <3>2. Fits("revoke_db", job[t], sessions')
      BY <1>0, <2>1 DEF Fits, Steps
    <3>3. tokens' \in [Users -> Nat]
      BY <1>0, <3>1
    <3>4. JobType' /\ LockType'
      BY <2>1, <3>1, <3>2, <3>3, AgeMoves, JobStep, LockStep DEF LocksMove, throttle, lockVars, counts
    <3>5. AccountType'
      BY <1>0, <2>1, <3>1 DEF TypeInv, AccountType, NoUser, Role
    <3>6. FactorType'
      BY <1>0, <2>1, <3>1, NoRow, RowWritten DEF TypeInv, FactorType, counts
    <3>7. ASSUME NEW i \in Ids
          PROVE  /\ session'[i] \in Session
                 /\ session'[i].mem \/ session'[i].db => session'[i].user = session[i].user
                                                          /\ (session[i].mem \/ session[i].db)
      <4>1. CASE session[i].user = u
        <5> DEFINE a == [Aged(u, 0)[i] EXCEPT !.db = FALSE]
        <5>1. Aged(u, 0)[i] \in Session /\ Aged(u, 0)[i].user = session[i].user
                /\ Aged(u, 0)[i].mem = session[i].mem
          BY AgedFacts
        <5>2. a \in Session /\ a.user = session[i].user /\ a.mem = session[i].mem /\ a.db = FALSE
          BY <5>1 DEF Session
        <5>3. session'[i] = Kept(a)
          BY <3>1, <4>1
        <5> HIDE DEF a
        <5>4. QED
          BY <5>2, <5>3, KeptFacts
      <4>2. CASE session[i].user # u
        BY <3>1, <4>2 DEF TypeInv, SessionType
      <4>3. QED
        BY <4>1, <4>2
    <3>8. SessionType'
      <4>1. session' \in [Ids -> Session]
        BY <3>1, <3>7
      <4>2. QED
        BY <2>1, <3>7, <4>1, FewerSessions DEF counts
    <3>9. QED
      BY <3>4, <3>5, <3>6, <3>8 DEF TypeInv
  <2>3. CASE ~user[u].exists \/ LastAdmin(u)
    <3>1. Finish(t) /\ UNCHANGED <<user, twofactor, tokens, session>>
      BY <1>3, <2>3 DEF DeleteWrite
    <3>2. LocksMove(t)
      BY <2>1, <3>1, FinishMoves DEF LocksMove, throttle, counts
    <3>3. UNCHANGED <<accountVars, codeVars, session, fresh, sessions>>
      BY <2>1, <3>1 DEF accountVars, codeVars, counts
    <3>4. QED
      BY <1>0, <3>1, <3>2, <3>3, FinishMoves, NoJobFits, PlainStep
  <2>4. QED
    BY <2>2, <2>3
<1>4. QED
  BY <1>1, <1>2, <1>3

\* Sessions are revoked, in the store and in memory, and two-factor login is reset.
LEMMA RevokeType ==
  ASSUME TypeInv, NEW t \in Threads,
         (\E u \in Users : ResetTwoFactor(t, u)) \/ RevokeDb(t) \/ RevokeMem(t)
  PROVE  TypeInv'
<1>0. /\ tokens \in [Users -> Nat] /\ job[t] \in Job /\ Fits(pc[t], job[t], sessions)
      /\ session \in [Ids -> Session]
  BY DEF TypeInv, LockType, JobType, SessionType
<1>1. ASSUME NEW u \in Users, ResetTwoFactor(t, u) PROVE TypeInv'
  <2>1. /\ Begin(t) /\ twofactor' = [twofactor EXCEPT ![u] = NoTwoFactor]
        /\ UNCHANGED <<accountVars, used, reused, tokens, throttle, permits, lockVars, counts>>
    BY <1>1 DEF ResetTwoFactor, AdminRequest
  <2>2. LockType'
    BY <1>0, <2>1, LockStep DEF Begin, LocksMove, throttle, lockVars, counts
  <2>3. FactorType'
    BY <2>1, NoRow, RowWritten DEF TypeInv, FactorType, accountVars, counts
  <2>4. AccountType'
    BY <2>1 DEF TypeInv, AccountType, accountVars
  <2>5. CASE twofactor[u].secret # 0
    <3> DEFINE j == [NoJob EXCEPT !.user = u]
    <3>1. session' = Aged(u, 0) /\ AgeJobs(u, t, j) /\ pc' = [pc EXCEPT ![t] = "revoke_db"]
      BY <1>1, <2>5 DEF ResetTwoFactor
    <3>2. j \in Job /\ j.user = u
      BY NoJobFits DEF NoJob, Job
    <3>3. Fits("revoke_db", j, sessions')
      BY <3>2 DEF Fits, Steps
    <3> HIDE DEF j
    <3>4. JobType'
      BY <2>1, <3>1, <3>3, AgeMoves, JobStep DEF counts
    <3>5. SessionType'
      BY <2>1, <3>1, AgedFacts, FewerSessions DEF counts
    <3>6. QED
      BY <2>2, <2>3, <2>4, <3>4, <3>5 DEF TypeInv
  <2>6. CASE twofactor[u].secret = 0
    <3>1. session' = session /\ job' = job /\ pc' = pc /\ sessions' = sessions
      BY <1>1, <2>1, <2>6 DEF ResetTwoFactor, counts
    <3>2. JobType' /\ SessionType'
      BY <3>1 DEF TypeInv, JobType, SessionType
    <3>3. QED
      BY <2>2, <2>3, <2>4, <3>2 DEF TypeInv
  <2>7. QED
    BY <2>5, <2>6
<1>2. CASE RevokeDb(t)
  <2>1. /\ pc[t] = "revoke_db" /\ GoTo(t, "revoke_mem", job[t])
        /\ UNCHANGED <<accountVars, codeVars, tokens, throttle, permits, lockVars, requests, fresh,
                       sessions, crashes>>
        /\ errors' = errors \/ (Trouble /\ errors' = errors + 1)
        /\ \/ session' = session
           \/ session' = [i \in Ids |-> IF session[i].user = job[t].user /\ i # job[t].id
                            THEN Kept([session[i] EXCEPT !.db = FALSE]) ELSE session[i]]
    BY <1>2 DEF RevokeDb
  <2>2. Fits("revoke_mem", job[t], sessions')
    BY <1>0, <2>1 DEF Fits, Steps
  <2>3. JobType' /\ LockType'
    BY <1>0, <2>1, <2>2, GoToMoves, JobStep, LockStep DEF LocksMove, throttle, lockVars
  <2>4. ASSUME NEW i \in Ids
        PROVE  LET k == Kept([session[i] EXCEPT !.db = FALSE])
               IN k \in Session /\ (k.mem \/ k.db => k.user = session[i].user /\ session[i].mem)
    <3> DEFINE a == [session[i] EXCEPT !.db = FALSE]
    <3>1. session[i] \in Session
      BY <1>0
    <3>2. a \in Session /\ a.user = session[i].user /\ a.mem = session[i].mem /\ a.db = FALSE
      BY <3>1 DEF Session
    <3> HIDE DEF a
    <3>3. Kept(a) \in Session /\ (Kept(a).mem \/ Kept(a).db => Kept(a) = a /\ a.mem)
      BY <3>2, KeptFacts
    <3>4. QED
      BY <3>2, <3>3 DEF a
  <2>5. session' \in [Ids -> Session]
    BY <1>0, <2>1, <2>4
  <2>6. SessionType'
    BY <1>0, <2>1, <2>4, <2>5, FewerSessions
  <2>7. QED
    BY <2>1, <2>3, <2>6, SameRows DEF TypeInv, AccountType, accountVars
<1>3. CASE RevokeMem(t)
  <2>1. /\ Finish(t)
        /\ UNCHANGED <<accountVars, codeVars, tokens, throttle, requests, counts>>
        /\ session' = [i \in Ids |-> IF session[i].user = job[t].user /\ i # job[t].id
                         THEN Kept([session[i] EXCEPT !.mem = FALSE]) ELSE session[i]]
    BY <1>3 DEF RevokeMem
  <2>2. JobType' /\ LockType'
    BY <1>0, <2>1, FinishMoves, NoJobFits, JobStep, LockStep DEF LocksMove, throttle, counts
  <2>3. ASSUME NEW i \in Ids
        PROVE  LET k == Kept([session[i] EXCEPT !.mem = FALSE])
               IN k \in Session /\ (k.mem \/ k.db => k.user = session[i].user /\ session[i].db)
    <3> DEFINE a == [session[i] EXCEPT !.mem = FALSE]
    <3>1. session[i] \in Session
      BY <1>0
    <3>2. a \in Session /\ a.user = session[i].user /\ a.db = session[i].db /\ a.mem = FALSE
      BY <3>1 DEF Session
    <3> HIDE DEF a
    <3>3. Kept(a) \in Session /\ (Kept(a).mem \/ Kept(a).db => Kept(a) = a /\ a.db)
      BY <3>2, KeptFacts
    <3>4. QED
      BY <3>2, <3>3 DEF a
  <2>4. session' \in [Ids -> Session]
    BY <1>0, <2>1, <2>3
  <2>5. SessionType'
    BY <1>0, <2>1, <2>3, <2>4, FewerSessions DEF counts
  <2>6. QED
    BY <2>1, <2>2, <2>5, SameRows DEF TypeInv, AccountType, accountVars, counts
<1>4. QED
  BY <1>1, <1>2, <1>3

\* A change to one's own account.
LEMMA OwnType ==
  ASSUME TypeInv, NEW t \in Threads,
         ChangePassword(t) \/ SetPending(t) \/ NewRecoveryCodes(t) \/ DisableTwoFactor(t) \/ EnableWrite(t)
  PROVE  TypeInv'
<1> DEFINE u == job[t].user
           row == twofactor[u]
<1>0. /\ tokens \in [Users -> Nat] /\ job[t] \in Job /\ Fits(pc[t], job[t], sessions)
      /\ pc[t] \notin {"idle", "logout"} => u \in Users /\ row \in FactorRow
      /\ fresh \in 0 .. MaxFresh /\ MaxFresh \in Nat
      /\ used \subseteq Codes /\ reused \in BOOLEAN
  BY LimitsAssumption DEF TypeInv, LockType, JobType, FactorType, Fits
<1>1. CASE ChangePassword(t)
  <2>1. /\ pc[t] = "change" /\ UNCHANGED <<accountVars, codeVars, tokens, throttle, requests, counts>>
    BY <1>1 DEF ChangePassword
  <2>2. CASE /\ session' = Aged(u, job[t].id)
             /\ AgeJobs(u, t, job[t]) /\ pc' = [pc EXCEPT ![t] = "revoke_db"]
             /\ UNCHANGED <<permits, lockVars>>
    <3>1. Fits("revoke_db", job[t], sessions')
      BY <1>0, <2>1 DEF Fits, Steps
    <3>2. JobType' /\ LockType'
      BY <1>0, <2>1, <2>2, <3>1, AgeMoves, JobStep, LockStep DEF LocksMove, throttle, lockVars, counts
    <3>3. SessionType'
      BY <2>1, <2>2, AgedFacts, FewerSessions DEF counts
    <3>4. QED
      BY <2>1, <3>2, <3>3, SameRows DEF TypeInv, AccountType, accountVars, counts
  <2>3. CASE Finish(t) /\ session' = session
    <3>1. LocksMove(t)
      BY <2>1, <2>3, FinishMoves DEF LocksMove, throttle, counts
    <3>2. QED
      BY <1>0, <2>1, <2>3, <3>1, FinishMoves, NoJobFits, PlainStep DEF counts
  <2>4. QED
    BY <1>1, <2>2, <2>3 DEF ChangePassword
<1>2. ASSUME Finish(t), NEW new \in FactorRow, twofactor' = [twofactor EXCEPT ![u] = new], u \in Users,
             new.exists => user[u].exists, ~new.exists => new = NoTwoFactor,
             fresh' = fresh \/ (fresh < MaxFresh /\ fresh' = fresh + 1),
             UNCHANGED <<accountVars, used, reused, session, tokens, throttle, requests, sessions,
                    errors, crashes>>
      PROVE  TypeInv'
  <2>1. LocksMove(t)
    BY <1>2, FinishMoves DEF LocksMove, throttle
  <2>2. JobType' /\ LockType'
    BY <1>0, <1>2, <2>1, FinishMoves, NoJobFits, JobStep, LockStep
  <2>3. fresh' \in 0 .. MaxFresh
    BY <1>0, <1>2
  <2>4. FactorType'
    BY <1>0, <1>2, <2>3, RowWritten DEF accountVars
  <2>5. QED
    BY <1>2, <2>2, <2>4 DEF TypeInv, AccountType, SessionType, accountVars
<1>3. ASSUME Finish(t), twofactor' = twofactor,
             fresh' = fresh \/ (fresh < MaxFresh /\ fresh' = fresh + 1),
             UNCHANGED <<accountVars, used, reused, session, tokens, throttle, requests, sessions,
                    errors, crashes>>
      PROVE  TypeInv'
  <2>1. LocksMove(t)
    BY <1>3, FinishMoves DEF LocksMove, throttle
  <2>2. JobType' /\ LockType'
    BY <1>0, <1>3, <2>1, FinishMoves, NoJobFits, JobStep, LockStep
  <2>3. FactorType'
    BY <1>0, <1>3 DEF TypeInv, FactorType, accountVars
  <2>4. QED
    BY <1>3, <2>2, <2>3 DEF TypeInv, AccountType, SessionType, accountVars
<1>4. CASE SetPending(t)
  <2>1. /\ pc[t] = "pending" /\ Finish(t) /\ fresh < MaxFresh /\ fresh' = fresh + 1
        /\ twofactor' = IF user[u].exists
                          THEN [twofactor EXCEPT ![u].exists = TRUE, ![u].pending = fresh + 1]
                          ELSE twofactor
        /\ UNCHANGED <<accountVars, used, reused, session, tokens, throttle, requests, sessions,
                       errors, crashes>>
    BY <1>4 DEF SetPending
  <2> DEFINE new == [row EXCEPT !.exists = TRUE, !.pending = fresh + 1]
  <2>2. CASE user[u].exists
    <3>1. twofactor' = [twofactor EXCEPT ![u] = new]
      BY <1>0, <2>1, <2>2 DEF TypeInv, FactorType
    <3>2. fresh + 1 \in 0 .. MaxFresh
      BY <1>0, <2>1
    <3>3. new \in FactorRow /\ new.exists
      BY <1>0, <2>1, <3>2 DEF FactorRow
    <3> HIDE DEF new
    <3>4. QED
      BY <1>0, <1>2, <2>1, <2>2, <3>1, <3>3
  <2>3. CASE ~user[u].exists
    BY <1>3, <2>1, <2>3
  <2>4. QED
    BY <2>2, <2>3
<1>5. CASE NewRecoveryCodes(t)
  <2>1. /\ pc[t] = "codes" /\ Finish(t)
        /\ \/ /\ fresh < MaxFresh /\ fresh' = fresh + 1
              /\ twofactor' = IF row.exists THEN [twofactor EXCEPT ![u].recovery = fresh + 1]
                                            ELSE twofactor
           \/ fresh' = fresh /\ twofactor' = twofactor
        /\ UNCHANGED <<accountVars, used, reused, session, tokens, throttle, requests, sessions,
                       errors, crashes>>
    BY <1>5 DEF NewRecoveryCodes
  <2> DEFINE new == [row EXCEPT !.recovery = fresh + 1]
  <2>2. CASE twofactor' = twofactor
    BY <1>3, <2>1, <2>2
  <2>3. CASE row.exists /\ fresh < MaxFresh /\ fresh' = fresh + 1
               /\ twofactor' = [twofactor EXCEPT ![u].recovery = fresh + 1]
    <3>1. twofactor' = [twofactor EXCEPT ![u] = new]
      BY <1>0, <2>1, <2>3 DEF TypeInv, FactorType
    <3>2. fresh + 1 \in 0 .. MaxFresh
      BY <1>0, <2>3
    <3>3. new \in FactorRow /\ new.exists
      BY <1>0, <2>1, <2>3, <3>2 DEF FactorRow
    <3>4. user[u].exists
      BY <1>0, <2>1, <2>3 DEF TypeInv, FactorType
    <3> HIDE DEF new
    <3>5. QED
      BY <1>0, <1>2, <2>1, <2>3, <3>1, <3>3, <3>4
  <2>4. QED
    BY <2>1, <2>2, <2>3
<1>6. CASE DisableTwoFactor(t)
  <2>1. /\ pc[t] = "disable" /\ Finish(t) /\ twofactor' = [twofactor EXCEPT ![u] = NoTwoFactor]
        /\ UNCHANGED <<accountVars, used, reused, session, tokens, throttle, requests, counts>>
    BY <1>6 DEF DisableTwoFactor
  <2>2. QED
    BY <1>0, <1>2, <2>1, NoRow DEF counts
<1>7. CASE EnableWrite(t)
  <2> DEFINE code == job[t].code
             new == [exists |-> TRUE, secret |-> row.pending, pending |-> 0,
                     recovery |-> fresh + 1, last |-> code.step]
  <2>1. /\ pc[t] = "enable" /\ code \in Codes
        /\ UNCHANGED <<accountVars, tokens, throttle, requests, sessions, errors, crashes>>
    BY <1>0, <1>7 DEF EnableWrite, Job
  <2>2. CASE row.pending # 0
    <3>1. /\ fresh < MaxFresh /\ fresh' = fresh + 1 /\ twofactor' = [twofactor EXCEPT ![u] = new]
          /\ used' = used \cup {code}
          /\ reused' = (reused \/ (code \in used /\ row.pending = code.of))
          /\ session' = Aged(u, job[t].id)
          /\ AgeJobs(u, t, job[t]) /\ pc' = [pc EXCEPT ![t] = "revoke_db"]
          /\ UNCHANGED <<permits, lockVars>>
      BY <1>7, <2>2 DEF EnableWrite
    <3>2. Fits("revoke_db", job[t], sessions')
      BY <1>0, <2>1 DEF Fits, Steps
    <3>3. JobType' /\ LockType'
      BY <1>0, <2>1, <3>1, <3>2, AgeMoves, JobStep, LockStep DEF LocksMove, throttle, lockVars
    <3>4. SessionType'
      BY <2>1, <3>1, AgedFacts, FewerSessions
    <3>5. code.step \in {0} \cup CodeSteps
      BY <2>1 DEF Codes, BadCode, NoCode
    <3>6. fresh + 1 \in 0 .. MaxFresh /\ row.pending \in 0 .. MaxFresh /\ 0 \in 0 .. MaxFresh
      BY <1>0, <2>1, <3>1 DEF FactorRow
    <3>7. new \in FactorRow /\ new.exists
      BY <3>5, <3>6 DEF FactorRow
    <3>8. user[u].exists /\ user' = user
      <4>1. row.exists
        BY <1>0, <2>1, <2>2 DEF TypeInv, FactorType, NoTwoFactor
      <4>2. QED
        BY <1>0, <2>1, <4>1 DEF TypeInv, FactorType, accountVars
    <3> HIDE DEF new
    <3>9. FactorType'
      BY <1>0, <2>1, <3>1, <3>6, <3>7, <3>8, RowWritten
    <3>10. QED
      BY <2>1, <3>3, <3>4, <3>9 DEF TypeInv, AccountType, accountVars
  <2>3. CASE row.pending = 0
    <3>1. Finish(t) /\ UNCHANGED <<fresh, codeVars, session>>
      BY <1>7, <2>3 DEF EnableWrite
    <3>2. QED
      BY <1>3, <2>1, <3>1 DEF codeVars
  <2>4. QED
    BY <2>2, <2>3
<1>8. QED
  BY <1>1, <1>4, <1>5, <1>6, <1>7

\* A logout, the end of a session, and a restart.
LEMMA TimeType ==
  ASSUME TypeInv,
         (\E t \in Threads : LogoutMem(t) \/ \E i \in Ids : LogoutDb(t, i))
           \/ Lapse \/ (\E i \in Ids : Expire(i)) \/ Restart
  PROVE  TypeInv'
<1>0. /\ tokens \in [Users -> Nat] /\ session \in [Ids -> Session] /\ NoSession \in Session
      /\ errors \in Nat /\ crashes \in Nat /\ requests \in 0 .. MaxRequests
      /\ MaxTroubles \in Nat /\ MaxRequests \in Nat
  BY LimitsAssumption DEF TypeInv, LockType, SessionType, NoSession, Session, Role
<1>1. ASSUME NEW t \in Threads, LogoutMem(t) PROVE TypeInv'
  <2> DEFINE n == job[t].id
             gone == [session[n] EXCEPT !.mem = FALSE, !.state = "out"]
  <2>1. /\ pc[t] = "logout" /\ Finish(t)
        /\ session' = [session EXCEPT ![n] = Kept(gone)]
        /\ UNCHANGED <<accountVars, codeVars, tokens, throttle, requests, counts>>
    BY <1>1 DEF LogoutMem
  <2>2. JobType' /\ LockType'
    BY <1>0, <2>1, FinishMoves, NoJobFits, JobStep, LockStep DEF LocksMove, throttle, counts
  <2>3. n \in Ids
    BY <2>1, LimitsAssumption DEF TypeInv, JobType, Fits, SessionType, Ids
  <2>4. gone \in Session /\ gone.user = session[n].user /\ gone.mem = FALSE /\ gone.db = session[n].db
    BY <1>0, <2>3 DEF Session
  <2> HIDE DEF gone
  <2>5. session' \in [Ids -> Session]
    BY <1>0, <2>1, <2>4, KeptFacts
  <2>6. \A i \in Ids : session'[i].mem \/ session'[i].db =>
          session'[i].user = session[i].user /\ (session[i].mem \/ session[i].db)
    BY <1>0, <2>1, <2>4, KeptFacts
  <2>7. SessionType'
    BY <2>1, <2>5, <2>6, FewerSessions DEF counts
  <2>8. QED
    BY <2>1, <2>2, <2>7, SameRows DEF TypeInv, AccountType, accountVars, counts
<1>2. ASSUME NEW t \in Threads, NEW i \in Ids, LogoutDb(t, i) PROVE TypeInv'
  <2> DEFINE j == [NoJob EXCEPT !.id = i]
  <2>1. /\ Begin(t) /\ session[i].mem /\ GoTo(t, "logout", j)
        /\ session' = session \/ session' = [session EXCEPT ![i].db = FALSE]
        /\ errors' = errors \/ (Trouble /\ errors' = errors + 1)
        /\ UNCHANGED <<accountVars, codeVars, tokens, throttle, permits, lockVars, fresh, sessions, crashes>>
    BY <1>2 DEF LogoutDb, SignedIn
  <2>2. i \in 0 .. MaxSessions /\ i \in 1 .. sessions
    BY <2>1, LimitsAssumption DEF TypeInv, SessionType, Ids
  <2>3. j \in Job /\ j.id = i
    BY <2>2, NoJobFits DEF NoJob, Job
  <2>4. Fits("logout", j, sessions')
    BY <2>1, <2>2, <2>3 DEF Fits, Steps
  <2> HIDE DEF j
  <2>5. JobType' /\ LockType'
    BY <1>0, <2>1, <2>4, GoToMoves, JobStep, LockStep DEF Begin, LocksMove, throttle, lockVars
  <2>6. session' \in [Ids -> Session]
    <3>1. [session[i] EXCEPT !.db = FALSE] \in Session
      BY <1>0 DEF Session
    <3>2. QED
      BY <1>0, <2>1, <3>1
  <2>7. SessionType'
    BY <1>0, <2>1, <2>6, FewerSessions DEF Session
  <2>8. QED
    BY <2>1, <2>5, <2>7, SameRows DEF TypeInv, AccountType, accountVars
<1>3. CASE Lapse
  BY <1>3 DEF Lapse, TypeInv, AccountType, FactorType, SessionType, LockType, JobType, accountVars,
     codeVars, lockVars, counts
<1>4. ASSUME NEW i \in Ids, Expire(i) PROVE TypeInv'
  <2>1. /\ session' = [session EXCEPT ![i] = NoSession]
        /\ requests < MaxRequests /\ requests' = requests + 1
        /\ UNCHANGED <<accountVars, codeVars, tokens, throttle, permits, lockVars, pc, job, counts>>
    BY <1>4 DEF Expire
  <2>2. SessionType'
    BY <1>0, <2>1, FewerSessions DEF counts, NoSession
  <2>3. LockType'
    BY <1>0, <2>1 DEF TypeInv, LockType, throttle, lockVars, counts
  <2>4. QED
    BY <2>1, <2>2, <2>3, SameRows DEF TypeInv, AccountType, JobType, accountVars, counts
<1>5. CASE Restart
  <2>1. PICK imported \in SUBSET {u \in Seeds : ~user[u].exists} :
          user' = [u \in Users |-> IF u \in imported THEN Admin ELSE user[u]]
    BY <1>5 DEF Restart
  <2>2. /\ Trouble /\ crashes' = crashes + 1
        /\ session' = [i \in Ids |-> Kept([session[i] EXCEPT !.mem = session[i].db])]
        /\ unrevoked' = unrevoked \cup {session[i].user : i \in {n \in Ids : session[n].db
                                                                /\ session[n].state # "fresh"}}
        /\ failures' = 0 /\ guesses' = 0 /\ permits' = {}
        /\ setup_lock' = None /\ config_write' = None
        /\ pc' = [t \in Threads |-> "idle"] /\ job' = [t \in Threads |-> NoJob]
        /\ UNCHANGED <<codeVars, overwritten, tokens, requests, fresh, sessions, errors>>
    BY <1>5 DEF Restart
  <2>3. AccountType'
    <3>1. unrevoked' \subseteq Users
      BY <2>2 DEF TypeInv, AccountType, SessionType
    <3>2. user' \in [Users -> [exists : BOOLEAN, enabled : BOOLEAN, role : Role]]
      BY <2>1 DEF TypeInv, AccountType, Admin, Role
    <3>3. QED
      BY <2>2, <3>1, <3>2 DEF TypeInv, AccountType
  <2>4. FactorType'
    BY <2>1, <2>2, SameRows DEF Admin
  <2>5. ASSUME NEW i \in Ids
        PROVE  /\ session'[i] \in Session
               /\ session'[i].mem \/ session'[i].db =>
                    session'[i].user = session[i].user /\ (session[i].mem \/ session[i].db)
    <3> DEFINE a == [session[i] EXCEPT !.mem = session[i].db]
    <3>1. session[i] \in Session
      BY <1>0
    <3>2. a \in Session /\ a.user = session[i].user /\ a.mem = session[i].db /\ a.db = session[i].db
      BY <3>1 DEF Session
    <3>3. session'[i] = Kept(a)
      BY <2>2
    <3> HIDE DEF a
    <3>4. QED
      BY <3>2, <3>3, KeptFacts
  <2>6. SessionType'
    <3>1. session' \in [Ids -> Session]
      BY <2>2, <2>5
    <3>2. QED
      BY <2>2, <2>5, <3>1, FewerSessions
  <2>7. LockType'
    BY <1>0, <2>2 DEF TypeInv, LockType, Trouble
  <2>8. JobType'
    BY <2>2, NoJobFits DEF JobType, Steps
  <2>9. QED
    BY <2>3, <2>4, <2>6, <2>7, <2>8 DEF TypeInv
<1>6. QED
  BY <1>1, <1>2, <1>3, <1>4, <1>5

\* Every step keeps the types.
LEMMA TypeStep ==
  ASSUME TypeInv, Next
  PROVE  TypeInv'
<1>1. ASSUME NEW t \in Threads, NEW s, NEW j, Plain(t, s, j), LocksMove(t), tokens' \in [Users -> Nat]
      PROVE  TypeInv'
  BY <1>1, PlainStep DEF Plain
<1>2. tokens \in [Users -> Nat]
  BY DEF TypeInv, LockType
<1>3. ASSUME NEW t \in Threads, SignIn(t) PROVE TypeInv'
  BY <1>1, <1>2, <1>3, LoginPlain, SignInType DEF SignIn
<1>4. ASSUME NEW t \in Threads, Manage(t) PROVE TypeInv'
  BY <1>1, <1>2, <1>4, ManagePlain, WriteType, RevokeType DEF Manage
<1>5. ASSUME NEW t \in Threads, Own(t) PROVE TypeInv'
  BY <1>1, <1>5, OwnPlain, OwnType, TimeType DEF Own
<1>6. QED
  BY <1>3, <1>4, <1>5, TimeType DEF Next

\* The types hold at the start, in a fresh installation or one in use.
LEMMA TypeInit ==
  ASSUME Init
  PROVE  TypeInv
<1>1. /\ 0 \in 0 .. MaxFresh /\ 0 \in 0 .. MaxSessions /\ 0 \in 0 .. MaxRequests /\ 0 <= MaxTroubles
      /\ NoUser \in [exists : BOOLEAN, enabled : BOOLEAN, role : Role]
      /\ Admin \in [exists : BOOLEAN, enabled : BOOLEAN, role : Role]
      /\ NoSession \in Session /\ NoTwoFactor \in FactorRow /\ ~NoTwoFactor.exists
  BY LimitsAssumption DEF NoUser, Admin, NoSession, NoTwoFactor, FactorRow, Session, Role
<1>2. AccountType
  <2>1. user = [u \in Users |-> NoUser] \/ user = [u \in Users |-> Admin]
    BY DEF Init
  <2>2. unrevoked = {} /\ overwritten = FALSE
    BY DEF Init
  <2>3. QED
    BY <1>1, <2>1, <2>2 DEF AccountType
<1>3. LockType
  BY <1>1, LimitsAssumption DEF Init, LockType
<1>4. JobType
  BY NoJobFits DEF Init, JobType, Fits, Steps
<1>5. used = {} /\ reused = FALSE
  BY DEF Init
<1>6. FactorType /\ SessionType
  <2>1. CASE /\ twofactor = [u \in Users |-> NoTwoFactor]
             /\ session = [i \in Ids |-> NoSession] /\ sessions = 0 /\ fresh = 0
    BY <1>1, <1>5, <2>1 DEF FactorType, SessionType, NoSession
  <2>2. ASSUME user = [u \in Users |-> Admin],
               NEW w \in Users, twofactor = [u \in Users |-> IF u = w
                 THEN [exists |-> TRUE, secret |-> 1, pending |-> 0, recovery |-> 1, last |-> 0]
                 ELSE NoTwoFactor],
               NEW at \in [Users -> Ids], \A u \in Users : at[u] <= Cardinality(Users),
               session = [i \in Ids |->
                  IF \E u \in Users : at[u] = i
                    THEN [user |-> CHOOSE u \in Users : at[u] = i, role |-> "admin",
                          mem |-> TRUE, db |-> TRUE, state |-> "fresh"]
                    ELSE NoSession],
               \A u, v \in Users : at[u] = at[v] => u = v,
               sessions = Cardinality(Users), fresh = 1
        PROVE  FactorType /\ SessionType
    <3>1. [exists |-> TRUE, secret |-> 1, pending |-> 0, recovery |-> 1, last |-> 0] \in FactorRow
      BY <2>2, LimitsAssumption DEF FactorRow
    <3>2. FactorType
      <4> DEFINE row == [exists |-> TRUE, secret |-> 1, pending |-> 0, recovery |-> 1, last |-> 0]
      <4>1. \A u \in Users : user[u].exists
        BY <2>2 DEF Admin
      <4>2. row.exists /\ row \in FactorRow
        BY <3>1
      <4>3. twofactor = [u \in Users |-> IF u = w THEN row ELSE NoTwoFactor]
        BY <2>2
      <4> HIDE DEF row
      <4>4. /\ twofactor \in [Users -> FactorRow]
            /\ \A u \in Users : ~twofactor[u].exists => twofactor[u] = NoTwoFactor
        BY <1>1, <4>2, <4>3
      <4>5. fresh \in 0 .. MaxFresh
        BY <2>2, LimitsAssumption
      <4>6. QED
        BY <1>5, <4>1, <4>4, <4>5 DEF FactorType
    <3>3. ASSUME NEW i \in Ids
          PROVE  /\ session[i] \in Session
                 /\ session[i].mem \/ session[i].db => session[i].user \in Users /\ i <= sessions
      BY <1>1, <2>2 DEF Session, NoSession, Role
    <3>4. sessions \in 0 .. MaxSessions
      <4>1. IsFiniteSet(Ids) /\ Cardinality(Ids) = MaxSessions
        BY LimitsAssumption, FS_Interval DEF Ids
      <4>2. at \in Injection(Users, Ids)
        BY <2>2 DEF Injection, IsInjective
      <4>3. IsFiniteSet(Users) /\ Cardinality(Users) <= MaxSessions
        BY <4>1, <4>2, FS_Injection
      <4>4. Cardinality(Users) \in Nat
        BY <4>3, FS_CardinalityType
      <4>5. QED
        BY <2>2, <4>3, <4>4, LimitsAssumption
    <3>5. session \in [Ids -> Session]
      BY <2>2, <3>3
    <3>6. SessionType
      BY <3>3, <3>4, <3>5 DEF SessionType
    <3>7. QED
      BY <3>2, <3>6
  <2>3. QED
    BY <2>1, <2>2 DEF Init
<1>7. QED
  BY <1>2, <1>3, <1>4, <1>6 DEF TypeInv
----------------------------------------------------------------------------
(* Revoked rights are gone *)

\* Session i has rights its account lost, or was logged out, and a request is
\* still going to revoke it, in memory or (ToDelete) in the store: not the one
\* that lets it stay.
ToRevoke(i) ==
  session[i].user \in unrevoked
    \/ \E t \in Threads : Revoking(t, session[i].user) /\ job[t].id # i

ToDelete(i) ==
  \/ errors > 0 \/ session[i].user \in unrevoked
  \/ \E t \in Threads : Revoking(t, session[i].user) /\ job[t].id # i /\ pc[t] # "revoke_mem"

Revocable(i) ==
  /\ session[i].mem /\ session[i].state = "old" => ToRevoke(i)
  /\ session[i].db /\ session[i].state \in {"old", "out"} => ToDelete(i)

\* An administrator's change lets no session stay; a logout has deleted the row of
\* the session it is about to forget.
RevokeJob(t) ==
  /\ pc[t] \in {"update", "delete"} => job[t].id = 0
  /\ pc[t] = "logout" => errors > 0 \/ ~session[job[t].id].db

RevokeInv == (\A i \in Ids : Revocable(i)) /\ (\A t \in Threads : RevokeJob(t))

\* What the other requests are revoking does not change.
LEMMA OthersRevoke ==
  ASSUME TypeInv, NEW t \in Threads, NEW s, NEW j, Moves(t, s, j), NEW x \in Threads, x # t
  PROVE  /\ pc'[x] = pc[x] /\ job'[x].id = job[x].id /\ job'[x].user = job[x].user
         /\ job'[x].done = job[x].done
<1>1. /\ pc'[x] = pc[x] /\ job[x] \in Job
      /\ job'[x] \in {job[x], [job[x] EXCEPT !.old = TRUE]}
  BY DEF TypeInv, JobType, Moves
<1>2. QED
  BY <1>1 DEF Job

\* They delete no row again, and do not change account.
LEMMA JobsRevoke ==
  ASSUME TypeInv, RevokeInv, NEW t \in Threads, NEW s, NEW j, Moves(t, s, j),
         s \in {"update", "delete"} => j.id = 0,
         s = "logout" => errors' > 0 \/ ~session'[j.id].db,
         errors > 0 => errors' > 0,
         \A i \in Ids : session'[i].db => session[i].db \/ i > sessions
  PROVE  \A x \in Threads : RevokeJob(x)'
<1>1. SUFFICES ASSUME NEW x \in Threads PROVE RevokeJob(x)'
  OBVIOUS
<1>2. CASE x = t
  <2>1. pc'[x] = s /\ job'[x] = j
    BY <1>2 DEF Moves, TypeInv, JobType
  <2>2. QED
    BY <2>1 DEF RevokeJob
<1>3. CASE x # t
  <2>1. pc'[x] = pc[x] /\ job'[x].id = job[x].id
    BY <1>3, OthersRevoke
  <2>2. RevokeJob(x) /\ Fits(pc[x], job[x], sessions)
    BY DEF RevokeInv, TypeInv, JobType
  <2>3. pc[x] = "logout" => job[x].id \in Ids /\ ~(job[x].id > sessions)
    BY <2>2, LimitsAssumption DEF Fits, TypeInv, SessionType, Ids
  <2>4. QED
    BY <2>1, <2>2, <2>3 DEF RevokeJob
<1>4. QED
  BY <1>2, <1>3

\* A step of a request that was not going to revoke anything (or of an update
\* that gives up, and says so), and that marks no session but those it says it
\* fails to revoke.
LEMMA QuietRevoke ==
  ASSUME TypeInv, RevokeInv, NEW t \in Threads, NEW s, NEW j, Moves(t, s, j),
         s \in {"update", "delete"} => j.id = 0, s # "logout",
         pc[t] \notin {"revoke_db", "revoke_mem"},
         pc[t] = "update" => ~job[t].done \/ job[t].user \in unrevoked',
         unrevoked \subseteq unrevoked', errors > 0 => errors' > 0,
         \A i \in Ids : session'[i].db => session[i].db \/ i > sessions,
         \A i \in Ids :
           \/ session'[i].user \in unrevoked'
           \/ /\ session'[i].mem /\ session'[i].state = "old" =>
                   session[i].mem /\ session[i].state = "old" /\ session'[i].user = session[i].user
              /\ session'[i].db /\ session'[i].state \in {"old", "out"} =>
                   /\ session[i].db /\ session[i].state \in {"old", "out"}
                   /\ session'[i].user = session[i].user
  PROVE  RevokeInv'
<1>1. \A x \in Threads : RevokeJob(x)'
  BY JobsRevoke
<1>2. ASSUME NEW i \in Ids PROVE Revocable(i)'
  <2>1. CASE session'[i].user \in unrevoked'
    BY <2>1 DEF Revocable, ToRevoke, ToDelete
  <2>2. ASSUME NEW x \in Threads, Revoking(x, session[i].user), session[i].user \notin unrevoked'
        PROVE  /\ pc'[x] = pc[x] /\ job'[x].id = job[x].id /\ job'[x].user = job[x].user
               /\ job'[x].done = job[x].done
    <3>1. x # t
      BY <2>2 DEF Revoking
    <3>2. QED
      BY <2>2, <3>1, OthersRevoke
  <2>3. CASE session'[i].user \notin unrevoked'
    <3>1. session'[i].mem /\ session'[i].state = "old" => ToRevoke(i)'
      BY <2>2, <2>3 DEF RevokeInv, Revocable, ToRevoke, Revoking
    <3>2. session'[i].db /\ session'[i].state \in {"old", "out"} => ToDelete(i)'
      BY <2>2, <2>3 DEF RevokeInv, Revocable, ToDelete, Revoking
    <3>3. QED
      BY <3>1, <3>2 DEF Revocable
  <2>4. QED
    BY <2>1, <2>3
<1>3. QED
  BY <1>1, <1>2 DEF RevokeInv

\* A step that changes an account, marks its sessions but the one that may stay,
\* and leaves the request on its way to revoke them.
LEMMA AgeRevoke ==
  ASSUME TypeInv, RevokeInv, NEW t \in Threads, NEW s, NEW j, Moves(t, s, j),
         s = "revoke_db" \/ (s = "update" /\ j.done),
         s = "update" => j.id = 0,
         pc[t] \notin {"revoke_db", "revoke_mem"},
         pc[t] = "update" => job[t].user = j.user /\ job[t].id = j.id,
         unrevoked' = unrevoked, errors' = errors,
         \A i \in Ids :
           IF session[i].user = j.user /\ i # j.id
             THEN /\ session'[i].mem \/ session'[i].db => session'[i].user = j.user
                  /\ session'[i].db => session[i].db
             ELSE session'[i] = session[i]
  PROVE  RevokeInv'
<1>1. \A x \in Threads : RevokeJob(x)'
  BY JobsRevoke
<1>2. /\ pc'[t] = "revoke_db" \/ (pc'[t] = "update" /\ job'[t].done)
      /\ job'[t].user = j.user /\ job'[t].id = j.id
  BY DEF Moves, TypeInv, JobType
<1>3. ASSUME NEW i \in Ids PROVE Revocable(i)'
  <2>1. CASE session[i].user = j.user /\ i # j.id
    BY <1>2, <2>1 DEF Revocable, ToRevoke, ToDelete, Revoking
  <2>2. CASE ~(session[i].user = j.user /\ i # j.id)
    <3>1. session'[i] = session[i]
      BY <2>2
    <3>2. ASSUME NEW x \in Threads, Revoking(x, session[i].user), job[x].id # i
          PROVE  /\ pc'[x] = pc[x] /\ job'[x].id = job[x].id /\ job'[x].user = job[x].user
                 /\ job'[x].done = job[x].done
      <4>1. x # t
        BY <2>2, <3>2 DEF Revoking
      <4>2. QED
        BY <3>2, <4>1, OthersRevoke
    <3>3. Revocable(i)
      BY DEF RevokeInv
    <3>4. QED
      BY <3>1, <3>2, <3>3 DEF Revocable, ToRevoke, ToDelete, Revoking
  <2>3. QED
    BY <2>1, <2>2
<1>4. QED
  BY <1>1, <1>3 DEF RevokeInv

\* A step that changes no session, and gives up no revocation.
LEMMA SameSessionsRevoke ==
  ASSUME TypeInv, RevokeInv, NEW t \in Threads, NEW s, NEW j, Moves(t, s, j),
         s \in {"update", "delete"} => j.id = 0, s # "logout",
         pc[t] \notin {"revoke_db", "revoke_mem"},
         pc[t] = "update" => ~job[t].done \/ job[t].user \in unrevoked',
         unrevoked \subseteq unrevoked', errors' = errors, session' = session
  PROVE  RevokeInv'
BY QuietRevoke

\* Logins make sessions that are up to date, or known to be late.
LEMMA SignInRevoke ==
  ASSUME TypeInv, RevokeInv, NEW t \in Threads,
         LoginUse(t) \/ SessionPut(t) \/ SessionInsert(t) \/ SetupCreate(t)
  PROVE  RevokeInv'
<1>0. /\ job[t] \in Job /\ Fits(pc[t], job[t], sessions)
      /\ session \in [Ids -> Session] /\ sessions \in 0 .. MaxSessions
  BY DEF TypeInv, JobType, SessionType
<1>1. CASE LoginUse(t)
  <2>1. pc[t] = "use" /\ UNCHANGED <<accountVars, session, errors>>
    BY <1>1 DEF LoginUse, counts
  <2>2. Moves(t, "touch", job[t]) \/ Moves(t, "idle", NoJob)
    BY <1>1, GoToMoves, FinishMoves DEF LoginUse
  <2>3. QED
    BY <2>1, <2>2, SameSessionsRevoke DEF accountVars
<1>2. CASE SessionPut(t)
  <2> DEFINE i == sessions + 1
             j == [job[t] EXCEPT !.id = i]
  <2>1. pc[t] = "put" /\ Moves(t, "insert", j) /\ unrevoked' = unrevoked /\ i > sessions /\ i \in Int
    BY <1>0, <1>2, GoToMoves DEF SessionPut, accountVars
  <2>2. errors' = errors \/ errors' = errors + 1
    BY <1>2 DEF SessionPut
  <2>3. errors > 0 => errors' > 0
    BY <2>2 DEF TypeInv, LockType
  <2>4. PICK ok \in BOOLEAN : session' = [session EXCEPT ![i] =
               IF ok /\ user[job[t].user].exists
               THEN [user |-> job[t].user, role |-> job[t].role, mem |-> FALSE, db |-> TRUE,
                     state |-> IF job[t].old THEN "late" ELSE "fresh"]
               ELSE NoSession]
    BY <1>2 DEF SessionPut
  <2>5. ASSUME NEW n \in Ids
        PROVE  /\ session'[n].db => session[n].db \/ n > sessions
               /\ session'[n] = session[n] \/ session'[n].state \in {"late", "fresh"}
    BY <1>0, <2>1, <2>4 DEF NoSession
  <2> HIDE DEF j
  <2>6. QED
    BY <2>1, <2>3, <2>5, QuietRevoke
<1>3. CASE SessionInsert(t)
  <2> DEFINE i == job[t].id
  <2>1. pc[t] = "insert" /\ Moves(t, "idle", NoJob) /\ unrevoked' = unrevoked /\ errors' = errors
    BY <1>3, FinishMoves DEF SessionInsert, accountVars, counts
  <2> DEFINE new == [user |-> job[t].user, role |-> job[t].role, mem |-> TRUE, db |-> session[i].db,
                     state |-> IF job[t].old THEN "late" ELSE "fresh"]
  <2>2. session' = [session EXCEPT ![i] = new] /\ new.state \in {"late", "fresh"} /\ new.db = session[i].db
    BY <1>3 DEF SessionInsert
  <2> HIDE DEF new
  <2>3. ASSUME NEW n \in Ids
        PROVE  /\ session'[n].db => session[n].db
               /\ session'[n] = session[n] \/ session'[n].state \in {"late", "fresh"}
    BY <1>0, <2>2
  <2>4. QED
    BY <2>1, <2>3, QuietRevoke
<1>4. CASE SetupCreate(t)
  <2>1. pc[t] = "setup" /\ Moves(t, "put", job[t]) /\ unrevoked' = unrevoked /\ errors' = errors /\ session' = session
    BY <1>4, GoToMoves DEF SetupCreate, counts
  <2>2. QED
    BY <2>1, SameSessionsRevoke
<1>5. QED
  BY <1>1, <1>2, <1>3, <1>4

\* Changes of accounts: the sessions of the account are marked, and revoked next.
LEMMA WriteRevoke ==
  ASSUME TypeInv, RevokeInv, NEW t \in Threads, CreateWrite(t) \/ UpdateApply(t) \/ DeleteWrite(t)
  PROVE  RevokeInv'
<1> DEFINE u == job[t].user
<1>0. /\ job[t] \in Job /\ Fits(pc[t], job[t], sessions) /\ RevokeJob(t)
      /\ session \in [Ids -> Session]
  BY DEF TypeInv, JobType, SessionType, RevokeInv
<1>1. CASE CreateWrite(t)
  <2>1. /\ AgeJobs(u, t, NoJob) /\ pc' = [pc EXCEPT ![t] = "idle"] /\ pc[t] = "create"
        /\ unrevoked' = IF user[u].exists THEN unrevoked \cup {u} ELSE unrevoked
        /\ session' = IF user[u].exists THEN Aged(u, 0) ELSE session
        /\ errors' = errors
    BY <1>1 DEF CreateWrite, counts
  <2>2. Moves(t, "idle", NoJob)
    BY <2>1, AgeMoves
  <2>3. ASSUME NEW i \in Ids
        PROVE  /\ session'[i].db => session[i].db
               /\ session'[i] = session[i] \/ session'[i].user \in unrevoked'
                   \/ (session'[i].state = session[i].state /\ session'[i].mem = session[i].mem
                       /\ session'[i].db = session[i].db /\ session'[i].user = session[i].user)
    BY <1>0, <2>1, AgedFacts
  <2>4. QED
    BY <2>1, <2>2, <2>3, QuietRevoke
<1>2. CASE UpdateApply(t)
  <2> DEFINE change == Head(job[t].todo)
             j == [job[t] EXCEPT !.todo = Tail(job[t].todo), !.done = TRUE]
             s == IF Len(job[t].todo) = 1 THEN "revoke_db" ELSE "update"
  <2>1. pc[t] = "update" /\ errors' = errors /\ job[t].id = 0
    BY <1>0, <1>2 DEF UpdateApply, counts, RevokeJob
  <2>2. CASE ~Refused(u, change)
    <3>1. /\ session' = Aged(u, 0) /\ unrevoked' = unrevoked
          /\ AgeJobs(u, t, j) /\ pc' = [pc EXCEPT ![t] = s]
      BY <1>2, <2>2 DEF UpdateApply
    <3>2. j.user = u /\ j.id = 0 /\ j.done
      BY <1>0, <2>1 DEF Job
    <3>3. s \in {"revoke_db", "update"}
      OBVIOUS
    <3> HIDE DEF j, s
    <3>4. Moves(t, s, j)
      BY <3>1, AgeMoves
    <3>5. ASSUME NEW i \in Ids
          PROVE  IF session[i].user = u /\ i # 0
                   THEN session'[i].user = u /\ (session'[i].db => session[i].db)
                   ELSE session'[i] = session[i]
      <4>1. session'[i].user = session[i].user /\ session'[i].db = session[i].db
        BY <3>1, AgedFacts
      <4>2. ~(session[i].user = u /\ i # 0) => session'[i] = session[i]
        BY <3>1 DEF Aged
      <4>3. QED
        BY <4>1, <4>2
    <3>6. QED
      BY <2>1, <3>1, <3>2, <3>3, <3>4, <3>5, AgeRevoke
  <2>3. CASE Refused(u, change)
    <3>1. /\ unrevoked' = IF job[t].done THEN unrevoked \cup {u} ELSE unrevoked
          /\ Finish(t) /\ session' = session
      BY <1>2, <2>3 DEF UpdateApply
    <3>2. QED
      BY <2>1, <3>1, FinishMoves, SameSessionsRevoke
  <2>4. QED
    BY <2>2, <2>3
<1>3. CASE DeleteWrite(t)
  <2>1. pc[t] = "delete" /\ errors' = errors /\ unrevoked' = unrevoked /\ job[t].id = 0
    BY <1>0, <1>3 DEF DeleteWrite, counts, RevokeJob
  <2>2. CASE user[u].exists /\ ~LastAdmin(u)
    <3>1. /\ session' = [i \in Ids |-> IF session[i].user = u
                           THEN Kept([Aged(u, 0)[i] EXCEPT !.db = FALSE]) ELSE session[i]]
          /\ AgeJobs(u, t, job[t]) /\ pc' = [pc EXCEPT ![t] = "revoke_db"]
      BY <1>3, <2>2 DEF DeleteWrite
    <3>2. Moves(t, "revoke_db", job[t])
      BY <3>1, AgeMoves
    <3>3. ASSUME NEW i \in Ids, session[i].user = u
          PROVE  (session'[i].mem \/ session'[i].db => session'[i].user = u) /\ ~session'[i].db
      <4> DEFINE a == [Aged(u, 0)[i] EXCEPT !.db = FALSE]
      <4>1. Aged(u, 0)[i] \in Session /\ Aged(u, 0)[i].user = u
        BY <3>3, AgedFacts
      <4>2. a \in Session /\ a.user = u /\ a.db = FALSE
        BY <4>1 DEF Session
      <4>3. session'[i] = Kept(a)
        BY <3>1, <3>3
      <4> HIDE DEF a
      <4>4. QED
        BY <4>2, <4>3, KeptFacts
    <3>4. \A i \in Ids : session[i].user # u => session'[i] = session[i]
      BY <3>1
    <3>5. \A i \in Ids : i # 0
      BY LimitsAssumption DEF Ids
    <3>6. QED
      BY <2>1, <3>2, <3>3, <3>4, <3>5, AgeRevoke
  <2>3. CASE ~user[u].exists \/ LastAdmin(u)
    <3>1. Finish(t) /\ session' = session
      BY <1>3, <2>3 DEF DeleteWrite
    <3>2. QED
      BY <2>1, <3>1, FinishMoves, SameSessionsRevoke
  <2>4. QED
    BY <2>2, <2>3
<1>4. QED
  BY <1>1, <1>2, <1>3

\* revoke_user and revoke_user_except do what they are for.
LEMMA RevokeRevoke ==
  ASSUME TypeInv, RevokeInv, NEW t \in Threads,
         (\E u \in Users : ResetTwoFactor(t, u)) \/ RevokeDb(t) \/ RevokeMem(t)
  PROVE  RevokeInv'
<1>0. /\ job[t] \in Job /\ session \in [Ids -> Session] /\ errors \in Nat
      /\ \A i \in Ids : Revocable(i)
  BY DEF TypeInv, JobType, SessionType, LockType, RevokeInv
<1>1. ASSUME NEW u \in Users, ResetTwoFactor(t, u) PROVE RevokeInv'
  <2>1. pc[t] = "idle" /\ unrevoked' = unrevoked /\ errors' = errors
    BY <1>1 DEF ResetTwoFactor, AdminRequest, Begin, accountVars, counts
  <2>2. CASE twofactor[u].secret # 0
    <3> DEFINE j == [NoJob EXCEPT !.user = u]
    <3>1. session' = Aged(u, 0) /\ AgeJobs(u, t, j) /\ pc' = [pc EXCEPT ![t] = "revoke_db"]
      BY <1>1, <2>2 DEF ResetTwoFactor
    <3>2. j.user = u /\ j.id = 0
      BY DEF NoJob
    <3> HIDE DEF j
    <3>3. Moves(t, "revoke_db", j)
      BY <3>1, AgeMoves
    <3>4. ASSUME NEW i \in Ids
          PROVE  IF session[i].user = u /\ i # 0
                   THEN session'[i].user = u /\ (session'[i].db => session[i].db)
                   ELSE session'[i] = session[i]
      <4>1. session'[i].user = session[i].user /\ session'[i].db = session[i].db
        BY <3>1, AgedFacts
      <4>2. ~(session[i].user = u /\ i # 0) => session'[i] = session[i]
        BY <3>1 DEF Aged
      <4>3. QED
        BY <4>1, <4>2
    <3>5. QED
      BY <2>1, <3>2, <3>3, <3>4, AgeRevoke
  <2>3. CASE twofactor[u].secret = 0
    <3>1. session' = session /\ job' = job /\ pc' = pc
      BY <1>1, <2>3 DEF ResetTwoFactor
    <3>2. QED
      BY <2>1, <3>1 DEF RevokeInv, Revocable, RevokeJob, ToRevoke, ToDelete, Revoking
  <2>4. QED
    BY <2>2, <2>3
<1> DEFINE u == job[t].user
           n == job[t].id
<1>2. ASSUME NEW x \in Threads, NEW i \in Ids, Revoking(x, session[i].user), job[x].id # i,
             ~(session[i].user = u /\ i # n), NEW s, NEW j, Moves(t, s, j)
      PROVE  /\ pc'[x] = pc[x] /\ job'[x].id = job[x].id /\ job'[x].user = job[x].user
             /\ job'[x].done = job[x].done /\ x # t
  <2>1. x # t
    BY <1>2 DEF Revoking
  <2>2. QED
    BY <1>2, <2>1, OthersRevoke
<1>3. CASE RevokeDb(t)
  <2>1. /\ pc[t] = "revoke_db" /\ Moves(t, "revoke_mem", job[t]) /\ unrevoked' = unrevoked
        /\ \/ session' = session /\ errors' = errors + 1
           \/ /\ session' = [i \in Ids |-> IF session[i].user = u /\ i # n
                               THEN Kept([session[i] EXCEPT !.db = FALSE]) ELSE session[i]]
              /\ errors' = errors
    BY <1>3, GoToMoves DEF RevokeDb, accountVars
  <2>2. ASSUME NEW i \in Ids, session[i].user = u, i # n
        PROVE  LET k == Kept([session[i] EXCEPT !.db = FALSE])
               IN ~k.db /\ (k.mem => k.user = u)
    <3> DEFINE a == [session[i] EXCEPT !.db = FALSE]
    <3>1. session[i] \in Session
      BY <1>0
    <3>2. a \in Session /\ a.user = u /\ a.db = FALSE
      BY <2>2, <3>1 DEF Session
    <3> HIDE DEF a
    <3>3. Kept(a) \in Session /\ (Kept(a).mem => Kept(a) = a) /\ ~Kept(a).db
      BY <3>2, KeptFacts
    <3>4. QED
      BY <3>2, <3>3 DEF a
  <2>3. \A x \in Threads : RevokeJob(x)'
    <3>1. \A i \in Ids : session'[i].db => session[i].db
      BY <2>1, <2>2
    <3>2. errors > 0 => errors' > 0
      BY <1>0, <2>1
    <3>3. QED
      BY <2>1, <3>1, <3>2, JobsRevoke
  <2>4. pc'[t] = "revoke_mem" /\ job'[t].user = u /\ job'[t].id = n
    BY <2>1 DEF Moves, TypeInv, JobType
  <2>5. ASSUME NEW i \in Ids PROVE Revocable(i)'
    <3>1. CASE session[i].user = u /\ i # n
      <4>1. session'[i].mem => session'[i].user = u
        BY <2>1, <2>2, <3>1
      <4>2. session'[i].db => errors' > 0
        <5>1. CASE errors' = errors + 1
          BY <1>0, <5>1
        <5>2. CASE session' = [m \in Ids |-> IF session[m].user = u /\ m # n
                                 THEN Kept([session[m] EXCEPT !.db = FALSE]) ELSE session[m]]
          <6>1. session'[i] = Kept([session[i] EXCEPT !.db = FALSE])
            BY <3>1, <5>2
          <6>2. ~session'[i].db
            BY <2>2, <3>1, <6>1
          <6>3. QED
            BY <6>2
        <5>3. QED
          BY <2>1, <5>1, <5>2
      <4>3. session'[i].mem => ToRevoke(i)'
        BY <2>4, <3>1, <4>1 DEF ToRevoke, Revoking
      <4>4. session'[i].db => ToDelete(i)'
        BY <4>2 DEF ToDelete
      <4>5. QED
        BY <4>3, <4>4 DEF Revocable
    <3>2. CASE ~(session[i].user = u /\ i # n)
      <4>1. session'[i] = session[i]
        BY <2>1, <3>2
      <4>2. errors > 0 => errors' > 0
        BY <1>0, <2>1
      <4>3. QED
        BY <1>0, <1>2, <2>1, <3>2, <4>1, <4>2 DEF Revocable, ToRevoke, ToDelete, Revoking
    <3>3. QED
      BY <3>1, <3>2
  <2>6. QED
    BY <2>3, <2>5 DEF RevokeInv
<1>4. CASE RevokeMem(t)
  <2>1. /\ pc[t] = "revoke_mem" /\ Moves(t, "idle", NoJob) /\ unrevoked' = unrevoked /\ errors' = errors
        /\ session' = [i \in Ids |-> IF session[i].user = u /\ i # n
                         THEN Kept([session[i] EXCEPT !.mem = FALSE]) ELSE session[i]]
    BY <1>4, FinishMoves DEF RevokeMem, accountVars, counts
  <2>2. ASSUME NEW i \in Ids, session[i].user = u, i # n
        PROVE  LET k == Kept([session[i] EXCEPT !.mem = FALSE])
               IN /\ ~k.mem
                  /\ k.db => session[i].db /\ k.user = u /\ k.state = session[i].state
    <3> DEFINE a == [session[i] EXCEPT !.mem = FALSE]
    <3>1. session[i] \in Session
      BY <1>0
    <3>2. a \in Session /\ a.user = u /\ a.mem = FALSE /\ a.db = session[i].db /\ a.state = session[i].state
      BY <2>2, <3>1 DEF Session
    <3> HIDE DEF a
    <3>3. Kept(a) \in Session /\ (Kept(a).db => Kept(a) = a) /\ ~Kept(a).mem
      BY <3>2, KeptFacts
    <3>4. QED
      BY <3>2, <3>3 DEF a
  <2>3. \A x \in Threads : RevokeJob(x)'
    <3>1. \A i \in Ids : session'[i].db => session[i].db
      BY <2>1, <2>2
    <3>2. QED
      BY <2>1, <3>1, JobsRevoke
  <2>4. ASSUME NEW i \in Ids PROVE Revocable(i)'
    <3>1. CASE session[i].user = u /\ i # n
      <4>1. ~session'[i].mem /\ (session'[i].db => session[i].db /\ session'[i].user = session[i].user
                                    /\ session'[i].state = session[i].state)
        BY <2>1, <2>2, <3>1
      <4>2. ASSUME session'[i].db, session'[i].state \in {"old", "out"} PROVE ToDelete(i)'
        <5>1. ToDelete(i)
          BY <1>0, <4>1, <4>2 DEF Revocable
        <5>2. CASE errors > 0 \/ session[i].user \in unrevoked
          BY <2>1, <4>1, <4>2, <5>2 DEF ToDelete
        <5>3. ASSUME NEW x \in Threads, Revoking(x, session[i].user), job[x].id # i, pc[x] # "revoke_mem"
              PROVE  ToDelete(i)'
          <6>1. x # t
            BY <2>1, <5>3
          <6>2. /\ pc'[x] = pc[x] /\ job'[x].id = job[x].id /\ job'[x].user = job[x].user
                /\ job'[x].done = job[x].done
            BY <2>1, <6>1, OthersRevoke
          <6>3. QED
            BY <4>1, <4>2, <5>3, <6>2 DEF ToDelete, Revoking
        <5>4. QED
          BY <5>1, <5>2, <5>3 DEF ToDelete
      <4>3. QED
        BY <4>1, <4>2 DEF Revocable
    <3>2. CASE ~(session[i].user = u /\ i # n)
      <4>1. session'[i] = session[i]
        BY <2>1, <3>2
      <4>2. QED
        BY <1>0, <1>2, <2>1, <3>2, <4>1 DEF Revocable, ToRevoke, ToDelete, Revoking
    <3>3. QED
      BY <3>1, <3>2
  <2>5. QED
    BY <2>3, <2>4 DEF RevokeInv
<1>5. QED
  BY <1>1, <1>3, <1>4

\* Changes of one's own account let the session that asks for them stay.
LEMMA OwnRevoke ==
  ASSUME TypeInv, RevokeInv, NEW t \in Threads,
         ChangePassword(t) \/ SetPending(t) \/ NewRecoveryCodes(t) \/ DisableTwoFactor(t) \/ EnableWrite(t)
  PROVE  RevokeInv'
<1>1. /\ pc[t] \in {"change", "pending", "codes", "disable", "enable"}
      /\ unrevoked' = unrevoked /\ errors' = errors
  BY DEF ChangePassword, SetPending, NewRecoveryCodes, DisableTwoFactor, EnableWrite, accountVars, counts
<1>2. \/ Finish(t) /\ session' = session
      \/ /\ session' = Aged(job[t].user, job[t].id)
         /\ AgeJobs(job[t].user, t, job[t]) /\ pc' = [pc EXCEPT ![t] = "revoke_db"]
  BY DEF ChangePassword, SetPending, NewRecoveryCodes, DisableTwoFactor, EnableWrite, codeVars
<1>3. CASE Finish(t) /\ session' = session
  BY <1>1, <1>3, FinishMoves, SameSessionsRevoke
<1>4. CASE /\ session' = Aged(job[t].user, job[t].id)
           /\ AgeJobs(job[t].user, t, job[t]) /\ pc' = [pc EXCEPT ![t] = "revoke_db"]
  <2>1. Moves(t, "revoke_db", job[t])
    BY <1>4, AgeMoves
  <2>2. ASSUME NEW i \in Ids
        PROVE  IF session[i].user = job[t].user /\ i # job[t].id
                 THEN session'[i].user = job[t].user /\ (session'[i].db => session[i].db)
                 ELSE session'[i] = session[i]
    <3>1. session'[i].user = session[i].user /\ session'[i].db = session[i].db
      BY <1>4, AgedFacts
    <3>2. ~(session[i].user = job[t].user /\ i # job[t].id) => session'[i] = session[i]
      BY <1>4 DEF Aged
    <3>3. QED
      BY <3>1, <3>2
  <2>3. QED
    BY <1>1, <2>1, <2>2, AgeRevoke
<1>5. QED
  BY <1>2, <1>3, <1>4

\* A session that is logged out has left the store, unless that failed; one that a
\* restart finds there was not revoked in time.
LEMMA TimeRevoke ==
  ASSUME TypeInv, RevokeInv,
         (\E t \in Threads : LogoutMem(t) \/ \E i \in Ids : LogoutDb(t, i))
           \/ Lapse \/ (\E i \in Ids : Expire(i)) \/ Restart
  PROVE  RevokeInv'
<1>0. /\ session \in [Ids -> Session] /\ errors \in Nat
      /\ \A i \in Ids : Revocable(i)
  BY DEF TypeInv, SessionType, LockType, RevokeInv
<1>1. ASSUME NEW t \in Threads, LogoutMem(t) PROVE RevokeInv'
  <2> DEFINE n == job[t].id
             gone == [session[n] EXCEPT !.mem = FALSE, !.state = "out"]
  <2>1. /\ pc[t] = "logout" /\ Finish(t)
        /\ session' = [session EXCEPT ![n] = Kept(gone)]
        /\ UNCHANGED <<unrevoked, errors>>
    BY <1>1 DEF LogoutMem, accountVars, counts
  <2>2. n \in Ids /\ (errors > 0 \/ ~session[n].db)
    BY <2>1, LimitsAssumption DEF TypeInv, JobType, Fits, SessionType, Ids, RevokeInv, RevokeJob
  <2>3. gone \in Session /\ gone.mem = FALSE /\ gone.db = session[n].db
    BY <1>0, <2>2 DEF Session
  <2> HIDE DEF gone
  <2>4. session'[n] = Kept(gone) /\ ~Kept(gone).mem /\ Kept(gone).db = session[n].db
    BY <1>0, <2>1, <2>2, <2>3, KeptFacts
  <2>5. \A i \in Ids \ {n} : session'[i] = session[i]
    BY <1>0, <2>1
  <2>6. Moves(t, "idle", NoJob)
    BY <2>1, FinishMoves
  <2>7. \A x \in Threads : RevokeJob(x)'
    BY <2>1, <2>4, <2>5, <2>6, JobsRevoke
  <2>8. ASSUME NEW i \in Ids PROVE Revocable(i)'
    <3>1. CASE i = n
      BY <2>1, <2>2, <2>4, <3>1 DEF Revocable, ToDelete
    <3>2. CASE i # n
      <4>1. ASSUME NEW x \in Threads, Revoking(x, session[i].user)
            PROVE  /\ pc'[x] = pc[x] /\ job'[x].id = job[x].id /\ job'[x].user = job[x].user
                   /\ job'[x].done = job[x].done
        <5>1. x # t
          BY <2>1, <4>1 DEF Revoking
        <5>2. QED
          BY <2>6, <5>1, OthersRevoke
      <4>2. QED
        BY <1>0, <2>1, <2>5, <3>2, <4>1 DEF Revocable, ToRevoke, ToDelete, Revoking
    <3>3. QED
      BY <3>1, <3>2
  <2>9. QED
    BY <2>7, <2>8 DEF RevokeInv
<1>2. ASSUME NEW t \in Threads, NEW i \in Ids, LogoutDb(t, i) PROVE RevokeInv'
  <2> DEFINE j == [NoJob EXCEPT !.id = i]
  <2>1. /\ pc[t] = "idle" /\ GoTo(t, "logout", j) /\ unrevoked' = unrevoked
        /\ \/ session' = [session EXCEPT ![i].db = FALSE] /\ errors' = errors
           \/ session' = session /\ errors' = errors + 1
    BY <1>2 DEF LogoutDb, Begin, accountVars
  <2>2. j.id = i
    BY DEF NoJob
  <2> HIDE DEF j
  <2>3. Moves(t, "logout", j) /\ (errors > 0 => errors' > 0)
    BY <1>0, <2>1, GoToMoves
  <2>4. ASSUME NEW m \in Ids
        PROVE  /\ session'[m].mem = session[m].mem /\ session'[m].state = session[m].state
               /\ session'[m].user = session[m].user
               /\ session'[m].db => session[m].db
    BY <1>0, <2>1 DEF Session
  <2>5. errors' > 0 \/ ~session'[i].db
    BY <1>0, <2>1 DEF Session
  <2>6. \A x \in Threads : RevokeJob(x)'
    BY <2>2, <2>3, <2>4, <2>5, JobsRevoke
  <2>7. ASSUME NEW m \in Ids PROVE Revocable(m)'
    <3>1. ASSUME NEW x \in Threads, Revoking(x, session[m].user)
          PROVE  /\ pc'[x] = pc[x] /\ job'[x].id = job[x].id /\ job'[x].user = job[x].user
                 /\ job'[x].done = job[x].done
      <4>1. x # t
        BY <2>1, <3>1 DEF Revoking
      <4>2. QED
        BY <2>3, <4>1, OthersRevoke
    <3>2. session'[m].mem /\ session'[m].state = "old" => ToRevoke(m)'
      BY <1>0, <2>1, <2>4, <3>1 DEF Revocable, ToRevoke, Revoking
    <3>3. session'[m].db /\ session'[m].state \in {"old", "out"} => ToDelete(m)'
      BY <1>0, <2>1, <2>3, <2>4, <3>1 DEF Revocable, ToDelete, Revoking
    <3>4. QED
      BY <3>2, <3>3 DEF Revocable
  <2>8. QED
    BY <2>6, <2>7 DEF RevokeInv
<1>3. CASE Lapse
  BY <1>3 DEF Lapse, RevokeInv, Revocable, RevokeJob, ToRevoke, ToDelete, Revoking, accountVars, counts
<1>4. ASSUME NEW i \in Ids, Expire(i) PROVE RevokeInv'
  <2>1. /\ session' = [session EXCEPT ![i] = NoSession] /\ UNCHANGED <<unrevoked, errors, pc, job>>
    BY <1>4 DEF Expire, accountVars, counts
  <2>2. \A m \in Ids : session'[m] = session[m] \/ (~session'[m].mem /\ ~session'[m].db)
    BY <1>0, <2>1 DEF NoSession
  <2>3. \A m \in Ids : Revocable(m)'
    BY <1>0, <2>1, <2>2 DEF Revocable, ToRevoke, ToDelete, Revoking
  <2>4. ASSUME NEW x \in Threads PROVE RevokeJob(x)'
    <3>1. RevokeJob(x) /\ Fits(pc[x], job[x], sessions)
      BY DEF RevokeInv, TypeInv, JobType
    <3>2. pc[x] = "logout" => job[x].id \in Ids
      BY <3>1, LimitsAssumption DEF Fits, TypeInv, SessionType, Ids
    <3>3. QED
      BY <2>1, <2>2, <3>1, <3>2 DEF RevokeJob
  <2>5. QED
    BY <2>3, <2>4 DEF RevokeInv
<1>5. CASE Restart
  <2>1. /\ session' = [i \in Ids |-> Kept([session[i] EXCEPT !.mem = session[i].db])]
        /\ unrevoked' = unrevoked \cup {session[i].user : i \in {n \in Ids : session[n].db
                                                                /\ session[n].state # "fresh"}}
        /\ pc' = [t \in Threads |-> "idle"]
    BY <1>5 DEF Restart
  <2>2. ASSUME NEW i \in Ids, session'[i].mem \/ session'[i].db, session'[i].state \in {"old", "out"}
        PROVE  session'[i].user \in unrevoked'
    <3> DEFINE a == [session[i] EXCEPT !.mem = session[i].db]
    <3>1. session[i] \in Session
      BY <1>0
    <3>2. /\ a \in Session /\ a.user = session[i].user /\ a.mem = session[i].db /\ a.db = session[i].db
          /\ a.state = session[i].state
      BY <3>1 DEF Session
    <3>3. session'[i] = Kept(a)
      BY <2>1
    <3> HIDE DEF a
    <3>4. session[i].db /\ session'[i] = a
      BY <2>2, <3>2, <3>3, KeptFacts
    <3>5. QED
      BY <2>1, <2>2, <3>2, <3>4
  <2>3. \A i \in Ids : Revocable(i)'
    BY <2>2 DEF Revocable, ToRevoke, ToDelete
  <2>4. \A x \in Threads : RevokeJob(x)'
    BY <2>1 DEF RevokeJob
  <2>5. QED
    BY <2>3, <2>4 DEF RevokeInv
<1>6. QED
  BY <1>1, <1>2, <1>3, <1>4, <1>5

\* Every step keeps what is still to be revoked.
LEMMA RevokeStep ==
  ASSUME TypeInv, RevokeInv, Next
  PROVE  RevokeInv'
<1>1. ASSUME NEW t \in Threads, NEW s, NEW j, Plain(t, s, j)
      PROVE  RevokeInv'
  BY <1>1, SameSessionsRevoke DEF Plain, accountVars
<1>2. ASSUME NEW t \in Threads, SignIn(t) PROVE RevokeInv'
  BY <1>1, <1>2, LoginPlain, SignInRevoke DEF SignIn
<1>3. ASSUME NEW t \in Threads, Manage(t) PROVE RevokeInv'
  BY <1>1, <1>3, ManagePlain, WriteRevoke, RevokeRevoke DEF Manage
<1>4. ASSUME NEW t \in Threads, Own(t) PROVE RevokeInv'
  BY <1>1, <1>4, OwnPlain, OwnRevoke, TimeRevoke DEF Own
<1>5. QED
  BY <1>2, <1>3, <1>4, TimeRevoke DEF Next

\* No account has lost rights yet.
LEMMA RevokeInit ==
  ASSUME Init
  PROVE  RevokeInv
<1>1. \A i \in Ids : session[i].state = "fresh"
  BY DEF Init, NoSession
<1>2. \A t \in Threads : pc[t] = "idle"
  BY DEF Init
<1>3. QED
  BY <1>1, <1>2 DEF RevokeInv, Revocable, RevokeJob

\* Every request, and every answer of the store, keeps the types and what they
\* rest on: the account a request works on is one of Users, an update has changes
\* left to make, a session that is in memory or in the store was made.
THEOREM TypeInvCorrect == Spec => []TypeInv
<1>1. ASSUME TypeInv, UNCHANGED vars PROVE TypeInv'
  BY <1>1 DEF vars, TypeInv, AccountType, FactorType, SessionType, LockType, JobType
<1>2. QED
  BY TypeInit, TypeStep, <1>1, PTL DEF Spec

\* The types of the module: rows, sessions, locks, and each request's job at its step.
THEOREM TypeCorrect == Spec => []TypeOK
<1>1. TypeInv => TypeOK
  BY LimitsAssumption DEF TypeInv, AccountType, FactorType, FactorRow, SessionType, LockType, JobType, TypeOK
<1>2. QED
  BY TypeInvCorrect, <1>1, PTL

\* A session whose account lost rights, or that was logged out, is gone from memory
\* and from the store, or a request that will remove it is on its way: for every set
\* of accounts, of requests that run together and of changes they ask for.
THEOREM RevocationHoldsCorrect == Spec => []RevocationHolds
<1>1. ASSUME RevokeInv, UNCHANGED vars PROVE RevokeInv'
  BY <1>1 DEF vars, RevokeInv, Revocable, RevokeJob, ToRevoke, ToDelete, Revoking
<1>2. ASSUME TypeInv, RevokeInv, [Next]_vars PROVE RevokeInv'
  BY <1>1, <1>2, RevokeStep
<1>3. RevokeInv => RevocationHolds
  BY DEF RevokeInv, Revocable, ToRevoke, ToDelete, RevocationHolds, OldSessionsRevoked, NothingToRevive
<1>4. QED
  BY TypeInvCorrect, RevokeInit, <1>2, <1>3, PTL DEF Spec
----------------------------------------------------------------------------
(* A code works once *)

\* The secrets and the sets of recovery codes in the store were generated, and no
\* two are the same.
SecretsDiffer ==
  /\ \A u \in Users : /\ twofactor[u].secret <= fresh /\ twofactor[u].pending <= fresh
                      /\ twofactor[u].recovery <= fresh
  /\ \A u, w \in Users : twofactor[u].secret # 0 => twofactor[u].secret # twofactor[w].pending
  /\ \A u \in Users, w \in Users : u # w =>
       /\ twofactor[u].secret # 0 => twofactor[u].secret # twofactor[w].secret
       /\ twofactor[u].pending # 0 => twofactor[u].pending # twofactor[w].pending
       /\ twofactor[u].recovery # 0 => twofactor[u].recovery # twofactor[w].recovery

\* A one-time code that was used is of no pending secret, and of the secret in
\* force only up to the last step used; a recovery code that was used is gone.
Spent(code) ==
  /\ code.of \in 1 .. fresh
  /\ code.kind = "totp" => \A u \in Users :
       /\ twofactor[u].pending # code.of
       /\ twofactor[u].secret = code.of => code.step <= twofactor[u].last
  /\ code.kind = "recovery" => \A u \in Users : twofactor[u].recovery # code.of

\* The one-time code a login or two_factor_enable has checked is of a secret of its
\* account, in force or pending then, and since then of no other account's.
HeldCode(t) ==
  LET u == job[t].user
      code == job[t].code
  IN /\ pc[t] \in {"use", "enable"} =>
          code.of \in 1 .. fresh /\ code.kind \in {"totp", "recovery"}
     /\ pc[t] = "use" /\ code.kind = "totp" =>
          /\ code.of = job[t].secret
          /\ \A w \in Users : twofactor[w].pending # code.of /\ (w # u => twofactor[w].secret # code.of)
     /\ pc[t] = "enable" =>
          /\ code.kind = "totp"
          /\ \A w \in Users \ {u} : twofactor[w].pending # code.of /\ twofactor[w].secret # code.of

CodesInv ==
  /\ ~reused /\ SecretsDiffer
  /\ \A code \in used : Spent(code)
  /\ \A t \in Threads : HeldCode(t)

\* What the numbers of secrets are.
LEMMA RowType ==
  ASSUME TypeInv
  PROVE  /\ fresh \in Nat
         /\ \A u \in Users : /\ twofactor[u].secret \in Nat /\ twofactor[u].pending \in Nat
                             /\ twofactor[u].recovery \in Nat /\ twofactor[u].last \in Nat
                             /\ twofactor[u] \in FactorRow
         /\ used \subseteq Codes
         /\ \A code \in Codes : code.of \in Nat /\ code.step \in Nat
         /\ \A row \in FactorRow : /\ row.secret \in Nat /\ row.pending \in Nat
                                  /\ row.recovery \in Nat /\ row.last \in Nat
<1>1. ASSUME NEW row \in FactorRow
      PROVE  row.secret \in Nat /\ row.pending \in Nat /\ row.recovery \in Nat /\ row.last \in Nat
  <2>1. 0 .. MaxFresh \subseteq Nat /\ {0} \cup CodeSteps \subseteq Nat
    BY LimitsAssumption, StepsAssumption
  <2>2. QED
    BY <2>1 DEF FactorRow
<1>2. ASSUME NEW code \in Codes PROVE code.of \in Nat /\ code.step \in Nat
  <2>1. CASE code \in {NoCode, BadCode}
    BY <2>1 DEF NoCode, BadCode
  <2>2. CASE code \notin {NoCode, BadCode}
    <3>1. \/ code \in [kind : {"totp"}, of : Fresh, step : CodeSteps]
          \/ code \in [kind : {"recovery"}, of : Fresh, step : {0}]
      BY <2>2 DEF Codes
    <3>2. Fresh \subseteq Nat /\ CodeSteps \subseteq Nat
      BY LimitsAssumption, StepsAssumption DEF Fresh
    <3>3. CASE code \in [kind : {"totp"}, of : Fresh, step : CodeSteps]
      <4>1. code.of \in Fresh /\ code.step \in CodeSteps
        BY <3>3
      <4>2. QED
        BY <3>2, <4>1
    <3>4. CASE code \in [kind : {"recovery"}, of : Fresh, step : {0}]
      <4> DEFINE Zero == {0}
      <4>0. Zero \subseteq Nat /\ code \in [kind : {"recovery"}, of : Fresh, step : Zero]
        BY <3>4
      <4> HIDE DEF Zero
      <4>1. code.of \in Fresh /\ code.step \in Zero
        BY <4>0
      <4>2. QED
        BY <3>2, <4>0, <4>1
    <3>5. QED
      BY <3>1, <3>3, <3>4
  <2>3. QED
    BY <2>1, <2>2
<1>3. fresh \in Nat /\ used \subseteq Codes /\ \A u \in Users : twofactor[u] \in FactorRow
  BY LimitsAssumption DEF TypeInv, FactorType
<1>4. QED
  BY <1>1, <1>2, <1>3

\* The codes that the other requests have checked do not change.
LEMMA OthersCode ==
  ASSUME TypeInv, NEW t \in Threads, NEW s, NEW j, Moves(t, s, j), NEW x \in Threads, x # t
  PROVE  /\ pc'[x] = pc[x] /\ job'[x].code = job[x].code /\ job'[x].user = job[x].user
         /\ job'[x].secret = job[x].secret
<1>1. /\ pc'[x] = pc[x] /\ job[x] \in Job
      /\ job'[x] \in {job[x], [job[x] EXCEPT !.old = TRUE]}
  BY DEF TypeInv, JobType, Moves
<1>2. QED
  BY <1>1 DEF Job

\* A step that leaves the secrets alone; if it checks a code, that code is of a
\* secret of the account.
LEMMA SameSecrets ==
  ASSUME TypeInv, CodesInv, NEW t \in Threads, NEW s, NEW j, Moves(t, s, j),
         s \in {"use", "enable"} => j.user \in Users /\ Checked(s, j),
         UNCHANGED codeVars, fresh' = fresh
  PROVE  CodesInv'
<1>1. ~reused' /\ SecretsDiffer' /\ \A code \in used' : Spent(code)'
  BY DEF CodesInv, SecretsDiffer, Spent, codeVars
<1>2. ASSUME NEW x \in Threads PROVE HeldCode(x)'
  <2>1. CASE x = t
    <3>1. pc'[x] = s /\ job'[x] = j
      BY <2>1 DEF Moves, TypeInv, JobType
    <3>2. CASE s = "use"
      <4>1. j.user \in Users /\ Checked(s, j)
        BY <3>2
      <4>2. QED
        BY <3>1, <3>2, <4>1, RowType DEF CodesInv, SecretsDiffer, HeldCode, Checked, codeVars
    <3>3. CASE s = "enable"
      <4>1. j.user \in Users /\ Checked(s, j)
        BY <3>3
      <4>2. QED
        BY <3>1, <3>3, <4>1, RowType DEF CodesInv, SecretsDiffer, HeldCode, Checked, codeVars
    <3>4. CASE s \notin {"use", "enable"}
      BY <3>1, <3>4 DEF HeldCode
    <3>5. QED
      BY <3>2, <3>3, <3>4
  <2>2. CASE x # t
    <3>1. /\ pc'[x] = pc[x] /\ job'[x].code = job[x].code /\ job'[x].user = job[x].user
          /\ job'[x].secret = job[x].secret
      BY <2>2, OthersCode
    <3>2. HeldCode(x)
      BY DEF CodesInv
    <3>3. QED
      BY <3>1, <3>2 DEF HeldCode, codeVars
  <2>3. QED
    BY <2>1, <2>2
<1>3. QED
  BY <1>1, <1>2 DEF CodesInv

\* A row of secrets is written: with secrets it had, its pending one in force now,
\* or new ones; the last step used stays, or belongs to another secret now.
Rewritten(u, row) ==
  /\ twofactor' = [twofactor EXCEPT ![u] = row]
  /\ fresh' \in {fresh, fresh + 1}
  /\ \/ row.secret \in {0, twofactor[u].pending}
     \/ row.secret = twofactor[u].secret /\ twofactor[u].last <= row.last
  /\ row.pending \in {0, twofactor[u].pending} \/ (row.pending = fresh + 1 /\ fresh' = fresh + 1)
  /\ row.pending # 0 => row.secret \in {0, twofactor[u].secret}
  /\ row.recovery \in {0, twofactor[u].recovery} \/ (row.recovery = fresh + 1 /\ fresh' = fresh + 1)

\* Such a step keeps the secrets apart, and the codes that were used or checked
\* where they are.
LEMMA RewrittenCodes ==
  ASSUME TypeInv, CodesInv, NEW t \in Threads, NEW s, NEW j, Moves(t, s, j), s \notin {"use", "enable"},
         NEW u \in Users, NEW row \in FactorRow, Rewritten(u, row)
  PROVE  /\ SecretsDiffer'
         /\ \A code \in used : Spent(code)'
         /\ \A x \in Threads : HeldCode(x)'
<1>0. /\ row.secret \in Nat /\ row.pending \in Nat /\ row.recovery \in Nat /\ row.last \in Nat
      /\ fresh \in Nat /\ fresh' \in Nat /\ fresh <= fresh'
  BY RowType DEF Rewritten
<1>1. /\ twofactor'[u] = row
      /\ \A w \in Users \ {u} : twofactor'[w] = twofactor[w]
  BY DEF Rewritten, TypeInv, FactorType
<1>2. SecretsDiffer'
  <2>1. \A w \in Users : /\ twofactor'[w].secret <= fresh' /\ twofactor'[w].pending <= fresh'
                         /\ twofactor'[w].recovery <= fresh'
    BY <1>0, <1>1, RowType DEF CodesInv, SecretsDiffer, Rewritten
  <2>2. \A v, w \in Users : twofactor'[v].secret # 0 => twofactor'[v].secret # twofactor'[w].pending
    BY <1>0, <1>1, RowType DEF CodesInv, SecretsDiffer, Rewritten
  <2>3. \A v, w \in Users : v # w => (twofactor'[v].secret # 0 => twofactor'[v].secret # twofactor'[w].secret)
    BY <1>0, <1>1, RowType DEF CodesInv, SecretsDiffer, Rewritten
  <2>4. \A v, w \in Users : v # w => (twofactor'[v].pending # 0 => twofactor'[v].pending # twofactor'[w].pending)
    BY <1>0, <1>1, RowType DEF CodesInv, SecretsDiffer, Rewritten
  <2>5. \A v, w \in Users : v # w => (twofactor'[v].recovery # 0 => twofactor'[v].recovery # twofactor'[w].recovery)
    BY <1>0, <1>1, RowType DEF CodesInv, SecretsDiffer, Rewritten
  <2>6. QED
    BY <2>1, <2>2, <2>3, <2>4, <2>5 DEF SecretsDiffer
<1>3. ASSUME NEW code \in used PROVE Spent(code)'
  <2>1. Spent(code) /\ code.of \in Nat /\ code.step \in Nat
    BY RowType DEF CodesInv
  <2>2. code.of \in 1 .. fresh'
    BY <1>0, <2>1 DEF Spent
  <2>3. code.kind = "totp" => \A w \in Users :
          /\ twofactor'[w].pending # code.of
          /\ twofactor'[w].secret = code.of => code.step <= twofactor'[w].last
    BY <1>0, <1>1, <2>1, RowType DEF Spent, Rewritten
  <2>4. code.kind = "recovery" => \A w \in Users : twofactor'[w].recovery # code.of
    BY <1>0, <1>1, <2>1, RowType DEF Spent, Rewritten
  <2>5. QED
    BY <2>2, <2>3, <2>4 DEF Spent
<1>4. ASSUME NEW x \in Threads PROVE HeldCode(x)'
  <2>1. CASE x = t
    <3>1. pc'[x] = s
      BY <2>1 DEF Moves, TypeInv, JobType
    <3>2. QED
      BY <3>1 DEF HeldCode
  <2>2. CASE x # t
    <3>1. /\ pc'[x] = pc[x] /\ job'[x].code = job[x].code /\ job'[x].user = job[x].user
          /\ job'[x].secret = job[x].secret
      BY <2>2, OthersCode
    <3>2. HeldCode(x)
      BY DEF CodesInv
    <3>3. CASE pc[x] = "use"
      BY <1>0, <1>1, <3>1, <3>2, <3>3, RowType DEF HeldCode, Rewritten
    <3>4. CASE pc[x] = "enable"
      BY <1>0, <1>1, <3>1, <3>2, <3>4, RowType DEF HeldCode, Rewritten
    <3>5. QED
      BY <3>1, <3>3, <3>4 DEF HeldCode
  <2>3. QED
    BY <2>1, <2>2
<1>5. QED
  BY <1>2, <1>3, <1>4

\* A row of secrets is written, and no code is used.
LEMMA RewrittenQuiet ==
  ASSUME TypeInv, CodesInv, NEW t \in Threads, NEW s, NEW j, Moves(t, s, j), s \notin {"use", "enable"},
         NEW u \in Users, NEW row \in FactorRow, Rewritten(u, row), UNCHANGED <<used, reused>>
  PROVE  CodesInv'
BY RewrittenCodes DEF CodesInv

\* Two-factor login is turned off.
LEMMA NoRowCodes ==
  ASSUME TypeInv, CodesInv, NEW t \in Threads, NEW s, NEW j, Moves(t, s, j), s \notin {"use", "enable"},
         NEW u \in Users, twofactor' = [twofactor EXCEPT ![u] = NoTwoFactor],
         UNCHANGED <<used, reused, fresh>>
  PROVE  CodesInv'
BY NoRow, RewrittenQuiet DEF Rewritten, NoTwoFactor

\* A login uses its code: a one-time code only if no later one of that secret was
\* used, a recovery code only while it is there.
LEMMA UseCodes ==
  ASSUME TypeInv, CodesInv, NEW t \in Threads, LoginUse(t)
  PROVE  CodesInv'
<1> DEFINE u == job[t].user
           row == twofactor[u]
           code == job[t].code
<1>1. job[t] \in Job /\ Fits(pc[t], job[t], sessions)
  BY DEF TypeInv, JobType
<1>2. /\ pc[t] = "use" /\ u \in Users /\ row \in FactorRow /\ code \in Codes /\ fresh' = fresh
  BY <1>1, RowType DEF LoginUse, Fits, Job, counts
<1>3. HeldCode(t)
  BY DEF CodesInv
<1>4. /\ row.secret \in Nat /\ row.recovery \in Nat /\ row.last \in Nat /\ row.pending \in Nat
      /\ code.step \in Nat /\ code.of \in Nat /\ code.kind \in {"totp", "recovery"} /\ code.of \in 1 .. fresh
  BY <1>2, <1>3, RowType DEF HeldCode
<1>5. CASE Accepted(row, code)
  <2> DEFINE new == IF code.kind = "totp" THEN [row EXCEPT !.last = code.step] ELSE [row EXCEPT !.recovery = 0]
  <2>1. /\ twofactor' = [twofactor EXCEPT ![u] = new]
        /\ used' = used \cup {code} /\ reused' = (reused \/ (code \in used /\ row.secret = job[t].secret))
        /\ GoTo(t, "touch", job[t])
    BY <1>5 DEF LoginUse
  <2>2. Moves(t, "touch", job[t])
    BY <2>1, GoToMoves
  <2>3. code.kind = "totp" =>
          /\ new = [row EXCEPT !.last = code.step] /\ row.last < code.step
          /\ code.step \in {0} \cup CodeSteps
    <3>1. code.kind = "totp" => code.step \in {0} \cup CodeSteps
      BY <1>2 DEF Codes, BadCode, NoCode
    <3>2. QED
      BY <1>5, <3>1 DEF Accepted
  <2>4. code.kind = "recovery" => new = [row EXCEPT !.recovery = 0] /\ row.recovery = code.of
    BY <1>5 DEF Accepted
  <2>5. new \in FactorRow /\ new.secret = row.secret /\ new.pending = row.pending
    BY <1>2, <1>4, <2>3, <2>4, LimitsAssumption DEF FactorRow
  <2>6. code.kind = "totp" => new.last = code.step /\ new.recovery = row.recovery
    BY <1>2, <2>3 DEF FactorRow
  <2>7. code.kind = "recovery" => new.last = row.last /\ new.recovery = 0
    BY <1>2, <2>4 DEF FactorRow
  <2> HIDE DEF new
  <2>8. Rewritten(u, new)
    <3>1. row.last <= new.last
      BY <1>4, <2>3, <2>6, <2>7
    <3>2. new.pending # 0 => new.secret \in {0, row.secret}
      BY <2>5
    <3>3. QED
      BY <1>2, <1>4, <2>1, <2>5, <2>6, <2>7, <3>1, <3>2 DEF Rewritten
  <2>9. /\ SecretsDiffer'
        /\ \A c \in used : Spent(c)'
        /\ \A x \in Threads : HeldCode(x)'
    BY <1>2, <2>2, <2>5, <2>8, RewrittenCodes
  <2>10. /\ twofactor'[u] = new /\ \A w \in Users \ {u} : twofactor'[w] = twofactor[w]
    BY <1>2, <2>1 DEF TypeInv, FactorType
  <2>11. ASSUME NEW c, c = code PROVE Spent(c)'
    <3>1. CASE code.kind = "totp"
      <4>1. ASSUME NEW w \in Users
            PROVE  twofactor'[w].pending # c.of /\ (twofactor'[w].secret = c.of => c.step <= twofactor'[w].last)
        <5>1. twofactor[w].pending # c.of /\ (w # u => twofactor[w].secret # c.of)
          BY <1>2, <1>3, <2>11, <3>1 DEF HeldCode
        <5>2. CASE w = u
          BY <1>4, <2>5, <2>6, <2>10, <2>11, <3>1, <5>1, <5>2
        <5>3. CASE w # u
          BY <2>10, <5>1, <5>3
        <5>4. QED
          BY <5>2, <5>3
      <4>2. QED
        BY <1>2, <1>4, <2>11, <3>1, <4>1 DEF Spent
    <3>2. CASE code.kind = "recovery"
      <4>1. ASSUME NEW w \in Users PROVE twofactor'[w].recovery # c.of
        <5>1. CASE w = u
          BY <1>4, <2>7, <2>10, <2>11, <3>2, <5>1
        <5>2. CASE w # u
          BY <1>2, <1>4, <2>4, <2>10, <2>11, <3>2, <5>2 DEF CodesInv, SecretsDiffer
        <5>3. QED
          BY <5>1, <5>2
      <4>2. QED
        BY <1>2, <1>4, <2>11, <3>2, <4>1 DEF Spent
    <3>3. QED
      BY <1>4, <3>1, <3>2
  <2>12. ~reused'
    <3>1. code.kind = "totp" => ~(code \in used /\ row.secret = job[t].secret)
      BY <1>2, <1>3, <1>4, <2>3 DEF HeldCode, CodesInv, Spent
    <3>2. code.kind = "recovery" => code \notin used
      BY <1>2, <2>4 DEF CodesInv, Spent
    <3>3. QED
      BY <1>4, <2>1, <3>1, <3>2 DEF CodesInv
  <2>13. \A c \in used' : Spent(c)'
    BY <2>1, <2>9, <2>11
  <2>14. QED
    BY <2>9, <2>12, <2>13 DEF CodesInv
<1>6. CASE ~Accepted(row, code)
  <2>1. Finish(t) /\ UNCHANGED codeVars
    BY <1>6 DEF LoginUse
  <2>2. QED
    BY <1>2, <2>1, FinishMoves, SameSecrets
<1>7. QED
  BY <1>5, <1>6

\* two_factor_enable: the secret that is pending now is in force, its code used; the
\* code is of that secret, or of one that is nobody's any more.
LEMMA EnableCodes ==
  ASSUME TypeInv, CodesInv, NEW t \in Threads, EnableWrite(t)
  PROVE  CodesInv'
<1> DEFINE u == job[t].user
           row == twofactor[u]
           code == job[t].code
<1>1. job[t] \in Job /\ Fits(pc[t], job[t], sessions)
  BY DEF TypeInv, JobType
<1>2. /\ pc[t] = "enable" /\ u \in Users /\ row \in FactorRow /\ code \in Codes
  BY <1>1, RowType DEF EnableWrite, Fits, Job
<1>3. HeldCode(t)
  BY DEF CodesInv
<1>4. /\ row.pending \in Nat /\ code.step \in Nat /\ code.of \in Nat /\ fresh \in Nat
      /\ code.kind = "totp" /\ code.of \in 1 .. fresh
  BY <1>2, <1>3, RowType DEF HeldCode
<1>5. CASE row.pending # 0
  <2> DEFINE new == [exists |-> TRUE, secret |-> row.pending, pending |-> 0,
                     recovery |-> fresh + 1, last |-> code.step]
  <2>1. /\ twofactor' = [twofactor EXCEPT ![u] = new]
        /\ fresh < MaxFresh /\ fresh' = fresh + 1
        /\ used' = used \cup {code} /\ reused' = (reused \/ (code \in used /\ row.pending = code.of))
        /\ AgeJobs(u, t, job[t]) /\ pc' = [pc EXCEPT ![t] = "revoke_db"]
    BY <1>5 DEF EnableWrite
  <2>2. Moves(t, "revoke_db", job[t])
    BY <2>1, AgeMoves
  <2>3. code.step \in {0} \cup CodeSteps
    BY <1>2, <1>4 DEF Codes, BadCode, NoCode
  <2>4. new \in FactorRow
    <3>1. fresh + 1 \in 0 .. MaxFresh /\ 0 \in 0 .. MaxFresh
      BY <1>4, <2>1, LimitsAssumption
    <3>2. QED
      BY <1>2, <2>3, <3>1 DEF FactorRow
  <2>5. Rewritten(u, new)
    BY <1>4, <2>1 DEF Rewritten
  <2>6. /\ twofactor'[u] = new /\ \A w \in Users \ {u} : twofactor'[w] = twofactor[w]
    BY <1>2, <2>1 DEF TypeInv, FactorType
  <2>7. new.pending = 0 /\ new.last = code.step
    OBVIOUS
  <2> HIDE DEF new
  <2>8. /\ SecretsDiffer'
        /\ \A c \in used : Spent(c)'
        /\ \A x \in Threads : HeldCode(x)'
    BY <1>2, <2>2, <2>4, <2>5, RewrittenCodes
  <2>9. ASSUME NEW c, c = code PROVE Spent(c)'
    <3>1. code.of \in 1 .. fresh'
      BY <1>4, <2>1
    <3>2. ASSUME NEW w \in Users
          PROVE  twofactor'[w].pending # code.of /\ (twofactor'[w].secret = code.of => code.step <= twofactor'[w].last)
      <4>1. CASE w = u
        BY <1>4, <2>6, <2>7, <4>1
      <4>2. CASE w # u
        BY <1>2, <1>3, <2>6, <4>2 DEF HeldCode
      <4>3. QED
        BY <4>1, <4>2
    <3>3. QED
      BY <1>4, <2>9, <3>1, <3>2 DEF Spent
  <2>10. ~reused'
    BY <1>2, <1>4, <2>1 DEF CodesInv, Spent
  <2>11. \A c \in used' : Spent(c)'
    BY <2>1, <2>8, <2>9
  <2>12. QED
    BY <2>8, <2>10, <2>11 DEF CodesInv
<1>6. CASE row.pending = 0
  <2>1. Finish(t) /\ UNCHANGED codeVars /\ fresh' = fresh
    BY <1>6 DEF EnableWrite
  <2>2. QED
    BY <2>1, FinishMoves, SameSecrets
<1>7. QED
  BY <1>5, <1>6

\* New secrets and codes are like none there was; the other changes take rows away.
LEMMA WriteCodes ==
  ASSUME TypeInv, CodesInv, NEW t \in Threads,
         SetPending(t) \/ NewRecoveryCodes(t) \/ DisableTwoFactor(t) \/ DeleteWrite(t)
           \/ \E u \in Users : ResetTwoFactor(t, u)
  PROVE  CodesInv'
<1> DEFINE u == job[t].user
           row == twofactor[u]
<1>1. job[t] \in Job /\ Fits(pc[t], job[t], sessions) /\ twofactor \in [Users -> FactorRow] /\ fresh \in Nat
  BY RowType DEF TypeInv, JobType, FactorType
<1>2. CASE SetPending(t)
  <2>1. /\ u \in Users /\ fresh < MaxFresh /\ fresh' = fresh + 1 /\ Finish(t) /\ UNCHANGED <<used, reused>>
        /\ twofactor' = IF user[u].exists
                          THEN [twofactor EXCEPT ![u].exists = TRUE, ![u].pending = fresh + 1]
                          ELSE twofactor
    BY <1>1, <1>2 DEF SetPending, Fits
  <2>2. row \in FactorRow /\ fresh + 1 \in 0 .. MaxFresh /\ row.last \in Nat
    BY <1>1, <2>1, RowType, LimitsAssumption
  <2>3. CASE user[u].exists
    <3> DEFINE new == [row EXCEPT !.exists = TRUE, !.pending = fresh + 1]
    <3>1. twofactor' = [twofactor EXCEPT ![u] = new]
      BY <1>1, <2>1, <2>3
    <3>2. /\ new \in FactorRow /\ new.pending = fresh + 1
          /\ new.secret = row.secret /\ new.recovery = row.recovery /\ new.last = row.last
      BY <2>2 DEF FactorRow
    <3> HIDE DEF new
    <3>3. Rewritten(u, new)
      <4>1. row.last <= new.last
        BY <2>2, <3>2
      <4>2. new.secret = twofactor[u].secret /\ twofactor[u].last <= new.last
        BY <3>2, <4>1
      <4>3. fresh' = fresh + 1 /\ new.pending = fresh + 1 /\ new.recovery = twofactor[u].recovery
        BY <2>1, <3>2
      <4>4. QED
        BY <3>1, <4>2, <4>3 DEF Rewritten
    <3>4. QED
      BY <2>1, <3>2, <3>3, FinishMoves, RewrittenQuiet
  <2>4. CASE ~user[u].exists
    <3>1. Rewritten(u, row)
      BY <1>1, <2>1, <2>2, <2>4 DEF Rewritten
    <3>2. QED
      BY <2>1, <2>2, <3>1, FinishMoves, RewrittenQuiet
  <2>5. QED
    BY <2>3, <2>4
<1>3. CASE NewRecoveryCodes(t)
  <2>1. /\ u \in Users /\ Finish(t) /\ UNCHANGED <<used, reused>>
        /\ \/ /\ fresh < MaxFresh /\ fresh' = fresh + 1
              /\ twofactor' = IF row.exists THEN [twofactor EXCEPT ![u].recovery = fresh + 1]
                                            ELSE twofactor
           \/ fresh' = fresh /\ twofactor' = twofactor
    BY <1>1, <1>3 DEF NewRecoveryCodes, Fits
  <2>2. row \in FactorRow /\ row.last \in Nat
    BY <1>1, <2>1, RowType
  <2>3. CASE fresh < MaxFresh /\ fresh' = fresh + 1
               /\ twofactor' = [twofactor EXCEPT ![u].recovery = fresh + 1]
    <3> DEFINE new == [row EXCEPT !.recovery = fresh + 1]
    <3>1. twofactor' = [twofactor EXCEPT ![u] = new] /\ fresh + 1 \in 0 .. MaxFresh
      BY <1>1, <2>1, <2>3, LimitsAssumption
    <3>2. /\ new \in FactorRow /\ new.pending = row.pending
          /\ new.secret = row.secret /\ new.recovery = fresh + 1 /\ new.last = row.last
      BY <2>2, <3>1 DEF FactorRow
    <3> HIDE DEF new
    <3>3. Rewritten(u, new)
      <4>1. row.last <= new.last
        BY <2>2, <3>2
      <4>2. new.secret = twofactor[u].secret /\ twofactor[u].last <= new.last
        BY <3>2, <4>1
      <4>3. fresh' = fresh + 1 /\ new.recovery = fresh + 1 /\ new.pending = twofactor[u].pending
        BY <2>3, <3>2
      <4>4. QED
        BY <3>1, <4>2, <4>3 DEF Rewritten
    <3>4. QED
      BY <2>1, <3>2, <3>3, FinishMoves, RewrittenQuiet
  <2>4. CASE twofactor' = twofactor /\ fresh' \in {fresh, fresh + 1}
    <3>1. Rewritten(u, row)
      BY <1>1, <2>1, <2>2, <2>4 DEF Rewritten
    <3>2. QED
      BY <2>1, <2>2, <3>1, FinishMoves, RewrittenQuiet
  <2>5. QED
    BY <2>1, <2>3, <2>4
<1>4. CASE DisableTwoFactor(t)
  <2>1. /\ u \in Users /\ Finish(t) /\ twofactor' = [twofactor EXCEPT ![u] = NoTwoFactor]
        /\ UNCHANGED <<used, reused, fresh>>
    BY <1>1, <1>4 DEF DisableTwoFactor, Fits, counts
  <2>2. QED
    BY <2>1, FinishMoves, NoRowCodes
<1>5. CASE DeleteWrite(t)
  <2>1. u \in Users /\ UNCHANGED <<used, reused, fresh>>
    BY <1>1, <1>5 DEF DeleteWrite, Fits, counts
  <2>2. CASE twofactor' = [twofactor EXCEPT ![u] = NoTwoFactor] /\ AgeJobs(u, t, job[t])
               /\ pc' = [pc EXCEPT ![t] = "revoke_db"]
    <3>1. Moves(t, "revoke_db", job[t])
      BY <2>2, AgeMoves
    <3>2. "revoke_db" \notin {"use", "enable"}
      OBVIOUS
    <3>3. UNCHANGED <<used, reused, fresh>>
      BY <2>1
    <3>4. QED
      BY <2>1, <2>2, <3>1, <3>2, <3>3, NoRowCodes
  <2>3. CASE Finish(t) /\ twofactor' = twofactor
    BY <2>1, <2>3, FinishMoves, SameSecrets DEF codeVars
  <2>4. QED
    BY <1>5, <2>2, <2>3 DEF DeleteWrite
<1>6. ASSUME NEW v \in Users, ResetTwoFactor(t, v) PROVE CodesInv'
  <2>1. /\ pc[t] = "idle" /\ twofactor' = [twofactor EXCEPT ![v] = NoTwoFactor] /\ UNCHANGED <<used, reused, fresh>>
    BY <1>6 DEF ResetTwoFactor, AdminRequest, Begin, counts
  <2>2. CASE twofactor[v].secret # 0
    <3>1. AgeJobs(v, t, [NoJob EXCEPT !.user = v]) /\ pc' = [pc EXCEPT ![t] = "revoke_db"]
      BY <1>6, <2>2 DEF ResetTwoFactor
    <3>2. Moves(t, "revoke_db", [NoJob EXCEPT !.user = v])
      BY <3>1, AgeMoves
    <3>3. "revoke_db" \notin {"use", "enable"}
      OBVIOUS
    <3>4. QED
      BY <2>1, <3>2, <3>3, NoRowCodes
  <2>3. CASE ~(twofactor[v].secret # 0)
    <3>1. pc' = pc /\ job' = job
      BY <1>6, <2>3 DEF ResetTwoFactor
    <3>2. Moves(t, "idle", job[t])
      BY <2>1, <3>1 DEF Moves, TypeInv, JobType
    <3>3. QED
      BY <2>1, <3>2, NoRowCodes
  <2>4. QED
    BY <2>2, <2>3
<1>7. QED
  BY <1>2, <1>3, <1>4, <1>5, <1>6

\* A step after which request t has no code checked, and that writes no secret.
LEMMA NoCodeStep ==
  ASSUME TypeInv, CodesInv, NEW t \in Threads, NEW s, NEW j, Moves(t, s, j), s \notin {"use", "enable"},
         UNCHANGED codeVars, fresh' = fresh
  PROVE  CodesInv'
BY SameSecrets

\* The steps that make sessions, change accounts and revoke sessions.
LEMMA OtherCodes ==
  ASSUME TypeInv, CodesInv, NEW t \in Threads,
         SetupCreate(t) \/ SessionPut(t) \/ SessionInsert(t) \/ CreateWrite(t) \/ UpdateApply(t)
           \/ RevokeDb(t) \/ RevokeMem(t) \/ ChangePassword(t) \/ LogoutMem(t)
           \/ \E i \in Ids : LogoutDb(t, i)
  PROVE  CodesInv'
<1>1. UNCHANGED codeVars /\ fresh' = fresh
  BY DEF SetupCreate, SessionPut, SessionInsert, CreateWrite, UpdateApply, RevokeDb, RevokeMem,
         ChangePassword, LogoutMem, LogoutDb, codeVars, counts
<1>2. \E s, j : s \notin {"use", "enable"} /\ Moves(t, s, j)
  <2>1. CASE SetupCreate(t) \/ SessionPut(t) \/ RevokeDb(t)
    <3>1. \E s \in {"put", "insert", "revoke_mem"} : \E j : GoTo(t, s, j)
      BY <2>1 DEF SetupCreate, SessionPut, RevokeDb
    <3>2. QED
      BY <3>1, GoToMoves
  <2>2. CASE \E i \in Ids : LogoutDb(t, i)
    <3>1. \E j : GoTo(t, "logout", j)
      BY <2>2 DEF LogoutDb
    <3>2. QED
      BY <3>1, GoToMoves
  <2>3. CASE SessionInsert(t) \/ RevokeMem(t) \/ LogoutMem(t)
    <3>1. Finish(t)
      BY <2>3 DEF SessionInsert, RevokeMem, LogoutMem
    <3>2. QED
      BY <3>1, FinishMoves
  <2>4. CASE CreateWrite(t)
    <3>1. AgeJobs(job[t].user, t, NoJob) /\ pc' = [pc EXCEPT ![t] = "idle"]
      BY <2>4 DEF CreateWrite
    <3>2. Moves(t, "idle", NoJob)
      BY <3>1, AgeMoves
    <3>3. QED
      BY <3>2
  <2>5. CASE ChangePassword(t) \/ UpdateApply(t)
    <3>1. \/ Finish(t)
          \/ \E s \in {"revoke_db", "update"} : \E u, j : AgeJobs(u, t, j) /\ pc' = [pc EXCEPT ![t] = s]
      BY <2>5 DEF ChangePassword, UpdateApply
    <3>2. CASE Finish(t)
      BY <3>2, FinishMoves
    <3>3. ASSUME NEW s \in {"revoke_db", "update"}, NEW u, NEW j, AgeJobs(u, t, j), pc' = [pc EXCEPT ![t] = s]
          PROVE  \E r, k : r \notin {"use", "enable"} /\ Moves(t, r, k)
      <4>1. Moves(t, s, j)
        BY <3>3, AgeMoves
      <4>2. s \notin {"use", "enable"}
        OBVIOUS
      <4>3. QED
        BY <4>1, <4>2
    <3>4. QED
      BY <3>1, <3>2, <3>3
  <2>6. QED
    BY <2>1, <2>2, <2>3, <2>4, <2>5
<1>3. QED
  BY <1>1, <1>2, NoCodeStep

\* Every step keeps the codes that were used unusable.
LEMMA CodesStep ==
  ASSUME TypeInv, CodesInv, Next
  PROVE  CodesInv'
<1>1. ASSUME NEW t \in Threads, NEW s, NEW j, Plain(t, s, j)
      PROVE  CodesInv'
  <2>1. s \in {"use", "enable"} => j.user \in Users /\ Checked(s, j)
    BY <1>1 DEF Plain, Fits
  <2>2. Moves(t, s, j) /\ UNCHANGED codeVars /\ fresh' = fresh
    BY <1>1 DEF Plain
  <2>3. QED
    BY <2>1, <2>2, SameSecrets
<1>2. ASSUME NEW t \in Threads, SignIn(t) PROVE CodesInv'
  BY <1>1, <1>2, LoginPlain, UseCodes, OtherCodes DEF SignIn
<1>3. ASSUME NEW t \in Threads, Manage(t) PROVE CodesInv'
  BY <1>1, <1>3, ManagePlain, WriteCodes, OtherCodes DEF Manage
<1>4. ASSUME NEW t \in Threads, Own(t) PROVE CodesInv'
  BY <1>1, <1>4, OwnPlain, OtherCodes, WriteCodes, EnableCodes DEF Own
<1>5. CASE Lapse \/ \E i \in Ids : Expire(i)
  <2>1. UNCHANGED <<codeVars, fresh, pc, job>>
    BY <1>5 DEF Lapse, Expire, counts
  <2>2. QED
    BY <2>1 DEF CodesInv, SecretsDiffer, Spent, HeldCode, codeVars
<1>6. CASE Restart
  <2>1. UNCHANGED <<codeVars, fresh>> /\ pc' = [t \in Threads |-> "idle"]
    BY <1>6 DEF Restart
  <2>2. \A t \in Threads : pc'[t] \notin {"use", "enable"}
    BY <2>1
  <2>3. QED
    BY <2>1, <2>2 DEF CodesInv, SecretsDiffer, Spent, HeldCode, codeVars
<1>7. QED
  BY <1>2, <1>3, <1>4, <1>5, <1>6 DEF Next

\* At the start at most one account has secrets, and no code was used.
LEMMA CodesInit ==
  ASSUME Init
  PROVE  CodesInv
<1>1. ~reused /\ used = {} /\ \A t \in Threads : pc[t] = "idle"
  BY DEF Init
<1>2. SecretsDiffer
  <2>1. CASE twofactor = [u \in Users |-> NoTwoFactor] /\ fresh = 0
    BY <2>1 DEF SecretsDiffer, NoTwoFactor
  <2>2. ASSUME NEW w \in Users, twofactor = [u \in Users |-> IF u = w
                 THEN [exists |-> TRUE, secret |-> 1, pending |-> 0, recovery |-> 1, last |-> 0]
                 ELSE NoTwoFactor],
               fresh = 1
        PROVE  SecretsDiffer
    <3>1. \A u \in Users : /\ twofactor[u].pending = 0
                           /\ twofactor[u].secret = IF u = w THEN 1 ELSE 0
                           /\ twofactor[u].recovery = IF u = w THEN 1 ELSE 0
      BY <2>2 DEF NoTwoFactor
    <3>2. QED
      BY <2>2, <3>1 DEF SecretsDiffer
  <2>3. QED
    BY <2>1, <2>2 DEF Init
<1>3. QED
  BY <1>1, <1>2 DEF CodesInv, HeldCode

\* No one-time or recovery code is accepted a second time for the secret it is of,
\* however the sign-ins, the changes of secrets and the restarts interleave.
THEOREM CodesOnceCorrect == Spec => []CodesOnce
<1>1. ASSUME CodesInv, UNCHANGED vars PROVE CodesInv'
  BY <1>1 DEF vars, CodesInv, SecretsDiffer, Spent, HeldCode
<1>2. ASSUME TypeInv, CodesInv, [Next]_vars PROVE CodesInv'
  BY <1>1, <1>2, CodesStep
<1>3. CodesInv => CodesOnce
  BY DEF CodesInv, CodesOnce
<1>4. QED
  BY TypeInvCorrect, CodesInit, <1>2, <1>3, PTL DEF Spec
----------------------------------------------------------------------------
(* Guesses are bounded *)

\* The logins whose password or code is being checked.
Guessing == {t \in Threads : pc[t] \in {"verify", "use"}}

\* Each of them holds a slot; with them the guesses stay within the bound, as a
\* login starts to guess only while the address is not refused.
GuessInv ==
  /\ guesses <= failures
  /\ IsFiniteSet(permits) /\ Cardinality(permits) <= Permits
  /\ Guessing \subseteq permits
  /\ guesses + Cardinality(Guessing) <= MaxFailures - 1 + Permits

\* The numbers are natural numbers.
LEMMA GuessNumbers ==
  ASSUME TypeInv, GuessInv
  PROVE  /\ failures \in Nat /\ guesses \in Nat
         /\ IsFiniteSet(Guessing) /\ Cardinality(Guessing) \in Nat /\ Cardinality(permits) \in Nat
         /\ Cardinality(Guessing) <= Cardinality(permits)
         /\ MaxFailures \in Nat \ {0} /\ Permits \in Nat \ {0}
<1>1. IsFiniteSet(Guessing) /\ Cardinality(Guessing) <= Cardinality(permits)
  BY FS_Subset DEF GuessInv
<1>2. Cardinality(Guessing) \in Nat /\ Cardinality(permits) \in Nat
  BY <1>1, FS_CardinalityType DEF GuessInv
<1>3. QED
  BY <1>1, <1>2, LimitsAssumption DEF TypeInv, LockType

\* Request t moves on, and is not guessing then: it may give back its slot, and
\* count one failure, a guess only if it was guessing; or the failures are forgotten.
NoGuess(t) ==
  /\ \E s \in Steps \ {"verify", "use"} : pc' = [pc EXCEPT ![t] = s]
  /\ permits' \in {permits, permits \ {t}}
  /\ \/ UNCHANGED <<failures, guesses>>
     \/ failures' = 0 /\ guesses' = 0
     \/ failures' = failures + 1 /\ guesses' = guesses
     \/ failures' = failures + 1 /\ guesses' = guesses + 1 /\ t \in Guessing

\* Such a step keeps the bound.
LEMMA NoGuessStep ==
  ASSUME TypeInv, GuessInv, NEW t \in Threads, NoGuess(t)
  PROVE  GuessInv'
<1>1. Guessing' = Guessing \ {t}
  BY DEF Guessing, NoGuess, TypeInv, JobType
<1>2. /\ IsFiniteSet(Guessing \ {t})
      /\ Cardinality(Guessing \ {t}) = IF t \in Guessing THEN Cardinality(Guessing) - 1 ELSE Cardinality(Guessing)
  BY GuessNumbers, FS_RemoveElement
<1>3. /\ IsFiniteSet(permits \ {t})
      /\ Cardinality(permits \ {t}) = IF t \in permits THEN Cardinality(permits) - 1 ELSE Cardinality(permits)
  BY FS_RemoveElement DEF GuessInv
<1>4. IsFiniteSet(permits') /\ Cardinality(permits') <= Permits
  <2>1. CASE permits' = permits
    BY <2>1 DEF GuessInv
  <2>2. CASE permits' = permits \ {t}
    BY <1>3, <2>2, GuessNumbers DEF GuessInv
  <2>3. QED
    BY <2>1, <2>2 DEF NoGuess
<1>5. Guessing' \subseteq permits'
  BY <1>1 DEF GuessInv, NoGuess
<1>6. guesses' <= failures'
  BY GuessNumbers DEF GuessInv, NoGuess
<1>7. guesses' + Cardinality(Guessing') <= MaxFailures - 1 + Permits
  <2> DEFINE n == Cardinality(Guessing)
             m == Cardinality(Guessing')
  <2>1. m = (IF t \in Guessing THEN n - 1 ELSE n) /\ n \in Nat /\ n <= Permits /\ m <= n
        /\ failures \in Nat /\ guesses \in Nat /\ guesses <= failures
        /\ guesses + n <= MaxFailures - 1 + Permits
    BY <1>1, <1>2, GuessNumbers DEF GuessInv
  <2>2. m \in Nat
    <3>1. CASE t \in Guessing
      <4>1. n # 0
        BY <3>1, GuessNumbers, FS_EmptySet
      <4>2. QED
        BY <2>1, <3>1, <4>1
    <3>2. CASE t \notin Guessing
      BY <2>1, <3>2
    <3>3. QED
      BY <3>1, <3>2
  <2> HIDE DEF n, m
  <2>3. CASE UNCHANGED <<failures, guesses>> \/ guesses' = guesses
    <3>1. guesses' + m <= MaxFailures - 1 + Permits
      BY <2>1, <2>2, <2>3, GuessNumbers
    <3>2. QED
      BY <3>1 DEF m
  <2>4. CASE failures' = 0 /\ guesses' = 0
    <3>1. guesses' + m <= MaxFailures - 1 + Permits
      BY <2>1, <2>2, <2>4, GuessNumbers
    <3>2. QED
      BY <3>1 DEF m
  <2>5. CASE guesses' = guesses + 1 /\ t \in Guessing
    <3>1. guesses' + m <= MaxFailures - 1 + Permits
      BY <2>1, <2>2, <2>5, GuessNumbers
    <3>2. QED
      BY <3>1 DEF m
  <2>6. QED
    BY <2>3, <2>4, <2>5 DEF NoGuess
<1>8. QED
  BY <1>4, <1>5, <1>6, <1>7 DEF GuessInv

\* A slot is taken only while one is free; a login that takes one starts to guess,
\* and the address was not refused then.
LEMMA PermitStep ==
  ASSUME TypeInv, GuessInv, NEW t \in Threads, PermitFree, permits' = permits \cup {t}, UNCHANGED throttle,
         \/ ~Throttled /\ pc' = [pc EXCEPT ![t] = "verify"]
         \/ pc[t] = "confirm" /\ pc' = [pc EXCEPT ![t] = "check"]
  PROVE  GuessInv'
<1>1. IsFiniteSet(permits') /\ Cardinality(permits') <= Permits /\ Cardinality(permits') \in Nat
  <2>1. /\ IsFiniteSet(permits \cup {t})
        /\ Cardinality(permits \cup {t}) = IF t \in permits THEN Cardinality(permits) ELSE Cardinality(permits) + 1
    BY FS_AddElement DEF GuessInv
  <2>2. QED
    BY <2>1, GuessNumbers DEF PermitFree
<1>2. CASE ~Throttled /\ pc' = [pc EXCEPT ![t] = "verify"]
  <2>1. Guessing' \subseteq permits'
    BY <1>2 DEF Guessing, GuessInv, TypeInv, JobType
  <2>2. IsFiniteSet(Guessing') /\ Cardinality(Guessing') <= Cardinality(permits')
    BY <1>1, <2>1, FS_Subset
  <2>3. Cardinality(Guessing') \in Nat
    BY <2>2, FS_CardinalityType
  <2>4. guesses' <= failures' /\ guesses' + Cardinality(Guessing') <= MaxFailures - 1 + Permits
    BY <1>1, <1>2, <2>2, <2>3, GuessNumbers DEF Throttled, throttle, GuessInv
  <2>5. QED
    BY <1>1, <2>1, <2>4 DEF GuessInv
<1>3. CASE pc[t] = "confirm" /\ pc' = [pc EXCEPT ![t] = "check"]
  <2>1. Guessing' = Guessing
    BY <1>3 DEF Guessing, TypeInv, JobType
  <2>2. QED
    BY <1>1, <2>1 DEF GuessInv, throttle
<1>4. QED
  BY <1>2, <1>3

\* Request t does not guess, and counts no failure.
Quiet(t) ==
  /\ UNCHANGED throttle
  /\ \/ Finish(t)
     \/ permits' = permits /\ \E s \in Steps \ {"verify", "use"} : pc' = [pc EXCEPT ![t] = s]

\* The steps of a login that guess, and those that ask for a password again.
LEMMA GuessingStep ==
  ASSUME TypeInv, GuessInv, NEW t \in Threads,
         LoginPermit(t) \/ LoginVerify(t) \/ LoginUse(t) \/ LoginTouch(t)
           \/ ConfirmPermit(t) \/ ConfirmCheck(t) \/ ConfirmWrong(t)
  PROVE  GuessInv'
<1>1. ASSUME Finish(t),
             \/ UNCHANGED throttle \/ RecordFailure(FALSE)
             \/ RecordFailure(TRUE) /\ t \in Guessing
             \/ failures' = 0 /\ guesses' = 0
      PROVE  GuessInv'
  <2>1. NoGuess(t)
    BY <1>1 DEF NoGuess, Finish, GoTo, Steps, RecordFailure, throttle
  <2>2. QED
    BY <2>1, NoGuessStep
<1>2. CASE LoginPermit(t)
  BY <1>1, <1>2, PermitStep DEF LoginPermit, GoTo
<1>3. CASE LoginVerify(t)
  <2>1. t \in Guessing
    BY <1>3 DEF LoginVerify, Guessing
  <2>2. \/ Finish(t) /\ (RecordFailure(TRUE) \/ UNCHANGED throttle)
        \/ UNCHANGED <<throttle, permits>> /\ pc' = [pc EXCEPT ![t] = "touch"]
        \/ UNCHANGED <<throttle, permits>> /\ pc' = [pc EXCEPT ![t] = "use"]
    BY <1>3 DEF LoginVerify, GoTo
  <2>3. CASE UNCHANGED <<throttle, permits>> /\ pc' = [pc EXCEPT ![t] = "touch"]
    <3>1. NoGuess(t)
      BY <2>3 DEF NoGuess, Steps, throttle
    <3>2. QED
      BY <3>1, NoGuessStep
  <2>4. CASE UNCHANGED <<throttle, permits>> /\ pc' = [pc EXCEPT ![t] = "use"]
    <3>1. Guessing' = Guessing
      BY <2>1, <2>4 DEF Guessing, TypeInv, JobType
    <3>2. QED
      BY <2>4, <3>1 DEF GuessInv, throttle
  <2>5. QED
    BY <1>1, <2>1, <2>2, <2>3, <2>4
<1>4. CASE LoginUse(t)
  <2>1. t \in Guessing
    BY <1>4 DEF LoginUse, Guessing
  <2>2. \/ Finish(t) /\ RecordFailure(TRUE)
        \/ UNCHANGED <<throttle, permits>> /\ pc' = [pc EXCEPT ![t] = "touch"]
    BY <1>4 DEF LoginUse, GoTo
  <2>3. CASE UNCHANGED <<throttle, permits>> /\ pc' = [pc EXCEPT ![t] = "touch"]
    <3>1. NoGuess(t)
      BY <2>3 DEF NoGuess, Steps, throttle
    <3>2. QED
      BY <3>1, NoGuessStep
  <2>4. QED
    BY <1>1, <2>1, <2>2, <2>3
<1>5. CASE LoginTouch(t)
  <2>1. /\ failures' = 0 /\ guesses' = 0
        /\ Finish(t) \/ (permits' = permits /\ pc' = [pc EXCEPT ![t] = "put"])
    BY <1>5 DEF LoginTouch, GoTo
  <2>2. CASE permits' = permits /\ pc' = [pc EXCEPT ![t] = "put"]
    <3>1. NoGuess(t)
      BY <2>1, <2>2 DEF NoGuess, Steps
    <3>2. QED
      BY <3>1, NoGuessStep
  <2>3. QED
    BY <1>1, <2>1, <2>2
<1>6. CASE ConfirmPermit(t)
  BY <1>1, <1>6, PermitStep DEF ConfirmPermit, GoTo
<1>7. CASE ConfirmCheck(t)
  <2>1. NoGuess(t)
    <3>1. PICK s \in {"wrong", "change", "pending", "codes", "disable"} : pc' = [pc EXCEPT ![t] = s]
      BY <1>7 DEF ConfirmCheck, GoTo
    <3>2. s \in Steps \ {"verify", "use"}
      BY DEF Steps
    <3>3. QED
      BY <1>7, <3>1, <3>2 DEF ConfirmCheck, NoGuess, throttle
  <2>2. QED
    BY <2>1, NoGuessStep
<1>8. CASE ConfirmWrong(t)
  BY <1>1, <1>8 DEF ConfirmWrong
<1>9. QED
  BY <1>2, <1>3, <1>4, <1>5, <1>6, <1>7, <1>8

\* The other steps neither guess nor count.
LEMMA SignInQuiet ==
  ASSUME NEW t \in Threads,
         \/ \E u \in Users : LoginRead(t, u) \/ SetupCheck(t, u)
         \/ SetupCreate(t) \/ SessionPut(t) \/ SessionInsert(t)
  PROVE  Quiet(t)
BY DEF LoginRead, SetupCheck, SetupCreate, SessionPut, SessionInsert, Quiet, GoTo, Steps

\* Nor do those of an administrator's request.
LEMMA ManageQuiet ==
  ASSUME NEW t \in Threads, TypeInv, Manage(t)
  PROVE  Quiet(t)
<1>1. ASSUME NEW u \in Users, CreateCheck(t, u) \/ UpdateCheck(t, u) \/ DeleteCheck(t, u) PROVE Quiet(t)
  BY <1>1 DEF CreateCheck, UpdateCheck, DeleteCheck, Quiet, GoTo, Steps
<1>2. ASSUME NEW u \in Users, ResetTwoFactor(t, u) PROVE Quiet(t)
  <2>1. pc[t] = "idle" /\ permits' = permits /\ UNCHANGED throttle
    BY <1>2 DEF ResetTwoFactor, AdminRequest, Begin
  <2>2. pc' = [pc EXCEPT ![t] = "revoke_db"] \/ pc' = [pc EXCEPT ![t] = "idle"]
    BY <1>2, <2>1 DEF ResetTwoFactor, TypeInv, JobType
  <2>3. QED
    BY <2>1, <2>2 DEF Quiet, Steps
<1>3. CASE CreateWrite(t) \/ RevokeDb(t) \/ RevokeMem(t)
  BY <1>3 DEF CreateWrite, RevokeDb, RevokeMem, Quiet, GoTo, Steps
<1>4. CASE UpdateApply(t)
  <2>1. UNCHANGED throttle
    BY <1>4 DEF UpdateApply
  <2>2. \/ Finish(t)
        \/ permits' = permits /\ pc' = [pc EXCEPT ![t] = IF Len(job[t].todo) = 1 THEN "revoke_db" ELSE "update"]
    BY <1>4 DEF UpdateApply
  <2>3. QED
    BY <2>1, <2>2 DEF Quiet, Steps
<1>5. CASE DeleteWrite(t)
  BY <1>5 DEF DeleteWrite, Quiet, Steps
<1>6. QED
  BY <1>1, <1>2, <1>3, <1>4, <1>5 DEF Manage

\* Nor do those of a request on one's own account, once its password is checked.
LEMMA OwnQuiet ==
  ASSUME NEW t \in Threads, TypeInv,
         \/ \E i \in Ids : ConfirmRead(t, i) \/ EnableCheck(t, i) \/ LogoutDb(t, i)
                             \/ TokenRead(t, i) \/ TokenDelete(t, i)
         \/ ChangePassword(t) \/ SetPending(t) \/ NewRecoveryCodes(t) \/ DisableTwoFactor(t)
         \/ EnableWrite(t) \/ LogoutMem(t) \/ TokenCount(t) \/ TokenPut(t)
  PROVE  Quiet(t)
<1>1. ASSUME NEW i \in Ids, ConfirmRead(t, i) \/ EnableCheck(t, i) \/ LogoutDb(t, i) \/ TokenRead(t, i)
      PROVE  Quiet(t)
  BY <1>1 DEF ConfirmRead, EnableCheck, LogoutDb, TokenRead, Quiet, GoTo, Steps
<1>2. ASSUME NEW i \in Ids, TokenDelete(t, i) PROVE Quiet(t)
  <2>1. pc[t] = "idle" /\ pc' = pc /\ permits' = permits /\ UNCHANGED throttle
    BY <1>2 DEF TokenDelete, OwnRequest, Begin
  <2>2. pc' = [pc EXCEPT ![t] = "idle"]
    BY <2>1 DEF TypeInv, JobType
  <2>3. QED
    BY <2>1, <2>2 DEF Quiet, Steps
<1>3. CASE ChangePassword(t) \/ EnableWrite(t)
  BY <1>3 DEF ChangePassword, EnableWrite, Quiet, Steps
<1>4. CASE SetPending(t) \/ NewRecoveryCodes(t) \/ DisableTwoFactor(t) \/ LogoutMem(t) \/ TokenPut(t)
  BY <1>4 DEF SetPending, NewRecoveryCodes, DisableTwoFactor, LogoutMem, TokenPut, Quiet
<1>5. CASE TokenCount(t)
  BY <1>5 DEF TokenCount, Quiet, GoTo, Steps
<1>6. QED
  BY <1>1, <1>2, <1>3, <1>4, <1>5

\* Every step keeps the bound; a restart or the end of the window forgets all of it.
LEMMA GuessStep ==
  ASSUME TypeInv, GuessInv, Next
  PROVE  GuessInv'
<1>1. ASSUME NEW t \in Threads, Quiet(t) PROVE GuessInv'
  <2>1. NoGuess(t)
    BY <1>1 DEF Quiet, NoGuess, Finish, GoTo, Steps, throttle
  <2>2. QED
    BY <2>1, NoGuessStep
<1>2. ASSUME NEW t \in Threads, SignIn(t) PROVE GuessInv'
  BY <1>1, <1>2, SignInQuiet, GuessingStep DEF SignIn
<1>3. ASSUME NEW t \in Threads, Manage(t) PROVE GuessInv'
  BY <1>1, <1>3, ManageQuiet
<1>4. ASSUME NEW t \in Threads, Own(t) PROVE GuessInv'
  BY <1>1, <1>4, OwnQuiet, GuessingStep DEF Own
<1>5. CASE Lapse
  <2>1. failures' = 0 /\ guesses' = 0 /\ UNCHANGED <<permits, pc>> /\ Guessing' = Guessing
    BY <1>5 DEF Lapse, Guessing
  <2>2. QED
    BY <2>1, GuessNumbers DEF GuessInv
<1>6. ASSUME NEW i \in Ids, Expire(i) PROVE GuessInv'
  BY <1>6 DEF Expire, GuessInv, Guessing, throttle
<1>7. CASE Restart
  <2>1. failures' = 0 /\ guesses' = 0 /\ permits' = {} /\ Guessing' = {}
    BY <1>7 DEF Restart, Guessing
  <2>2. QED
    BY <2>1, GuessNumbers, FS_EmptySet DEF GuessInv
<1>8. QED
  BY <1>2, <1>3, <1>4, <1>5, <1>6, <1>7 DEF Next

\* However many logins run together, no more of them fail in a window than the
\* throttle allows and the slots that can be taken when it is reached.
THEOREM GuessesBoundedCorrect == Spec => []GuessesBounded
<1>1. ASSUME Init PROVE GuessInv
  <2>1. permits = {} /\ Guessing = {} /\ guesses = 0 /\ failures = 0
    BY <1>1 DEF Init, Guessing
  <2>2. IsFiniteSet({}) /\ Cardinality({}) = 0
    BY FS_EmptySet
  <2>3. QED
    BY <2>1, <2>2, LimitsAssumption DEF GuessInv
<1>2. ASSUME GuessInv, UNCHANGED vars PROVE GuessInv'
  BY <1>2 DEF vars, GuessInv, Guessing
<1>3. ASSUME TypeInv, GuessInv, [Next]_vars PROVE GuessInv'
  BY <1>2, <1>3, GuessStep
<1>4. TypeInv /\ GuessInv => GuessesBounded
  BY GuessNumbers DEF GuessInv, GuessesBounded
<1>5. QED
  BY TypeInvCorrect, <1>1, <1>3, <1>4, PTL DEF Spec

\* The limits a request checks before it acts, those on guesses and on API tokens,
\* hold for requests that run together.
THEOREM LimitsHoldCorrect == Spec => []LimitsHold
BY GuessesBoundedCorrect, TokensCappedCorrect, PTL DEF LimitsHold
=============================================================================
