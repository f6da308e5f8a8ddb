--------------------------- MODULE ConsoleAccess ---------------------------
(***************************************************************************)
(* Who may use the console: the accounts, two-factor secrets, API tokens   *)
(* and login sessions, in the store and (sessions) in memory, and the      *)
(* request handlers that change them.  Every store call is atomic; between *)
(* two of them, or while a handler waits for a password to be hashed, any  *)
(* other handler may run.                                                  *)
(*                                                                         *)
(* A password is right if it matches the hash the handler has read.  The   *)
(* clock stands still: a one-time code is a secret and a step in the       *)
(* window that is accepted.                                                *)
(***************************************************************************)
EXTENDS Naturals, FiniteSets, Sequences

CONSTANTS
  None,         \* nobody: the holder of a free lock, the user of no session
  Users,        \* user names
  Seeds,        \* users that the config file may name at a restart
  Threads,      \* handlers that run at a time
  Updates,      \* the bodies of update_user: sequences of changes
  CodeSteps,    \* time steps whose codes are accepted
  MaxFailures,  \* failures after which an address is refused
  Permits,      \* passwords hashed at a time
  MaxTokens,    \* API tokens an account may have
  MaxSessions,  \* bound on the sessions made
  MaxFresh,     \* bound on the secrets and sets of recovery codes generated
  MaxRequests,  \* bound on the requests
  MaxTroubles   \* bound on the session writes that fail and the restarts, together

Changes == {"password", "admin", "viewer", "enable", "disable"}
Ids     == 1 .. MaxSessions
Fresh   == 1 .. MaxFresh

ASSUME NoneAssumption == None \notin Threads \cup Users
ASSUME UsersAssumption == Seeds \subseteq Users
\* A body that changes nothing writes nothing and revokes nothing: it is no update.
ASSUME UpdatesAssumption == Updates \subseteq Seq(Changes) \ {<<>>}
ASSUME StepsAssumption == CodeSteps \subseteq Nat \ {0}
ASSUME LimitsAssumption ==
  /\ MaxFailures \in Nat \ {0} /\ Permits \in Nat \ {0} /\ MaxTokens \in Nat \ {0}
  /\ MaxSessions \in Nat /\ MaxFresh \in Nat \ {0} /\ MaxRequests \in Nat
  /\ MaxTroubles \in Nat

VARIABLES
  user,         \* console_users
  twofactor,    \* console_user_two_factor
  session,      \* sessions, in memory (mem) and in console_sessions (db)
  tokens,       \* number of api_tokens of each user
  failures,     \* LoginThrottle: failures of the clients' address in its window
  permits,      \* threads that hold a PASSWORD_WORK permit
  setup_lock,   \* holder of SETUP_LOCK
  config_write, \* holder of config_write
  pc,           \* where each thread is
  job,          \* what it works on and has read
  used,         \* one-time and recovery codes accepted so far
  reused,       \* was a code accepted again?
  guesses,      \* failed logins since failures was last reset
  unrevoked,    \* users whose sessions a change failed to revoke
  overwritten,  \* was an account overwritten by a second create_user?
  fresh, sessions, requests, errors, crashes  \* how many of each so far

vars == <<user, twofactor, session, tokens, failures, permits, setup_lock, config_write, pc,
          job, used, reused, guesses, unrevoked, overwritten, fresh, sessions, requests,
          errors, crashes>>

accountVars == <<user, unrevoked, overwritten>>
codeVars    == <<twofactor, used, reused>>
throttle    == <<failures, guesses>>
lockVars    == <<setup_lock, config_write>>
counts      == <<fresh, sessions, errors, crashes>>

Role == {"admin", "viewer"}
NoUser == [exists |-> FALSE, enabled |-> FALSE, role |-> "viewer"]
Admin  == [exists |-> TRUE, enabled |-> TRUE, role |-> "admin"]

\* A TwoFactor row: secret 0 is the empty one; recovery is the set of the codes
\* handed out that are left (each set of codes has one).
NoTwoFactor == [exists |-> FALSE, secret |-> 0, pending |-> 0, recovery |-> 0, last |-> 0]

\* What a client can enter as a code.
NoCode == [kind |-> "none", of |-> 0, step |-> 0]
BadCode == [kind |-> "totp", of |-> 0, step |-> 0]
Codes == {NoCode, BadCode} \cup [kind : {"totp"}, of : Fresh, step : CodeSteps]
           \cup [kind : {"recovery"}, of : Fresh, step : {0}]

\* A session.  old: the account has changed since the login read it; late: it had
\* changed when the session was made; out: it was logged out.
Session == [user : Users \cup {None}, role : Role, mem : BOOLEAN, db : BOOLEAN,
            state : {"fresh", "old", "late", "out"}]
NoSession == [user |-> None, role |-> "viewer", mem |-> FALSE,
              db |-> FALSE, state |-> "fresh"]

\* What a handler works on and has read.  active: the account may sign in; done:
\* a change was made.
Job == [user : Users \cup {None}, role : Role, active : BOOLEAN, code : Codes,
        secret : 0 .. MaxFresh, id : 0 .. MaxSessions, todo : Seq(Changes), old : BOOLEAN,
        done : BOOLEAN]
NoJob == [user |-> None, role |-> "viewer", active |-> FALSE, code |-> NoCode, secret |-> 0,
          id |-> 0, todo |-> <<>>, old |-> FALSE, done |-> FALSE]

Steps == {"idle", "permit", "verify", "use", "touch", "put", "insert", "setup", "create",
          "update", "delete", "confirm", "check", "wrong", "change", "pending", "codes",
          "disable", "enable", "revoke_db", "revoke_mem", "logout", "count", "token"}

TypeOK ==
  /\ user \in [Users -> [exists : BOOLEAN, enabled : BOOLEAN, role : Role]]
  /\ twofactor \in [Users -> [exists : BOOLEAN, secret : 0 .. MaxFresh, pending : 0 .. MaxFresh,
                              recovery : 0 .. MaxFresh, last : {0} \cup CodeSteps]]
  /\ \A u \in Users : twofactor[u].exists => user[u].exists
  /\ session \in [Ids -> Session]
  /\ \A i \in Ids : session[i].mem \/ session[i].db => session[i].user \in Users
  /\ tokens \in [Users -> Nat]
  /\ failures \in Nat /\ guesses \in Nat
  /\ permits \subseteq Threads
  /\ setup_lock \in Threads \cup {None} /\ config_write \in Threads \cup {None}
  /\ pc \in [Threads -> Steps]
  /\ job \in [Threads -> Job]
  /\ used \subseteq Codes /\ reused \in BOOLEAN
  /\ unrevoked \subseteq Users /\ overwritten \in BOOLEAN
  /\ fresh \in 0 .. MaxFresh /\ sessions \in 0 .. MaxSessions
  /\ requests \in 0 .. MaxRequests /\ errors + crashes \in 0 .. MaxTroubles

\* A fresh installation, or one with two administrators that are signed in, of
\* whom one, who was not there last, uses two-factor login.
Init ==
  /\ \/ /\ user = [u \in Users |-> NoUser]
        /\ twofactor = [u \in Users |-> NoTwoFactor]
        /\ session = [i \in Ids |-> NoSession]
        /\ sessions = 0 /\ fresh = 0
     \/ /\ user = [u \in Users |-> Admin]
        /\ \E w \in Users : twofactor = [u \in Users |-> IF u = w
             THEN [exists |-> TRUE, secret |-> 1, pending |-> 0, recovery |-> 1, last |-> 0]
             ELSE NoTwoFactor]
        /\ \E at \in [Users -> Ids] :
             /\ \A u, w \in Users : at[u] = at[w] => u = w
             /\ \A u \in Users : at[u] <= Cardinality(Users)
             /\ session = [i \in Ids |->
                  IF \E u \in Users : at[u] = i
                    THEN [user |-> CHOOSE u \in Users : at[u] = i, role |-> "admin",
                          mem |-> TRUE, db |-> TRUE, state |-> "fresh"]
                    ELSE NoSession]
        /\ sessions = Cardinality(Users) /\ fresh = 1
  /\ tokens = [u \in Users |-> 0]
  /\ failures = 0 /\ guesses = 0 /\ permits = {}
  /\ setup_lock = None /\ config_write = None
  /\ pc = [t \in Threads |-> "idle"]
  /\ job = [t \in Threads |-> NoJob]
  /\ used = {} /\ reused = FALSE
  /\ unrevoked = {} /\ overwritten = FALSE
  /\ requests = 0 /\ errors = 0 /\ crashes = 0
----------------------------------------------------------------------------
(* What the handlers have in common *)

Released(lock, t) == IF lock = t THEN None ELSE lock

GoTo(t, step, j) ==
  /\ pc' = [pc EXCEPT ![t] = step]
  /\ job' = [job EXCEPT ![t] = j]

\* Something may still go wrong.
Trouble == errors + crashes < MaxTroubles

\* The handler returns: its permit and its locks are dropped.
Finish(t) ==
  /\ GoTo(t, "idle", NoJob)
  /\ permits' = permits \ {t}
  /\ setup_lock' = Released(setup_lock, t)
  /\ config_write' = Released(config_write, t)

\* A request is handed to thread t.
Begin(t) ==
  /\ pc[t] = "idle"
  /\ requests < MaxRequests
  /\ requests' = requests + 1

\* SessionStore::verify: the session of a request, in memory.
SignedIn(i) == session[i].mem /\ (\E u \in Users : user[u].exists)

EnabledAdmins == {u \in Users : user[u].exists /\ user[u].enabled /\ user[u].role = "admin"}

\* authenticate: an API token has the rights its account has now.
TokenOf(u) == tokens[u] > 0 /\ u \in EnabledAdmins

\* require_auth: a change takes an administrator's session or API token.
AdminRequest(t) ==
  /\ Begin(t)
  /\ \/ \E i \in Ids : SignedIn(i) /\ session[i].role = "admin"
     \/ \E u \in Users : TokenOf(u)

\* session_user: a request on one's own account, over session i.
OwnRequest(t, i) ==
  /\ Begin(t)
  /\ SignedIn(i)
  /\ user[session[i].user].exists /\ user[session[i].user].enabled

OwnJob(i) == [NoJob EXCEPT !.user = session[i].user, !.id = i,
                           !.secret = twofactor[session[i].user].secret]

\* throttled_response
Throttled == failures >= MaxFailures

\* LoginThrottle::record_failure
RecordFailure(login) ==
  /\ failures' = failures + 1
  /\ guesses' = IF login THEN guesses + 1 ELSE guesses

\* An account changes: sessions made before (but keep, the one that changes it)
\* are out of date, and so is what a login has read of it.
LoginSteps == {"permit", "verify", "use", "touch", "put", "insert"}
Aged(u, keep) == [i \in Ids |-> IF session[i].user = u /\ i # keep
                                  THEN [session[i] EXCEPT !.state = "old"] ELSE session[i]]
AgeJobs(u, t, j) ==
  job' = [x \in Threads |-> IF x = t THEN j
                            ELSE IF pc[x] \in LoginSteps /\ job[x].user = u
                              THEN [job[x] EXCEPT !.old = TRUE]
                            ELSE job[x]]

\* A permit of PASSWORD_WORK is free.
PermitFree == Cardinality(permits) < Permits
----------------------------------------------------------------------------
(* Sign-in *)

\* auth_login: the throttle, and the account as it is now.
LoginRead(t, u) ==
  /\ Begin(t)
  /\ ~Throttled
  /\ GoTo(t, "permit", [NoJob EXCEPT !.user = u, !.role = user[u].role,
                                      !.active = user[u].exists /\ user[u].enabled])
  /\ UNCHANGED <<accountVars, codeVars, session, tokens, throttle, permits, lockVars, counts>>

\* (mutant: the throttle is not looked at again)
LoginPermitUnchecked(t) ==
  /\ pc[t] = "permit" /\ PermitFree
  /\ GoTo(t, "verify", job[t])
  /\ permits' = permits \cup {t}
  /\ UNCHANGED <<accountVars, codeVars, session, tokens, throttle, lockVars, requests, counts>>

\* A slot to hash the password in: the throttle is looked at again.
LoginPermit(t) ==
  /\ pc[t] = "permit" /\ PermitFree
  /\ \/ /\ ~Throttled
        /\ GoTo(t, "verify", job[t])
        /\ permits' = permits \cup {t}
        /\ UNCHANGED lockVars
     \/ Throttled /\ Finish(t)
  /\ UNCHANGED <<accountVars, codeVars, session, tokens, throttle, requests, counts>>

\* totp::verify
CodeMatches(code, secret, last) ==
  code.kind = "totp" /\ code.of = secret /\ code.step > last

\* The password is checked against the hash read before, then the code against
\* the two-factor row of now; a wrong one of either is a failure.  (What the
\* client sent is chosen here, where it is first looked at.)
LoginVerify(t) ==
  LET j == job[t]
      row == twofactor[j.user]
      wrong(code) == code.kind = "totp" /\ ~CodeMatches(code, row.secret, row.last)
  IN /\ pc[t] = "verify"
     /\ \/ RecordFailure(TRUE) /\ Finish(t)
        \/ /\ j.active /\ row.secret = 0
           /\ GoTo(t, "touch", j)
           /\ UNCHANGED <<throttle, permits, lockVars>>
        \/ /\ j.active /\ row.secret # 0
           /\ \E code \in {c \in Codes : c.of <= fresh} :
                \/ /\ code = NoCode
                   /\ Finish(t)
                   /\ UNCHANGED throttle
                \/ wrong(code) /\ RecordFailure(TRUE) /\ Finish(t)
                \/ /\ code # NoCode /\ ~wrong(code)
                   /\ GoTo(t, "use", [j EXCEPT !.secret = row.secret, !.code = code])
                   /\ UNCHANGED <<throttle, permits, lockVars>>
     /\ UNCHANGED <<accountVars, codeVars, session, tokens, requests, counts>>

\* (mutant: the step is written whatever the last one was)
AcceptedUnchecked(row, code) ==
  IF code.kind = "totp" THEN row.exists ELSE row.recovery # 0 /\ row.recovery = code.of

\* The condition of use_two_factor_step and use_two_factor_recovery_code.
Accepted(row, code) ==
  IF code.kind = "totp" THEN row.exists /\ row.last < code.step
                        ELSE row.recovery # 0 /\ row.recovery = code.of

\* use_two_factor_step or use_two_factor_recovery_code: the code is used up, if
\* it can be; else it is a failure.
LoginUse(t) ==
  LET u == job[t].user
      row == twofactor[u]
      code == job[t].code
  IN /\ pc[t] = "use"
     /\ \/ /\ Accepted(row, code)
           /\ twofactor' = [twofactor EXCEPT ![u] = IF code.kind = "totp"
                              THEN [row EXCEPT !.last = code.step]
                              ELSE [row EXCEPT !.recovery = 0]]
           /\ used' = used \cup {code}
           /\ reused' = (reused \/ (code \in used /\ row.secret = job[t].secret))
           /\ GoTo(t, "touch", job[t])
           /\ UNCHANGED <<throttle, permits, lockVars>>
        \/ /\ ~Accepted(row, code)
           /\ RecordFailure(TRUE) /\ Finish(t)
           /\ UNCHANGED codeVars
     /\ UNCHANGED <<accountVars, session, tokens, requests, counts>>

\* The failures are forgotten; touch_console_user_login, which misses an account
\* that was deleted.
LoginTouch(t) ==
  /\ pc[t] = "touch"
  /\ failures' = 0 /\ guesses' = 0
  /\ \/ /\ user[job[t].user].exists
        /\ GoTo(t, "put", job[t])
        /\ UNCHANGED <<permits, lockVars>>
     \/ ~user[job[t].user].exists /\ Finish(t)
  /\ UNCHANGED <<accountVars, codeVars, session, tokens, requests, counts>>

\* SessionStore::create: the session is saved (an error, or an account that is
\* gone, is only logged) ...
SessionPut(t) ==
  LET u == job[t].user
      i == sessions + 1
  IN /\ pc[t] = "put"
     /\ sessions < MaxSessions /\ sessions' = i
     /\ \E ok \in BOOLEAN :
          /\ IF ok THEN UNCHANGED errors ELSE Trouble /\ errors' = errors + 1
          /\ session' = [session EXCEPT ![i] = IF ok /\ user[u].exists
               THEN [user |-> u, role |-> job[t].role, mem |-> FALSE, db |-> TRUE,
                     state |-> IF job[t].old THEN "late" ELSE "fresh"]
               ELSE NoSession]
     /\ GoTo(t, "insert", [job[t] EXCEPT !.id = i])
     /\ UNCHANGED <<accountVars, codeVars, tokens, throttle, permits, lockVars, requests, fresh,
                    crashes>>

\* ... and then in memory.
SessionInsert(t) ==
  /\ pc[t] = "insert"
  /\ session' = [session EXCEPT ![job[t].id] =
       [user |-> job[t].user, role |-> job[t].role, mem |-> TRUE, db |-> @.db,
        state |-> IF job[t].old THEN "late" ELSE "fresh"]]
  /\ Finish(t)
  /\ UNCHANGED <<accountVars, codeVars, tokens, throttle, requests, counts>>

\* auth_setup: under SETUP_LOCK, while there is no account.
SetupCheck(t, u) ==
  /\ Begin(t)
  /\ setup_lock = None
  /\ \A w \in Users : ~user[w].exists
  /\ setup_lock' = t
  /\ GoTo(t, "setup", [NoJob EXCEPT !.user = u, !.role = "admin"])
  /\ UNCHANGED <<accountVars, codeVars, session, tokens, throttle, permits, config_write, counts>>

\* The first administrator, once the password is hashed.
SetupCreate(t) ==
  LET u == job[t].user
  IN /\ pc[t] = "setup" /\ PermitFree
     /\ user' = [user EXCEPT ![u] = Admin]
     /\ overwritten' = (overwritten \/ user[u].exists)
     /\ GoTo(t, "put", job[t])
     /\ UNCHANGED <<codeVars, session, tokens, throttle, permits, lockVars, unrevoked, requests,
                    counts>>
----------------------------------------------------------------------------
(* Accounts, for administrators *)

\* last_admin_guard, which the handlers ask first
LastAdmin(u) == u \in EnabledAdmins /\ Cardinality(EnabledAdmins) <= 1

\* create_user: the name is free ...
CreateCheck(t, u) ==
  /\ AdminRequest(t)
  /\ ~user[u].exists
  /\ GoTo(t, "create", [NoJob EXCEPT !.user = u])
  /\ UNCHANGED <<accountVars, codeVars, session, tokens, throttle, permits, lockVars, counts>>

\* ... and when its password is hashed, the account is written over whatever is
\* there now.
CreateWrite(t) ==
  LET u == job[t].user
  IN /\ pc[t] = "create" /\ PermitFree
     /\ \E role \in Role :
          user' = [user EXCEPT ![u] = [exists |-> TRUE, enabled |-> TRUE, role |-> role]]
     /\ overwritten' = (overwritten \/ user[u].exists)
     /\ unrevoked' = IF user[u].exists THEN unrevoked \cup {u} ELSE unrevoked
     /\ session' = IF user[u].exists THEN Aged(u, 0) ELSE session
     /\ AgeJobs(u, t, NoJob) /\ pc' = [pc EXCEPT ![t] = "idle"]
     /\ UNCHANGED <<codeVars, tokens, throttle, permits, lockVars, requests, counts>>

\* update_user: the account is there, and not the last administrator if the
\* body takes rights away.
UpdateCheck(t, u) ==
  /\ AdminRequest(t)
  /\ user[u].exists
  /\ \E todo \in Updates :
       /\ (\E n \in 1 .. Len(todo) : todo[n] \in {"viewer", "disable"}) => ~LastAdmin(u)
       /\ GoTo(t, "update", [NoJob EXCEPT !.user = u, !.todo = todo])
  /\ UNCHANGED <<accountVars, codeVars, session, tokens, throttle, permits, lockVars, counts>>

\* (mutant: the store relies on the handler's guard)
RefusedUnchecked(u, change) == ~user[u].exists

\* set_console_user_password, _role and _enabled refuse: there is no such
\* account, or it is the last administrator.
Refused(u, change) ==
  \/ ~user[u].exists
  \/ change = "viewer" /\ user[u].role = "admin" /\ Cardinality(EnabledAdmins) <= 1
  \/ change = "disable" /\ LastAdmin(u)

ChangedUser(u, change) ==
  CASE change \in Role -> [user[u] EXCEPT !.role = change]
    [] change \in {"enable", "disable"} -> [user[u] EXCEPT !.enabled = (change = "enable")]
    [] OTHER -> user[u]

\* update_user: the changes, one store call each (a password is hashed first).
\* One that is refused ends the request: the sessions are not revoked.
UpdateApply(t) ==
  LET j == job[t]
      u == j.user
      change == Head(j.todo)
  IN /\ pc[t] = "update"
     /\ change = "password" => PermitFree
     /\ \/ /\ ~Refused(u, change)
           /\ user' = [user EXCEPT ![u] = ChangedUser(u, change)]
           /\ session' = Aged(u, 0)
           /\ AgeJobs(u, t, [j EXCEPT !.todo = Tail(@), !.done = TRUE])
           /\ pc' = [pc EXCEPT ![t] = IF Len(j.todo) = 1 THEN "revoke_db" ELSE "update"]
           /\ UNCHANGED <<permits, lockVars, unrevoked>>
        \/ /\ Refused(u, change)
           /\ unrevoked' = IF j.done THEN unrevoked \cup {u} ELSE unrevoked
           /\ Finish(t)
           /\ UNCHANGED <<user, session>>
     /\ UNCHANGED <<codeVars, tokens, throttle, overwritten, requests, counts>>

\* delete_user: the guard ...
DeleteCheck(t, u) ==
  /\ AdminRequest(t)
  /\ user[u].exists /\ ~LastAdmin(u)
  /\ GoTo(t, "delete", [NoJob EXCEPT !.user = u])
  /\ UNCHANGED <<accountVars, codeVars, session, tokens, throttle, permits, lockVars, counts>>

Kept(s) == IF s.mem \/ s.db THEN s ELSE NoSession

\* ... and delete_console_user, which looks again; all the account has in the
\* store goes with it.
DeleteWrite(t) ==
  LET u == job[t].user
  IN /\ pc[t] = "delete"
     /\ \/ /\ user[u].exists /\ ~LastAdmin(u)
           /\ user' = [user EXCEPT ![u] = NoUser]
           /\ twofactor' = [twofactor EXCEPT ![u] = NoTwoFactor]
           /\ tokens' = [tokens EXCEPT ![u] = 0]
           /\ session' = [i \in Ids |-> IF session[i].user = u
                                          THEN Kept([Aged(u, 0)[i] EXCEPT !.db = FALSE])
                                          ELSE session[i]]
           /\ AgeJobs(u, t, job[t]) /\ pc' = [pc EXCEPT ![t] = "revoke_db"]
           /\ UNCHANGED <<permits, lockVars>>
        \/ /\ ~user[u].exists \/ LastAdmin(u)
           /\ Finish(t)
           /\ UNCHANGED <<user, twofactor, tokens, session>>
     /\ UNCHANGED <<used, reused, throttle, unrevoked, overwritten, requests, counts>>

\* reset_user_two_factor: two-factor login is turned off, and if it was on the
\* sessions are revoked.
ResetTwoFactor(t, u) ==
  LET on == twofactor[u].secret # 0
  IN /\ AdminRequest(t)
     /\ user[u].exists
     /\ twofactor' = [twofactor EXCEPT ![u] = NoTwoFactor]
     /\ session' = IF on THEN Aged(u, 0) ELSE session
     /\ IF on THEN AgeJobs(u, t, [NoJob EXCEPT !.user = u]) ELSE UNCHANGED job
     /\ pc' = IF on THEN [pc EXCEPT ![t] = "revoke_db"] ELSE pc
     /\ UNCHANGED <<accountVars, used, reused, tokens, throttle, permits, lockVars, counts>>

\* revoke_user and revoke_user_except (id is the session that stays, or 0): the
\* rows of the account go (or that fails, which is only logged) ...
RevokeDb(t) ==
  /\ pc[t] = "revoke_db"
  /\ \/ /\ session' = [i \in Ids |-> IF session[i].user = job[t].user /\ i # job[t].id
                                       THEN Kept([session[i] EXCEPT !.db = FALSE])
                                       ELSE session[i]]
        /\ UNCHANGED errors
     \/ /\ Trouble /\ errors' = errors + 1
        /\ UNCHANGED session
  /\ GoTo(t, "revoke_mem", job[t])
  /\ UNCHANGED <<accountVars, codeVars, tokens, throttle, permits, lockVars, requests, fresh,
                 sessions, crashes>>

\* (mutant: only the rows go)
RevokeMemSkipped(t) ==
  /\ pc[t] = "revoke_mem"
  /\ Finish(t)
  /\ UNCHANGED <<accountVars, codeVars, session, tokens, throttle, requests, counts>>

\* ... and then the sessions in memory.
RevokeMem(t) ==
  /\ pc[t] = "revoke_mem"
  /\ session' = [i \in Ids |->
       IF session[i].user = job[t].user /\ i # job[t].id
         THEN Kept([session[i] EXCEPT !.mem = FALSE]) ELSE session[i]]
  /\ Finish(t)
  /\ UNCHANGED <<accountVars, codeVars, tokens, throttle, requests, counts>>
----------------------------------------------------------------------------
(* One's own account *)

\* auth_change_password, two_factor_setup, two_factor_new_recovery_codes and
\* two_factor_disable begin alike: the account is read, its password asked for.
ConfirmRead(t, i) ==
  /\ OwnRequest(t, i)
  /\ ~Throttled
  /\ GoTo(t, "confirm", OwnJob(i))
  /\ UNCHANGED <<accountVars, codeVars, session, tokens, throttle, permits, lockVars, counts>>

\* confirm_password: a slot, and the throttle again.
ConfirmPermit(t) ==
  /\ pc[t] = "confirm" /\ PermitFree
  /\ \/ /\ ~Throttled
        /\ GoTo(t, "check", job[t])
        /\ permits' = permits \cup {t}
        /\ UNCHANGED lockVars
     \/ Throttled /\ Finish(t)
  /\ UNCHANGED <<accountVars, codeVars, session, tokens, throttle, requests, counts>>

\* The slot is given back before a wrong password is recorded.  (Which change is
\* asked for, and the password, are chosen here.)
ConfirmCheck(t) ==
  /\ pc[t] = "check"
  /\ permits' = permits \ {t}
  /\ \E next \in {"wrong", "change", "pending", "codes", "disable"} : GoTo(t, next, job[t])
  /\ UNCHANGED <<accountVars, codeVars, session, tokens, throttle, lockVars, requests, counts>>

ConfirmWrong(t) ==
  /\ pc[t] = "wrong"
  /\ RecordFailure(FALSE)
  /\ Finish(t)
  /\ UNCHANGED <<accountVars, codeVars, session, tokens, requests, counts>>

\* auth_change_password: set_console_user_password, once it is hashed.
ChangePassword(t) ==
  LET u == job[t].user
  IN /\ pc[t] = "change" /\ PermitFree
     /\ \/ /\ user[u].exists
           /\ session' = Aged(u, job[t].id)
           /\ AgeJobs(u, t, job[t]) /\ pc' = [pc EXCEPT ![t] = "revoke_db"]
           /\ UNCHANGED <<permits, lockVars>>
        \/ /\ ~user[u].exists
           /\ Finish(t)
           /\ UNCHANGED session
     /\ UNCHANGED <<accountVars, codeVars, tokens, throttle, requests, counts>>

\* set_two_factor_pending: a new secret waits to be confirmed.
SetPending(t) ==
  LET u == job[t].user
  IN /\ pc[t] = "pending"
     /\ fresh < MaxFresh /\ fresh' = fresh + 1
     /\ twofactor' = IF user[u].exists
                       THEN [twofactor EXCEPT ![u].exists = TRUE, ![u].pending = fresh + 1]
                       ELSE twofactor
     /\ Finish(t)
     /\ UNCHANGED <<accountVars, used, reused, session, tokens, throttle, requests, sessions,
                    errors, crashes>>

\* two_factor_new_recovery_codes: if two-factor login was on when the account was
\* read.
NewRecoveryCodes(t) ==
  LET u == job[t].user
  IN /\ pc[t] = "codes"
     /\ \/ /\ job[t].secret # 0
           /\ fresh < MaxFresh /\ fresh' = fresh + 1
           /\ twofactor' = IF twofactor[u].exists
                             THEN [twofactor EXCEPT ![u].recovery = fresh + 1]
                             ELSE twofactor
        \/ job[t].secret = 0 /\ UNCHANGED <<fresh, twofactor>>
     /\ Finish(t)
     /\ UNCHANGED <<accountVars, used, reused, session, tokens, throttle, requests, sessions,
                    errors, crashes>>

\* two_factor_disable
DisableTwoFactor(t) ==
  /\ pc[t] = "disable"
  /\ twofactor' = [twofactor EXCEPT ![job[t].user] = NoTwoFactor]
  /\ Finish(t)
  /\ UNCHANGED <<accountVars, used, reused, session, tokens, throttle, requests, counts>>

\* two_factor_enable: a code is checked against the pending secret ...
EnableCheck(t, i) ==
  LET pending == twofactor[session[i].user].pending
  IN /\ OwnRequest(t, i)
     /\ pending # 0
     /\ \E step \in CodeSteps :
          GoTo(t, "enable", [OwnJob(i) EXCEPT !.code =
                               [kind |-> "totp", of |-> pending, step |-> step]])
     /\ UNCHANGED <<accountVars, codeVars, session, tokens, throttle, permits, lockVars, counts>>

\* ... and enable_two_factor turns on whatever secret is pending now.
EnableWrite(t) ==
  LET u == job[t].user
      row == twofactor[u]
      code == job[t].code
  IN /\ pc[t] = "enable"
     /\ \/ /\ row.pending # 0
           /\ fresh < MaxFresh /\ fresh' = fresh + 1
           /\ twofactor' = [twofactor EXCEPT ![u] =
                [exists |-> TRUE, secret |-> row.pending, pending |-> 0,
                 recovery |-> fresh + 1, last |-> code.step]]
           /\ used' = used \cup {code}
           /\ reused' = (reused \/ (code \in used /\ row.pending = code.of))
           /\ session' = Aged(u, job[t].id)
           /\ AgeJobs(u, t, job[t]) /\ pc' = [pc EXCEPT ![t] = "revoke_db"]
           /\ UNCHANGED <<permits, lockVars>>
        \/ /\ row.pending = 0
           /\ Finish(t)
           /\ UNCHANGED <<fresh, codeVars, session>>
     /\ UNCHANGED <<accountVars, tokens, throttle, requests, sessions, errors, crashes>>

\* auth_logout: SessionStore::revoke deletes the row (or that fails) ...
LogoutDb(t, i) ==
  /\ Begin(t)
  /\ SignedIn(i)
  /\ \/ /\ session' = [session EXCEPT ![i].db = FALSE]
        /\ UNCHANGED errors
     \/ /\ Trouble /\ errors' = errors + 1
        /\ UNCHANGED session
  /\ GoTo(t, "logout", [NoJob EXCEPT !.id = i])
  /\ UNCHANGED <<accountVars, codeVars, tokens, throttle, permits, lockVars, fresh, sessions,
                 crashes>>

\* ... and then forgets the session.
LogoutMem(t) ==
  /\ pc[t] = "logout"
  /\ session' = [session EXCEPT ![job[t].id] = Kept([@ EXCEPT !.mem = FALSE, !.state = "out"])]
  /\ Finish(t)
  /\ UNCHANGED <<accountVars, codeVars, tokens, throttle, requests, counts>>

TokenRead(t, i) ==
  /\ OwnRequest(t, i)
  /\ GoTo(t, "count", OwnJob(i))
  /\ UNCHANGED <<accountVars, codeVars, session, tokens, throttle, permits, lockVars, counts>>

\* create_api_token: under config_write, the account's tokens are counted ...
TokenCount(t) ==
  /\ pc[t] = "count"
  /\ config_write = None
  /\ \/ /\ tokens[job[t].user] < MaxTokens
        /\ config_write' = t
        /\ GoTo(t, "token", job[t])
        /\ UNCHANGED <<permits, setup_lock>>
     \/ tokens[job[t].user] >= MaxTokens /\ Finish(t)
  /\ UNCHANGED <<accountVars, codeVars, session, tokens, throttle, requests, counts>>

\* ... and another is stored, unless the account is gone.
TokenPut(t) ==
  LET u == job[t].user
  IN /\ pc[t] = "token"
     /\ tokens' = IF user[u].exists THEN [tokens EXCEPT ![u] = @ + 1] ELSE tokens
     /\ Finish(t)
     /\ UNCHANGED <<accountVars, codeVars, session, throttle, requests, counts>>

\* delete_api_token
TokenDelete(t, i) ==
  /\ OwnRequest(t, i)
  /\ tokens[session[i].user] > 0
  /\ tokens' = [tokens EXCEPT ![session[i].user] = @ - 1]
  /\ UNCHANGED <<accountVars, codeVars, session, throttle, permits, lockVars, pc, job, counts>>
----------------------------------------------------------------------------
(* Time and restarts *)

\* The throttle's window ends, or the address makes room for others.
Lapse ==
  /\ failures > 0
  /\ failures' = 0 /\ guesses' = 0
  /\ UNCHANGED <<accountVars, codeVars, session, tokens, permits, lockVars, pc, job, requests, counts>>

\* A session expires: verify and load_sessions no longer find it.
Expire(i) ==
  /\ requests < MaxRequests /\ requests' = requests + 1
  /\ session[i].mem
  /\ session' = [session EXCEPT ![i] = NoSession]
  /\ UNCHANGED <<accountVars, codeVars, tokens, throttle, permits, lockVars, pc, job, counts>>

\* The server stops and starts again: the sessions are those of the store, and
\* accounts of the config file that are missing are made.
Restart ==
  /\ Trouble /\ crashes' = crashes + 1
  /\ session' = [i \in Ids |-> Kept([session[i] EXCEPT !.mem = session[i].db])]
  /\ \E imported \in SUBSET {u \in Seeds : ~user[u].exists} :
       user' = [u \in Users |-> IF u \in imported THEN Admin ELSE user[u]]
  /\ unrevoked' = unrevoked \cup {session[i].user : i \in {n \in Ids : session[n].db
                                                                /\ session[n].state # "fresh"}}
  /\ failures' = 0 /\ guesses' = 0 /\ permits' = {}
  /\ setup_lock' = None /\ config_write' = None
  /\ pc' = [t \in Threads |-> "idle"]
  /\ job' = [t \in Threads |-> NoJob]
  /\ UNCHANGED <<codeVars, overwritten, tokens, requests, fresh, sessions, errors>>
----------------------------------------------------------------------------
SignIn(t) ==
  \/ \E u \in Users : LoginRead(t, u) \/ SetupCheck(t, u)
  \/ LoginPermit(t) \/ LoginVerify(t) \/ LoginUse(t) \/ LoginTouch(t)
  \/ SetupCreate(t) \/ SessionPut(t) \/ SessionInsert(t)

Manage(t) ==
  \/ \E u \in Users : CreateCheck(t, u) \/ UpdateCheck(t, u) \/ DeleteCheck(t, u)
                        \/ ResetTwoFactor(t, u)
  \/ CreateWrite(t) \/ UpdateApply(t) \/ DeleteWrite(t) \/ RevokeDb(t) \/ RevokeMem(t)

Own(t) ==
  \/ \E i \in Ids : ConfirmRead(t, i) \/ EnableCheck(t, i) \/ LogoutDb(t, i)
                      \/ TokenRead(t, i) \/ TokenDelete(t, i)
  \/ ConfirmPermit(t) \/ ConfirmCheck(t) \/ ConfirmWrong(t) \/ ChangePassword(t)
  \/ SetPending(t) \/ NewRecoveryCodes(t) \/ DisableTwoFactor(t) \/ EnableWrite(t)
  \/ LogoutMem(t) \/ TokenCount(t) \/ TokenPut(t)

Next == (\E t \in Threads : SignIn(t) \/ Manage(t) \/ Own(t))
          \/ Lapse \/ (\E i \in Ids : Expire(i)) \/ Restart

Spec == Init /\ [][Next]_vars
----------------------------------------------------------------------------
(* Properties *)

\* Someone can administer the server: once there is an account, requests that
\* run together never take the last enabled administrator away (unless two
\* create_user requests for one name overlap: the second overwrites the first).
AdminRemains ==
  (\E u \in Users : user[u].exists) /\ ~overwritten => EnabledAdmins # {}

\* Thread t is going to revoke the sessions of u.
Revoking(t, u) ==
  /\ job[t].user = u
  /\ pc[t] \in {"revoke_db", "revoke_mem"} \/ (pc[t] = "update" /\ job[t].done)

\* A session made before a change to its account's password, role, enabled flag or
\* two-factor login is revoked, or is about to be: nobody goes on with rights the
\* account lost.  (Not so after an update_user that was refused half-way, a
\* create_user that overwrote an account, or a restart in between.)
OldSessionsRevoked ==
  \A i \in Ids : session[i].mem /\ session[i].state = "old" =>
    session[i].user \in unrevoked \/ \E t \in Threads : Revoking(t, session[i].user)

\* No restart brings back a session that was logged out, or has rights its account
\* lost: it is not in the store, or its deletion there is still to come (unless
\* that failed or was never tried, as above).
NothingToRevive ==
  \A i \in Ids : session[i].db /\ session[i].state \in {"old", "out"} =>
    \/ errors > 0 \/ session[i].user \in unrevoked
    \/ \E t \in Threads : Revoking(t, session[i].user) /\ pc[t] # "revoke_mem"

\* Revoked rights are gone from memory and from the store (SessionStore::revoke_user).
RevocationHolds == OldSessionsRevoked /\ NothingToRevive

\* A code works once, even when two sign-ins race: no one-time or recovery code
\* of the secret in force is accepted again.
CodesOnce == ~reused

\* Guesses are bounded: of the logins that run together, no more fail in a window
\* than the limit allows and the slots that were taken when it was reached.
GuessesBounded == guesses <= MaxFailures - 1 + Permits

\* The cap on an account's API tokens holds for requests that run together.
TokensCapped == \A u \in Users : tokens[u] <= MaxTokens

\* The limits a request checks before it acts hold for requests that run together.
LimitsHold == GuessesBounded /\ TokensCapped

\* "Kill the account's live sessions so the change takes effect immediately":
\* once every request has been answered, a session has the rights of its account.
SessionsCurrent ==
  (\A t \in Threads : pc[t] = "idle") =>
    \A i \in Ids : session[i].mem =>
      LET u == user[session[i].user]
      IN u.exists /\ u.enabled /\ u.role = session[i].role
=============================================================================
