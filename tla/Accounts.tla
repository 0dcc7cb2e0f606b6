------------------------------- MODULE Accounts -------------------------------
(***************************************************************************)
(* User accounts, their sessions and their management                      *)
(* (src/features/account and src/platform/auth), on top of the login       *)
(* throttle: here a login's credentials are compared with an account.      *)
(*                                                                         *)
(* A session names an account and the version its credentials had; no      *)
(* session is stored.  Passwords are compared and hashed outside of any    *)
(* transaction, so what was read before may have changed since.  Every     *)
(* read is a statement of its own (READ COMMITTED).  A session lasts eight *)
(* hours; here it lasts for ever.  Which permissions and projects a member *)
(* has is left out.                                                        *)
(***************************************************************************)
EXTENDS LoginThrottle

CONSTANTS
  Passwords,
  AdminPassword,   \* what ADMIN_PASSWORD_HASH is of
  Workers,         \* requests other than logins
  MaxVersion,      \* bound: how often an account changes
  MaxLogins,       \* bound: the logins of a behaviour about accounts
  Focus            \* what behaviours are about: "throttle", "accounts"

ASSUME AdminAssumption == AdminPassword \in Passwords
ASSUME VersionAssumption == MaxVersion \in Nat \ {0}

VARIABLES
  focus,
  admin,           \* ADMIN_EMAIL; none when only the throttle matters
  user,            \* user_account, by e-mail
  login,           \* what each login has read
  sessions,        \* the sessions that were given out, with the password they proved
  change           \* the request of each worker

accountVars == <<vars, focus, admin, user, login, sessions, change>>

NoUser == [role |-> "none", status |-> "disabled", password |-> None, version |-> 0]
User(role, password) ==
  [role |-> role, status |-> "active", password |-> password, version |-> 1]
NoLogin == [step |-> "read", password |-> None, account |-> NoUser, first |-> FALSE,
            retried |-> FALSE]
Legacy == [email |-> None, version |-> 0, password |-> None]
NoChange == [step |-> "idle", session |-> Legacy, before |-> NoUser, password |-> None]

\* countUserAccounts.
NoAccount == \A e \in Accounts : user[e] = NoUser

\* uq_user_account_email.
EmailFree(e) == user[e] = NoUser

AccountsInit ==
  /\ Init
  /\ focus \in Focus
  /\ admin \in IF focus = "accounts" THEN Accounts ELSE {None}
  /\ user = [e \in Accounts |-> NoUser]
  /\ login = [a \in Attempts |-> NoLogin]
  /\ sessions = {Legacy}
  /\ change = [w \in Workers |-> NoChange]

-----------------------------------------------------------------------------
(* Logins: authenticateAccountLogin.                                       *)

AtLogin(a, step) == pc[a] = "verify" /\ login[a].step = step
Now(a, l) == login' = [login EXCEPT ![a] = l] /\ UNCHANGED <<vars, focus, admin, user, sessions, change>>

\* Verify with its outcome decided.
Verified(a, outcome) == Verify(a) /\ pc'[a] = outcome /\ UNCHANGED <<focus, admin, sessions, change>>

BeginLogin(a, e, p) ==
  /\ Cardinality({b \in Attempts : pc[b] # "idle"}) < MaxLogins
  /\ Begin(a, e, None)
  /\ login' = [login EXCEPT ![a].password = p]
  /\ UNCHANGED <<focus, admin, user, sessions, change>>

ReadAccount(a) ==
  /\ AtLogin(a, "read")
  /\ Now(a, [login[a] EXCEPT !.account = user[AccountOf(a)],
                             !.step = IF login[a].retried THEN "compare" ELSE "count"])

CountAccounts(a) ==
  /\ AtLogin(a, "count")
  /\ Now(a, [login[a] EXCEPT !.first = NoAccount, !.step = "compare"])

\* Without any account the environment's credentials begin the first one.
CompareFirst(a) ==
  /\ AtLogin(a, "compare") /\ login[a].first
  /\ \/ /\ AccountOf(a) = admin /\ login[a].password = AdminPassword
        /\ Now(a, [login[a] EXCEPT !.step = "initialize"])
     \/ /\ ~(AccountOf(a) = admin /\ login[a].password = AdminPassword)
        /\ Verified(a, "record")
        /\ UNCHANGED <<user, login>>

Compare(a) ==
  /\ AtLogin(a, "compare") /\ ~login[a].first
  /\ Verified(a, IF login[a].account.status = "active"
                    /\ login[a].account.password = login[a].password
                 THEN "clear" ELSE "record")
  /\ UNCHANGED <<user, login>>

\* createBootstrapAccount counts and then inserts; whoever comes second looks again.
Again(a) == Now(a, [login[a] EXCEPT !.step = "read", !.first = FALSE, !.retried = TRUE])

BootstrapCount(a) ==
  /\ AtLogin(a, "initialize")
  /\ IF NoAccount THEN Now(a, [login[a] EXCEPT !.step = "insert"]) ELSE Again(a)

BootstrapInsert(a) ==
  /\ AtLogin(a, "insert")
  /\ IF EmailFree(admin)
     THEN /\ user' = [user EXCEPT ![admin] = User("owner", AdminPassword)]
          /\ login' = [login EXCEPT ![a].account = User("owner", AdminPassword)]
          /\ Verified(a, "clear")
     ELSE Again(a)

VerifyFails(a) == pc[a] = "verify" /\ Verified(a, "error") /\ UNCHANGED <<user, login>>

\* The session is of the version the password was compared with.
\* Mutant: the account is read again for it.
LateVersion(a) == user[AccountOf(a)].version
SessionVersion(a) == login[a].account.version

LoginEnds(a) ==
  /\ Clear(a)
  /\ sessions' = IF pc'[a] # "authenticated" THEN sessions
                 ELSE sessions \cup {[email |-> AccountOf(a), version |-> SessionVersion(a),
                                      password |-> login[a].password]}
  /\ UNCHANGED <<focus, admin, user, login, change>>

-----------------------------------------------------------------------------
(* Other requests.                                                         *)

\* authenticateToken: a legacy session counts while there is no account.
Accepted(s) ==
  IF s = Legacy THEN NoAccount
  ELSE user[s.email].status = "active" /\ user[s.email].version = s.version

Set(w, c) == change' = [change EXCEPT ![w] = c] /\ UNCHANGED <<vars, focus, admin, login>>
Done(w) == Set(w, NoChange)
AtChange(w, step) == change[w].step = step
Owner(w) == change[w].session # Legacy /\ user[change[w].session.email].role = "owner"

Authenticate(w, s) ==
  /\ AtChange(w, "idle")
  /\ Accepted(s)
  /\ Set(w, [NoChange EXCEPT !.step = "authenticated", !.session = s])
  /\ UNCHANGED <<user, sessions>>

\* initializeAccountFromLegacySession.
InitializeCount(w, p) ==
  /\ AtChange(w, "authenticated") /\ change[w].session = Legacy
  /\ IF NoAccount THEN Set(w, [change[w] EXCEPT !.step = "insert", !.password = p]) ELSE Done(w)
  /\ UNCHANGED <<user, sessions>>

InitializeInsert(w) ==
  /\ AtChange(w, "insert")
  /\ Done(w)
  /\ IF EmailFree(admin)
     THEN /\ user' = [user EXCEPT ![admin] = User("owner", change[w].password)]
          /\ sessions' = sessions \cup {[email |-> admin, version |-> 1,
                                         password |-> change[w].password]}
     ELSE UNCHANGED <<user, sessions>>

\* changeAccountPassword up to the hash of the new password.
ReadBefore(w, current, p) ==
  LET s == change[w].session
      before == user[s.email] IN
  /\ AtChange(w, "authenticated") /\ s # Legacy
  /\ current # p
  /\ IF /\ before.status = "active" /\ before.version = s.version
        /\ before.version < MaxVersion
        /\ before.password = current
     THEN Set(w, [change[w] EXCEPT !.step = "hashed", !.before = before, !.password = p])
     ELSE Done(w)
  /\ UNCHANGED <<user, sessions>>

\* Mutant: only the state of the account is looked at again.
SameStatus(row, before) == row.status = "active"
Unchanged(row, before) ==
  row.status = "active" /\ row.version = before.version /\ row.password = before.password

CommitPassword(w) ==
  LET e == change[w].session.email
      before == change[w].before IN
  /\ AtChange(w, "hashed")
  /\ Done(w)
  /\ IF Unchanged(user[e], before)
     THEN /\ user' = [user EXCEPT ![e].password = change[w].password,
                                  ![e].version = before.version + 1]
          /\ sessions' = sessions \cup {[email |-> e, version |-> before.version + 1,
                                         password |-> change[w].password]}
     ELSE UNCHANGED <<user, sessions>>

\* createManagedUser and updateManagedUser; only owners have accounts.manage.
CreateManagedUser(w, e, p) ==
  /\ AtChange(w, "authenticated") /\ Owner(w)
  /\ EmailFree(e)
  /\ user' = [user EXCEPT ![e] = User("member", p)]
  /\ Done(w)
  /\ UNCHANGED sessions

NextVersion(row) == row.version + 1

UpdateManagedUser(w, e, status) ==
  /\ AtChange(w, "authenticated") /\ Owner(w)
  /\ user[e].role = "member" /\ e # change[w].session.email
  /\ user[e].version < MaxVersion
  /\ user' = [user EXCEPT ![e].status = status, ![e].version = NextVersion(user[e])]
  /\ Done(w)
  /\ UNCHANGED sessions

RequestFails(w) == ~AtChange(w, "idle") /\ Done(w) /\ UNCHANGED <<user, sessions>>

-----------------------------------------------------------------------------

LoginApi(a) ==
  \/ \E e \in Accounts, p \in Passwords : BeginLogin(a, e, p)
  \/ /\ Check(a) \/ SelectRows(a) \/ Retry(a) \/ Record(a) \/ Fail(a)
     /\ UNCHANGED <<focus, admin, user, login, sessions, change>>
  \/ ReadAccount(a) \/ CountAccounts(a) \/ CompareFirst(a) \/ Compare(a)
  \/ BootstrapCount(a) \/ BootstrapInsert(a) \/ VerifyFails(a) \/ LoginEnds(a)

PasswordApi(w) ==
  \/ \E p \in Passwords : InitializeCount(w, p)
  \/ InitializeInsert(w)
  \/ \E current, p \in Passwords : ReadBefore(w, current, p)
  \/ CommitPassword(w)

UsersApi(w) == \E e \in Accounts, p \in Passwords : CreateManagedUser(w, e, p)
UserApi(w) == \E e \in Accounts, status \in {"active", "disabled"} : UpdateManagedUser(w, e, status)

AccountsNext ==
  \/ /\ focus = "throttle"
     /\ Next
     /\ UNCHANGED <<focus, admin, user, login, sessions, change>>
  \/ /\ focus = "accounts"
     /\ \/ \E a \in Attempts : LoginApi(a)
        \/ \E w \in Workers :
             \/ \E s \in sessions : Authenticate(w, s)
             \/ PasswordApi(w) \/ UsersApi(w) \/ UserApi(w) \/ RequestFails(w)

AccountsSpec == AccountsInit /\ [][AccountsNext]_accountVars

-----------------------------------------------------------------------------
(* What accounts promise.                                                  *)

\* Rows and sessions are of their types, and there is one owner once there is anyone.
AccountsTypeOK ==
  /\ TypeOK
  /\ user \in [Accounts -> [role : {"none", "owner", "member"}, status : {"active", "disabled"},
                            password : Passwords \cup {None}, version : 0..MaxVersion]]
  /\ sessions \subseteq [email : Accounts \cup {None}, version : 0..MaxVersion,
                         password : Passwords \cup {None}]
  /\ Cardinality({e \in Accounts : user[e].role = "owner"}) = IF NoAccount THEN 0 ELSE 1

\* A session is accepted on the account's present password only: whatever was read
\* before the password was compared or hashed, one that was given out for another
\* password, or before the access of the account was changed, is not.
SessionsProved ==
  \A s \in sessions \ {Legacy} : Accepted(s) => s.password = user[s.email].password

\* Every change of an account brings a version of its own, and so ends every session
\* that was given out before; an account is never begun a second time.
ChangesEndSessions ==
  [][\A e \in Accounts : user[e] # NoUser /\ user'[e] # user[e] =>
       /\ user'[e].version = user[e].version + 1
       /\ \A s \in sessions : s.email = e => s.version <= user[e].version]_accountVars

\* Nobody changes a password by a session that has ended meanwhile, or one that
\* others have changed meanwhile; the owner stays active.
NoLateChange ==
  [][\A e \in Accounts : user[e] # NoUser =>
       /\ user'[e].password # user[e].password =>
            \E w \in Workers : /\ change[w].session.email = e /\ Accepted(change[w].session)
                               /\ change[w].before = user[e]
       /\ user[e].role = "owner" => user'[e].role = "owner" /\ user'[e].status = "active"]_accountVars

\* What holds of accounts, sessions and the throttle in every state.
AccountsSound == AccountsTypeOK /\ EvidenceSound

\* What no step may do to an account.
ChangesProved == NoLateChange /\ ChangesEndSessions
=============================================================================
