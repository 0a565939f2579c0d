------------------------------ MODULE Identity ------------------------------
(* Accounts, sign-in, sessions and second factors (internal/identity).  A      *)
(* session lives twice: as a row of sessions, and as a key of the session      *)
(* store that every request is resolved from.  The two are written one after   *)
(* the other and never in one transaction, so what ends all the sessions of a  *)
(* user is the epoch on the users row that Resolve compares with.              *)
EXTENDS Naturals, FiniteSets, Functions

CONSTANTS Accounts, Passwords, SessionIds, Callers,
          LoginRateMax, LoginLockAfter,
          Codes,          \* backup codes
          Grants,         \* the permissions of a role
          TenantWideRoles, rolesRequiringMfa, StationScoped, Outlets,
          MaxEpoch,       \* bound on the password changes of an account
          MaxSecret,      \* bound on the enrolments of an account
          Void            \* no row, no key, no password

VARIABLES account,    \* the users table
          attempts,   \* the rate limiter's counter of an account's bucket
          sessionRow, \* the sessions table
          store,      \* the session store: the session under its token, or Void
          reset,      \* accounts with a live password-reset token
          rehash,     \* detached rehashes of Login, <<account, password>>
          call,       \* the request a caller is serving
          codes,      \* user_mfa.backup_codes
          usedTotp,   \* one-time codes the guard has seen
          roles, access

identityTables == <<account, attempts, sessionRow, store, reset, rehash, call, codes, usedTotp, roles, access>>

Free == [op |-> "idle"]
Invited == [status |-> "invited", pw |-> Void, stale |-> FALSE, epoch |-> 0, failed |-> 0, locked |-> FALSE,
            mfa |-> FALSE, secret |-> 0]
Seeded(p, old) == [Invited EXCEPT !.status = "active", !.pw = p, !.stale = old]

IdentityInit ==
  /\ account \in [Accounts -> {Void} \cup {Seeded(p, old) : p \in Passwords, old \in BOOLEAN}]
  /\ attempts = [u \in Accounts |-> 0]
  /\ sessionRow = [s \in SessionIds |-> Void]
  /\ store = [s \in SessionIds |-> Void]
  /\ reset = {} /\ rehash = {} /\ usedTotp = {}
  /\ call = [c \in Callers |-> Free]
  /\ codes = [u \in Accounts |-> {}]
  /\ roles = [u \in Accounts |-> {}] /\ access = [u \in Accounts |-> {}]

\* A transaction that updated the users row holds it until it commits.
Unlocked(u) == \A c \in Callers : call[c].op = "revoking" => call[c].user # u

Begin_(c, r) == call[c] = Free /\ call' = [call EXCEPT ![c] = r]
Next_(c, op) == call' = [call EXCEPT ![c].op = op]
End_(c) == call' = [call EXCEPT ![c] = Free]

------------------------------------------------------------------------------
\* The users repository.
FindForLogin(u) == account[u] # Void
IsActive(u) == account[u].status = "active"

SetPassword(u, p) ==
  /\ Unlocked(u)
  /\ account' = [account EXCEPT ![u].pw = p, ![u].stale = FALSE, ![u].failed = 0, ![u].locked = FALSE,
                                ![u].status = IF @ = "invited" THEN "active" ELSE @]

MarkLoginSuccess(u) ==
  /\ Unlocked(u)
  /\ account' = [account EXCEPT ![u].failed = 0, ![u].locked = FALSE]

MarkLoginFailure(u) ==
  /\ Unlocked(u)
  /\ account[u].failed < LoginLockAfter + 1
  /\ account' = [account EXCEPT ![u].failed = @ + 1,
                                ![u].locked = @ \/ account[u].failed + 1 >= LoginLockAfter]

CurrentSessionEpoch(u) == account[u].epoch

\* The rate limiter: Allow counts the attempt before it compares.  The bucket of
\* the client's address comes first and is left out: a login that it refuses has
\* not reached the account's bucket and changes nothing here.
Allow(u) == attempts' = [attempts EXCEPT ![u] = IF @ > LoginRateMax THEN @ ELSE @ + 1]
Allowed(u) == attempts[u] + 1 <= LoginRateMax
Reset(u) == attempts' = [attempts EXCEPT ![u] = 0]

\* time passes: the window of the limiter, the lock of an account
WindowEnds(u) == attempts[u] # 0 /\ Reset(u) /\ UNCHANGED <<account, sessionRow, store, reset, rehash, call, codes, usedTotp, roles, access>>
LockEnds(u) ==
  /\ account[u] # Void /\ Unlocked(u) /\ account[u].locked
  /\ account' = [account EXCEPT ![u].locked = FALSE]
  /\ UNCHANGED <<attempts, sessionRow, store, reset, rehash, call, codes, usedTotp, roles, access>>

------------------------------------------------------------------------------
\* Login: the limiter, the user as it is now, the password; then the second
\* factor; then the transaction; then the store.
MayTry(u) == FindForLogin(u) /\ IsActive(u) /\ ~ account[u].locked /\ account[u].pw # Void

LoginRefused(u) ==
  /\ ~ Allowed(u) \/ ~ MayTry(u)
  /\ Allow(u)
  /\ UNCHANGED <<account, sessionRow, store, reset, rehash, call, codes, usedTotp, roles, access>>

LoginRead(c, u, p) ==
  /\ Allowed(u) /\ MayTry(u)
  /\ Allow(u)
  /\ Begin_(c, [op |-> IF p # account[u].pw THEN "fail" ELSE IF account[u].mfa THEN "mfa" ELSE "proceed",
                user |-> u, pw |-> p, epoch |-> account[u].epoch, secret |-> account[u].secret,
                stale |-> account[u].stale, mfa |-> account[u].mfa])
  /\ UNCHANGED <<account, sessionRow, store, reset, rehash, codes, usedTotp, roles, access>>

LoginFailed(c) ==
  /\ call[c].op = "fail" /\ MarkLoginFailure(call[c].user) /\ End_(c)
  /\ UNCHANGED <<attempts, sessionRow, store, reset, rehash, codes, usedTotp, roles, access>>

\* checkTOTP: a code of the secret that was read, spent once by the guard
Consume(u, k) == <<u, k>> \notin usedTotp /\ usedTotp' = usedTotp \cup {<<u, k>>}
checkTOTP(c) ==
  /\ call[c].op = "mfa" /\ call[c].secret # 0
  /\ \/ Consume(call[c].user, call[c].secret) /\ Next_(c, "proceed")
     \/ <<call[c].user, call[c].secret>> \in usedTotp /\ End_(c) /\ UNCHANGED usedTotp
  /\ UNCHANGED <<account, attempts, sessionRow, store, reset, rehash, codes, roles, access>>

\* consumeBackupCode: the list is read, the match is removed in a transaction
MatchBackupCode(c, from, to, else) ==
  /\ call[c].op = from
  /\ \/ \E k \in codes[call[c].user] : call' = [call EXCEPT ![c].op = to, ![c].secret = k]
     \/ Next_(c, else)
  /\ UNCHANGED <<account, attempts, sessionRow, store, reset, rehash, codes, usedTotp, roles, access>>

ConsumeBackupCode(c, from, to) ==
  /\ call[c].op = from
  /\ codes' = [codes EXCEPT ![call[c].user] = @ \ {call[c].secret}]
  /\ Next_(c, to)
  /\ UNCHANGED <<account, attempts, sessionRow, store, reset, rehash, usedTotp, roles, access>>

\* Without a code the answer is that one is needed.
MfaRequired(c) ==
  /\ call[c].op = "mfa" /\ End_(c)
  /\ UNCHANGED <<account, attempts, sessionRow, store, reset, rehash, codes, usedTotp, roles, access>>

LoginMfa(c) == MfaRequired(c) \/ checkTOTP(c) \/ MatchBackupCode(c, "mfa", "backup", "fail") \/ ConsumeBackupCode(c, "backup", "proceed")

\* The marker of a spent code outlives the code.
TotpWindowEnds(m) == m \in usedTotp /\ usedTotp' = usedTotp \ {m} /\ UNCHANGED <<account, attempts, sessionRow, store, reset, rehash, call, codes, roles, access>>

Insert_(s, u) == sessionRow[s] = Void /\ sessionRow' = [sessionRow EXCEPT ![s] = [user |-> u, revoked |-> "no", expired |-> FALSE]]
Put(s, k) == store' = [store EXCEPT ![s] = k]
Revoke(s, why) == sessionRow' = [sessionRow EXCEPT ![s].revoked = IF @ = "no" THEN why ELSE @]

\* The rehash starts before the transaction, and goes on when that fails.
LoginTx(c, s) ==
  /\ call[c].op = "proceed"
  /\ LET u == call[c].user IN
     /\ rehash' = IF call[c].stale THEN rehash \cup {<<u, call[c].pw>>} ELSE rehash
     /\ \/ /\ MarkLoginSuccess(u) /\ Insert_(s, u) /\ Reset(u)
           /\ call' = [call EXCEPT ![c] = [op |-> "put", user |-> u, sess |-> s, key |-> [epoch |-> @.epoch, mfa |-> @.mfa]]]
        \/ End_(c) /\ UNCHANGED <<account, sessionRow, attempts>>
  /\ UNCHANGED <<store, reset, codes, usedTotp, roles, access>>

LoginPut(c) ==
  /\ call[c].op = "put"
  /\ \/ Put(call[c].sess, call[c].key) /\ UNCHANGED sessionRow
     \/ Revoke(call[c].sess, "redis put failed") /\ UNCHANGED store
  /\ End_(c)
  /\ UNCHANGED <<account, attempts, reset, rehash, codes, usedTotp, roles, access>>

Login(c) ==
  \/ \E u \in Accounts, p \in Passwords : LoginRead(c, u, p)
  \/ LoginFailed(c) \/ LoginMfa(c)
  \/ \E s \in SessionIds : LoginTx(c, s)
  \/ LoginPut(c)

RehashLater(u, p) ==
  /\ <<u, p>> \in rehash /\ rehash' = rehash \ {<<u, p>>}
  /\ SetPassword(u, p)
  /\ UNCHANGED <<attempts, sessionRow, store, reset, call, codes, usedTotp, roles, access>>

------------------------------------------------------------------------------
\* Sessions.
Resolvable(s) == store[s] # Void /\ store[s].epoch = CurrentSessionEpoch(sessionRow[s].user)

\* Resolve drops a key that it refuses.
Resolve(s) ==
  /\ store[s] # Void /\ ~ Resolvable(s) /\ Put(s, Void)
  /\ UNCHANGED <<account, attempts, sessionRow, reset, rehash, call, codes, usedTotp, roles, access>>

\* The time to live of the key and expires_at of the row pass together.
Expire(s) ==
  /\ sessionRow[s] # Void /\ ~ sessionRow[s].expired
  /\ sessionRow' = [sessionRow EXCEPT ![s].expired = TRUE] /\ Put(s, Void)
  /\ UNCHANGED <<account, attempts, reset, rehash, call, codes, usedTotp, roles, access>>

Logout(c, s) ==
  \/ /\ store[s] # Void /\ Put(s, Void)
     /\ Begin_(c, [op |-> "logout", sess |-> s, user |-> sessionRow[s].user]) /\ UNCHANGED sessionRow
     /\ UNCHANGED <<account, attempts, reset, rehash, codes, usedTotp, roles, access>>
  \/ /\ call[c].op = "logout" /\ call[c].sess = s
     /\ Revoke(s, "logout") /\ End_(c) /\ UNCHANGED store
     /\ UNCHANGED <<account, attempts, reset, rehash, codes, usedTotp, roles, access>>

FindActiveOwnedBy(s, u) ==
  sessionRow[s] # Void /\ sessionRow[s].user = u /\ sessionRow[s].revoked = "no" /\ ~ sessionRow[s].expired

RevokeSession(c, u, s) ==
  \/ /\ FindActiveOwnedBy(s, u) /\ Put(s, Void)
     /\ Begin_(c, [op |-> "self-revoke", sess |-> s, user |-> u]) /\ UNCHANGED sessionRow
     /\ UNCHANGED <<account, attempts, reset, rehash, codes, usedTotp, roles, access>>
  \/ /\ call[c].op = "self-revoke" /\ call[c].sess = s /\ call[c].user = u
     /\ Revoke(s, "self-revoke") /\ End_(c) /\ UNCHANGED store
     /\ UNCHANGED <<account, attempts, reset, rehash, codes, usedTotp, roles, access>>

\* Refresh writes back the session it read, then the row's expiry.
TouchExpiry(s) == sessionRow' = [sessionRow EXCEPT ![s].expired = @ /\ sessionRow[s].revoked # "no"]
Refresh(c, s) ==
  \/ /\ store[s] # Void
     /\ Begin_(c, [op |-> "refresh", sess |-> s, user |-> sessionRow[s].user, key |-> store[s]])
     /\ UNCHANGED <<store, sessionRow>>
     /\ UNCHANGED <<account, attempts, reset, rehash, codes, usedTotp, roles, access>>
  \/ /\ call[c].op = "refresh" /\ call[c].sess = s
     /\ Put(s, call[c].key) /\ Next_(c, "touch") /\ UNCHANGED sessionRow
     /\ UNCHANGED <<account, attempts, reset, rehash, codes, usedTotp, roles, access>>
  \/ /\ call[c].op = "touch" /\ call[c].sess = s
     /\ TouchExpiry(s) /\ End_(c) /\ UNCHANGED store
     /\ UNCHANGED <<account, attempts, reset, rehash, codes, usedTotp, roles, access>>

------------------------------------------------------------------------------
\* Passwords.  A change and a reset share revokeAllUserSessions, inside the
\* transaction that set the password: the keys first, a failed delete only
\* logged; then the epoch and the rows.
ListActiveForUser(u) == {s \in SessionIds : FindActiveOwnedBy(s, u)}
RevokeAllForUser(u, why) ==
  sessionRow' = [s \in SessionIds |-> IF sessionRow[s] # Void /\ sessionRow[s].user = u /\ sessionRow[s].revoked = "no"
                                      THEN [sessionRow[s] EXCEPT !.revoked = why] ELSE sessionRow[s]]
BumpSessionEpochNever(a) == a
BumpSessionEpoch(a) == [a EXCEPT !.epoch = @ + 1]

ChangePasswordRead(c, u, old, p) ==
  /\ FindForLogin(u) /\ account[u].epoch < MaxEpoch
  /\ account[u].pw \in {old, Void}
  /\ Begin_(c, [op |-> "change", user |-> u, pw |-> p, token |-> FALSE])
  /\ UNCHANGED <<account, attempts, sessionRow, store, reset, rehash, codes, usedTotp, roles, access>>

RequestPasswordReset(u) ==
  /\ FindForLogin(u) /\ reset' = reset \cup {u}
  /\ UNCHANGED <<account, attempts, sessionRow, store, rehash, call, codes, usedTotp, roles, access>>

ConfirmPasswordResetRead(c, u, p) ==
  /\ u \in reset /\ account[u].epoch < MaxEpoch
  /\ Begin_(c, [op |-> "change", user |-> u, pw |-> p, token |-> TRUE])
  /\ UNCHANGED <<account, attempts, sessionRow, store, reset, rehash, codes, usedTotp, roles, access>>

ResetTokenEnds(u) ==
  /\ u \in reset /\ reset' = reset \ {u}
  /\ UNCHANGED <<account, attempts, sessionRow, store, rehash, call, codes, usedTotp, roles, access>>

DeleteKeys(c) ==
  /\ call[c].op = "change" /\ Unlocked(call[c].user) /\ account[call[c].user].epoch < MaxEpoch
  /\ \E gone \in SUBSET ListActiveForUser(call[c].user) :
       store' = [s \in SessionIds |-> IF s \in gone THEN Void ELSE store[s]]
  /\ Next_(c, "revoking")
  /\ UNCHANGED <<account, attempts, sessionRow, reset, rehash, codes, usedTotp, roles, access>>

\* The commit; a failure rolls it back, the deleted keys stay deleted.  A reset
\* then spends its token, a failed delete is ignored.
revokeAllUserSessions(c) ==
  /\ call[c].op = "revoking"
  /\ LET u == call[c].user IN
     \/ /\ account' = [account EXCEPT ![u] =
                         BumpSessionEpoch([@ EXCEPT !.pw = call[c].pw, !.stale = FALSE, !.failed = 0, !.locked = FALSE,
                                                    !.status = IF @ = "invited" THEN "active" ELSE @])]
        /\ RevokeAllForUser(u, "all")
        /\ reset' \in {reset, IF call[c].token THEN reset \ {u} ELSE reset}
     \/ UNCHANGED <<account, sessionRow, reset>>
  /\ End_(c)
  /\ UNCHANGED <<attempts, store, rehash, codes, usedTotp, roles, access>>

ChangePassword(c) ==
  \/ \E u \in Accounts, old, p \in Passwords : ChangePasswordRead(c, u, old, p)
  \/ \E u \in Accounts, p \in Passwords : ConfirmPasswordResetRead(c, u, p)
  \/ DeleteKeys(c) \/ revokeAllUserSessions(c)

------------------------------------------------------------------------------
\* Second factors: the user is read from the pool, the transaction writes
\* without looking again.
MfaRead(c, u, op, ok) ==
  /\ ok /\ Begin_(c, [op |-> op, user |-> u, secret |-> account[u].secret])
  /\ UNCHANGED <<account, attempts, sessionRow, store, reset, rehash, codes, usedTotp, roles, access>>

EnrollMfaRead(c, u) == MfaRead(c, u, "enroll", ~ account[u].mfa /\ account[u].secret < MaxSecret)
VerifyMfaRead(c, u) == MfaRead(c, u, "verify", account[u].secret # 0)
ConfirmEnrollRead(c, u) == MfaRead(c, u, "confirm", account[u].secret # 0)
DisableMfaRead(c, u) ==
  \/ MfaRead(c, u, "disable", account[u].mfa /\ account[u].secret # 0)
  \/ MfaRead(c, u, "disable by code", account[u].mfa)
DisableMfaCode(c) == MatchBackupCode(c, "disable by code", "spend", "refused") \/ ConsumeBackupCode(c, "spend", "disable")
RegenerateRead(c, u) == MfaRead(c, u, "regenerate", account[u].mfa)

EnrollMfa(u) == account' = [account EXCEPT ![u].secret = (@ % MaxSecret) + 1, ![u].mfa = FALSE] /\ UNCHANGED codes
ActivateMfa(u) == account' = [account EXCEPT ![u].mfa = TRUE]
SetBackupCodes(u) == codes' = [codes EXCEPT ![u] = Codes]
DisableMfa(u) == account' = [account EXCEPT ![u].mfa = FALSE, ![u].secret = 0] /\ codes' = [codes EXCEPT ![u] = {}]

MfaTx(c) ==
  /\ call[c].op \in {"enroll", "verify", "confirm", "disable", "regenerate"} /\ Unlocked(call[c].user)
  /\ LET u == call[c].user IN
     \/ call[c].op = "enroll" /\ EnrollMfa(u)
     \/ call[c].op = "verify" /\ ActivateMfa(u) /\ UNCHANGED codes
     \/ call[c].op = "confirm" /\ ActivateMfa(u) /\ SetBackupCodes(u)
     \/ call[c].op = "disable" /\ DisableMfa(u)
     \/ call[c].op = "regenerate" /\ SetBackupCodes(u) /\ UNCHANGED account
  /\ End_(c)
  /\ UNCHANGED <<attempts, sessionRow, store, reset, rehash, usedTotp, roles, access>>

MfaRefused(c) ==
  /\ call[c].op = "refused" /\ End_(c)
  /\ UNCHANGED <<account, attempts, sessionRow, store, reset, rehash, codes, usedTotp, roles, access>>

MfaStep(c) ==
  \/ \E u \in {v \in Accounts : FindForLogin(v)} :
       EnrollMfaRead(c, u) \/ VerifyMfaRead(c, u) \/ ConfirmEnrollRead(c, u) \/ DisableMfaRead(c, u) \/ RegenerateRead(c, u)
  \/ DisableMfaCode(c) \/ MfaTx(c) \/ MfaRefused(c)

RoleRequiresMfa(u) == roles[u] \cap rolesRequiringMfa # {}
MfaState(u) == [enabled |-> account[u].mfa, required |-> RoleRequiresMfa(u), remaining |-> Cardinality(codes[u])]

\* Under enforcement a request needs a session that passed the second factor,
\* or a user whose roles do not ask for one.
requireMFASatisfied(s) == store[s].mfa \/ ~ MfaState(sessionRow[s].user).required

------------------------------------------------------------------------------
\* Permissions: what the roles of a user grant, and where.
Load(u) ==
  LET admin == "system_admin" \in roles[u] IN
  [permissions |-> IF admin THEN UNION Range(Grants) ELSE UNION {Grants[k] : k \in roles[u]},
   stations    |-> access[u],
   tenantWide  |-> admin \/ roles[u] \cap TenantWideRoles # {}]

Can(u, perm, st) ==
  LET ps == Load(u) IN
  /\ perm \in ps.permissions
  /\ perm \in StationScoped => st # Void /\ (ps.tenantWide \/ st \in ps.stations)

\* A session that resolves, the second factor, the permission.
requireAuth(s) == store[s] # Void /\ Resolvable(s)
requirePermission(s, perm) == requireAuth(s) /\ requireMFASatisfied(s) /\ Can(sessionRow[s].user, perm, Void)

\* The administration of users, by the holder of session s.
Invite(u) == account[u] = Void /\ account' = [account EXCEPT ![u] = Invited]
handleInviteUser(s, u) ==
  /\ requirePermission(s, "users.invite") /\ Invite(u)
  /\ UNCHANGED <<attempts, sessionRow, store, reset, rehash, call, codes, usedTotp, roles, access>>

\* A new tenant's first user, by the platform token; the reset token is
\* issued after the commit and may be missing.
handleCreateTenant(u) ==
  /\ Invite(u) /\ roles' = [roles EXCEPT ![u] = {"system_admin"}]
  /\ reset' \in {reset, reset \cup {u}}
  /\ UNCHANGED <<attempts, sessionRow, store, rehash, call, codes, usedTotp, access>>

UpdateStatus(u, st) == FindForLogin(u) /\ Unlocked(u) /\ account' = [account EXCEPT ![u].status = st]
handleUpdateUserStatus(s, u, st) ==
  /\ requirePermission(s, "users.manage") /\ UpdateStatus(u, st)
  /\ UNCHANGED <<attempts, sessionRow, store, reset, rehash, call, codes, usedTotp, roles, access>>

GrantRole(u, k) == roles' = [roles EXCEPT ![u] = @ \cup {k}]
handleGrantRole(s, u, k) ==
  /\ requirePermission(s, "users.assign_roles") /\ FindForLogin(u) /\ GrantRole(u, k)
  /\ UNCHANGED <<account, attempts, sessionRow, store, reset, rehash, call, codes, usedTotp, access>>

RevokeRole(u, k) == roles' = [roles EXCEPT ![u] = @ \ {k}]
handleRevokeUserRole(s, u, k) ==
  /\ requirePermission(s, "users.assign_roles") /\ FindForLogin(u) /\ RevokeRole(u, k)
  /\ UNCHANGED <<account, attempts, sessionRow, store, reset, rehash, call, codes, usedTotp, access>>

GrantStationAccess(u, st) == access' = [access EXCEPT ![u] = @ \cup {st}]
handleGrantStationAccess(s, u, st) ==
  /\ requirePermission(s, "users.assign_roles") /\ FindForLogin(u) /\ GrantStationAccess(u, st)
  /\ UNCHANGED <<account, attempts, sessionRow, store, reset, rehash, call, codes, usedTotp, roles>>

RevokeStationAccess(u, st) == access' = [access EXCEPT ![u] = @ \ {st}]
handleRevokeStationAccess(s, u, st) ==
  /\ requirePermission(s, "users.assign_roles") /\ FindForLogin(u) /\ RevokeStationAccess(u, st)
  /\ UNCHANGED <<account, attempts, sessionRow, store, reset, rehash, call, codes, usedTotp, roles>>

------------------------------------------------------------------------------
CredentialNext ==
  \/ \E c \in Callers : Login(c) \/ ChangePassword(c)
  \/ \E u \in Accounts : LoginRefused(u) \/ WindowEnds(u) \/ LockEnds(u) \/ RequestPasswordReset(u) \/ ResetTokenEnds(u)
  \/ \E u \in Accounts, p \in Passwords : RehashLater(u, p)

SessionNext ==
  \/ \E c \in Callers, s \in SessionIds : Logout(c, s) \/ Refresh(c, s) \/ \E u \in Accounts : RevokeSession(c, u, s)
  \/ \E c \in Callers : Login(c) \/ ChangePassword(c)
  \/ \E s \in SessionIds : Resolve(s) \/ Expire(s)

MfaNext ==
  \/ \E c \in Callers : Login(c) \/ MfaStep(c)
  \/ \E m \in usedTotp : TotpWindowEnds(m)

PeopleNext ==
  \/ \E c \in Callers : Login(c) \/ ChangePassword(c)
  \/ \E u \in Accounts : handleCreateTenant(u)
  \/ \E s \in SessionIds, u \in Accounts :
       \/ handleInviteUser(s, u)
       \/ \E st \in {"active", "suspended"} : handleUpdateUserStatus(s, u, st)
       \/ \E k \in DOMAIN Grants : handleGrantRole(s, u, k) \/ handleRevokeUserRole(s, u, k)
       \/ \E st \in Outlets : handleGrantStationAccess(s, u, st) \/ handleRevokeStationAccess(s, u, st)

\* A password change or reset ends every session that stood when it committed,
\* even where the delete of its key failed or a refresh wrote the key back
\* (revokeAllUserSessions, Resolve).
PasswordChangeEndsSessions ==
  \A s \in SessionIds : sessionRow[s] # Void /\ sessionRow[s].revoked = "all" => ~ Resolvable(s)
==============================================================================
