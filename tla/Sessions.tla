------------------------------- MODULE Sessions -------------------------------
(***************************************************************************)
(* Login sessions and the authentication state of a user, both stored in   *)
(* the database and cached in Redis.                                       *)
(*                                                                         *)
(* The user: every change of password, role, status or second factor       *)
(* raises auth_version.  Before it commits, a fence with the next version  *)
(* is published; after it, the version becomes a floor that never falls.   *)
(* A cached user below the fence or the floor is not used.                 *)
(*                                                                         *)
(* The session: a deny entry is cached before a revocation commits and     *)
(* again after it.  An entry of an active session lives no longer than a   *)
(* deadline taken before its row was read.                                 *)
(*                                                                         *)
(* Time is a tick; a key of Redis carries the ticks it has left.           *)
(***************************************************************************)
EXTENDS Integers

CONSTANTS
  Requests,    \* goroutines that sign in, authenticate or refresh
  Changers,    \* goroutines that change the user or revoke the session
  CacheTTL,    \* ticks a cached user or session lives
  Patience,    \* ticks the next step of a goroutine may take
  MaxVersion,  \* bound: the last auth_version
  MaxFaults    \* bound: failed calls, rollbacks and crashes

ASSUME SessionsAssumption ==
  /\ "nil" \notin Changers
  /\ CacheTTL \in Nat /\ Patience \in Nat /\ 2 * Patience < CacheTTL
  /\ MaxVersion \in Nat \ {0} /\ MaxFaults \in Nat

VARIABLES
  user,    \* row of the user: status and auth_version
  hash,    \* cached user
  fence,   \* pending fence
  floor,   \* committed version
  sess,    \* row of the session: status, version and user_auth_version
  scache,  \* cached session
  ids,     \* identities of the access tokens issued
  req,     \* goroutine -> the request it handles
  chg,     \* goroutine -> the change it makes
  lock,    \* the changer that holds the user row
  faults   \* faults so far

authVars == <<user, hash, fence, floor, sess, scache, ids, req, chg, lock, faults>>

Nil == "nil"
NoId == [ver |-> 0, uav |-> 0]
NoRequest == [pc |-> "idle", kind |-> Nil, id |-> NoId, dead |-> {}, left |-> 0, age |-> 0, got |-> NoId, seen |-> [status |-> Nil, ver |-> 0]]
NoChange == [pc |-> "idle", kind |-> Nil, id |-> NoId, left |-> 0, age |-> 0, got |-> NoId, seen |-> [status |-> Nil, ver |-> 0]]
NoEntry == [status |-> Nil, ver |-> 0, uav |-> 0, ttl |-> 0]
NoHash == [status |-> Nil, ver |-> 0, ttl |-> 0]
NoFence == [ver |-> 0, ttl |-> 0]

AuthInit ==
  /\ user = [status |-> "enabled", ver |-> 1]
  /\ hash = NoHash /\ fence = NoFence /\ floor = 0
  /\ sess = [status |-> "none", ver |-> 0, uav |-> 0] /\ scache = NoEntry /\ ids = {}
  /\ req = [r \in Requests |-> NoRequest] /\ chg = [c \in Changers |-> NoChange]
  /\ lock = Nil /\ faults = 0

Doing(r, pc) == req[r].pc = pc
Step(r, rec) == req' = [req EXCEPT ![r] = [rec EXCEPT !.age = 0]]
To(r, pc) == Step(r, [req[r] EXCEPT !.pc = pc])
Refuse(r) == Step(r, NoRequest)
Making(c, pc) == chg[c].pc = pc
Move(c, rec) == chg' = [chg EXCEPT ![c] = [rec EXCEPT !.age = 0]]
Onto(c, pc) == Move(c, [chg[c] EXCEPT !.pc = pc])
Stop(c) == Move(c, NoChange)
Fails == faults < MaxFaults /\ faults' = faults + 1

userVars == <<user, hash, fence, floor, lock>>
sessVars == <<sess, scache, ids>>

-----------------------------------------------------------------------------
(* The cached user. *)

userAuthFenceTTLSeconds == CacheTTL + CacheTTL

\* A fence of the same version is renewed, a later one is left alone.
SetUserAuthVersionFence(next) ==
  IF fence.ver <= next THEN [ver |-> next, ttl |-> userAuthFenceTTLSeconds] ELSE fence

\* Mutant: the next version is published as committed at once.
MutIncrementUserAuthVersionWithTx(next) == floor' = next /\ UNCHANGED fence
IncrementUserAuthVersionWithTx(next) == fence' = SetUserAuthVersionFence(next) /\ UNCHANGED floor

getUserAuthVersionFloor == IF fence.ver > floor THEN fence.ver ELSE floor

Outdated(v) == getUserAuthVersionFloor > v \/ hash.ver > v

\* publishCommittedUserAuthVersion, and the first part of writeUserCache
Committed(v) ==
  /\ floor' = (IF floor < v THEN v ELSE floor)
  /\ fence' = (IF fence.ver <= v THEN NoFence ELSE fence)

\* The other fields are only refreshed when the user is cached.
writeUserCache(u, populate) ==
  /\ Committed(u.ver)
  /\ hash' = IF populate \/ hash.ttl > 0 THEN [status |-> u.status, ver |-> u.ver, ttl |-> CacheTTL] ELSE hash

\* cacheGetUserBase reads the entry, and the floor after it.
cacheGetUserBase(r) ==
  /\ Doing(r, "user")
  /\ IF hash.ttl = 0 THEN To(r, "userdb")
     ELSE Step(r, [req[r] EXCEPT !.pc = "floor", !.seen = [status |-> hash.status, ver |-> hash.ver]])
  /\ UNCHANGED <<userVars, sessVars, chg, faults>>

ReadFloor(r) ==
  /\ Doing(r, "floor")
  /\ To(r, IF getUserAuthVersionFloor > req[r].seen.ver THEN "userdb" ELSE "decide")
  /\ UNCHANGED <<userVars, sessVars, chg, faults>>

GetUserById(r) ==
  /\ Doing(r, "userdb")
  /\ IF user.status = "deleted" THEN Refuse(r) ELSE Step(r, [req[r] EXCEPT !.pc = "populate", !.seen = user])
  /\ UNCHANGED <<userVars, sessVars, chg, faults>>

\* The floor is asked for first, and again by the script.  A failure of Redis
\* leaves the answer of the database.
GetUserCache(r) ==
  /\ Doing(r, "populate")
  /\ \/ Outdated(req[r].seen.ver) /\ Refuse(r) /\ UNCHANGED <<hash, fence, floor, faults>>
     \/ ~Outdated(req[r].seen.ver) /\ writeUserCache(req[r].seen, TRUE) /\ To(r, "decide") /\ UNCHANGED faults
     \/ getUserAuthVersionFloor <= req[r].seen.ver /\ Fails /\ To(r, "decide") /\ UNCHANGED <<hash, fence, floor>>
  /\ UNCHANGED <<user, lock, sessVars, chg>>

-----------------------------------------------------------------------------
(* The cached session. *)

\* Mutant: an active snapshot replaces a deny entry of its version.
MutDenied(v) == scache.ver > v
Denied(v) == scache.status \in {"revoking", "revoked"} \/ scache.ver > v

Entry(status, s, ttl) == [status |-> status, ver |-> s.ver, uav |-> s.uav, ttl |-> ttl]
Snapshot == [ver |-> sess.ver, uav |-> sess.uav]
confirmUserSessionActiveSnapshot(s) == sess.status = "active" /\ Snapshot = s

\* What writing an active snapshot with some time left leads to.
Stored(s, left) == left > 0 /\ ~Denied(s.ver) /\ scache' = Entry("active", s, left)
Unstored(s, left) == left > 0 /\ Denied(s.ver) /\ UNCHANGED scache
TooLate(left) == left = 0 /\ UNCHANGED scache

\* A deny entry gives way to a later version only.
writeUserSessionDenyFence(status, s) ==
  scache' = IF scache.ver > s.ver THEN scache ELSE Entry(status, s, CacheTTL)

getUserSessionCache(r) ==
  /\ Doing(r, "session")
  /\ IF scache.ttl = 0 THEN Step(r, [req[r] EXCEPT !.pc = "sessdb", !.left = CacheTTL])
     ELSE IF scache.status = "active" THEN Step(r, [req[r] EXCEPT !.pc = "match", !.got = [ver |-> scache.ver, uav |-> scache.uav]])
     ELSE Refuse(r)
  /\ UNCHANGED <<userVars, sessVars, chg, faults>>

GetUserSessionBySID(r) ==
  /\ Doing(r, "sessdb")
  /\ IF sess.status = "active"
     THEN Step(r, [req[r] EXCEPT !.pc = "fill", !.got = Snapshot]) /\ UNCHANGED scache
     ELSE Refuse(r) /\ writeUserSessionDenyFence("revoked", Snapshot)
  /\ UNCHANGED <<userVars, sess, ids, chg, faults>>

\* The end of GetUserSessionCached, of CreateUserSession and of a rotation.
GetUserSessionCached(r) ==
  LET q == req[r]
      next == IF q.pc = "fill" THEN "match" ELSE "issue"
  IN /\ q.pc \in {"fill", "created", "rotated"}
     /\ \/ Stored(q.got, q.left) /\ To(r, next) /\ UNCHANGED faults
        \/ Unstored(q.got, q.left) /\ Refuse(r) /\ UNCHANGED faults
        \/ TooLate(q.left) /\ (IF confirmUserSessionActiveSnapshot(q.got) THEN To(r, next) ELSE Refuse(r)) /\ UNCHANGED faults
        \/ q.left > 0 /\ Fails /\ To(r, next) /\ UNCHANGED scache
     /\ UNCHANGED <<userVars, sess, ids, chg>>

-----------------------------------------------------------------------------
(* Requests. *)

Changed(id) == user.ver > id.uav \/ user.status # "enabled"
Revoked == sess.status = "revoked"

Bars(id) == (IF Changed(id) THEN {"changed"} ELSE {}) \cup (IF Revoked THEN {"revoked"} ELSE {})

ParseAccessToken(r, id) ==
  /\ Doing(r, "idle")
  /\ Step(r, [NoRequest EXCEPT !.pc = "session", !.kind = "validate", !.id = id, !.dead = Bars(id)])
  /\ UNCHANGED <<userVars, sessVars, chg, faults>>

BeginRefresh(r) ==
  /\ Doing(r, "idle") /\ ids # {}
  /\ Step(r, [NoRequest EXCEPT !.pc = "session", !.kind = "refresh"])
  /\ UNCHANGED <<userVars, sessVars, chg, faults>>

BeginLogin(r) ==
  /\ Doing(r, "idle") /\ sess.status = "none"
  /\ Step(r, [NoRequest EXCEPT !.pc = "user", !.kind = "login"])
  /\ UNCHANGED <<userVars, sessVars, chg, faults>>

\* The identity of the token must be the session's; a refresh takes it over.
ValidateLoginSession(r) ==
  LET q == req[r]
  IN /\ Doing(r, "match")
     /\ IF q.kind = "refresh" THEN Step(r, [q EXCEPT !.pc = "user", !.id = q.got])
        ELSE IF q.got = q.id THEN To(r, "user") ELSE Refuse(r)
     /\ UNCHANGED <<userVars, sessVars, chg, faults>>

Decide(r) ==
  LET q == req[r]
      ok == q.seen.status = "enabled" /\ (q.kind = "login" \/ q.seen.ver = q.id.uav)
  IN /\ Doing(r, "decide")
     /\ CASE ~ok -> Refuse(r)
          [] ok /\ q.kind = "validate" -> To(r, "accepted")
          [] ok /\ q.kind = "login" -> Step(r, [q EXCEPT !.pc = "create", !.left = CacheTTL, !.got = [ver |-> 1, uav |-> q.seen.ver]])
          [] OTHER -> To(r, "again")
     /\ UNCHANGED <<userVars, sessVars, chg, faults>>

CreateUserSession(r) ==
  /\ Doing(r, "create")
  /\ IF sess.status = "none" THEN sess' = [status |-> "active", ver |-> 1, uav |-> req[r].got.uav] /\ To(r, "created")
     ELSE UNCHANGED sess /\ Refuse(r)
  /\ UNCHANGED <<userVars, scache, ids, chg, faults>>

\* A refresh compares the row of the user as well; a session that does not
\* agree with it is revoked by a changer (Logout).
RefreshLoginSession(r) ==
  /\ Doing(r, "again")
  /\ IF user.status = "enabled" /\ user.ver = req[r].id.uav
     THEN Step(r, [req[r] EXCEPT !.pc = "rotate", !.left = CacheTTL]) ELSE Refuse(r)
  /\ UNCHANGED <<userVars, sessVars, chg, faults>>

\* The secret is the current one, the last one within its window, or wrong.
\* The last one after its window revokes the session (Logout).
RotateUserSessionRefresh(r) ==
  /\ Doing(r, "rotate")
  /\ IF sess.status # "active" THEN Refuse(r)
     ELSE \/ Step(r, [req[r] EXCEPT !.pc = "swap", !.got = Snapshot])
          \/ Step(r, [req[r] EXCEPT !.pc = "issue", !.got = Snapshot])
          \/ Refuse(r)
  /\ UNCHANGED <<userVars, sessVars, chg, faults>>

\* The row changes only while it is active, whatever its version.
SwapRefreshHash(r) ==
  /\ Doing(r, "swap")
  /\ IF sess.status = "active" THEN To(r, "rotated") ELSE Refuse(r)
  /\ UNCHANGED <<userVars, sessVars, chg, faults>>

issueAuthBundle(r) ==
  /\ Doing(r, "issue") /\ ids' = ids \cup {req[r].got} /\ Refuse(r)
  /\ UNCHANGED <<userVars, sess, scache, chg, faults>>

Respond(r) ==
  /\ Doing(r, "accepted") /\ Refuse(r)
  /\ UNCHANGED <<userVars, sessVars, chg, faults>>

-----------------------------------------------------------------------------
(* Changes of the user. *)

Change(c, kind, id) ==
  /\ Making(c, "idle") /\ lock = Nil /\ user.status # "deleted" /\ user.ver < MaxVersion
  /\ lock' = c
  /\ IncrementUserAuthVersionWithTx(user.ver + 1)
  /\ Move(c, [NoChange EXCEPT !.pc = "tx", !.kind = kind, !.id = id])
  /\ UNCHANGED <<user, hash, sessVars, req, faults>>

UpdateManagedUserStatuses(c) == \E kind \in {"disabled", "enabled"} : kind # user.status /\ Change(c, kind, NoId)
Update(c) == Change(c, "password", NoId)
Delete(c) == Change(c, "deleted", NoId)

\* A second factor is changed by a session, which is to go on.
AdvanceCurrentSessionSecurity(c) ==
  \E id \in ids : id.uav = user.ver /\ user.status = "enabled" /\ Change(c, "advance", id)

CommitChange(c) ==
  LET k == chg[c].kind
  IN /\ Making(c, "tx") /\ lock' = Nil
     /\ \/ /\ user' = [status |-> IF k \in {"disabled", "enabled", "deleted"} THEN k ELSE user.status, ver |-> user.ver + 1]
           /\ Onto(c, IF k = "deleted" THEN "tombstone" ELSE "publish") /\ UNCHANGED faults
        \/ Fails /\ Stop(c) /\ UNCHANGED user
     /\ UNCHANGED <<hash, fence, floor, sessVars, req>>

\* PublishUserAuthCache reads the row it publishes.
PublishRead(c) ==
  /\ Making(c, "publish")
  /\ \/ user.status = "deleted" /\ Stop(c) /\ UNCHANGED faults
     \/ user.status # "deleted" /\ Move(c, [chg[c] EXCEPT !.pc = "write", !.seen = user]) /\ UNCHANGED faults
     \/ Fails /\ Stop(c)
  /\ UNCHANGED <<userVars, sessVars, req>>

PublishUserAuthCache(c) ==
  LET q == chg[c]
  IN /\ Making(c, "write")
     /\ IF Outdated(q.seen.ver) THEN Stop(c) /\ UNCHANGED <<hash, fence, floor>>
        ELSE /\ writeUserCache(q.seen, FALSE)
             /\ Move(c, [q EXCEPT !.pc = IF q.kind = "advance" THEN "advance" ELSE "find", !.left = CacheTTL])
     /\ UNCHANGED <<user, lock, sessVars, req, faults>>

publishCommittedUserAuthVersion(c) ==
  /\ Making(c, "tombstone")
  /\ \/ Committed(user.ver) /\ Onto(c, "find") /\ UNCHANGED faults
     \/ Fails /\ Stop(c) /\ UNCHANGED <<fence, floor>>
  /\ UNCHANGED <<user, hash, lock, sessVars, req>>

invalidateUserCache(c) ==
  /\ Making(c, "drop") /\ hash' = NoHash /\ Stop(c)
  /\ UNCHANGED <<user, fence, floor, lock, sessVars, req, faults>>

AdvanceUserSessionAuthVersion(c) ==
  LET q == chg[c]
  IN /\ Making(c, "advance")
     /\ IF sess.status = "active" /\ Snapshot = q.id
        THEN /\ sess' = [sess EXCEPT !.ver = @ + 1, !.uav = q.seen.ver]
             /\ Move(c, [q EXCEPT !.pc = "advanced", !.got = [ver |-> q.id.ver + 1, uav |-> q.seen.ver]])
        ELSE Stop(c) /\ UNCHANGED sess
     /\ UNCHANGED <<userVars, scache, ids, req, faults>>

\* Here a failure of Redis is an error.
AdvanceWrite(c) ==
  LET q == chg[c]
  IN /\ Making(c, "advanced") /\ Stop(c)
     /\ \/ Stored(q.got, q.left) /\ ids' = ids \cup {q.got} /\ UNCHANGED faults
        \/ Unstored(q.got, q.left) /\ UNCHANGED <<ids, faults>>
        \/ TooLate(q.left) /\ ids' = (IF confirmUserSessionActiveSnapshot(q.got) THEN ids \cup {q.got} ELSE ids) /\ UNCHANGED faults
        \/ Fails /\ UNCHANGED <<scache, ids>>
     /\ UNCHANGED <<userVars, sess, req>>

-----------------------------------------------------------------------------
(* Revocation. *)

Logout(c) ==
  /\ Making(c, "idle") /\ Move(c, [NoChange EXCEPT !.pc = "find", !.kind = "logout"])
  /\ UNCHANGED <<userVars, sessVars, req, faults>>

AfterRevocation(c) == IF chg[c].kind = "deleted" THEN Onto(c, "drop") ELSE Stop(c)

RevokeFind(c) ==
  /\ Making(c, "find")
  /\ IF sess.status = "active" THEN Move(c, [chg[c] EXCEPT !.pc = "deny", !.got = Snapshot]) ELSE AfterRevocation(c)
  /\ UNCHANGED <<userVars, sessVars, req, faults>>

\* A cached version above the one that was read is an error too.
RevokeDeny(c) ==
  LET s == chg[c].got
  IN /\ Making(c, "deny")
     /\ \/ writeUserSessionDenyFence("revoking", s) /\ (IF scache.ver > s.ver THEN Stop(c) ELSE Onto(c, "revoke")) /\ UNCHANGED faults
        \/ Fails /\ Stop(c) /\ UNCHANGED scache
     /\ UNCHANGED <<userVars, sess, ids, req>>

\* revokeUserSessions reads the rows again under their locks.
RevokeUserSession(c) ==
  /\ Making(c, "revoke")
  /\ \/ /\ sess' = [sess EXCEPT !.status = "revoked"] /\ UNCHANGED faults
        /\ Move(c, [chg[c] EXCEPT !.pc = "told", !.got = IF chg[c].kind = "logout" THEN @ ELSE Snapshot])
     \/ Fails /\ Stop(c) /\ UNCHANGED sess
  /\ UNCHANGED <<userVars, scache, ids, req>>

RevokeTell(c) ==
  /\ Making(c, "told")
  /\ \/ writeUserSessionDenyFence("revoked", chg[c].got) /\ AfterRevocation(c) /\ UNCHANGED faults
     \/ Fails /\ AfterRevocation(c) /\ UNCHANGED scache
  /\ UNCHANGED <<userVars, sess, ids, req>>

-----------------------------------------------------------------------------
Less(n) == IF n > 0 THEN n - 1 ELSE 0
Aged(k, none) == IF k.ttl > 1 THEN [k EXCEPT !.ttl = @ - 1] ELSE none

Tick ==
  /\ \A r \in Requests : Doing(r, "idle") \/ req[r].age < Patience
  /\ \A c \in Changers : Making(c, "idle") \/ chg[c].age < Patience
  /\ hash' = Aged(hash, NoHash) /\ fence' = Aged(fence, NoFence) /\ scache' = Aged(scache, NoEntry)
  /\ req' = [r \in Requests |-> IF Doing(r, "idle") THEN req[r] ELSE [req[r] EXCEPT !.left = Less(@), !.age = @ + 1]]
  /\ chg' = [c \in Changers |-> IF Making(c, "idle") THEN chg[c] ELSE [chg[c] EXCEPT !.left = Less(@), !.age = @ + 1]]
  /\ UNCHANGED <<user, floor, lock, sess, ids, faults>>

AuthNext ==
  \/ Tick
  \/ \E r \in Requests :
       \/ \E id \in ids : ParseAccessToken(r, id)
       \/ BeginRefresh(r) \/ BeginLogin(r)
       \/ getUserSessionCache(r) \/ GetUserSessionBySID(r) \/ GetUserSessionCached(r) \/ ValidateLoginSession(r)
       \/ cacheGetUserBase(r) \/ ReadFloor(r) \/ GetUserById(r) \/ GetUserCache(r) \/ Decide(r)
       \/ CreateUserSession(r) \/ RefreshLoginSession(r) \/ RotateUserSessionRefresh(r) \/ SwapRefreshHash(r)
       \/ issueAuthBundle(r) \/ Respond(r)
  \/ \E c \in Changers :
       \/ UpdateManagedUserStatuses(c) \/ Update(c) \/ Delete(c) \/ AdvanceCurrentSessionSecurity(c) \/ Logout(c)
       \/ CommitChange(c) \/ PublishRead(c) \/ PublishUserAuthCache(c) \/ publishCommittedUserAuthVersion(c)
       \/ invalidateUserCache(c) \/ AdvanceUserSessionAuthVersion(c) \/ AdvanceWrite(c)
       \/ RevokeFind(c) \/ RevokeDeny(c) \/ RevokeUserSession(c) \/ RevokeTell(c)

AuthSpec == AuthInit /\ [][AuthNext]_authVars

-----------------------------------------------------------------------------
(* Properties. *)

(* A request that begins after the revocation of its session, or a change  *)
(* of its user, has committed is not accepted with a token from before it: *)
(* however late a snapshot of the active row is stored, although the last  *)
(* deny entry or the new version may never be published and the cache may  *)
(* still hold the old user.                                                *)
BarredIsRefused == \A r \in Requests : Doing(r, "accepted") => req[r].dead = {}

(* The floor never falls, so it must not be above the version of the row:  *)
(* no login of the user would ever succeed again.                          *)
FloorIsCommitted == floor <= user.ver
=============================================================================
