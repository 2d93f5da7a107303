---------------------------- MODULE SessionsProofs ----------------------------
(***************************************************************************)
(* Proof that a revoked session, and a token from before a change of the   *)
(* user, are refused, for any requests, changers, versions and faults and  *)
(* any lifetime of the cached keys that is more than twice the time a step *)
(* may take.                                                               *)
(***************************************************************************)
EXTENDS Sessions, TLAPS

RequestFields == {"pc", "kind", "id", "dead", "left", "age", "got", "seen"}
ChangeFields == {"pc", "kind", "id", "left", "age", "got", "seen"}

\* A copy of the user row is not ahead of it, and the same when as new.
Known(k) == k.ver \in Nat /\ k.ver <= user.ver /\ (k.ver = user.ver => k.status = user.status)

\* An identity names a version that the user has had.
Issued(id) == id.uav \in Nat /\ id.uav <= user.ver

\* A copy of an old row is below the floor, or below a fence that will be there
\* for some time.
Guarded(k, time) ==
  k.ver < user.ver => floor > k.ver \/ (fence.ver > k.ver /\ fence.ttl >= time)

Denying == scache.status \in {"revoking", "revoked"}

\* The deny entry of a revoked session will be there for some time.
Sealed(time) == sess.status = "revoked" => Denying /\ scache.ttl >= time

\* What a request knows.  Its last line: a snapshot of the active session is
\* stored before the deny entry expires.
RequestHolds(q) ==
  /\ DOMAIN q = RequestFields /\ q.age \in 0..Patience /\ q.left \in Nat
  /\ Known(q.seen) /\ Issued(q.id) /\ Issued(q.got)
  /\ q.dead \subseteq {"changed", "revoked"} /\ (q.dead # {} => q.kind = "validate")
  /\ q.pc \in {"floor", "populate"} => Guarded(q.seen, Patience + 1 - q.age)
  /\ "changed" \in q.dead =>
       /\ Changed(q.id) /\ q.pc # "accepted"
       /\ q.pc = "decide" => q.seen.status # "enabled" \/ q.seen.ver # q.id.uav
  /\ "revoked" \in q.dead => sess.status = "revoked" /\ q.pc \in {"session", "sessdb"}
  /\ q.pc \in {"fill", "created", "rotated"} => Sealed(Patience + 1 - q.age)

\* What a changer knows.
ChangeHolds(c, q) ==
  /\ DOMAIN q = ChangeFields /\ q.age \in 0..Patience /\ q.left \in Nat
  /\ Known(q.seen) /\ Issued(q.id) /\ Issued(q.got)
  /\ q.pc = "tx" => lock = c /\ fence.ver = user.ver + 1 /\ fence.ttl + q.age >= 2 * CacheTTL
  /\ q.pc = "write" => Guarded(q.seen, Patience + 1 - q.age)
  /\ q.pc = "revoke" => Denying /\ scache.ttl + q.age >= CacheTTL
  /\ q.pc = "advanced" => Sealed(Patience + 1 - q.age)

\* The rows and the caches.
UserHolds ==
  /\ user.ver \in Nat \ {0} /\ floor \in Nat /\ floor <= user.ver
  /\ DOMAIN fence = {"ver", "ttl"} /\ fence.ver \in Nat /\ fence.ver <= user.ver + 1 /\ fence.ttl \in Nat
  /\ DOMAIN hash = {"status", "ver", "ttl"} /\ hash.ttl \in 0..CacheTTL /\ Known(hash)
  /\ hash.ttl > 0 => Guarded(hash, hash.ttl + Patience + 1)

SessionHolds ==
  /\ DOMAIN sess = {"status", "ver", "uav"} /\ Issued(sess)
  /\ DOMAIN scache = {"status", "ver", "uav", "ttl"} /\ Issued(scache) /\ scache.ttl \in Nat
  /\ sess.status = "revoked" => scache.status # "active"
  /\ \A id \in ids : Issued(id)

AuthInv ==
  /\ UserHolds /\ SessionHolds
  /\ DOMAIN req = Requests /\ \A r \in Requests : RequestHolds(req[r])
  /\ DOMAIN chg = Changers /\ \A c \in Changers : ChangeHolds(c, chg[c])

-----------------------------------------------------------------------------
(* Frames. *)

\* A step that does not change the user row, neither takes a barrier away nor
\* a deny entry, and revokes a session only behind a deny entry.
Keeps ==
  /\ user' = user
  /\ \/ floor' = floor /\ fence' = fence
     \/ floor' = user.ver
     \/ floor' = floor /\ fence'.ver = user.ver + 1 /\ fence'.ttl = 2 * CacheTTL
  /\ Denying => Denying' /\ (scache'.ttl >= scache.ttl \/ scache'.ttl >= CacheTTL)
  /\ sess.status = "revoked" => sess'.status = "revoked"
  /\ sess'.status = "revoked" => sess.status = "revoked" \/ (Denying' /\ scache'.ttl >= CacheTTL - Patience)

LEMMA GuardKept ==
    ASSUME UserHolds, Keeps, fence'.ttl \in Int, NEW k, k.ver \in Nat, NEW time \in Int, time <= 2 * CacheTTL,
           Guarded(k, time)
    PROVE  Guarded(k, time)'
  <1>1. user' = user /\ user.ver \in Nat /\ floor \in Nat /\ fence.ver \in Nat /\ fence.ttl \in Nat /\ CacheTTL \in Nat
    BY SessionsAssumption DEF Keeps, UserHolds
  <1>2. CASE floor' = floor /\ fence' = fence
    BY <1>1, <1>2 DEF Guarded
  <1>3. CASE floor' = user.ver
    BY <1>1, <1>3 DEF Guarded
  <1>4. CASE floor' = floor /\ fence'.ver = user.ver + 1 /\ fence'.ttl = 2 * CacheTTL
    BY <1>1, <1>4 DEF Guarded
  <1> QED
    BY <1>2, <1>3, <1>4 DEF Keeps

LEMMA SealKept ==
    ASSUME SessionHolds, Keeps, scache'.ttl \in Int, NEW time \in Int, time <= Patience + 1, Sealed(time)
    PROVE  Sealed(time)'
  <1>1. /\ scache.ttl \in Int /\ CacheTTL \in Int /\ Patience \in Int
        /\ CacheTTL >= Patience + 1 /\ CacheTTL - Patience >= Patience + 1
    BY SessionsAssumption DEF SessionHolds
  <1> QED
    BY <1>1 DEF Keeps, Sealed

LEMMA RequestFrame ==
    ASSUME UserHolds, SessionHolds, Keeps, fence'.ttl \in Int, scache'.ttl \in Int,
           NEW q, RequestHolds(q)
    PROVE  RequestHolds(q)'
  <1> DEFINE time == Patience + 1 - q.age
  <1>1. /\ q.age \in 0..Patience /\ time \in Int /\ time <= Patience + 1 /\ time <= 2 * CacheTTL
        /\ q.seen.ver \in Nat
    BY SessionsAssumption DEF RequestHolds, Known
  <1> HIDE DEF time
  <1>2. q.pc \in {"floor", "populate"} => Guarded(q.seen, time)'
    BY <1>1, GuardKept DEF RequestHolds, time
  <1>3. q.pc \in {"fill", "created", "rotated"} => Sealed(time)'
    BY <1>1, SealKept DEF RequestHolds, time
  <1>4. user' = user /\ (sess.status = "revoked" => sess'.status = "revoked")
    BY DEF Keeps
  <1>5. Known(q.seen)' /\ Issued(q.id)' /\ Issued(q.got)' /\ (Changed(q.id) => Changed(q.id)')
    BY <1>4 DEF RequestHolds, Known, Issued, Changed
  <1> QED
    BY <1>2, <1>3, <1>4, <1>5 DEF RequestHolds, time

LEMMA ChangeFrame ==
    ASSUME UserHolds, SessionHolds, Keeps, fence'.ttl \in Int, scache'.ttl \in Int,
           NEW c, NEW q, ChangeHolds(c, q),
           q.pc = "tx" => lock' = lock /\ fence' = fence
    PROVE  ChangeHolds(c, q)'
  <1> DEFINE time == Patience + 1 - q.age
  <1>1. /\ q.age \in 0..Patience /\ time \in Int /\ time <= Patience + 1 /\ time <= 2 * CacheTTL
        /\ q.seen.ver \in Nat
    BY SessionsAssumption DEF ChangeHolds, Known
  <1> HIDE DEF time
  <1>2. q.pc = "write" => Guarded(q.seen, time)'
    BY <1>1, GuardKept DEF ChangeHolds, time
  <1>3. q.pc = "advanced" => Sealed(time)'
    BY <1>1, SealKept DEF ChangeHolds, time
  <1>4. user' = user
    BY DEF Keeps
  <1>5. Known(q.seen)' /\ Issued(q.id)' /\ Issued(q.got)'
    BY <1>4 DEF ChangeHolds, Known, Issued
  <1>6. q.pc = "tx" => lock' = c /\ fence'.ver = user'.ver + 1 /\ fence'.ttl + q.age >= 2 * CacheTTL
    BY <1>4 DEF ChangeHolds
  <1>7. q.pc = "revoke" => Denying' /\ scache'.ttl + q.age >= CacheTTL
    <2>1. scache.ttl \in Int /\ CacheTTL \in Int /\ Patience \in Int /\ q.age \in Int /\ q.age >= 0
      BY <1>1, SessionsAssumption DEF SessionHolds
    <2> QED
      BY <2>1 DEF ChangeHolds, Keeps
  <1> QED
    BY <1>2, <1>3, <1>5, <1>6, <1>7 DEF ChangeHolds, time

-----------------------------------------------------------------------------
(* Steps of one goroutine. *)

LEMMA RequestStep ==
    ASSUME AuthInv, NEW r \in Requests, NEW rec, Step(r, rec), Keeps, UserHolds', SessionHolds',
           RequestHolds([rec EXCEPT !.age = 0])', UNCHANGED <<chg, lock>>,
           fence.ver > user.ver => fence' = fence
    PROVE  AuthInv'
  <1> DEFINE new == [rec EXCEPT !.age = 0]
  <1>1. fence'.ttl \in Int /\ scache'.ttl \in Int
    BY DEF UserHolds, SessionHolds
  <1>2. req' = [req EXCEPT ![r] = new] /\ RequestHolds(new)'
    BY DEF Step
  <1> HIDE DEF new
  <1>3. DOMAIN req' = Requests
    BY <1>2 DEF AuthInv
  <1>4. ASSUME NEW s \in Requests PROVE RequestHolds(req[s])'
    <2>1. CASE s = r
      <3>1. req'[s] = new
        BY <1>2, <2>1 DEF AuthInv
      <3> QED
        BY <1>2, <3>1 DEF RequestHolds
    <2>2. CASE s # r
      <3>1. PICK q : q = req[s]
        OBVIOUS
      <3>2. req'[s] = q /\ RequestHolds(q)
        BY <1>2, <2>2, <3>1 DEF AuthInv
      <3>3. RequestHolds(q)'
        BY <1>1, <3>2, RequestFrame DEF AuthInv
      <3> QED
        BY <3>2, <3>3 DEF RequestHolds
    <2> QED
      BY <2>1, <2>2
  <1>5. ASSUME NEW c \in Changers PROVE ChangeHolds(c, chg[c])'
    <2>1. PICK q : q = chg[c]
      OBVIOUS
    <2>2. chg'[c] = q /\ ChangeHolds(c, q)
      BY <2>1 DEF AuthInv
    <2>3. q.pc = "tx" => lock' = lock /\ fence' = fence
      <3>1. q.pc = "tx" => fence.ver = user.ver + 1
        BY <2>2 DEF ChangeHolds
      <3> QED
        BY <3>1 DEF AuthInv, UserHolds
    <2>4. ChangeHolds(c, q)'
      BY <1>1, <2>2, <2>3, ChangeFrame DEF AuthInv
    <2> QED
      BY <2>2, <2>4 DEF ChangeHolds
  <1> QED
    BY <1>3, <1>4, <1>5 DEF AuthInv

LEMMA ChangeStep ==
    ASSUME AuthInv, NEW c \in Changers, NEW rec, Move(c, rec), Keeps, UserHolds', SessionHolds',
           ChangeHolds(c, [rec EXCEPT !.age = 0])', UNCHANGED req,
           \A d \in Changers \ {c} : chg[d].pc = "tx" => lock' = lock /\ fence' = fence
    PROVE  AuthInv'
  <1> DEFINE new == [rec EXCEPT !.age = 0]
  <1>1. fence'.ttl \in Int /\ scache'.ttl \in Int
    BY DEF UserHolds, SessionHolds
  <1>2. chg' = [chg EXCEPT ![c] = new] /\ ChangeHolds(c, new)'
    BY DEF Move
  <1> HIDE DEF new
  <1>3. DOMAIN chg' = Changers
    BY <1>2 DEF AuthInv
  <1>4. ASSUME NEW d \in Changers PROVE ChangeHolds(d, chg[d])'
    <2>1. CASE d = c
      <3>1. chg'[d] = new
        BY <1>2, <2>1 DEF AuthInv
      <3> QED
        BY <1>2, <2>1, <3>1 DEF ChangeHolds
    <2>2. CASE d # c
      <3>1. PICK q : q = chg[d]
        OBVIOUS
      <3>2. chg'[d] = q /\ ChangeHolds(d, q)
        BY <1>2, <2>2, <3>1 DEF AuthInv
      <3>3. ChangeHolds(d, q)'
        BY <1>1, <2>2, <3>1, <3>2, ChangeFrame DEF AuthInv
      <3> QED
        BY <3>2, <3>3 DEF ChangeHolds
    <2> QED
      BY <2>1, <2>2
  <1>5. ASSUME NEW r \in Requests PROVE RequestHolds(req[r])'
    <2>1. PICK q : q = req[r]
      OBVIOUS
    <2>2. req'[r] = q /\ RequestHolds(q)
      BY <2>1 DEF AuthInv
    <2>3. RequestHolds(q)'
      BY <1>1, <2>2, RequestFrame DEF AuthInv
    <2> QED
      BY <2>2, <2>3 DEF RequestHolds
  <1> QED
    BY <1>3, <1>4, <1>5 DEF AuthInv

\* Nothing but the goroutine itself changes.
LEMMA QuietRequest ==
    ASSUME AuthInv, NEW r \in Requests, NEW rec, Step(r, rec), RequestHolds([rec EXCEPT !.age = 0]),
           UNCHANGED <<userVars, sessVars, chg>>
    PROVE  AuthInv'
  <1>1. UNCHANGED <<user, hash, fence, floor, lock, sess, scache, ids, chg>>
    BY DEF userVars, sessVars
  <1>2. /\ Keeps /\ fence' = fence /\ UNCHANGED <<chg, lock>>
    <2>1. Denying => Denying' /\ scache'.ttl >= scache.ttl
      BY <1>1 DEF Denying, AuthInv, SessionHolds
    <2> QED
      BY <1>1, <2>1 DEF Keeps
  <1>3. UserHolds' /\ SessionHolds'
    BY <1>1 DEF AuthInv, UserHolds, SessionHolds, Known, Issued, Guarded
  <1> DEFINE new == [rec EXCEPT !.age = 0]
  <1>4. RequestHolds(new)'
    <2> HIDE DEF new
    <2>1. RequestHolds(new)
      BY DEF new
    <2> QED
      BY <1>1, <2>1 DEF RequestHolds, Known, Issued, Guarded, Sealed, Denying, Changed
  <1> QED
    BY <1>2, <1>3, <1>4, RequestStep

LEMMA QuietChange ==
    ASSUME AuthInv, NEW c \in Changers, NEW rec, Move(c, rec), ChangeHolds(c, [rec EXCEPT !.age = 0]),
           UNCHANGED <<userVars, sessVars, req>>
    PROVE  AuthInv'
  <1>1. UNCHANGED <<user, hash, fence, floor, lock, sess, scache, ids, req>>
    BY DEF userVars, sessVars
  <1>2. Keeps /\ UNCHANGED <<fence, req, lock>>
    <2>1. Denying => Denying' /\ scache'.ttl >= scache.ttl
      BY <1>1 DEF Denying, AuthInv, SessionHolds
    <2> QED
      BY <1>1, <2>1 DEF Keeps
  <1>3. UserHolds' /\ SessionHolds'
    BY <1>1 DEF AuthInv, UserHolds, SessionHolds, Known, Issued, Guarded
  <1> DEFINE new == [rec EXCEPT !.age = 0]
  <1>4. ChangeHolds(c, new)'
    <2> HIDE DEF new
    <2>1. ChangeHolds(c, new)
      BY DEF new
    <2> QED
      BY <1>1, <2>1 DEF ChangeHolds, Known, Issued, Guarded, Sealed, Denying
  <1> QED
    BY <1>2, <1>3, <1>4, ChangeStep

-----------------------------------------------------------------------------
(* Records of goroutines. *)

LEMMA NoRequestHolds ==
    ASSUME UserHolds
    PROVE  RequestHolds([NoRequest EXCEPT !.age = 0])
  <1>1. [NoRequest EXCEPT !.age = 0] = NoRequest
    BY DEF NoRequest
  <1>2. Known(NoRequest.seen) /\ Issued(NoRequest.id) /\ Issued(NoRequest.got)
    BY DEF NoRequest, NoId, Known, Issued, UserHolds
  <1> QED
    BY <1>1, <1>2, SessionsAssumption DEF RequestHolds, RequestFields, NoRequest

LEMMA NoChangeHolds ==
    ASSUME UserHolds, NEW c
    PROVE  ChangeHolds(c, [NoChange EXCEPT !.age = 0])
  <1>1. [NoChange EXCEPT !.age = 0] = NoChange
    BY DEF NoChange
  <1>2. Known(NoChange.seen) /\ Issued(NoChange.id) /\ Issued(NoChange.got)
    BY DEF NoChange, NoId, Known, Issued, UserHolds
  <1> QED
    BY <1>1, <1>2, SessionsAssumption DEF ChangeHolds, ChangeFields, NoChange

\* Program counters at which a request has nothing to guard.
Free == {"idle", "session", "sessdb", "match", "user", "userdb", "create", "again", "rotate", "swap", "issue"}

LEMMA RequestMoves ==
    ASSUME NEW q, RequestHolds(q), NEW pc \in Free,
           "revoked" \in q.dead => pc \in {"session", "sessdb"}
    PROVE  RequestHolds([[q EXCEPT !.pc = pc] EXCEPT !.age = 0])
  <1> DEFINE new == [[q EXCEPT !.pc = pc] EXCEPT !.age = 0]
  <1>1. /\ DOMAIN new = RequestFields /\ new.age = 0 /\ new.left = q.left /\ new.seen = q.seen /\ new.pc = pc
        /\ new.id = q.id /\ new.got = q.got /\ new.dead = q.dead /\ new.kind = q.kind
    BY DEF RequestHolds, RequestFields
  <1> HIDE DEF new
  <1>2. RequestHolds(new)
    BY <1>1, SessionsAssumption DEF RequestHolds, Free
  <1> QED
    BY <1>2 DEF new

LEMMA QuietRefuse ==
    ASSUME AuthInv, NEW r \in Requests, Refuse(r), UNCHANGED <<userVars, sessVars, chg>>
    PROVE  AuthInv'
  BY NoRequestHolds, QuietRequest DEF Refuse, AuthInv

LEMMA QuietTo ==
    ASSUME AuthInv, NEW r \in Requests, NEW pc \in Free, To(r, pc), UNCHANGED <<userVars, sessVars, chg>>,
           "revoked" \in req[r].dead => pc \in {"session", "sessdb"}
    PROVE  AuthInv'
  <1>1. PICK q : q = req[r]
    OBVIOUS
  <1>2. RequestHolds(q) /\ Step(r, [q EXCEPT !.pc = pc]) /\ ("revoked" \in q.dead => pc \in {"session", "sessdb"})
    BY <1>1 DEF AuthInv, To
  <1>3. RequestHolds([[q EXCEPT !.pc = pc] EXCEPT !.age = 0])
    BY <1>2, RequestMoves
  <1> QED
    BY <1>2, <1>3, QuietRequest

-----------------------------------------------------------------------------
(* Requests. *)

LEMMA BeginSteps ==
    ASSUME AuthInv, NEW r \in Requests,
           \/ \E id \in ids : ParseAccessToken(r, id)
           \/ BeginRefresh(r) \/ BeginLogin(r)
    PROVE  AuthInv'
  <1>1. ASSUME NEW id \in ids, ParseAccessToken(r, id) PROVE AuthInv'
    <2> DEFINE rec == [NoRequest EXCEPT !.pc = "session", !.kind = "validate", !.id = id, !.dead = Bars(id)]
               new == [rec EXCEPT !.age = 0]
    <2>1. Step(r, rec) /\ UNCHANGED <<userVars, sessVars, chg>>
      BY <1>1 DEF ParseAccessToken
    <2>2. /\ DOMAIN new = RequestFields /\ new.age = 0 /\ new.left = 0 /\ new.pc = "session" /\ new.kind = "validate"
          /\ new.id = id /\ new.dead = Bars(id) /\ new.got = NoId /\ new.seen = NoRequest.seen
      BY DEF NoRequest, RequestFields
    <2>3. Issued(id) /\ Issued(NoId) /\ Known(NoRequest.seen)
      BY DEF AuthInv, SessionHolds, UserHolds, Known, Issued, NoRequest, NoId
    <2>4. /\ Bars(id) \subseteq {"changed", "revoked"}
          /\ "changed" \in Bars(id) => Changed(id)
          /\ "revoked" \in Bars(id) => sess.status = "revoked"
      BY DEF Bars, Revoked
    <2> HIDE DEF new
    <2>5. RequestHolds(new)
      BY <2>2, <2>3, <2>4, SessionsAssumption DEF RequestHolds
    <2> QED
      BY <2>1, <2>5, QuietRequest DEF new
  <1>2. ASSUME NEW pc \in {"session", "user"}, NEW kind,
               Step(r, [NoRequest EXCEPT !.pc = pc, !.kind = kind]), UNCHANGED <<userVars, sessVars, chg>>
        PROVE  AuthInv'
    <2> DEFINE new == [[NoRequest EXCEPT !.pc = pc, !.kind = kind] EXCEPT !.age = 0]
    <2>1. /\ DOMAIN new = RequestFields /\ new.age = 0 /\ new.left = 0 /\ new.pc = pc
          /\ new.id = NoId /\ new.dead = {} /\ new.got = NoId /\ new.seen = NoRequest.seen
      BY DEF NoRequest, RequestFields
    <2>2. Issued(NoId) /\ Known(NoRequest.seen)
      BY DEF AuthInv, UserHolds, Known, Issued, NoRequest, NoId
    <2> HIDE DEF new
    <2>3. RequestHolds(new)
      BY <2>1, <2>2, SessionsAssumption DEF RequestHolds
    <2> QED
      BY <1>2, <2>3, QuietRequest DEF new
  <1> QED
    BY <1>1, <1>2 DEF BeginRefresh, BeginLogin

LEMMA SessionReadSteps ==
    ASSUME AuthInv, NEW r \in Requests, getUserSessionCache(r) \/ ValidateLoginSession(r)
    PROVE  AuthInv'
  <1>0. PICK q : q = req[r]
    OBVIOUS
  <1>q. RequestHolds(q)
    BY <1>0 DEF AuthInv
  <1>1. CASE getUserSessionCache(r)
    <2>1. q.pc = "session" /\ UNCHANGED <<userVars, sessVars, chg>>
      BY <1>0, <1>1 DEF getUserSessionCache, Doing
    <2>2. CASE scache.ttl = 0 /\ Step(r, [q EXCEPT !.pc = "sessdb", !.left = CacheTTL])
      <3> DEFINE new == [[q EXCEPT !.pc = "sessdb", !.left = CacheTTL] EXCEPT !.age = 0]
      <3>1. /\ DOMAIN new = RequestFields /\ new.age = 0 /\ new.left = CacheTTL /\ new.seen = q.seen /\ new.pc = "sessdb"
            /\ new.id = q.id /\ new.got = q.got /\ new.dead = q.dead /\ new.kind = q.kind
        BY <1>q DEF RequestHolds, RequestFields
      <3> HIDE DEF new
      <3>2. RequestHolds(new)
        BY <1>q, <2>1, <3>1, SessionsAssumption DEF RequestHolds
      <3> QED
        BY <2>1, <2>2, <3>2, QuietRequest DEF new
    <2>3. CASE /\ scache.status = "active"
               /\ Step(r, [q EXCEPT !.pc = "match", !.got = [ver |-> scache.ver, uav |-> scache.uav]])
      <3> DEFINE got == [ver |-> scache.ver, uav |-> scache.uav]
                 new == [[q EXCEPT !.pc = "match", !.got = got] EXCEPT !.age = 0]
      <3>1. /\ DOMAIN new = RequestFields /\ new.age = 0 /\ new.left = q.left /\ new.seen = q.seen /\ new.pc = "match"
            /\ new.id = q.id /\ new.got = got /\ new.dead = q.dead /\ new.kind = q.kind
        BY <1>q DEF RequestHolds, RequestFields
      <3>2. Issued(got) /\ sess.status # "revoked"
        BY <2>3 DEF AuthInv, SessionHolds, Issued
      <3> HIDE DEF new, got
      <3>3. RequestHolds(new)
        BY <1>q, <3>1, <3>2, SessionsAssumption DEF RequestHolds
      <3> QED
        BY <2>1, <2>3, <3>3, QuietRequest DEF new, got
    <2>4. CASE Refuse(r)
      BY <2>1, <2>4, QuietRefuse
    <2> QED
      BY <1>0, <1>1, <2>2, <2>3, <2>4 DEF getUserSessionCache
  <1>2. CASE ValidateLoginSession(r)
    <2>1. q.pc = "match" /\ UNCHANGED <<userVars, sessVars, chg>>
      BY <1>0, <1>2 DEF ValidateLoginSession, Doing
    <2>2. "revoked" \notin q.dead
      BY <1>q, <2>1 DEF RequestHolds
    <2>3. CASE q.kind = "refresh" /\ Step(r, [q EXCEPT !.pc = "user", !.id = q.got])
      <3> DEFINE new == [[q EXCEPT !.pc = "user", !.id = q.got] EXCEPT !.age = 0]
      <3>1. /\ DOMAIN new = RequestFields /\ new.age = 0 /\ new.left = q.left /\ new.seen = q.seen /\ new.pc = "user"
            /\ new.id = q.got /\ new.got = q.got /\ new.dead = q.dead /\ new.kind = q.kind
        BY <1>q DEF RequestHolds, RequestFields
      <3> HIDE DEF new
      <3>2. RequestHolds(new)
        BY <1>q, <2>3, <3>1, SessionsAssumption DEF RequestHolds
      <3> QED
        BY <2>1, <2>3, <3>2, QuietRequest DEF new
    <2>4. CASE To(r, "user")
      BY <1>0, <2>1, <2>2, <2>4, QuietTo DEF Free
    <2>5. CASE Refuse(r)
      BY <2>1, <2>5, QuietRefuse
    <2> QED
      BY <1>0, <1>2, <2>3, <2>4, <2>5 DEF ValidateLoginSession
  <1> QED
    BY <1>1, <1>2

\* A reader of the user: a cached row is as good as its barrier.
LEMMA UserReadSteps ==
    ASSUME AuthInv, NEW r \in Requests, cacheGetUserBase(r) \/ ReadFloor(r) \/ GetUserById(r)
    PROVE  AuthInv'
  <1>0. PICK q : q = req[r]
    OBVIOUS
  <1>q. RequestHolds(q) /\ UNCHANGED <<userVars, sessVars, chg>>
    BY <1>0 DEF AuthInv, cacheGetUserBase, ReadFloor, GetUserById
  <1>1. q.pc \in {"user", "floor", "userdb"} /\ "revoked" \notin q.dead
    BY <1>0, <1>q DEF cacheGetUserBase, ReadFloor, GetUserById, Doing, RequestHolds
  <1>2. ASSUME NEW seen, NEW pc \in {"floor", "populate"}, Step(r, [q EXCEPT !.pc = pc, !.seen = seen]),
               Known(seen), Guarded(seen, Patience + 1)
        PROVE  AuthInv'
    <2> DEFINE new == [[q EXCEPT !.pc = pc, !.seen = seen] EXCEPT !.age = 0]
    <2>1. /\ DOMAIN new = RequestFields /\ new.age = 0 /\ new.left = q.left /\ new.seen = seen /\ new.pc = pc
          /\ new.id = q.id /\ new.got = q.got /\ new.dead = q.dead /\ new.kind = q.kind
      BY <1>q DEF RequestHolds, RequestFields
    <2>2. Patience + 1 - new.age = Patience + 1
      BY <2>1, SessionsAssumption
    <2> HIDE DEF new
    <2>3. RequestHolds(new)
      BY <1>1, <1>2, <1>q, <2>1, <2>2, SessionsAssumption DEF RequestHolds
    <2> QED
      BY <1>2, <1>q, <2>3, QuietRequest DEF new
  <1>3. CASE cacheGetUserBase(r)
    <2>1. CASE hash.ttl = 0 /\ To(r, "userdb")
      BY <1>0, <1>1, <1>q, <2>1, QuietTo DEF Free
    <2>2. CASE hash.ttl # 0 /\ Step(r, [q EXCEPT !.pc = "floor", !.seen = [status |-> hash.status, ver |-> hash.ver]])
      <3> DEFINE seen == [status |-> hash.status, ver |-> hash.ver]
      <3>1. Known(seen)
        BY DEF AuthInv, UserHolds, Known
      <3>2. Guarded(seen, Patience + 1)
        BY <2>2, SessionsAssumption DEF AuthInv, UserHolds, Guarded
      <3> QED
        BY <1>2, <2>2, <3>1, <3>2
    <2> QED
      BY <1>0, <1>3, <2>1, <2>2 DEF cacheGetUserBase
  <1>4. CASE ReadFloor(r)
    <2>1. CASE To(r, "userdb")
      BY <1>0, <1>1, <1>q, <2>1, QuietTo DEF Free
    <2>2. CASE ~(getUserAuthVersionFloor > q.seen.ver) /\ To(r, "decide")
      <3> DEFINE new == [[q EXCEPT !.pc = "decide"] EXCEPT !.age = 0]
      <3>1. /\ DOMAIN new = RequestFields /\ new.age = 0 /\ new.left = q.left /\ new.seen = q.seen /\ new.pc = "decide"
            /\ new.id = q.id /\ new.got = q.got /\ new.dead = q.dead /\ new.kind = q.kind
        BY <1>q DEF RequestHolds, RequestFields
      <3>2. q.pc = "floor"
        BY <1>0, <1>4 DEF ReadFloor, Doing
      <3>3. q.seen.ver = user.ver /\ q.seen.status = user.status
        <4>1. /\ q.seen.ver \in Nat /\ q.seen.ver <= user.ver /\ floor \in Nat /\ fence.ver \in Nat /\ user.ver \in Nat
              /\ q.seen.ver = user.ver => q.seen.status = user.status
          BY <1>q DEF AuthInv, UserHolds, RequestHolds, Known
        <4>2. q.seen.ver < user.ver => floor > q.seen.ver \/ fence.ver > q.seen.ver
          BY <1>q, <3>2 DEF RequestHolds, Guarded
        <4> QED
          BY <2>2, <4>1, <4>2 DEF getUserAuthVersionFloor
      <3>4. "changed" \in q.dead => q.seen.status # "enabled" \/ q.seen.ver # q.id.uav
        BY <1>q, <3>3 DEF RequestHolds, Changed, AuthInv, UserHolds, Issued
      <3> HIDE DEF new
      <3>5. RequestHolds(new)
        BY <1>1, <1>q, <3>1, <3>4, SessionsAssumption DEF RequestHolds
      <3>6. Step(r, [q EXCEPT !.pc = "decide"])
        BY <1>0, <2>2 DEF To
      <3> QED
        BY <1>q, <3>5, <3>6, QuietRequest DEF new
    <2> QED
      BY <1>0, <1>4, <2>1, <2>2 DEF ReadFloor
  <1>5. CASE GetUserById(r)
    <2>1. CASE Refuse(r)
      BY <1>q, <2>1, QuietRefuse
    <2>2. CASE Step(r, [q EXCEPT !.pc = "populate", !.seen = user])
      <3>1. Known(user) /\ Guarded(user, Patience + 1)
        BY DEF AuthInv, UserHolds, Known, Guarded
      <3> QED
        BY <1>2, <2>2, <3>1
    <2> QED
      BY <1>0, <1>5, <2>1, <2>2 DEF GetUserById
  <1> QED
    BY <1>3, <1>4, <1>5

\* The version of the row is published as the floor.
LEMMA CommittedKeeps ==
    ASSUME AuthInv, Committed(user.ver), UNCHANGED <<user, sess, scache>>
    PROVE  /\ Keeps /\ floor' = user.ver /\ (fence.ver > user.ver => fence' = fence)
           /\ DOMAIN fence' = {"ver", "ttl"} /\ fence'.ver \in Nat /\ fence'.ver <= user.ver + 1 /\ fence'.ttl \in Nat
  <1>1. user.ver \in Nat /\ floor \in Nat /\ floor <= user.ver /\ fence.ver \in Nat /\ fence.ver <= user.ver + 1
    BY DEF AuthInv, UserHolds
  <1>2. floor' = user.ver
    BY <1>1 DEF Committed
  <1>3. CASE fence.ver <= user.ver
    <2>1. fence' = NoFence
      BY <1>3 DEF Committed
    <2>2. Denying => Denying' /\ scache'.ttl >= scache.ttl
      BY DEF Denying, AuthInv, SessionHolds
    <2> QED
      BY <1>1, <1>2, <1>3, <2>1, <2>2 DEF Keeps, NoFence
  <1>4. CASE ~(fence.ver <= user.ver)
    <2>1. fence' = fence
      BY <1>4 DEF Committed
    <2>2. Denying => Denying' /\ scache'.ttl >= scache.ttl
      BY DEF Denying, AuthInv, SessionHolds
    <2> QED
      BY <1>1, <1>2, <2>1, <2>2 DEF Keeps, AuthInv, UserHolds
  <1> QED
    BY <1>3, <1>4

\* Only a copy of the current row is written to the cache.
LEMMA UserCacheWritten ==
    ASSUME AuthInv, NEW k, Known(k), NEW time, Guarded(k, time), ~Outdated(k.ver), NEW populate,
           writeUserCache(k, populate), UNCHANGED <<user, sess, scache>>
    PROVE  /\ Keeps /\ UserHolds' /\ (fence.ver > user.ver => fence' = fence)
           /\ k.ver = user.ver /\ k.status = user.status
  <1>1. k.ver = user.ver /\ k.status = user.status
    <2>1. /\ k.ver \in Nat /\ k.ver <= user.ver /\ floor \in Nat /\ fence.ver \in Nat /\ user.ver \in Nat
          /\ k.ver = user.ver => k.status = user.status
      BY DEF AuthInv, UserHolds, Known
    <2>2. k.ver < user.ver => floor > k.ver \/ fence.ver > k.ver
      BY DEF Guarded
    <2> QED
      BY <2>1, <2>2 DEF Outdated, getUserAuthVersionFloor
  <1>2. Committed(user.ver)
    BY <1>1 DEF writeUserCache
  <1>3. /\ Keeps /\ floor' = user.ver /\ (fence.ver > user.ver => fence' = fence)
        /\ DOMAIN fence' = {"ver", "ttl"} /\ fence'.ver \in Nat /\ fence'.ver <= user.ver + 1 /\ fence'.ttl \in Nat
    BY <1>2, CommittedKeeps
  <1>4. /\ DOMAIN hash' = {"status", "ver", "ttl"} /\ hash'.ttl \in 0..CacheTTL /\ Known(hash)'
    <2>1. CASE hash' = [status |-> k.status, ver |-> k.ver, ttl |-> CacheTTL]
      BY <1>1, <2>1, SessionsAssumption DEF Known, AuthInv, UserHolds
    <2>2. CASE hash' = hash
      BY <2>2 DEF Known, AuthInv, UserHolds
    <2> QED
      BY <2>1, <2>2 DEF writeUserCache
  <1>5. Guarded(hash, hash.ttl + Patience + 1)'
    BY <1>3, <1>4 DEF Guarded, Known
  <1>6. user'.ver \in Nat \ {0} /\ floor' \in Nat /\ floor' <= user'.ver
    BY <1>3 DEF AuthInv, UserHolds
  <1> QED
    BY <1>1, <1>3, <1>4, <1>5, <1>6 DEF UserHolds

\* The parts that only speak of the rows and caches of the session.
LEMMA SessionSame ==
    ASSUME AuthInv, user' = user, UNCHANGED sessVars
    PROVE  SessionHolds'
  BY DEF AuthInv, SessionHolds, Issued, sessVars

LEMMA PopulateStep ==
    ASSUME AuthInv, NEW r \in Requests, GetUserCache(r)
    PROVE  AuthInv'
  <1>0. PICK q : q = req[r]
    OBVIOUS
  <1>1. /\ RequestHolds(q) /\ q.pc = "populate" /\ "revoked" \notin q.dead
        /\ UNCHANGED <<user, lock, sess, scache, ids, chg>>
    BY <1>0 DEF AuthInv, GetUserCache, Doing, RequestHolds, sessVars
  <1>2. Known(q.seen) /\ Guarded(q.seen, Patience + 1 - q.age)
    BY <1>1 DEF RequestHolds
  <1>3. CASE Refuse(r) /\ UNCHANGED <<hash, fence, floor>>
    <2>1. UNCHANGED <<userVars, sessVars, chg>>
      BY <1>1, <1>3 DEF userVars, sessVars
    <2> QED
      BY <1>3, <2>1, QuietRefuse
  <1> DEFINE new == [[q EXCEPT !.pc = "decide"] EXCEPT !.age = 0]
  <1>4. ASSUME q.seen.ver = user.ver, q.seen.status = user.status
        PROVE  RequestHolds(new)
    <2>1. /\ DOMAIN new = RequestFields /\ new.age = 0 /\ new.left = q.left /\ new.seen = q.seen /\ new.pc = "decide"
          /\ new.id = q.id /\ new.got = q.got /\ new.dead = q.dead /\ new.kind = q.kind
      BY <1>1 DEF RequestHolds, RequestFields
    <2>2. "changed" \in q.dead => q.seen.status # "enabled" \/ q.seen.ver # q.id.uav
      BY <1>1, <1>4 DEF RequestHolds, Changed, AuthInv, UserHolds, Issued
    <2> HIDE DEF new
    <2> QED
      BY <1>1, <2>1, <2>2, SessionsAssumption DEF RequestHolds
  <1> HIDE DEF new
  <1>5. CASE ~Outdated(q.seen.ver) /\ writeUserCache(q.seen, TRUE) /\ To(r, "decide")
    <2>1. /\ Keeps /\ UserHolds' /\ (fence.ver > user.ver => fence' = fence)
          /\ q.seen.ver = user.ver /\ q.seen.status = user.status
      BY <1>1, <1>2, <1>5, UserCacheWritten
    <2>2. SessionHolds'
      BY <1>1, SessionSame DEF sessVars
    <2>3. RequestHolds(new)'
      <3>1. fence'.ttl \in Int /\ scache'.ttl \in Int
        BY <2>1, <2>2 DEF UserHolds, SessionHolds
      <3> QED
        BY <1>4, <2>1, <3>1, RequestFrame DEF AuthInv
    <2>4. Step(r, [q EXCEPT !.pc = "decide"]) /\ RequestHolds([[q EXCEPT !.pc = "decide"] EXCEPT !.age = 0])'
      BY <1>0, <1>5, <2>3 DEF To, new
    <2>5. UNCHANGED <<chg, lock>>
      BY <1>1
    <2> QED
      BY <2>1, <2>2, <2>4, <2>5, RequestStep
  <1>6. CASE getUserAuthVersionFloor <= q.seen.ver /\ To(r, "decide") /\ UNCHANGED <<hash, fence, floor>>
    <2>1. q.seen.ver = user.ver /\ q.seen.status = user.status
      <3>1. /\ q.seen.ver \in Nat /\ q.seen.ver <= user.ver /\ floor \in Nat /\ fence.ver \in Nat /\ user.ver \in Nat
            /\ q.seen.ver = user.ver => q.seen.status = user.status
        BY <1>2 DEF AuthInv, UserHolds, Known
      <3>2. q.seen.ver < user.ver => floor > q.seen.ver \/ fence.ver > q.seen.ver
        BY <1>2 DEF Guarded
      <3> QED
        BY <1>6, <3>1, <3>2 DEF getUserAuthVersionFloor
    <2>2. UNCHANGED <<userVars, sessVars, chg>>
      BY <1>1, <1>6 DEF userVars, sessVars
    <2>3. Step(r, [q EXCEPT !.pc = "decide"]) /\ RequestHolds([[q EXCEPT !.pc = "decide"] EXCEPT !.age = 0])
      BY <1>0, <1>4, <1>6, <2>1 DEF To, new
    <2> QED
      BY <2>2, <2>3, QuietRequest
  <1> QED
    BY <1>0, <1>3, <1>5, <1>6 DEF GetUserCache

\* A request that is to be refused has not seen what it would need.
LEMMA DecideStep ==
    ASSUME AuthInv, NEW r \in Requests, Decide(r)
    PROVE  AuthInv'
  <1>0. PICK q : q = req[r]
    OBVIOUS
  <1>1. RequestHolds(q) /\ q.pc = "decide" /\ "revoked" \notin q.dead /\ UNCHANGED <<userVars, sessVars, chg>>
    BY <1>0 DEF AuthInv, Decide, Doing, RequestHolds
  <1> DEFINE ok == q.seen.status = "enabled" /\ (q.kind = "login" \/ q.seen.ver = q.id.uav)
  <1>2. CASE Refuse(r)
    BY <1>1, <1>2, QuietRefuse
  <1>3. CASE ok /\ q.kind = "validate" /\ To(r, "accepted")
    <2> DEFINE new == [[q EXCEPT !.pc = "accepted"] EXCEPT !.age = 0]
    <2>1. /\ DOMAIN new = RequestFields /\ new.age = 0 /\ new.left = q.left /\ new.seen = q.seen /\ new.pc = "accepted"
          /\ new.id = q.id /\ new.got = q.got /\ new.dead = q.dead /\ new.kind = q.kind
      BY <1>1 DEF RequestHolds, RequestFields
    <2>2. "changed" \notin q.dead
      BY <1>1, <1>3 DEF RequestHolds
    <2> HIDE DEF new
    <2>3. RequestHolds(new)
      BY <1>1, <2>1, <2>2, SessionsAssumption DEF RequestHolds
    <2>4. Step(r, [q EXCEPT !.pc = "accepted"])
      BY <1>0, <1>3 DEF To
    <2> QED
      BY <1>1, <2>3, <2>4, QuietRequest DEF new
  <1>4. CASE /\ q.kind = "login"
             /\ Step(r, [q EXCEPT !.pc = "create", !.left = CacheTTL, !.got = [ver |-> 1, uav |-> q.seen.ver]])
    <2> DEFINE got == [ver |-> 1, uav |-> q.seen.ver]
               new == [[q EXCEPT !.pc = "create", !.left = CacheTTL, !.got = got] EXCEPT !.age = 0]
    <2>1. /\ DOMAIN new = RequestFields /\ new.age = 0 /\ new.left = CacheTTL /\ new.seen = q.seen /\ new.pc = "create"
          /\ new.id = q.id /\ new.got = got /\ new.dead = q.dead /\ new.kind = q.kind
      BY <1>1 DEF RequestHolds, RequestFields
    <2>2. Issued(got)
      BY <1>1 DEF RequestHolds, Known, Issued
    <2> HIDE DEF new, got
    <2>3. RequestHolds(new)
      BY <1>1, <1>4, <2>1, <2>2, SessionsAssumption DEF RequestHolds
    <2> QED
      BY <1>1, <1>4, <2>3, QuietRequest DEF new, got
  <1>5. CASE To(r, "again")
    BY <1>0, <1>1, <1>5, QuietTo DEF Free
  <1>6. CASE ~ok
    BY <1>0, <1>2, <1>6 DEF Decide
  <1>7. CASE ok /\ q.kind = "validate"
    BY <1>0, <1>3, <1>7 DEF Decide
  <1>8. CASE ok /\ q.kind = "login"
    BY <1>0, <1>4, <1>8 DEF Decide
  <1>9. CASE ok /\ q.kind \notin {"validate", "login"}
    BY <1>0, <1>5, <1>9 DEF Decide
  <1> QED
    BY <1>6, <1>7, <1>8, <1>9

LEMMA UserSame ==
    ASSUME AuthInv, UNCHANGED <<user, hash, fence, floor>>
    PROVE  UserHolds'
  BY DEF AuthInv, UserHolds, Known, Guarded

\* Writing a deny entry.
LEMMA DenyWritten ==
    ASSUME AuthInv, NEW status \in {"revoking", "revoked"}, NEW s, Issued(s),
           writeUserSessionDenyFence(status, s), UNCHANGED <<user, floor, fence, sess, ids>>
    PROVE  Keeps /\ SessionHolds'
  <1>1. CASE scache' = scache
    <2>1. Denying => Denying' /\ scache'.ttl >= scache.ttl
      BY <1>1 DEF Denying, AuthInv, SessionHolds
    <2> QED
      BY <1>1, <2>1 DEF Keeps, AuthInv, SessionHolds, Issued
  <1>2. CASE scache' = Entry(status, s, CacheTTL)
    <2>1. /\ DOMAIN scache' = {"status", "ver", "uav", "ttl"} /\ scache'.ttl = CacheTTL
          /\ scache'.uav = s.uav /\ scache'.status = status
      BY <1>2 DEF Entry
    <2>2. Denying' /\ scache'.ttl >= CacheTTL /\ scache'.ttl \in Nat
      BY <2>1, SessionsAssumption DEF Denying
    <2>3. Keeps
      BY <2>2 DEF Keeps
    <2>4. scache'.status # "active" /\ Issued(scache)'
      BY <2>1 DEF Issued
    <2> QED
      BY <2>1, <2>2, <2>3, <2>4 DEF AuthInv, SessionHolds, Issued
  <1> QED
    BY <1>1, <1>2 DEF writeUserSessionDenyFence

\* Writing a snapshot of the active session.
LEMMA SnapshotStored ==
    ASSUME AuthInv, NEW s, Issued(s), NEW left \in Nat, NEW time, Sealed(time), Stored(s, left),
           UNCHANGED <<user, floor, fence, sess>>, \A id \in ids' : Issued(id)
    PROVE  Keeps /\ SessionHolds'
  <1>1. ~Denying /\ sess.status # "revoked" /\ scache' = Entry("active", s, left)
    BY DEF Stored, Denied, Denying, Sealed
  <1>2. /\ DOMAIN scache' = {"status", "ver", "uav", "ttl"} /\ scache'.ttl = left /\ scache'.uav = s.uav
    BY <1>1 DEF Entry
  <1>3. Keeps
    BY <1>1 DEF Keeps
  <1> QED
    BY <1>1, <1>2, <1>3 DEF AuthInv, SessionHolds, Issued

\* The cache stays as it is.
LEMMA ScacheSame ==
    ASSUME AuthInv, UNCHANGED <<user, floor, fence, sess, scache>>, \A id \in ids' : Issued(id)
    PROVE  Keeps /\ SessionHolds'
  <1>1. Denying => Denying' /\ scache'.ttl >= scache.ttl
    BY DEF Denying, AuthInv, SessionHolds
  <1> QED
    BY <1>1 DEF Keeps, AuthInv, SessionHolds, Issued

\* A step of a request that keeps the rest, by the record it leads to.
LEMMA KeptRequest ==
    ASSUME AuthInv, NEW r \in Requests, NEW rec, Step(r, rec), Keeps, SessionHolds',
           UNCHANGED <<user, hash, fence, floor, chg, lock>>,
           RequestHolds([rec EXCEPT !.age = 0])
    PROVE  AuthInv'
  <1> DEFINE new == [rec EXCEPT !.age = 0]
  <1>1. UserHolds'
    BY UserSame
  <1>2. fence'.ttl \in Int /\ scache'.ttl \in Int
    BY <1>1 DEF UserHolds, SessionHolds
  <1> HIDE DEF new
  <1>3. RequestHolds(new)
    BY DEF new
  <1>4. RequestHolds(new)'
    BY <1>2, <1>3, RequestFrame DEF AuthInv
  <1> QED
    BY <1>1, <1>4, RequestStep DEF new

LEMMA SessionRowStep ==
    ASSUME AuthInv, NEW r \in Requests, GetUserSessionBySID(r)
    PROVE  AuthInv'
  <1>0. PICK q : q = req[r]
    OBVIOUS
  <1>1. /\ RequestHolds(q) /\ q.pc = "sessdb" /\ UNCHANGED <<user, hash, fence, floor, lock, sess, ids, chg>>
    BY <1>0 DEF AuthInv, GetUserSessionBySID, Doing, userVars
  <1>2. Issued(Snapshot)
    BY DEF AuthInv, SessionHolds, Issued, Snapshot
  <1>3. CASE sess.status = "active" /\ Step(r, [q EXCEPT !.pc = "fill", !.got = Snapshot]) /\ UNCHANGED scache
    <2> DEFINE got == Snapshot
               new == [[q EXCEPT !.pc = "fill", !.got = got] EXCEPT !.age = 0]
    <2> HIDE DEF got
    <2>1. /\ DOMAIN new = RequestFields /\ new.age = 0 /\ new.left = q.left /\ new.seen = q.seen /\ new.pc = "fill"
          /\ new.id = q.id /\ new.got = got /\ new.dead = q.dead /\ new.kind = q.kind
      BY <1>1 DEF RequestHolds, RequestFields
    <2> HIDE DEF new
    <2>2. RequestHolds(new)
      BY <1>1, <1>2, <1>3, <2>1, SessionsAssumption DEF RequestHolds, Sealed, got
    <2>3. UNCHANGED <<userVars, sessVars, chg>>
      BY <1>1, <1>3 DEF userVars, sessVars
    <2> QED
      BY <1>3, <2>2, <2>3, QuietRequest DEF new, got
  <1>4. CASE Refuse(r) /\ writeUserSessionDenyFence("revoked", Snapshot)
    <2>1. Keeps /\ SessionHolds'
      BY <1>1, <1>2, <1>4, DenyWritten
    <2>2. Step(r, NoRequest) /\ RequestHolds([NoRequest EXCEPT !.age = 0])
      BY <1>4, NoRequestHolds DEF Refuse, AuthInv
    <2>3. UNCHANGED <<user, hash, fence, floor, chg, lock>>
      BY <1>1
    <2> QED
      BY <2>1, <2>2, <2>3, KeptRequest
  <1> QED
    BY <1>0, <1>3, <1>4 DEF GetUserSessionBySID

LEMMA FillStep ==
    ASSUME AuthInv, NEW r \in Requests, GetUserSessionCached(r)
    PROVE  AuthInv'
  <1>0. PICK q : q = req[r]
    OBVIOUS
  <1>1. /\ RequestHolds(q) /\ q.pc \in {"fill", "created", "rotated"} /\ "revoked" \notin q.dead
        /\ UNCHANGED <<user, hash, fence, floor, lock, sess, ids, chg>>
    BY <1>0 DEF AuthInv, GetUserSessionCached, RequestHolds, userVars
  <1>2. Issued(q.got) /\ q.left \in Nat /\ Sealed(Patience + 1 - q.age)
    BY <1>1 DEF RequestHolds
  <1> DEFINE next == IF q.pc = "fill" THEN "match" ELSE "issue"
  <1>3. next \in Free
    BY DEF Free
  <1> HIDE DEF next
  <1>4. ASSUME To(r, next) \/ Refuse(r)
        PROVE  \E rec : Step(r, rec) /\ RequestHolds([rec EXCEPT !.age = 0])
    <2>1. RequestHolds([[q EXCEPT !.pc = next] EXCEPT !.age = 0]) /\ RequestHolds([NoRequest EXCEPT !.age = 0])
      BY <1>1, <1>3, RequestMoves, NoRequestHolds DEF AuthInv
    <2>2. Step(r, [q EXCEPT !.pc = next]) \/ Step(r, NoRequest)
      BY <1>0, <1>4 DEF To, Refuse
    <2> QED
      BY <2>1, <2>2
  <1>5. To(r, next) \/ Refuse(r)
    BY <1>0 DEF GetUserSessionCached, next
  <1>6. PICK rec : Step(r, rec) /\ RequestHolds([rec EXCEPT !.age = 0])
    BY <1>4, <1>5
  <1>7. Stored(q.got, q.left) \/ UNCHANGED scache
    BY <1>0 DEF GetUserSessionCached, Unstored, TooLate
  <1>8. \A id \in ids' : Issued(id)
    BY <1>1 DEF AuthInv, SessionHolds
  <1>9. Keeps /\ SessionHolds'
    <2>1. CASE Stored(q.got, q.left)
      BY <1>1, <1>2, <1>8, <2>1, SnapshotStored
    <2>2. CASE UNCHANGED scache
      BY <1>1, <1>8, <2>2, ScacheSame
    <2> QED
      BY <1>7, <2>1, <2>2
  <1>10. UNCHANGED <<user, hash, fence, floor, chg, lock>>
    BY <1>1
  <1> QED
    BY <1>6, <1>9, <1>10, KeptRequest

LEMMA CreateStep ==
    ASSUME AuthInv, NEW r \in Requests, CreateUserSession(r)
    PROVE  AuthInv'
  <1>0. PICK q : q = req[r]
    OBVIOUS
  <1>1. /\ RequestHolds(q) /\ q.pc = "create" /\ "revoked" \notin q.dead
        /\ UNCHANGED <<user, hash, fence, floor, lock, scache, ids, chg>>
    BY <1>0 DEF AuthInv, CreateUserSession, Doing, RequestHolds, userVars
  <1>2. CASE UNCHANGED sess /\ Refuse(r)
    <2>1. UNCHANGED <<userVars, sessVars, chg>>
      BY <1>1, <1>2 DEF userVars, sessVars
    <2> QED
      BY <1>2, <2>1, QuietRefuse
  <1>3. CASE /\ sess.status = "none" /\ sess' = [status |-> "active", ver |-> 1, uav |-> q.got.uav]
             /\ To(r, "created")
    <2>1. sess'.status = "active" /\ DOMAIN sess' = {"status", "ver", "uav"} /\ Issued(sess)'
      BY <1>1, <1>3 DEF RequestHolds, Issued
    <2>2. Keeps
      <3>1. Denying => Denying' /\ scache'.ttl >= scache.ttl
        BY <1>1 DEF Denying, AuthInv, SessionHolds
      <3> QED
        BY <1>1, <1>3, <2>1, <3>1 DEF Keeps
    <2>3. SessionHolds'
      BY <1>1, <2>1 DEF AuthInv, SessionHolds, Issued
    <2> DEFINE new == [[q EXCEPT !.pc = "created"] EXCEPT !.age = 0]
    <2>4. /\ DOMAIN new = RequestFields /\ new.age = 0 /\ new.left = q.left /\ new.seen = q.seen /\ new.pc = "created"
          /\ new.id = q.id /\ new.got = q.got /\ new.dead = q.dead /\ new.kind = q.kind
      BY <1>1 DEF RequestHolds, RequestFields
    <2> HIDE DEF new
    <2>5. RequestHolds(new)
      BY <1>1, <1>3, <2>4, SessionsAssumption DEF RequestHolds, Sealed
    <2>6. Step(r, [q EXCEPT !.pc = "created"])
      BY <1>0, <1>3 DEF To
    <2>7. UNCHANGED <<user, hash, fence, floor, chg, lock>>
      BY <1>1
    <2> QED
      BY <2>2, <2>3, <2>5, <2>6, <2>7, KeptRequest DEF new
  <1> QED
    BY <1>0, <1>2, <1>3 DEF CreateUserSession

LEMMA RefreshSteps ==
    ASSUME AuthInv, NEW r \in Requests,
           RefreshLoginSession(r) \/ RotateUserSessionRefresh(r) \/ SwapRefreshHash(r) \/ Respond(r)
    PROVE  AuthInv'
  <1>0. PICK q : q = req[r]
    OBVIOUS
  <1>1. /\ RequestHolds(q) /\ q.pc \in {"again", "rotate", "swap", "accepted"} /\ "revoked" \notin q.dead
        /\ UNCHANGED <<userVars, sessVars, chg>>
    BY <1>0 DEF AuthInv, RefreshLoginSession, RotateUserSessionRefresh, SwapRefreshHash, Respond, Doing, RequestHolds
  <1>2. CASE Refuse(r)
    BY <1>1, <1>2, QuietRefuse
  <1>3. CASE Step(r, [q EXCEPT !.pc = "rotate", !.left = CacheTTL])
    <2> DEFINE new == [[q EXCEPT !.pc = "rotate", !.left = CacheTTL] EXCEPT !.age = 0]
    <2>1. /\ DOMAIN new = RequestFields /\ new.age = 0 /\ new.left = CacheTTL /\ new.seen = q.seen /\ new.pc = "rotate"
          /\ new.id = q.id /\ new.got = q.got /\ new.dead = q.dead /\ new.kind = q.kind
      BY <1>1 DEF RequestHolds, RequestFields
    <2> HIDE DEF new
    <2>2. RequestHolds(new)
      BY <1>1, <2>1, SessionsAssumption DEF RequestHolds
    <2> QED
      BY <1>1, <1>3, <2>2, QuietRequest DEF new
  <1>4. ASSUME NEW pc \in {"swap", "issue"}, Step(r, [q EXCEPT !.pc = pc, !.got = Snapshot]) PROVE AuthInv'
    <2> DEFINE got == Snapshot
               new == [[q EXCEPT !.pc = pc, !.got = got] EXCEPT !.age = 0]
    <2>0. Issued(got)
      BY DEF AuthInv, SessionHolds, Issued, Snapshot
    <2> HIDE DEF got
    <2>1. /\ DOMAIN new = RequestFields /\ new.age = 0 /\ new.left = q.left /\ new.seen = q.seen /\ new.pc = pc
          /\ new.id = q.id /\ new.got = got /\ new.dead = q.dead /\ new.kind = q.kind
      BY <1>1 DEF RequestHolds, RequestFields
    <2> HIDE DEF new
    <2>2. RequestHolds(new)
      BY <1>1, <2>0, <2>1, SessionsAssumption DEF RequestHolds
    <2> QED
      BY <1>1, <1>4, <2>2, QuietRequest DEF new, got
  <1>5. CASE sess.status = "active" /\ To(r, "rotated")
    <2> DEFINE new == [[q EXCEPT !.pc = "rotated"] EXCEPT !.age = 0]
    <2>1. /\ DOMAIN new = RequestFields /\ new.age = 0 /\ new.left = q.left /\ new.seen = q.seen /\ new.pc = "rotated"
          /\ new.id = q.id /\ new.got = q.got /\ new.dead = q.dead /\ new.kind = q.kind
      BY <1>1 DEF RequestHolds, RequestFields
    <2> HIDE DEF new
    <2>2. RequestHolds(new)
      BY <1>1, <1>5, <2>1, SessionsAssumption DEF RequestHolds, Sealed
    <2>3. Step(r, [q EXCEPT !.pc = "rotated"])
      BY <1>0, <1>5 DEF To
    <2> QED
      BY <1>1, <2>2, <2>3, QuietRequest DEF new
  <1>6. CASE RefreshLoginSession(r)
    BY <1>0, <1>2, <1>3, <1>6 DEF RefreshLoginSession
  <1>7. CASE RotateUserSessionRefresh(r)
    BY <1>0, <1>2, <1>4, <1>7 DEF RotateUserSessionRefresh
  <1>8. CASE SwapRefreshHash(r) \/ Respond(r)
    BY <1>2, <1>5, <1>8 DEF SwapRefreshHash, Respond
  <1> QED
    BY <1>6, <1>7, <1>8

LEMMA IssueStep ==
    ASSUME AuthInv, NEW r \in Requests, issueAuthBundle(r)
    PROVE  AuthInv'
  <1>1. /\ ids' = ids \cup {req[r].got} /\ Refuse(r)
        /\ UNCHANGED <<user, hash, fence, floor, lock, sess, scache, chg>>
    BY DEF issueAuthBundle, userVars
  <1>2. \A id \in ids' : Issued(id)
    BY <1>1 DEF AuthInv, SessionHolds, RequestHolds
  <1>3. Keeps /\ SessionHolds'
    BY <1>1, <1>2, ScacheSame
  <1>4. Step(r, NoRequest) /\ RequestHolds([NoRequest EXCEPT !.age = 0])
    BY <1>1, NoRequestHolds DEF Refuse, AuthInv
  <1>5. UNCHANGED <<user, hash, fence, floor, chg, lock>>
    BY <1>1
  <1> QED
    BY <1>3, <1>4, <1>5, KeptRequest

-----------------------------------------------------------------------------
(* Changes of the user. *)

LEMMA ChangeMoves ==
    ASSUME NEW c, NEW q, ChangeHolds(c, q), NEW pc, pc \notin {"tx", "write", "revoke", "advanced"}
    PROVE  ChangeHolds(c, [[q EXCEPT !.pc = pc] EXCEPT !.age = 0])
  <1> DEFINE new == [[q EXCEPT !.pc = pc] EXCEPT !.age = 0]
  <1>1. /\ DOMAIN new = ChangeFields /\ new.age = 0 /\ new.left = q.left /\ new.seen = q.seen /\ new.pc = pc
        /\ new.id = q.id /\ new.got = q.got
    BY DEF ChangeHolds, ChangeFields
  <1> HIDE DEF new
  <1>2. ChangeHolds(c, new)
    BY <1>1, SessionsAssumption DEF ChangeHolds
  <1> QED
    BY <1>2 DEF new

LEMMA QuietStop ==
    ASSUME AuthInv, NEW c \in Changers, Stop(c), UNCHANGED <<userVars, sessVars, req>>
    PROVE  AuthInv'
  BY NoChangeHolds, QuietChange DEF Stop, AuthInv

\* A step of a changer that keeps the rest, by the record it leads to.
LEMMA KeptChange ==
    ASSUME AuthInv, NEW c \in Changers, NEW rec, Move(c, rec), Keeps, UserHolds', SessionHolds',
           UNCHANGED <<req, lock>>, fence.ver > user.ver => fence' = fence,
           ChangeHolds(c, [rec EXCEPT !.age = 0]), rec.pc # "tx"
    PROVE  AuthInv'
  <1> DEFINE new == [rec EXCEPT !.age = 0]
  <1>2. fence'.ttl \in Int /\ scache'.ttl \in Int
    BY DEF UserHolds, SessionHolds
  <1>3. ChangeHolds(c, new) /\ new.pc # "tx"
    OBVIOUS
  <1> HIDE DEF new
  <1>4. ChangeHolds(c, new)'
    BY <1>2, <1>3, ChangeFrame DEF AuthInv
  <1>5. ASSUME NEW d \in Changers \ {c}, chg[d].pc = "tx" PROVE lock' = lock /\ fence' = fence
    <2>1. fence.ver = user.ver + 1 /\ user.ver \in Nat
      BY <1>5 DEF AuthInv, UserHolds, ChangeHolds
    <2> QED
      BY <2>1
  <1> QED
    BY <1>4, <1>5, ChangeStep DEF new

\* The fence of the next version is raised before anything is committed.
LEMMA FenceStep ==
    ASSUME AuthInv, NEW c \in Changers, NEW kind, NEW id, Issued(id), Change(c, kind, id)
    PROVE  AuthInv'
  <1>1. /\ lock = Nil /\ lock' = c /\ IncrementUserAuthVersionWithTx(user.ver + 1)
        /\ Move(c, [NoChange EXCEPT !.pc = "tx", !.kind = kind, !.id = id])
        /\ UNCHANGED <<user, hash, sess, scache, ids, req>>
    BY DEF Change, sessVars
  <1>2. /\ user.ver \in Nat \ {0} /\ fence.ver \in Nat /\ fence.ver <= user.ver + 1
        /\ CacheTTL \in Nat /\ Patience \in Nat /\ 2 * Patience < CacheTTL /\ hash.ttl \in 0..CacheTTL
    BY SessionsAssumption DEF AuthInv, UserHolds
  <1>3. floor' = floor /\ fence' = [ver |-> user.ver + 1, ttl |-> CacheTTL + CacheTTL]
    BY <1>1, <1>2 DEF IncrementUserAuthVersionWithTx, SetUserAuthVersionFence, userAuthFenceTTLSeconds
  <1>4. /\ DOMAIN fence' = {"ver", "ttl"} /\ fence'.ver = user.ver + 1 /\ fence'.ttl = 2 * CacheTTL /\ fence'.ttl \in Nat
        /\ fence'.ver \in Nat
    BY <1>2, <1>3
  <1>5. Keeps
    <2>1. Denying => Denying' /\ scache'.ttl >= scache.ttl
      BY <1>1 DEF Denying, AuthInv, SessionHolds
    <2> QED
      BY <1>1, <1>3, <1>4, <2>1 DEF Keeps
  <1>6. UserHolds'
    <2>1. PICK k, time : k = hash /\ time = hash.ttl + Patience + 1
      OBVIOUS
    <2>2. time \in Int /\ time <= 2 * CacheTTL /\ k.ver \in Nat /\ fence'.ttl \in Int /\ UserHolds
      BY <1>2, <1>4, <2>1 DEF AuthInv, UserHolds, Known
    <2>3. hash.ttl > 0 => Guarded(k, time)
      BY <2>1 DEF AuthInv, UserHolds
    <2>4. hash.ttl > 0 => Guarded(k, time)'
      BY <1>5, <2>2, <2>3, GuardKept
    <2>5. hash'.ttl > 0 => Guarded(hash, hash.ttl + Patience + 1)'
      BY <1>1, <2>1, <2>4 DEF Guarded
    <2>6. fence'.ver <= user'.ver + 1
      BY <1>1, <1>2, <1>4
    <2> QED
      BY <1>1, <1>2, <1>3, <1>4, <2>5, <2>6 DEF AuthInv, UserHolds, Known
  <1>7. SessionHolds'
    BY <1>1, SessionSame DEF sessVars
  <1>8. \A d \in Changers \ {c} : chg[d].pc # "tx"
    BY <1>1, SessionsAssumption DEF AuthInv, ChangeHolds, Nil
  <1> DEFINE new == [[NoChange EXCEPT !.pc = "tx", !.kind = kind, !.id = id] EXCEPT !.age = 0]
  <1>9. ChangeHolds(c, new)'
    <2>1. /\ DOMAIN new = ChangeFields /\ new.age = 0 /\ new.left = 0 /\ new.pc = "tx"
          /\ new.id = id /\ new.got = NoId /\ new.seen = NoChange.seen
      BY DEF NoChange, ChangeFields
    <2>2. Issued(id)' /\ Issued(NoId)' /\ Known(NoChange.seen)'
      BY <1>1, <1>2 DEF Known, Issued, NoChange, NoId
    <2> HIDE DEF new
    <2>3. lock' = c /\ fence'.ver = user'.ver + 1 /\ fence'.ttl + new.age >= 2 * CacheTTL
      BY <1>1, <1>2, <1>4, <2>1
    <2> QED
      BY <2>1, <2>2, <2>3, SessionsAssumption DEF ChangeHolds
  <1> QED
    BY <1>1, <1>5, <1>6, <1>7, <1>8, <1>9, ChangeStep

LEMMA BeginChangeSteps ==
    ASSUME AuthInv, NEW c \in Changers,
           UpdateManagedUserStatuses(c) \/ Update(c) \/ Delete(c) \/ AdvanceCurrentSessionSecurity(c)
    PROVE  AuthInv'
  <1>1. Issued(NoId) /\ \A id \in ids : Issued(id)
    BY DEF AuthInv, UserHolds, SessionHolds, Issued, NoId
  <1> QED
    BY <1>1, FenceStep DEF UpdateManagedUserStatuses, Update, Delete, AdvanceCurrentSessionSecurity

\* The commit: whatever was read before it is below the fence.
LEMMA CommitStep ==
    ASSUME AuthInv, NEW c \in Changers, CommitChange(c)
    PROVE  AuthInv'
  <1>0. PICK p : p = chg[c]
    OBVIOUS
  <1>1. /\ ChangeHolds(c, p) /\ p.pc = "tx" /\ lock = c /\ lock' = Nil
        /\ UNCHANGED <<hash, fence, floor, sess, scache, ids, req>>
    BY <1>0 DEF AuthInv, CommitChange, Making, ChangeHolds, sessVars
  <1>2. \A d \in Changers \ {c} : chg[d].pc # "tx"
    BY <1>1 DEF AuthInv, ChangeHolds
  <1>3. /\ user.ver \in Nat \ {0} /\ fence.ver = user.ver + 1 /\ fence.ttl \in Nat /\ floor \in Nat /\ floor <= user.ver
        /\ CacheTTL \in Nat /\ Patience \in Nat /\ CacheTTL >= 2 * Patience + 1 /\ fence.ttl >= CacheTTL + Patience + 1
        /\ hash.ttl \in 0..CacheTTL
    <2>1. fence.ttl + p.age >= 2 * CacheTTL /\ p.age \in 0..Patience /\ fence.ver = user.ver + 1
      BY <1>1 DEF ChangeHolds
    <2> QED
      BY <2>1, SessionsAssumption DEF AuthInv, UserHolds
  <1>4. CASE UNCHANGED user /\ Stop(c)
    <2>1. Keeps
      <3>1. Denying => Denying' /\ scache'.ttl >= scache.ttl
        BY <1>1 DEF Denying, AuthInv, SessionHolds
      <3> QED
        BY <1>1, <1>4, <3>1 DEF Keeps
    <2>2. UserHolds' /\ SessionHolds'
      BY <1>1, <1>4, UserSame, SessionSame DEF sessVars
    <2>3. Move(c, NoChange) /\ ChangeHolds(c, [NoChange EXCEPT !.age = 0])'
      <3> DEFINE new == [NoChange EXCEPT !.age = 0]
      <3>1. ChangeHolds(c, new) /\ new.pc = "idle"
        BY NoChangeHolds DEF AuthInv, NoChange
      <3> HIDE DEF new
      <3>2. fence'.ttl \in Int /\ scache'.ttl \in Int
        BY <2>2 DEF UserHolds, SessionHolds
      <3>3. ChangeHolds(c, new)'
        BY <2>1, <3>1, <3>2, ChangeFrame DEF AuthInv
      <3> QED
        BY <1>4, <3>3 DEF Stop, new
    <2> QED
      BY <1>1, <1>2, <2>1, <2>2, <2>3, ChangeStep
  <1>5. CASE /\ user'.ver = user.ver + 1
             /\ \E pc \in {"tombstone", "publish"} : Onto(c, pc)
    <2>1. ASSUME NEW k, Known(k), NEW time \in Int, time <= CacheTTL + Patience + 1
          PROVE  Known(k)' /\ Guarded(k, time)'
      <3>1. k.ver \in Nat /\ k.ver <= user.ver
        BY <2>1 DEF Known
      <3>2. Known(k)'
        BY <1>3, <1>5, <3>1 DEF Known
      <3>3. fence'.ver > k.ver /\ fence'.ttl >= time
        BY <1>1, <1>3, <2>1, <3>1
      <3> QED
        BY <3>2, <3>3 DEF Guarded
    <2>2. ASSUME NEW id, Issued(id) PROVE Issued(id)' /\ Changed(id)'
      BY <1>3, <1>5, <2>2 DEF Issued, Changed
    <2>3. ASSUME NEW time, Sealed(time) PROVE Sealed(time)'
      BY <1>1, <2>3 DEF Sealed, Denying
    <2>4. UserHolds'
      <3>1. PICK k, time : k = hash /\ time = hash.ttl + Patience + 1
        OBVIOUS
      <3>2. Known(k) /\ time \in Int /\ time <= CacheTTL + Patience + 1
        BY <1>3, <3>1 DEF AuthInv, UserHolds
      <3>3. Known(k)' /\ Guarded(k, time)'
        BY <2>1, <3>2
      <3>4. Known(hash)' /\ Guarded(hash, hash.ttl + Patience + 1)'
        BY <1>1, <3>1, <3>3 DEF Known, Guarded
      <3>5. user'.ver \in Nat \ {0} /\ floor' <= user'.ver /\ fence'.ver <= user'.ver + 1
        BY <1>1, <1>3, <1>5
      <3> QED
        BY <1>1, <3>4, <3>5 DEF AuthInv, UserHolds
    <2>5. SessionHolds'
      BY <1>1, <1>3, <1>5 DEF AuthInv, SessionHolds, Issued
    <2>6. ASSUME NEW q, RequestHolds(q) PROVE RequestHolds(q)'
      <3> DEFINE time == Patience + 1 - q.age
      <3>1. time \in Int /\ time <= CacheTTL + Patience + 1
        BY <1>3, <2>6 DEF RequestHolds
      <3> HIDE DEF time
      <3>2. Known(q.seen)' /\ Guarded(q.seen, time)' /\ Issued(q.id)' /\ Issued(q.got)' /\ Changed(q.id)'
        BY <2>1, <2>2, <2>6, <3>1 DEF RequestHolds
      <3>3. q.pc \in {"fill", "created", "rotated"} => Sealed(time)'
        BY <2>3, <2>6 DEF RequestHolds, time
      <3> QED
        BY <1>1, <2>6, <3>2, <3>3 DEF RequestHolds, time
    <2>7. ASSUME NEW d, NEW q, ChangeHolds(d, q), q.pc # "tx" PROVE ChangeHolds(d, q)'
      <3> DEFINE time == Patience + 1 - q.age
      <3>1. time \in Int /\ time <= CacheTTL + Patience + 1
        BY <1>3, <2>7 DEF ChangeHolds
      <3> HIDE DEF time
      <3>2. Known(q.seen)' /\ Guarded(q.seen, time)' /\ Issued(q.id)' /\ Issued(q.got)'
        BY <2>1, <2>2, <2>7, <3>1 DEF ChangeHolds
      <3>3. q.pc = "advanced" => Sealed(time)'
        BY <2>3, <2>7 DEF ChangeHolds, time
      <3>4. q.pc = "revoke" => Denying' /\ scache'.ttl + q.age >= CacheTTL
        BY <1>1, <2>7 DEF ChangeHolds, Denying
      <3> QED
        BY <2>7, <3>2, <3>3, <3>4 DEF ChangeHolds, time
    <2>8. PICK pc \in {"tombstone", "publish"} : Move(c, [p EXCEPT !.pc = pc])
      BY <1>0, <1>5 DEF Onto
    <2> DEFINE new == [[p EXCEPT !.pc = pc] EXCEPT !.age = 0]
    <2>9. ChangeHolds(c, new) /\ new.pc # "tx"
      <3>1. DOMAIN p = ChangeFields
        BY <1>1 DEF ChangeHolds
      <3> QED
        BY <1>1, <3>1, ChangeMoves DEF ChangeFields
    <2>10. chg' = [chg EXCEPT ![c] = new]
      BY <2>8 DEF Move
    <2> HIDE DEF new
    <2>11. ChangeHolds(c, new)'
      BY <2>7, <2>9
    <2>12. DOMAIN chg' = Changers /\ chg'[c] = new /\ \A d \in Changers \ {c} : chg'[d] = chg[d]
      BY <2>10 DEF AuthInv
    <2>13. ASSUME NEW d \in Changers PROVE ChangeHolds(d, chg[d])'
      <3>1. CASE d = c
        BY <2>11, <2>12, <3>1 DEF ChangeHolds
      <3>2. CASE d # c
        <4>1. PICK q : q = chg[d]
          OBVIOUS
        <4>2. chg'[d] = q /\ ChangeHolds(d, q) /\ q.pc # "tx"
          BY <1>2, <2>12, <3>2, <4>1 DEF AuthInv
        <4>3. ChangeHolds(d, q)'
          BY <2>7, <4>2
        <4> QED
          BY <4>2, <4>3 DEF ChangeHolds
      <3> QED
        BY <3>1, <3>2
    <2>14. ASSUME NEW r \in Requests PROVE RequestHolds(req[r])'
      <3>1. PICK q : q = req[r]
        OBVIOUS
      <3>2. req'[r] = q /\ RequestHolds(q)
        BY <1>1, <3>1 DEF AuthInv
      <3>3. RequestHolds(q)'
        BY <2>6, <3>2
      <3> QED
        BY <3>2, <3>3 DEF RequestHolds
    <2> QED
      BY <1>1, <2>4, <2>5, <2>12, <2>13, <2>14 DEF AuthInv
  <1> QED
    BY <1>4, <1>5 DEF CommitChange

LEMMA PublishReadStep ==
    ASSUME AuthInv, NEW c \in Changers, PublishRead(c)
    PROVE  AuthInv'
  <1>0. PICK q : q = chg[c]
    OBVIOUS
  <1>1. ChangeHolds(c, q) /\ UNCHANGED <<userVars, sessVars, req>>
    BY <1>0 DEF AuthInv, PublishRead
  <1>2. CASE Stop(c)
    BY <1>1, <1>2, QuietStop
  <1>3. CASE Move(c, [q EXCEPT !.pc = "write", !.seen = user])
    <2> DEFINE new == [[q EXCEPT !.pc = "write", !.seen = user] EXCEPT !.age = 0]
    <2>1. /\ DOMAIN new = ChangeFields /\ new.age = 0 /\ new.left = q.left /\ new.seen = user /\ new.pc = "write"
          /\ new.id = q.id /\ new.got = q.got
      BY <1>1 DEF ChangeHolds, ChangeFields
    <2>2. Known(user) /\ Guarded(user, Patience + 1 - new.age)
      BY DEF AuthInv, UserHolds, Known, Guarded
    <2> HIDE DEF new
    <2>3. ChangeHolds(c, new)
      BY <1>1, <2>1, <2>2, SessionsAssumption DEF ChangeHolds
    <2> QED
      BY <1>1, <1>3, <2>3, QuietChange DEF new
  <1> QED
    BY <1>0, <1>2, <1>3 DEF PublishRead

LEMMA PublishStep ==
    ASSUME AuthInv, NEW c \in Changers, PublishUserAuthCache(c)
    PROVE  AuthInv'
  <1>0. PICK q : q = chg[c]
    OBVIOUS
  <1>1. /\ ChangeHolds(c, q) /\ q.pc = "write" /\ UNCHANGED <<user, lock, sess, scache, ids, req>>
    BY <1>0 DEF AuthInv, PublishUserAuthCache, Making, sessVars
  <1>2. Known(q.seen) /\ Guarded(q.seen, Patience + 1 - q.age)
    BY <1>1 DEF ChangeHolds
  <1>3. CASE Stop(c) /\ UNCHANGED <<hash, fence, floor>>
    <2>1. UNCHANGED <<userVars, sessVars, req>>
      BY <1>1, <1>3 DEF userVars, sessVars
    <2> QED
      BY <1>3, <2>1, QuietStop
  <1> DEFINE pc == IF q.kind = "advance" THEN "advance" ELSE "find"
  <1>4. CASE ~Outdated(q.seen.ver) /\ writeUserCache(q.seen, FALSE) /\ Move(c, [q EXCEPT !.pc = pc, !.left = CacheTTL])
    <2>1. Keeps /\ UserHolds' /\ (fence.ver > user.ver => fence' = fence)
      BY <1>1, <1>2, <1>4, UserCacheWritten
    <2>2. SessionHolds'
      BY <1>1, SessionSame DEF sessVars
    <2> DEFINE rec == [q EXCEPT !.pc = pc, !.left = CacheTTL]
               new == [rec EXCEPT !.age = 0]
    <2>3. pc \in {"advance", "find"}
      OBVIOUS
    <2> HIDE DEF pc
    <2>4. /\ DOMAIN new = ChangeFields /\ new.age = 0 /\ new.left = CacheTTL /\ new.seen = q.seen /\ new.pc = pc
          /\ new.id = q.id /\ new.got = q.got /\ rec.pc = pc
      BY <1>1 DEF ChangeHolds, ChangeFields
    <2> HIDE DEF new
    <2>5. ChangeHolds(c, new)
      BY <1>1, <2>3, <2>4, SessionsAssumption DEF ChangeHolds
    <2>6. rec.pc # "tx" /\ Move(c, rec) /\ UNCHANGED <<req, lock>>
      BY <1>1, <1>4, <2>3, <2>4
    <2> HIDE DEF rec
    <2> QED
      BY <2>1, <2>2, <2>5, <2>6, KeptChange DEF new
  <1> QED
    BY <1>0, <1>3, <1>4 DEF PublishUserAuthCache

\* A deleted user: only the version is published, and the cached row dropped.
LEMMA TombstoneStep ==
    ASSUME AuthInv, NEW c \in Changers, publishCommittedUserAuthVersion(c)
    PROVE  AuthInv'
  <1>0. PICK q : q = chg[c]
    OBVIOUS
  <1>1. ChangeHolds(c, q) /\ UNCHANGED <<user, hash, lock, sess, scache, ids, req>>
    BY <1>0 DEF AuthInv, publishCommittedUserAuthVersion, sessVars
  <1>2. CASE Stop(c) /\ UNCHANGED <<fence, floor>>
    <2>1. UNCHANGED <<userVars, sessVars, req>>
      BY <1>1, <1>2 DEF userVars, sessVars
    <2> QED
      BY <1>2, <2>1, QuietStop
  <1>3. CASE Committed(user.ver) /\ Onto(c, "find")
    <2>1. /\ Keeps /\ floor' = user.ver /\ (fence.ver > user.ver => fence' = fence)
          /\ DOMAIN fence' = {"ver", "ttl"} /\ fence'.ver \in Nat /\ fence'.ver <= user.ver + 1 /\ fence'.ttl \in Nat
      BY <1>1, <1>3, CommittedKeeps
    <2>2. UserHolds'
      <3>1. Known(hash)' /\ Guarded(hash, hash.ttl + Patience + 1)'
        BY <1>1, <2>1 DEF AuthInv, UserHolds, Known, Guarded
      <3>2. user'.ver \in Nat \ {0} /\ floor' \in Nat /\ floor' <= user'.ver /\ fence'.ver <= user'.ver + 1
        BY <1>1, <2>1 DEF AuthInv, UserHolds
      <3> QED
        BY <1>1, <2>1, <3>1, <3>2 DEF AuthInv, UserHolds
    <2>3. SessionHolds'
      BY <1>1, SessionSame DEF sessVars
    <2>4. Move(c, [q EXCEPT !.pc = "find"]) /\ ChangeHolds(c, [[q EXCEPT !.pc = "find"] EXCEPT !.age = 0])
      BY <1>0, <1>1, <1>3, ChangeMoves DEF Onto
    <2>5. [q EXCEPT !.pc = "find"].pc # "tx"
      BY <1>1 DEF ChangeHolds, ChangeFields
    <2>6. UNCHANGED <<req, lock>>
      BY <1>1
    <2> QED
      BY <2>1, <2>2, <2>3, <2>4, <2>5, <2>6, KeptChange
  <1> QED
    BY <1>2, <1>3 DEF publishCommittedUserAuthVersion

LEMMA DropStep ==
    ASSUME AuthInv, NEW c \in Changers, invalidateUserCache(c)
    PROVE  AuthInv'
  <1>1. Stop(c) /\ hash' = NoHash /\ UNCHANGED <<user, fence, floor, lock, sess, scache, ids, req>>
    BY DEF invalidateUserCache, sessVars
  <1>2. UserHolds'
    <2>1. DOMAIN hash' = {"status", "ver", "ttl"} /\ hash'.ttl = 0 /\ hash'.ver = 0
      BY <1>1 DEF NoHash
    <2>2. Known(hash)'
      BY <1>1, <2>1 DEF Known, AuthInv, UserHolds
    <2> QED
      BY <1>1, <2>1, <2>2, SessionsAssumption DEF AuthInv, UserHolds
  <1>3. Keeps /\ SessionHolds'
    <2>1. \A id \in ids' : Issued(id)
      BY <1>1 DEF AuthInv, SessionHolds
    <2> QED
      BY <1>1, <2>1, ScacheSame
  <1>4. Move(c, NoChange) /\ ChangeHolds(c, [NoChange EXCEPT !.age = 0]) /\ NoChange.pc # "tx"
    BY <1>1, NoChangeHolds DEF Stop, AuthInv, NoChange
  <1>5. UNCHANGED <<req, lock, fence>>
    BY <1>1
  <1> QED
    BY <1>2, <1>3, <1>4, <1>5, KeptChange

\* The session of the changer takes the new version over.
LEMMA AdvanceStep ==
    ASSUME AuthInv, NEW c \in Changers, AdvanceUserSessionAuthVersion(c)
    PROVE  AuthInv'
  <1>0. PICK q : q = chg[c]
    OBVIOUS
  <1>1. ChangeHolds(c, q) /\ UNCHANGED <<user, hash, fence, floor, lock, scache, ids, req>>
    BY <1>0 DEF AuthInv, AdvanceUserSessionAuthVersion, userVars
  <1>2. CASE Stop(c) /\ UNCHANGED sess
    <2>1. UNCHANGED <<userVars, sessVars, req>>
      BY <1>1, <1>2 DEF userVars, sessVars
    <2> QED
      BY <1>2, <2>1, QuietStop
  <1> DEFINE got == [ver |-> q.id.ver + 1, uav |-> q.seen.ver]
  <1>3. CASE /\ sess.status = "active" /\ sess' = [sess EXCEPT !.ver = @ + 1, !.uav = q.seen.ver]
             /\ Move(c, [q EXCEPT !.pc = "advanced", !.got = got])
    <2>1. DOMAIN sess' = {"status", "ver", "uav"} /\ sess'.status = "active" /\ sess'.uav = q.seen.ver
      BY <1>3 DEF AuthInv, SessionHolds
    <2>2. Issued(sess)' /\ Issued(got)
      BY <1>1, <2>1 DEF ChangeHolds, Known, Issued
    <2> HIDE DEF got
    <2>3. SessionHolds'
      BY <1>1, <2>1, <2>2 DEF AuthInv, SessionHolds, Issued
    <2>4. Keeps
      <3>1. Denying => Denying' /\ scache'.ttl >= scache.ttl
        BY <1>1 DEF Denying, AuthInv, SessionHolds
      <3> QED
        BY <1>1, <1>3, <2>1, <3>1 DEF Keeps
    <2>5. UserHolds'
      BY <1>1, UserSame
    <2> DEFINE rec == [q EXCEPT !.pc = "advanced", !.got = got]
               new == [rec EXCEPT !.age = 0]
    <2>6. /\ DOMAIN new = ChangeFields /\ new.age = 0 /\ new.left = q.left /\ new.seen = q.seen /\ new.pc = "advanced"
          /\ new.id = q.id /\ new.got = got /\ rec.pc = "advanced"
      BY <1>1 DEF ChangeHolds, ChangeFields
    <2>7. Sealed(Patience + 1 - new.age)
      BY <1>3 DEF Sealed
    <2> HIDE DEF new
    <2>8. ChangeHolds(c, new)
      BY <1>1, <2>2, <2>6, <2>7, SessionsAssumption DEF ChangeHolds
    <2>9. rec.pc # "tx" /\ Move(c, rec) /\ UNCHANGED <<req, lock, fence>>
      BY <1>1, <1>3, <2>6
    <2> HIDE DEF rec
    <2> QED
      BY <2>3, <2>4, <2>5, <2>8, <2>9, KeptChange DEF new
  <1> QED
    BY <1>0, <1>2, <1>3 DEF AdvanceUserSessionAuthVersion

LEMMA AdvanceWriteStep ==
    ASSUME AuthInv, NEW c \in Changers, AdvanceWrite(c)
    PROVE  AuthInv'
  <1>0. PICK q : q = chg[c]
    OBVIOUS
  <1>1. /\ ChangeHolds(c, q) /\ q.pc = "advanced" /\ Stop(c) /\ UNCHANGED <<user, hash, fence, floor, lock, sess, req>>
    BY <1>0 DEF AuthInv, AdvanceWrite, Making, userVars
  <1>2. Issued(q.got) /\ q.left \in Nat /\ Sealed(Patience + 1 - q.age)
    BY <1>1 DEF ChangeHolds
  <1>3. Stored(q.got, q.left) \/ UNCHANGED scache
    BY <1>0 DEF AdvanceWrite, Unstored, TooLate
  <1>4. \A id \in ids' : Issued(id)
    <2>1. ids' \subseteq ids \cup {q.got}
      BY <1>0 DEF AdvanceWrite
    <2> QED
      BY <1>2, <2>1 DEF AuthInv, SessionHolds
  <1>5. Keeps /\ SessionHolds'
    <2>1. CASE Stored(q.got, q.left)
      BY <1>1, <1>2, <1>4, <2>1, SnapshotStored
    <2>2. CASE UNCHANGED scache
      BY <1>1, <1>4, <2>2, ScacheSame
    <2> QED
      BY <1>3, <2>1, <2>2
  <1>6. UserHolds'
    BY <1>1, UserSame
  <1>7. Move(c, NoChange) /\ ChangeHolds(c, [NoChange EXCEPT !.age = 0]) /\ NoChange.pc # "tx"
    BY <1>1, NoChangeHolds DEF Stop, AuthInv, NoChange
  <1>8. UNCHANGED <<req, lock, fence>>
    BY <1>1
  <1> QED
    BY <1>5, <1>6, <1>7, <1>8, KeptChange

-----------------------------------------------------------------------------
(* Revocation. *)

\* Where a changer goes when the session is revoked.
LEMMA AfterRevocationHolds ==
    ASSUME AuthInv, NEW c \in Changers, AfterRevocation(c)
    PROVE  \E rec : Move(c, rec) /\ ChangeHolds(c, [rec EXCEPT !.age = 0]) /\ rec.pc # "tx"
  <1>0. PICK q : q = chg[c]
    OBVIOUS
  <1>1. ChangeHolds(c, q)
    BY <1>0 DEF AuthInv
  <1>2. CASE Move(c, [q EXCEPT !.pc = "drop"])
    <2>1. ChangeHolds(c, [[q EXCEPT !.pc = "drop"] EXCEPT !.age = 0])
      BY <1>1, ChangeMoves
    <2>2. [q EXCEPT !.pc = "drop"].pc # "tx"
      BY <1>1 DEF ChangeHolds, ChangeFields
    <2> QED
      BY <1>2, <2>1, <2>2
  <1>3. CASE Move(c, NoChange)
    <2>1. ChangeHolds(c, [NoChange EXCEPT !.age = 0]) /\ NoChange.pc # "tx"
      BY NoChangeHolds DEF AuthInv, NoChange
    <2> QED
      BY <1>3, <2>1
  <1> QED
    BY <1>0, <1>2, <1>3 DEF AfterRevocation, Onto, Stop

LEMMA FindSteps ==
    ASSUME AuthInv, NEW c \in Changers, Logout(c) \/ RevokeFind(c)
    PROVE  AuthInv'
  <1>0. PICK q : q = chg[c]
    OBVIOUS
  <1>1. ChangeHolds(c, q) /\ UNCHANGED <<userVars, sessVars, req>>
    BY <1>0 DEF AuthInv, Logout, RevokeFind
  <1>2. CASE Logout(c)
    <2> DEFINE new == [[NoChange EXCEPT !.pc = "find", !.kind = "logout"] EXCEPT !.age = 0]
    <2>1. /\ DOMAIN new = ChangeFields /\ new.age = 0 /\ new.left = 0 /\ new.pc = "find"
          /\ new.id = NoId /\ new.got = NoId /\ new.seen = NoChange.seen
      BY DEF NoChange, ChangeFields
    <2>2. Issued(NoId) /\ Known(NoChange.seen)
      BY DEF AuthInv, UserHolds, Known, Issued, NoChange, NoId
    <2> HIDE DEF new
    <2>3. ChangeHolds(c, new)
      BY <2>1, <2>2, SessionsAssumption DEF ChangeHolds
    <2> QED
      BY <1>1, <1>2, <2>3, QuietChange DEF new, Logout
  <1>3. CASE Move(c, [q EXCEPT !.pc = "deny", !.got = Snapshot])
    <2> DEFINE got == Snapshot
               new == [[q EXCEPT !.pc = "deny", !.got = got] EXCEPT !.age = 0]
    <2>0. Issued(got)
      BY DEF AuthInv, SessionHolds, Issued, Snapshot
    <2> HIDE DEF got
    <2>1. /\ DOMAIN new = ChangeFields /\ new.age = 0 /\ new.left = q.left /\ new.seen = q.seen /\ new.pc = "deny"
          /\ new.id = q.id /\ new.got = got
      BY <1>1 DEF ChangeHolds, ChangeFields
    <2> HIDE DEF new
    <2>2. ChangeHolds(c, new)
      BY <1>1, <2>0, <2>1, SessionsAssumption DEF ChangeHolds
    <2> QED
      BY <1>1, <1>3, <2>2, QuietChange DEF new, got
  <1>4. CASE AfterRevocation(c)
    <2>1. PICK rec : Move(c, rec) /\ ChangeHolds(c, [rec EXCEPT !.age = 0])
      BY <1>4, AfterRevocationHolds
    <2> QED
      BY <1>1, <2>1, QuietChange
  <1> QED
    BY <1>0, <1>2, <1>3, <1>4 DEF RevokeFind

\* The session is denied before it is revoked.
LEMMA DenyStep ==
    ASSUME AuthInv, NEW c \in Changers, RevokeDeny(c)
    PROVE  AuthInv'
  <1>0. PICK q : q = chg[c]
    OBVIOUS
  <1>1. ChangeHolds(c, q) /\ Issued(q.got) /\ q.pc = "deny" /\ UNCHANGED <<user, hash, fence, floor, lock, sess, ids, req>>
    BY <1>0 DEF AuthInv, RevokeDeny, Making, ChangeHolds, userVars
  <1>2. UserHolds'
    BY <1>1, UserSame
  <1>3. CASE Stop(c)
    <2>1. Keeps /\ SessionHolds'
      <3>1. CASE UNCHANGED scache
        <4>1. \A id \in ids' : Issued(id)
          BY <1>1 DEF AuthInv, SessionHolds
        <4> QED
          BY <1>1, <3>1, <4>1, ScacheSame
      <3>2. CASE writeUserSessionDenyFence("revoking", q.got)
        BY <1>1, <3>2, DenyWritten
      <3> QED
        BY <1>0, <3>1, <3>2 DEF RevokeDeny
    <2>2. Move(c, NoChange) /\ ChangeHolds(c, [NoChange EXCEPT !.age = 0]) /\ NoChange.pc # "tx"
      BY <1>3, NoChangeHolds DEF Stop, AuthInv, NoChange
    <2>3. UNCHANGED <<req, lock, fence>>
      BY <1>1
    <2> QED
      BY <1>2, <2>1, <2>2, <2>3, KeptChange
  <1>4. CASE writeUserSessionDenyFence("revoking", q.got) /\ ~(scache.ver > q.got.ver) /\ Onto(c, "revoke")
    <2>1. Keeps /\ SessionHolds'
      BY <1>1, <1>4, DenyWritten
    <2>2. scache' = Entry("revoking", q.got, CacheTTL)
      BY <1>4 DEF writeUserSessionDenyFence
    <2>3. Denying' /\ scache'.ttl = CacheTTL
      BY <2>2 DEF Entry, Denying
    <2> DEFINE rec == [q EXCEPT !.pc = "revoke"]
               new == [rec EXCEPT !.age = 0]
    <2>4. /\ DOMAIN new = ChangeFields /\ new.age = 0 /\ new.left = q.left /\ new.seen = q.seen /\ new.pc = "revoke"
          /\ new.id = q.id /\ new.got = q.got
      BY <1>1 DEF ChangeHolds, ChangeFields
    <2>5. Known(q.seen)' /\ Issued(q.id)' /\ Issued(q.got)' /\ q.left \in Nat
      BY <1>1 DEF ChangeHolds, Known, Issued
    <2>6. scache'.ttl + 0 >= CacheTTL
      BY <2>3, SessionsAssumption
    <2> HIDE DEF new
    <2>7. ChangeHolds(c, new)'
      BY <2>3, <2>4, <2>5, <2>6, SessionsAssumption DEF ChangeHolds
    <2>8. Move(c, rec) /\ UNCHANGED <<req, lock, fence>>
      BY <1>0, <1>1, <1>4 DEF Onto
    <2> HIDE DEF rec
    <2> QED
      BY <1>2, <2>1, <2>7, <2>8, ChangeStep DEF new
  <1> QED
    BY <1>0, <1>3, <1>4 DEF RevokeDeny

LEMMA RevokeStep ==
    ASSUME AuthInv, NEW c \in Changers, RevokeUserSession(c)
    PROVE  AuthInv'
  <1>0. PICK q : q = chg[c]
    OBVIOUS
  <1>1. /\ ChangeHolds(c, q) /\ q.pc = "revoke" /\ UNCHANGED <<user, hash, fence, floor, lock, scache, ids, req>>
    BY <1>0 DEF AuthInv, RevokeUserSession, Making, userVars
  <1>2. CASE Stop(c) /\ UNCHANGED sess
    <2>1. UNCHANGED <<userVars, sessVars, req>>
      BY <1>1, <1>2 DEF userVars, sessVars
    <2> QED
      BY <1>2, <2>1, QuietStop
  <1> DEFINE got == IF q.kind = "logout" THEN q.got ELSE Snapshot
  <1>3. CASE sess' = [sess EXCEPT !.status = "revoked"] /\ Move(c, [q EXCEPT !.pc = "told", !.got = got])
    <2>1. DOMAIN sess' = {"status", "ver", "uav"} /\ sess'.status = "revoked" /\ sess'.uav = sess.uav
      BY <1>3 DEF AuthInv, SessionHolds
    <2>2. Denying /\ scache.ttl >= CacheTTL - Patience
      <3>1. Denying /\ scache.ttl + q.age >= CacheTTL /\ q.age \in 0..Patience /\ scache.ttl \in Nat
        BY <1>1 DEF ChangeHolds, AuthInv, SessionHolds
      <3> QED
        BY <3>1, SessionsAssumption
    <2>3. SessionHolds'
      BY <1>1, <2>1, <2>2 DEF AuthInv, SessionHolds, Issued, Denying
    <2>4. Keeps
      <3>1. Denying' /\ scache'.ttl >= scache.ttl /\ scache'.ttl >= CacheTTL - Patience
        BY <1>1, <2>2 DEF Denying, AuthInv, SessionHolds
      <3> QED
        BY <1>1, <2>1, <3>1 DEF Keeps
    <2>5. UserHolds'
      BY <1>1, UserSame
    <2>6. Issued(got)
      BY <1>1 DEF ChangeHolds, AuthInv, SessionHolds, Issued, Snapshot
    <2> HIDE DEF got
    <2> DEFINE rec == [q EXCEPT !.pc = "told", !.got = got]
               new == [rec EXCEPT !.age = 0]
    <2>7. /\ DOMAIN new = ChangeFields /\ new.age = 0 /\ new.left = q.left /\ new.seen = q.seen /\ new.pc = "told"
          /\ new.id = q.id /\ new.got = got /\ rec.pc = "told"
      BY <1>1 DEF ChangeHolds, ChangeFields
    <2> HIDE DEF new
    <2>8. ChangeHolds(c, new)
      BY <1>1, <2>6, <2>7, SessionsAssumption DEF ChangeHolds
    <2>9. rec.pc # "tx" /\ Move(c, rec) /\ UNCHANGED <<req, lock, fence>>
      BY <1>1, <1>3, <2>7
    <2> HIDE DEF rec
    <2> QED
      BY <2>3, <2>4, <2>5, <2>8, <2>9, KeptChange DEF new
  <1>4. CASE q.kind = "logout"
    BY <1>0, <1>2, <1>3, <1>4 DEF RevokeUserSession
  <1>5. CASE q.kind # "logout"
    BY <1>0, <1>2, <1>3, <1>5 DEF RevokeUserSession
  <1> QED
    BY <1>4, <1>5

LEMMA TellStep ==
    ASSUME AuthInv, NEW c \in Changers, RevokeTell(c)
    PROVE  AuthInv'
  <1>0. PICK q : q = chg[c]
    OBVIOUS
  <1>1. ChangeHolds(c, q) /\ Issued(q.got) /\ AfterRevocation(c) /\ UNCHANGED <<user, hash, fence, floor, lock, sess, ids, req>>
    BY <1>0 DEF AuthInv, RevokeTell, ChangeHolds, userVars
  <1>2. Keeps /\ SessionHolds'
    <2>1. CASE UNCHANGED scache
      <3>1. \A id \in ids' : Issued(id)
        BY <1>1 DEF AuthInv, SessionHolds
      <3> QED
        BY <1>1, <2>1, <3>1, ScacheSame
    <2>2. CASE writeUserSessionDenyFence("revoked", q.got)
      BY <1>1, <2>2, DenyWritten
    <2> QED
      BY <1>0, <2>1, <2>2 DEF RevokeTell
  <1>3. UserHolds'
    BY <1>1, UserSame
  <1>4. PICK rec : Move(c, rec) /\ ChangeHolds(c, [rec EXCEPT !.age = 0]) /\ rec.pc # "tx"
    BY <1>1, AfterRevocationHolds
  <1>5. UNCHANGED <<req, lock, fence>>
    BY <1>1
  <1> QED
    BY <1>2, <1>3, <1>4, <1>5, KeptChange

-----------------------------------------------------------------------------
(* A tick: a barrier loses no more time than the goroutine it is there for. *)

LEMMA TickStep ==
    ASSUME AuthInv, Tick
    PROVE  AuthInv'
  <1>1. /\ hash' = Aged(hash, NoHash) /\ fence' = Aged(fence, NoFence) /\ scache' = Aged(scache, NoEntry)
        /\ UNCHANGED <<user, floor, lock, sess, ids>>
    BY DEF Tick
  <1>2. /\ user.ver \in Nat \ {0} /\ floor \in Nat /\ fence.ver \in Nat /\ fence.ttl \in Nat /\ hash.ttl \in 0..CacheTTL
        /\ scache.ttl \in Nat /\ CacheTTL \in Nat /\ Patience \in Nat /\ 2 * Patience < CacheTTL
    BY SessionsAssumption DEF AuthInv, UserHolds, SessionHolds
  <1>3. /\ DOMAIN fence' = {"ver", "ttl"} /\ fence'.ttl \in Nat /\ (fence'.ver = fence.ver \/ fence'.ver = 0)
        /\ fence.ttl > 1 => fence'.ver = fence.ver /\ fence'.ttl = fence.ttl - 1
    BY <1>1, <1>2 DEF Aged, NoFence, AuthInv, UserHolds
  <1>4. /\ DOMAIN scache' = {"status", "ver", "uav", "ttl"} /\ scache'.ttl \in Nat
        /\ \/ scache'.status = scache.status /\ scache'.uav = scache.uav
           \/ scache'.status = Nil /\ scache'.uav = 0
        /\ scache.ttl > 1 => scache'.status = scache.status /\ scache'.ttl = scache.ttl - 1
    <2>1. CASE scache.ttl > 1
      BY <1>1, <1>2, <2>1 DEF Aged, AuthInv, SessionHolds
    <2>2. CASE ~(scache.ttl > 1)
      BY <1>1, <2>2 DEF Aged, NoEntry
    <2> QED
      BY <2>1, <2>2
  <1>5. /\ DOMAIN hash' = {"status", "ver", "ttl"}
        /\ \/ hash.ttl > 1 /\ hash'.ttl = hash.ttl - 1 /\ hash'.ver = hash.ver /\ hash'.status = hash.status
           \/ hash'.ttl = 0 /\ hash'.ver = 0
    BY <1>1, <1>2 DEF Aged, NoHash, AuthInv, UserHolds
  <1>6. ASSUME NEW k, k.ver \in Nat, NEW time \in Int, time >= 2, Guarded(k, time)
        PROVE  Guarded(k, time - 1)'
    BY <1>1, <1>2, <1>3, <1>6 DEF Guarded
  <1>7. ASSUME NEW time \in Int, time >= 2, Sealed(time)
        PROVE  Sealed(time - 1)'
    BY <1>1, <1>2, <1>4, <1>7 DEF Sealed, Denying
  <1>8. UserHolds'
    <2>1. Known(hash)' /\ hash'.ttl \in 0..CacheTTL
      BY <1>1, <1>2, <1>5 DEF AuthInv, UserHolds, Known
    <2>2. ASSUME hash'.ttl > 0 PROVE Guarded(hash, hash.ttl + Patience + 1)'
      <3>1. PICK k, time : k = hash /\ time = hash.ttl + Patience + 1
        OBVIOUS
      <3>2. /\ time \in Int /\ time >= 2 /\ k.ver \in Nat /\ Guarded(k, time)
            /\ hash'.ver = k.ver /\ hash'.ttl + Patience + 1 = time - 1
        BY <1>2, <1>5, <2>2, <3>1 DEF AuthInv, UserHolds, Known
      <3>3. Guarded(k, time - 1)'
        BY <1>6, <3>2
      <3> QED
        BY <3>2, <3>3 DEF Guarded
    <2>3. user'.ver \in Nat \ {0} /\ floor' \in Nat /\ floor' <= user'.ver
      BY <1>1 DEF AuthInv, UserHolds
    <2>4. fence'.ver \in Nat /\ fence'.ver <= user'.ver + 1
      BY <1>1, <1>3 DEF AuthInv, UserHolds
    <2> QED
      BY <1>3, <1>5, <2>1, <2>2, <2>3, <2>4 DEF UserHolds
  <1>9. SessionHolds'
    <2>1. Issued(scache)'
      BY <1>1, <1>2, <1>4 DEF AuthInv, SessionHolds, Issued
    <2>2. sess'.status = "revoked" => scache'.status # "active"
      BY <1>1, <1>4 DEF AuthInv, SessionHolds, Nil
    <2> QED
      BY <1>1, <1>4, <2>1, <2>2 DEF AuthInv, SessionHolds, Issued
  <1>10. ASSUME NEW r \in Requests PROVE RequestHolds(req[r])'
    <2>1. PICK q : q = req[r]
      OBVIOUS
    <2>2. RequestHolds(q)
      BY <2>1 DEF AuthInv
    <2>3. Known(q.seen)' /\ Issued(q.id)' /\ Issued(q.got)' /\ (Changed(q.id) => Changed(q.id)')
      BY <1>1, <2>2 DEF RequestHolds, Known, Issued, Changed
    <2>4. CASE q.pc = "idle"
      <3>1. req'[r] = q
        BY <2>1, <2>4 DEF Tick, Doing
      <3>2. RequestHolds(q)'
        BY <1>1, <2>2, <2>3, <2>4 DEF RequestHolds
      <3> QED
        BY <3>1, <3>2 DEF RequestHolds
    <2>5. CASE q.pc # "idle"
      <3> DEFINE new == [q EXCEPT !.left = Less(q.left), !.age = q.age + 1]
      <3>1. req'[r] = new /\ q.age < Patience
        BY <2>1, <2>5 DEF Tick, Doing
      <3>2. /\ DOMAIN new = RequestFields /\ new.age = q.age + 1 /\ new.left = Less(q.left) /\ new.seen = q.seen
            /\ new.pc = q.pc /\ new.id = q.id /\ new.got = q.got /\ new.dead = q.dead /\ new.kind = q.kind
        BY <2>2 DEF RequestHolds, RequestFields
      <3> HIDE DEF new
      <3>3. PICK time : time = Patience + 1 - q.age
        OBVIOUS
      <3>4. /\ q.age \in 0..Patience /\ q.left \in Nat /\ Less(q.left) \in Nat /\ q.seen.ver \in Nat
        BY <2>2 DEF RequestHolds, Less, Known
      <3>5. time \in Int /\ time >= 2 /\ Patience + 1 - new.age = time - 1 /\ new.age \in 0..Patience
        BY <1>2, <3>1, <3>2, <3>3, <3>4
      <3>6. q.pc \in {"floor", "populate"} => Guarded(q.seen, time - 1)'
        BY <1>6, <2>2, <3>3, <3>4, <3>5 DEF RequestHolds
      <3>7. q.pc \in {"fill", "created", "rotated"} => Sealed(time - 1)'
        BY <1>7, <2>2, <3>3, <3>5 DEF RequestHolds
      <3>8. RequestHolds(new)'
        BY <1>1, <2>2, <2>3, <3>2, <3>4, <3>5, <3>6, <3>7 DEF RequestHolds
      <3> QED
        BY <3>1, <3>8 DEF RequestHolds
    <2> QED
      BY <2>4, <2>5
  <1>11. ASSUME NEW c \in Changers PROVE ChangeHolds(c, chg[c])'
    <2>1. PICK q : q = chg[c]
      OBVIOUS
    <2>2. ChangeHolds(c, q)
      BY <2>1 DEF AuthInv
    <2>3. Known(q.seen)' /\ Issued(q.id)' /\ Issued(q.got)'
      BY <1>1, <2>2 DEF ChangeHolds, Known, Issued
    <2>4. CASE q.pc = "idle"
      <3>1. chg'[c] = q
        BY <2>1, <2>4 DEF Tick, Making
      <3>2. ChangeHolds(c, q)'
        BY <2>2, <2>3, <2>4 DEF ChangeHolds
      <3> QED
        BY <3>1, <3>2 DEF ChangeHolds
    <2>5. CASE q.pc # "idle"
      <3> DEFINE new == [q EXCEPT !.left = Less(q.left), !.age = q.age + 1]
      <3>1. chg'[c] = new /\ q.age < Patience
        BY <2>1, <2>5 DEF Tick, Making
      <3>2. /\ DOMAIN new = ChangeFields /\ new.age = q.age + 1 /\ new.left = Less(q.left) /\ new.seen = q.seen
            /\ new.pc = q.pc /\ new.id = q.id /\ new.got = q.got
        BY <2>2 DEF ChangeHolds, ChangeFields
      <3> HIDE DEF new
      <3>3. PICK time : time = Patience + 1 - q.age
        OBVIOUS
      <3>4. /\ q.age \in 0..Patience /\ q.left \in Nat /\ Less(q.left) \in Nat /\ q.seen.ver \in Nat
        BY <2>2 DEF ChangeHolds, Less, Known
      <3>5. time \in Int /\ time >= 2 /\ Patience + 1 - new.age = time - 1 /\ new.age \in 0..Patience
        BY <1>2, <3>1, <3>2, <3>3, <3>4
      <3>6. q.pc = "write" => Guarded(q.seen, time - 1)'
        BY <1>6, <2>2, <3>3, <3>4, <3>5 DEF ChangeHolds
      <3>7. q.pc = "advanced" => Sealed(time - 1)'
        BY <1>7, <2>2, <3>3, <3>5 DEF ChangeHolds
      <3>8. q.pc = "tx" => lock' = c /\ fence'.ver = user'.ver + 1 /\ fence'.ttl + new.age >= 2 * CacheTTL
        <4>1. q.pc = "tx" => lock = c /\ fence.ver = user.ver + 1 /\ fence.ttl + q.age >= 2 * CacheTTL
          BY <2>2 DEF ChangeHolds
        <4> QED
          BY <1>1, <1>2, <1>3, <3>1, <3>2, <3>4, <4>1
      <3>9. q.pc = "revoke" => Denying' /\ scache'.ttl + new.age >= CacheTTL
        <4>1. q.pc = "revoke" => Denying /\ scache.ttl + q.age >= CacheTTL
          BY <2>2 DEF ChangeHolds
        <4> QED
          BY <1>1, <1>2, <1>4, <3>1, <3>2, <3>4, <4>1 DEF Denying
      <3>10. ChangeHolds(c, new)'
        BY <2>2, <2>3, <3>2, <3>4, <3>5, <3>6, <3>7, <3>8, <3>9 DEF ChangeHolds
      <3> QED
        BY <3>1, <3>10 DEF ChangeHolds
    <2> QED
      BY <2>4, <2>5
  <1> QED
    BY <1>8, <1>9, <1>10, <1>11 DEF AuthInv, Tick

-----------------------------------------------------------------------------
(* The invariant. *)

LEMMA AuthInitial ==
    ASSUME AuthInit
    PROVE  AuthInv
  <1>1. UserHolds
    <2>1. user.ver = 1 /\ floor = 0 /\ fence = NoFence /\ hash = NoHash
      BY DEF AuthInit
    <2>2. /\ DOMAIN fence = {"ver", "ttl"} /\ fence.ver = 0 /\ fence.ttl = 0
          /\ DOMAIN hash = {"status", "ver", "ttl"} /\ hash.ttl = 0 /\ hash.ver = 0
      BY <2>1 DEF NoFence, NoHash
    <2> QED
      BY <2>1, <2>2, SessionsAssumption DEF UserHolds, Known
  <1>2. SessionHolds
    BY DEF AuthInit, SessionHolds, Issued, NoEntry
  <1>3. RequestHolds(NoRequest)
    <2>1. [NoRequest EXCEPT !.age = 0] = NoRequest
      BY DEF NoRequest
    <2> QED
      BY <1>1, <2>1, NoRequestHolds
  <1>4. ASSUME NEW c PROVE ChangeHolds(c, NoChange)
    <2>1. [NoChange EXCEPT !.age = 0] = NoChange
      BY DEF NoChange
    <2> QED
      BY <1>1, <2>1, NoChangeHolds
  <1> QED
    BY <1>1, <1>2, <1>3, <1>4 DEF AuthInit, AuthInv

LEMMA AuthStep ==
    ASSUME AuthInv, [AuthNext]_authVars
    PROVE  AuthInv'
  <1>1. CASE Tick
    BY <1>1, TickStep
  <1>2. ASSUME NEW r \in Requests,
               \/ \E id \in ids : ParseAccessToken(r, id)
               \/ BeginRefresh(r) \/ BeginLogin(r)
        PROVE  AuthInv'
    BY <1>2, BeginSteps
  <1>3. ASSUME NEW r \in Requests,
               \/ getUserSessionCache(r) \/ GetUserSessionBySID(r) \/ GetUserSessionCached(r) \/ ValidateLoginSession(r)
        PROVE  AuthInv'
    BY <1>3, SessionReadSteps, SessionRowStep, FillStep
  <1>4. ASSUME NEW r \in Requests,
               \/ cacheGetUserBase(r) \/ ReadFloor(r) \/ GetUserById(r) \/ GetUserCache(r) \/ Decide(r)
        PROVE  AuthInv'
    BY <1>4, UserReadSteps, PopulateStep, DecideStep
  <1>5. ASSUME NEW r \in Requests,
               \/ CreateUserSession(r) \/ RefreshLoginSession(r) \/ RotateUserSessionRefresh(r) \/ SwapRefreshHash(r)
               \/ issueAuthBundle(r) \/ Respond(r)
        PROVE  AuthInv'
    BY <1>5, CreateStep, RefreshSteps, IssueStep
  <1>6. ASSUME NEW c \in Changers,
               UpdateManagedUserStatuses(c) \/ Update(c) \/ Delete(c) \/ AdvanceCurrentSessionSecurity(c) \/ Logout(c)
        PROVE  AuthInv'
    BY <1>6, BeginChangeSteps, FindSteps
  <1>7. ASSUME NEW c \in Changers,
               \/ CommitChange(c) \/ PublishRead(c) \/ PublishUserAuthCache(c) \/ publishCommittedUserAuthVersion(c)
               \/ invalidateUserCache(c) \/ AdvanceUserSessionAuthVersion(c) \/ AdvanceWrite(c)
        PROVE  AuthInv'
    BY <1>7, CommitStep, PublishReadStep, PublishStep, TombstoneStep, DropStep, AdvanceStep, AdvanceWriteStep
  <1>8. ASSUME NEW c \in Changers, RevokeFind(c) \/ RevokeDeny(c) \/ RevokeUserSession(c) \/ RevokeTell(c)
        PROVE  AuthInv'
    BY <1>8, FindSteps, DenyStep, RevokeStep, TellStep
  <1>9. CASE UNCHANGED authVars
    BY <1>9 DEF authVars, AuthInv, UserHolds, SessionHolds, RequestHolds, ChangeHolds, Known, Issued, Guarded, Sealed,
                Denying, Changed
  <1> QED
    BY <1>1, <1>2, <1>3, <1>4, <1>5, <1>6, <1>7, <1>8, <1>9 DEF AuthNext

(* A request that begins after the revocation of its session, or a change  *)
(* of its user, has committed is never accepted with a token from before   *)
(* it, for any number of requests and changers: no reader of a row keeps   *)
(* it for as long as the barrier published before the commit lives.        *)
THEOREM BarredAreRefused == AuthSpec => []BarredIsRefused
  <1>1. AuthInv => BarredIsRefused
    <2>1. ASSUME NEW q, RequestHolds(q), q.pc = "accepted" PROVE q.dead = {}
      BY <2>1 DEF RequestHolds
    <2> QED
      BY <2>1 DEF AuthInv, BarredIsRefused, Doing
  <1> QED
    BY <1>1, AuthInitial, AuthStep, PTL DEF AuthSpec

(* The floor that PublishUserAuthCache and GetUserCache raise is never     *)
(* above the version of the row, although the version is announced to the  *)
(* cache before the transaction commits or is rolled back.                 *)
THEOREM FloorsAreCommitted == AuthSpec => []FloorIsCommitted
  <1>1. AuthInv => FloorIsCommitted
    BY DEF AuthInv, UserHolds, FloorIsCommitted
  <1> QED
    BY <1>1, AuthInitial, AuthStep, PTL DEF AuthSpec
=============================================================================
