----------------------------- MODULE QuotaCache -----------------------------
(***************************************************************************)
(* The quota of users and tokens, held three times: in the database row,   *)
(* in a Redis hash that reservations read and decrement first, and, with   *)
(* BatchUpdateEnabled, as deltas waiting in memory for the batch updater.  *)
(* Reservations, increments and durable recovery mutations of one resource *)
(* are serialised by striped locks; reads, credits by other transactions   *)
(* and the goroutines that repeat a delta in Redis are not.                *)
(*                                                                         *)
(* Sources: model/quota_reserve.go, model/utils.go, model/user_cache.go,   *)
(* model/token_cache.go, the quota functions of model/user.go and          *)
(* model/token.go, and the recovery mutation of model/billing_recovery.go. *)
(***************************************************************************)
EXTENDS Integers, FiniteSets, FiniteSetsExt

CONSTANTS
    Users,       \* user rows
    Tokens,      \* token rows
    Procs,       \* goroutines that serve requests or recover billing rows
    Nobody,      \* holder of a free lock
    NoHash,      \* a hash that is not in Redis
    StripeMaps,  \* possible quotaMutationLockIndex of the resources
    InitQuota,   \* balance of every row at the start
    BatchModes,  \* values of common.BatchUpdateEnabled
    FenceTTL,    \* lifetime of a mutation fence, in ticks
    MaxGap,      \* ticks a fill or a mutation may take
    MaxOps,      \* bound on operations started
    MaxFaults,   \* bound on failing Redis or database calls
    MaxCrashes   \* bound on process crashes

Resources == Users \cup Tokens

ASSUME QuotaAssumption ==
    /\ InitQuota \in Nat
    /\ BatchModes \subseteq BOOLEAN
    /\ {FenceTTL, MaxGap, MaxOps, MaxFaults, MaxCrashes} \subseteq Nat
    /\ Nobody \notin Procs /\ "updater" \notin Procs \cup {Nobody}
    /\ NoHash \notin Int
    /\ \A s \in StripeMaps : s \in [Resources -> Nat]

VARIABLES
    db,        \* quota / remain_quota column of every row
    cache,     \* the quota field of the Redis hash, or NoHash
    cacheGen,  \* recovery mutations committed when that hash was read (history)
    fence,     \* ticks left of the mutation fence
    store,     \* batchUpdateStores: deltas waiting in memory
    flush,     \* deltas the batch updater has swapped out and not yet written
    drained,   \* pending deltas owned by the mutation that holds batchLock
    deltas,    \* goroutines about to repeat a delta in Redis, per amount
    lock,      \* quotaMutationLocks: holder of each stripe
    batchLock, \* quotaBatchMutationLock: "updater", a mutation, or Nobody
    stripe,    \* the stripe of every resource
    batch,     \* BatchUpdateEnabled of this process
    proc,      \* control state of every goroutine
    gen,       \* recovery mutations committed per resource (history)
    ledger,    \* sum of the deltas the operations accepted (history)
    dropped,   \* deltas lost by a failing flush or a crash (history)
    astray,    \* deltas written by a call that reported an error (history)
    ops, faults, crashes

caches  == <<cache, cacheGen, fence, deltas>>
pending == <<store, flush, drained, batchLock>>
bounds  == <<ops, faults, crashes>>
setup   == <<stripe, batch>>
vars == <<db, caches, pending, lock, setup, proc, gen, ledger, dropped, astray, bounds>>

Stripes == UNION {{s[r] : r \in Resources} : s \in StripeMaps}

\* A goroutine between two requests.
Idle == [pc |-> "idle", op |-> "none", res |-> {}, snap |-> 0, sgen |-> 0, age |-> 0]

-----------------------------------------------------------------------------
(* Locks *)

\* Every stripe of the resources, each once.
StripesOf(R) == {stripe[r] : r \in R}

\* The stripes a goroutine still has to lock, lowest first.
Missing(p) == {s \in StripesOf(proc[p].res) : lock[s] # p}

\* Mutant: the stripes are not sorted.
MutLockNext(p) ==
    /\ proc[p].pc = "lock"
    /\ \E s \in Missing(p) : lock[s] = Nobody /\ lock' = [lock EXCEPT ![s] = p]
    /\ UNCHANGED <<db, caches, pending, setup, proc, gen, ledger, dropped, astray, bounds>>

\* lockQuotaMutationResources, one mutex at a time in ascending order.
LockNext(p) ==
    /\ proc[p].pc = "lock"
    /\ Missing(p) # {}
    /\ LET s == Min(Missing(p)) IN
        /\ lock[s] = Nobody
        /\ lock' = [lock EXCEPT ![s] = p]
    /\ UNCHANGED <<db, caches, pending, setup, proc, gen, ledger, dropped, astray, bounds>>

Unlocked(p) == [s \in DOMAIN lock |-> IF lock[s] = p THEN Nobody ELSE lock[s]]

Goto(p, pc) == [proc EXCEPT ![p].pc = pc]

-----------------------------------------------------------------------------
(* The Redis scripts *)

\* userQuotaDeltaScript and tokenQuotaDeltaScript: only an existing hash that
\* is not fenced takes a delta.
CacheDelta(r, d) ==
    cache' = IF fence[r] > 0 \/ cache[r] = NoHash THEN cache
             ELSE [cache EXCEPT ![r] = @ + d]

\* Mutant: the token fill ignores the fence too.
MutFillBlocked(r) == cache[r] # NoHash

\* writeUserCache with the quota, and cacheInitToken: a snapshot is published
\* only into a hash that is absent. Only the token script looks at the fence.
FillBlocked(r) ==
    \/ cache[r] # NoHash
    \/ r \in Tokens /\ fence[r] > 0

\* userQuotaReserveScript and tokenQuotaReserveScript.
ReserveResult(r, amount) ==
    IF fence[r] > 0 THEN "fenced"
    ELSE IF cache[r] = NoHash THEN "miss"
    ELSE IF cache[r] < amount THEN "insufficient" ELSE "ok"

-----------------------------------------------------------------------------
(* Operations start *)

Begin(p, op, R, pc) ==
    /\ proc[p].pc = "idle"
    /\ ops < MaxOps
    /\ ops' = ops + 1
    /\ proc' = [proc EXCEPT ![p] = [Idle EXCEPT !.pc = pc, !.op = op, !.res = R]]
    /\ UNCHANGED <<db, caches, pending, lock, setup, gen, ledger, dropped, astray, faults, crashes>>

\* TryReserveUserQuota, TryReserveTokenQuota; IncreaseUserQuota and
\* IncreaseTokenQuota; DecreaseUserQuota and DecreaseTokenQuota; GetUserCache
\* and GetTokenByKey; a recovery mutation of the wallet, the token or both.
Start(p) ==
    \/ \E r \in Resources :
        \/ Begin(p, "reserve", {r}, "lock")
        \/ Begin(p, "increase", {r}, "lock")
        \/ Begin(p, "decrease", {r}, "lock")
        \/ Begin(p, "read", {r}, "read")
    \/ \E u \in Users, t \in Tokens : \E R \in {{u}, {t}, {u, t}} :
        Begin(p, "recover", R, "lock")

\* The only resource of an operation that is not a recovery.
Resource(p) == CHOOSE r \in proc[p].res : TRUE

Finish(p) == proc' = [proc EXCEPT ![p] = Idle]

-----------------------------------------------------------------------------
(* Cache fill: a miss reads the row, then publishes the snapshot *)

\* A hit ends the read; a miss takes a snapshot of the row.
ReadThrough(p, r) ==
    /\ proc' = IF cache[r] = NoHash
               THEN [proc EXCEPT ![p].pc = "fill", ![p].snap = db[r], ![p].sgen = gen[r], ![p].age = 0]
               ELSE IF proc[p].op = "reserve" THEN Goto(p, "reserve") ELSE [proc EXCEPT ![p] = Idle]
    /\ UNCHANGED <<db, caches, pending, lock, setup, gen, ledger, dropped, astray, bounds>>

GetUserCache(p) == proc[p].pc = "read" /\ \E r \in proc[p].res \cap Users : ReadThrough(p, r)

GetTokenByKey(p) == proc[p].pc = "read" /\ \E r \in proc[p].res \cap Tokens : ReadThrough(p, r)

\* writeUserCache with the quota, and cacheInitToken.
FillCache(p) ==
    /\ proc[p].pc = "fill"
    /\ LET r == Resource(p) IN
        /\ IF FillBlocked(r) THEN UNCHANGED <<cache, cacheGen>>
           ELSE /\ cache' = [cache EXCEPT ![r] = proc[p].snap]
                /\ cacheGen' = [cacheGen EXCEPT ![r] = proc[p].sgen]
        /\ IF proc[p].op = "reserve" THEN proc' = Goto(p, "reserve") ELSE Finish(p)
    /\ UNCHANGED <<db, fence, deltas, pending, lock, setup, gen, ledger, dropped, astray, bounds>>

-----------------------------------------------------------------------------
(* Reserve *)

Locked(p, op) == proc[p].pc = "lock" /\ proc[p].op = op /\ Missing(p) = {}

\* The script runs; a first miss hydrates the hash and runs it once more.
ReserveCache(p, r) ==
    /\ Locked(p, "reserve") \/ proc[p].pc = "reserve"
    /\ LET second == proc[p].pc = "reserve"
           result == ReserveResult(r, 1)
       IN \/ /\ result = "ok"
             /\ cache' = [cache EXCEPT ![r] = @ - 1]
             /\ proc' = Goto(p, "persist")
             /\ UNCHANGED <<lock, faults>>
          \/ /\ result = "insufficient"
             /\ Finish(p)
             /\ lock' = Unlocked(p)
             /\ UNCHANGED <<cache, faults>>
          \/ /\ result = "miss" /\ ~second
             /\ proc' = Goto(p, "read")
             /\ UNCHANGED <<cache, lock, faults>>
          \/ /\ result = "fenced" \/ (result = "miss" /\ second)
             /\ proc' = Goto(p, "fallback")
             /\ UNCHANGED <<cache, lock, faults>>
          \/ /\ faults < MaxFaults               \* Redis does not answer
             /\ faults' = faults + 1
             /\ proc' = Goto(p, "fallback")
             /\ UNCHANGED <<cache, lock>>
    /\ UNCHANGED <<db, cacheGen, fence, deltas, pending, setup, gen, ledger, dropped, astray, ops, crashes>>

TryReserveUserQuota(p) == \E u \in proc[p].res \cap Users : ReserveCache(p, u)

TryReserveTokenQuota(p) == \E t \in proc[p].res \cap Tokens : ReserveCache(p, t)

\* A row changes by d, and the caller learns it or is told that the call failed.
\* A failed call leaves the row alone or has changed it all the same.
Write(r, d) == db' = [db EXCEPT ![r] = @ + d] /\ ledger' = [ledger EXCEPT ![r] = @ + d] /\ UNCHANGED <<astray, faults>>

WriteFails(r, d) ==
    /\ faults < MaxFaults
    /\ faults' = faults + 1
    /\ \/ UNCHANGED <<db, astray>>
       \/ db' = [db EXCEPT ![r] = @ + d] /\ astray' = [astray EXCEPT ![r] = @ + d]
    /\ UNCHANGED ledger

\* reserveUserQuotaDB and reserveTokenQuotaDB: one conditional update.
ReserveDB(p) ==
    /\ proc[p].pc = "fallback"
    /\ LET r == Resource(p) IN
        IF db[r] >= 1 THEN Write(r, -1) \/ WriteFails(r, -1) ELSE UNCHANGED <<db, ledger, astray, faults>>
    /\ Finish(p)
    /\ lock' = Unlocked(p)
    /\ UNCHANGED <<caches, pending, setup, gen, dropped, ops, crashes>>

\* persistUserQuotaDelta and persistTokenQuotaDelta; a failing write is undone
\* in the cache and the reservation is refused.
Persist(p) ==
    /\ proc[p].pc = "persist"
    /\ LET r == Resource(p) IN
        \/ /\ batch
           /\ store' = [store EXCEPT ![r] = @ - 1]
           /\ ledger' = [ledger EXCEPT ![r] = @ - 1]
           /\ UNCHANGED <<db, astray, cache, faults>>
        \/ ~batch /\ Write(r, -1) /\ UNCHANGED <<store, cache>>
        \/ ~batch /\ WriteFails(r, -1) /\ CacheDelta(r, 1) /\ UNCHANGED store
    /\ Finish(p)
    /\ lock' = Unlocked(p)
    /\ UNCHANGED <<cacheGen, fence, deltas, flush, drained, batchLock, setup, gen, dropped, ops, crashes>>

-----------------------------------------------------------------------------
(* Increase and decrease *)

Spawn(r, d) == deltas' = [deltas EXCEPT ![r][d] = @ + 1]

\* The goroutine that repeats the delta in Redis starts before the write, which
\* may fail; with batching the delta only joins the store, unless the caller of a
\* wallet's change asks for the database.
Adjust(p, r, d) ==
    /\ Missing(p) = {}
    /\ Spawn(r, d)
    /\ \/ /\ batch
          /\ store' = [store EXCEPT ![r] = @ + d]
          /\ ledger' = [ledger EXCEPT ![r] = @ + d]
          /\ UNCHANGED <<db, astray, faults>>
       \/ /\ ~batch \/ r \in Users
          /\ Write(r, d) \/ WriteFails(r, d)
          /\ UNCHANGED store
    /\ Finish(p)
    /\ lock' = Unlocked(p)
    /\ UNCHANGED <<cache, cacheGen, fence, flush, drained, batchLock, setup, gen, dropped, ops, crashes>>

IncreaseUserQuota(p) == Locked(p, "increase") /\ \E u \in proc[p].res \cap Users : Adjust(p, u, 1)

DecreaseUserQuota(p) == Locked(p, "decrease") /\ \E u \in proc[p].res \cap Users : Adjust(p, u, -1)

IncreaseTokenQuota(p) == Locked(p, "increase") /\ \E t \in proc[p].res \cap Tokens : Adjust(p, t, 1)

DecreaseTokenQuota(p) == Locked(p, "decrease") /\ \E t \in proc[p].res \cap Tokens : Adjust(p, t, -1)

\* A spawned goroutine reaches Redis at some later time.
LateDelta(r, d) ==
    /\ deltas[r][d] > 0
    /\ deltas' = [deltas EXCEPT ![r][d] = @ - 1]
    /\ CacheDelta(r, d)
    /\ UNCHANGED <<db, cacheGen, fence, pending, lock, setup, proc, gen, ledger, dropped, astray, bounds>>

\* A committed credit of another transaction (top-up, redemption, check-in,
\* activity, affiliate transfer, managed adjustment): the row first, then
\* syncCreditUserQuotaCache; no lock is taken.
Credit(u) ==
    /\ ops < MaxOps
    /\ ops' = ops + 1
    /\ db' = [db EXCEPT ![u] = @ + 1]
    /\ ledger' = [ledger EXCEPT ![u] = @ + 1]
    /\ Spawn(u, 1)
    /\ UNCHANGED <<cache, cacheGen, fence, pending, lock, setup, proc, gen, dropped, astray, faults, crashes>>

-----------------------------------------------------------------------------
(* Recovery mutation *)

\* invalidateUserQuotaCacheForMutation and invalidateTokenCacheForMutation:
\* the fence first, then the hash, the user before the token; a failure on
\* the way gives the locks back.
RaiseFence(p) ==
    /\ Locked(p, "recover")
    /\ \/ /\ fence' = [r \in Resources |-> IF r \in proc[p].res THEN FenceTTL ELSE fence[r]]
          /\ cache' = [r \in Resources |-> IF r \in proc[p].res THEN NoHash ELSE cache[r]]
          /\ proc' = [proc EXCEPT ![p].pc = "drain", ![p].age = 0]
          /\ UNCHANGED <<lock, faults>>
       \/ \E F, D \in {{}, proc[p].res \cap Users, proc[p].res} :
          /\ D \subseteq F
          /\ faults < MaxFaults
          /\ faults' = faults + 1
          /\ fence' = [r \in Resources |-> IF r \in F THEN FenceTTL ELSE fence[r]]
          /\ cache' = [r \in Resources |-> IF r \in D THEN NoHash ELSE cache[r]]
          /\ Finish(p)
          /\ lock' = Unlocked(p)
    /\ UNCHANGED <<db, cacheGen, deltas, pending, setup, gen, ledger, dropped, astray, ops, crashes>>

\* Mutant: the deltas are taken without waiting for a flush under way.
MutDrain(p) ==
    /\ proc[p].pc = "drain"
    /\ drained' = [r \in Resources |-> IF r \in proc[p].res THEN store[r] ELSE 0]
    /\ store' = [r \in Resources |-> IF r \in proc[p].res THEN 0 ELSE store[r]]
    /\ proc' = Goto(p, "tx")
    /\ UNCHANGED <<db, caches, flush, batchLock, lock, setup, gen, ledger, dropped, astray, bounds>>

\* quotaBatchMutationLock, then takePendingQuotaDelta of both resources.
Drain(p) ==
    /\ proc[p].pc = "drain"
    /\ batchLock = Nobody
    /\ batchLock' = p
    /\ drained' = [r \in Resources |-> IF r \in proc[p].res THEN store[r] ELSE 0]
    /\ store' = [r \in Resources |-> IF r \in proc[p].res THEN 0 ELSE store[r]]
    /\ proc' = Goto(p, "tx")
    /\ UNCHANGED <<db, caches, flush, lock, setup, gen, ledger, dropped, astray, bounds>>

\* Mutant: a failed mutation forgets the deltas it drained.
MutRecoverTx(p) ==
    /\ proc[p].pc = "tx"
    /\ faults < MaxFaults
    /\ faults' = faults + 1
    /\ drained' = [r \in Resources |-> 0]
    /\ batchLock' = Nobody
    /\ lock' = Unlocked(p)
    /\ Finish(p)
    /\ UNCHANGED <<db, caches, store, flush, setup, gen, ledger, dropped, astray, ops, crashes>>

\* The transaction applies the drained deltas and its own amount.
CommitTx(R) ==
    \E amount \in {-1, 1} :
        /\ db' = [r \in Resources |-> IF r \in R THEN db[r] + drained[r] + amount ELSE db[r]]
        /\ ledger' = [r \in Resources |-> IF r \in R THEN ledger[r] + amount ELSE ledger[r]]
        /\ gen' = [r \in Resources |-> IF r \in R THEN gen[r] + 1 ELSE gen[r]]

\* release puts the deltas of a transaction that reported an error back, whether
\* it was rolled back or had committed.
RecoverTx(p) ==
    /\ proc[p].pc = "tx"
    /\ \/ CommitTx(proc[p].res) /\ UNCHANGED <<store, astray, faults>>
       \/ /\ faults < MaxFaults
          /\ faults' = faults + 1
          /\ store' = [r \in Resources |-> store[r] + drained[r]]
          /\ \/ UNCHANGED <<db, ledger, gen, astray>>
             \/ /\ CommitTx(proc[p].res)
                /\ astray' = [r \in Resources |-> astray[r] + drained[r]]
    /\ drained' = [r \in Resources |-> 0]
    /\ batchLock' = Nobody
    /\ lock' = Unlocked(p)
    /\ Finish(p)
    /\ UNCHANGED <<caches, flush, setup, dropped, ops, crashes>>

-----------------------------------------------------------------------------
(* Batch updater *)

\* batchUpdate swaps the stores out under their own locks ...
SwapStores ==
    /\ batch
    /\ batchLock = Nobody
    /\ \E r \in Resources : store[r] # 0
    /\ batchLock' = "updater"
    /\ flush' = store
    /\ store' = [r \in Resources |-> 0]
    /\ UNCHANGED <<db, caches, drained, lock, setup, proc, gen, ledger, dropped, astray, bounds>>

\* ... and writes them one row at a time; a failing write is logged only, so one
\* that was made all the same is like any other.
WriteDelta(r) ==
    /\ batchLock = "updater"
    /\ flush[r] # 0
    /\ \/ /\ db' = [db EXCEPT ![r] = @ + flush[r]]
          /\ UNCHANGED <<dropped, faults>>
       \/ /\ faults < MaxFaults
          /\ faults' = faults + 1
          /\ dropped' = [dropped EXCEPT ![r] = @ + flush[r]]
          /\ UNCHANGED db
    /\ flush' = [flush EXCEPT ![r] = 0]
    /\ UNCHANGED <<caches, store, drained, batchLock, lock, setup, proc, gen, ledger, astray, ops, crashes>>

\* The deferred unlock.
BatchDone ==
    /\ batchLock = "updater"
    /\ \A r \in Resources : flush[r] = 0
    /\ batchLock' = Nobody
    /\ UNCHANGED <<db, caches, store, flush, drained, lock, setup, proc, gen, ledger, dropped, astray, bounds>>

-----------------------------------------------------------------------------
(* Environment *)

\* Redis drops an expired hash.
Expire(r) ==
    /\ cache[r] # NoHash
    /\ cache' = [cache EXCEPT ![r] = NoHash]
    /\ UNCHANGED <<db, cacheGen, fence, deltas, pending, lock, setup, proc, gen, ledger, dropped, astray, bounds>>

\* Goroutines whose duration the fence is meant to cover.
Timed(p) == proc[p].pc \in {"fill", "drain", "tx"}

\* Time passes; nobody stays longer than MaxGap between reading a row and
\* publishing it, or between raising a fence and committing.
Tick ==
    /\ \A p \in Procs : Timed(p) => proc[p].age < MaxGap
    /\ \/ \E r \in Resources : fence[r] > 0
       \/ \E p \in Procs : Timed(p)
    /\ fence' = [r \in Resources |-> IF fence[r] > 0 THEN fence[r] - 1 ELSE 0]
    /\ proc' = [p \in Procs |-> IF Timed(p) THEN [proc[p] EXCEPT !.age = @ + 1] ELSE proc[p]]
    /\ UNCHANGED <<db, cache, cacheGen, deltas, pending, lock, setup, gen, ledger, dropped, astray, bounds>>

\* The process dies: locks, stores and goroutines are in its memory.
Crash ==
    /\ crashes < MaxCrashes
    /\ crashes' = crashes + 1
    /\ dropped' = [r \in Resources |-> dropped[r] + store[r] + flush[r] + drained[r]]
    /\ store' = [r \in Resources |-> 0]
    /\ flush' = [r \in Resources |-> 0]
    /\ drained' = [r \in Resources |-> 0]
    /\ deltas' = [r \in Resources |-> [d \in {-1, 1} |-> 0]]
    /\ batchLock' = Nobody
    /\ lock' = [s \in DOMAIN lock |-> Nobody]
    /\ proc' = [p \in Procs |-> Idle]
    /\ UNCHANGED <<db, cache, cacheGen, fence, setup, gen, ledger, astray, ops, faults>>

-----------------------------------------------------------------------------
Init ==
    /\ db = [r \in Resources |-> InitQuota]
    /\ cache = [r \in Resources |-> NoHash]
    /\ cacheGen = [r \in Resources |-> 0]
    /\ fence = [r \in Resources |-> 0]
    /\ store = [r \in Resources |-> 0]
    /\ flush = [r \in Resources |-> 0]
    /\ drained = [r \in Resources |-> 0]
    /\ deltas = [r \in Resources |-> [d \in {-1, 1} |-> 0]]
    /\ stripe \in StripeMaps
    /\ batch \in BatchModes
    /\ lock = [s \in Stripes |-> Nobody]
    /\ batchLock = Nobody
    /\ proc = [p \in Procs |-> Idle]
    /\ gen = [r \in Resources |-> 0]
    /\ ledger = [r \in Resources |-> 0]
    /\ dropped = [r \in Resources |-> 0]
    /\ astray = [r \in Resources |-> 0]
    /\ ops = 0 /\ faults = 0 /\ crashes = 0

\* One step of a goroutine.
Step(p) ==
    \/ LockNext(p) \/ GetUserCache(p) \/ GetTokenByKey(p) \/ FillCache(p)
    \/ TryReserveUserQuota(p) \/ TryReserveTokenQuota(p) \/ ReserveDB(p) \/ Persist(p)
    \/ IncreaseUserQuota(p) \/ DecreaseUserQuota(p)
    \/ IncreaseTokenQuota(p) \/ DecreaseTokenQuota(p)
    \/ RaiseFence(p) \/ Drain(p) \/ RecoverTx(p)

Updater == SwapStores \/ BatchDone \/ \E r \in Resources : WriteDelta(r)

Next ==
    \/ \E p \in Procs : Start(p) \/ Step(p)
    \/ Updater
    \/ \E u \in Users : Credit(u)
    \/ \E r \in Resources : Expire(r) \/ \E d \in {-1, 1} : LateDelta(r, d)
    \/ Tick
    \/ Crash

Spec == Init /\ [][Next]_vars

\* The scheduler runs every goroutine that can run and every mutex is handed to
\* a waiter in the end; the updater wakes up every BatchUpdateInterval.
Fairness == (\A p \in Procs : SF_vars(Step(p))) /\ WF_vars(Updater)

LiveSpec == Spec /\ Fairness

-----------------------------------------------------------------------------
(* Properties *)

TypeOK ==
    /\ db \in [Resources -> Int]
    /\ cache \in [Resources -> Int \cup {NoHash}]
    /\ cacheGen \in [Resources -> Nat] /\ gen \in [Resources -> Nat]
    /\ fence \in [Resources -> 0..FenceTTL]
    /\ store \in [Resources -> Int] /\ flush \in [Resources -> Int]
    /\ drained \in [Resources -> Int]
    /\ deltas \in [Resources -> [{-1, 1} -> Nat]]
    /\ stripe \in StripeMaps /\ batch \in BatchModes
    /\ lock \in [Stripes -> Procs \cup {Nobody}]
    /\ batchLock \in Procs \cup {Nobody, "updater"}
    /\ proc \in [Procs -> [pc : {"idle", "lock", "read", "fill", "reserve", "fallback",
                                 "persist", "drain", "tx"},
                           op : {"none", "reserve", "increase", "decrease", "read", "recover"},
                           res : SUBSET Resources, snap : Int, sgen : Nat,
                           age : 0..MaxGap]]
    /\ ledger \in [Resources -> Int] /\ dropped \in [Resources -> Int]
    /\ astray \in [Resources -> Int]
    /\ ops \in 0..MaxOps /\ faults \in 0..MaxFaults /\ crashes \in 0..MaxCrashes

\* No delta is invented or lost while the answers of the database tell the truth:
\* what the operations accepted is in the row, in the batch store, with the
\* updater or with the recovery mutation that drained it.  A failing flush
\* (utils.go, batchUpdate) or a crash drops a delta.  Only a call that changed the
\* row and reported an error leaves more in the row and in the store than was
\* accepted, and exactly this much: a refused reservation or adjustment that was
\* written, or the deltas that a recovery wrote and release(false) put back
\* (billing_recovery.go), which count twice.
LedgerConserved ==
    \A r \in Resources :
        /\ db[r] + store[r] + flush[r] + drained[r] + dropped[r] = InitQuota + ledger[r] + astray[r]
        /\ dropped[r] # 0 => faults + crashes > 0
        /\ astray[r] # 0 => faults > 0

\* A recovery transaction works on a row to which every earlier delta has been
\* applied or is its own to apply: the comment on billingRecoveryQuotaMutation
\* promises that no reservation of its resources is still on its way.
CommitSeesEveryDelta ==
    \A p \in Procs : proc[p].pc = "tx" =>
        \A r \in proc[p].res : store[r] = 0 /\ flush[r] = 0

SnapshotFresh(r) == cache[r] # NoHash => cacheGen[r] = gen[r]

\* A cached token was read after the last recovery mutation of the token: the
\* fence outlives the mutation and every reader that started before it, so
\* cacheInitToken never publishes the balance from before (token_cache.go).
TokenSnapshotsFresh == \A t \in Tokens : SnapshotFresh(t)

\* Not kept by the code, see the README.
\* The same for wallets, as the comment on invalidateUserQuotaCacheForMutation
\* states it: delayed fills cannot revive the pre-mutation quota snapshot.
WalletSnapshotsFresh == \A u \in Users : SnapshotFresh(u)

\* Every goroutine gets its locks and finishes: the ascending order of the
\* stripes and the batch lock taken last leave no cycle of waiting.
EveryOperationEnds == \A p \in Procs : (proc[p].pc # "idle") ~> (proc[p].pc = "idle")

\* No delta stays in memory forever while the process lives.
EveryDeltaWritten == \A r \in Resources : []<>(store[r] + flush[r] + drained[r] = 0)

\* Recoveries, reservations and the updater, which hold several locks each, all
\* get on: the operations end and what they changed reaches the database.
QuotaProgress == EveryOperationEnds /\ EveryDeltaWritten

=============================================================================
