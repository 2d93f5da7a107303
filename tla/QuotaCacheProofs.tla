--------------------------- MODULE QuotaCacheProofs ---------------------------
(***************************************************************************)
(* Proofs about the quota caches for any users, tokens, goroutines, stripe *)
(* maps and lifetimes.  The locks come first: who works on a resource      *)
(* holds its stripe.  The deltas follow from the locks, and the freshness  *)
(* of cached tokens from the fence and the bounded gaps.                   *)
(***************************************************************************)
EXTENDS QuotaCache, TLAPS

PCs == {"idle", "lock", "read", "fill", "reserve", "fallback", "persist", "drain", "tx"}
Goroutine == [pc : PCs, op : {"none", "reserve", "increase", "decrease", "read", "recover"},
              res : SUBSET Resources, snap : Int, sgen : Nat, age : Nat]

QuotaTypes ==
  /\ db \in [Resources -> Int] /\ ledger \in [Resources -> Int] /\ dropped \in [Resources -> Int]
  /\ store \in [Resources -> Int] /\ flush \in [Resources -> Int] /\ drained \in [Resources -> Int]
  /\ astray \in [Resources -> Int] /\ gen \in [Resources -> Nat] /\ faults \in Nat /\ crashes \in Nat
  /\ proc \in [Procs -> Goroutine]

\* A goroutine that has its locks.
Holds(q) ==
  \/ proc[q].pc \in {"reserve", "fallback", "persist", "drain", "tx"}
  \/ proc[q].pc \in {"read", "fill"} /\ proc[q].op = "reserve"

\* What a goroutine works on, and the stripes it holds for it.
Working(q) ==
  /\ proc[q].pc \in {"drain", "tx"} => proc[q].op = "recover"
  /\ proc[q].pc \in {"read", "fill"} => proc[q].op # "recover"
  /\ proc[q].pc \in {"reserve", "fallback", "persist"} => proc[q].op = "reserve"
  /\ proc[q].pc # "idle" /\ proc[q].op # "recover" => \E r \in Resources : proc[q].res = {r}
  /\ Holds(q) => \A r \in proc[q].res : lock[stripe[r]] = q

LocksHeld ==
  /\ DOMAIN lock = Stripes
  /\ \A r \in Resources : stripe[r] \in Stripes
  /\ \A q \in Procs : Working(q)

\* The batch lock covers the deltas that were swapped out or drained.
BatchHeld ==
  /\ \A q \in Procs : proc[q].pc = "tx" => batchLock = q
  /\ batchLock # "updater" => \A r \in Resources : flush[r] = 0
  /\ \A r \in Resources : drained[r] # 0 =>
       \E q \in Procs : proc[q].pc = "tx" /\ r \in proc[q].res

DeltaInv == QuotaTypes /\ LocksHeld /\ BatchHeld /\ LedgerConserved /\ CommitSeesEveryDelta

\* The fence of a recovery outlives the recovery, and every reader that took
\* its snapshot before the recovery committed.
Fenced(q) ==
  \A t \in proc[q].res \cap Tokens :
    /\ proc[q].pc \in {"drain", "tx"} =>
         fence[t] + proc[q].age >= FenceTTL /\ cache[t] = NoHash
    /\ proc[q].pc = "fill" =>
         proc[q].sgen = gen[t] \/ fence[t] + proc[q].age > MaxGap

FenceInv ==
  /\ fence \in [Resources -> Nat] /\ DOMAIN cache = Resources /\ DOMAIN cacheGen = Resources
  /\ \A q \in Procs : Fenced(q) /\ (Timed(q) => proc[q].age <= MaxGap)
  /\ TokenSnapshotsFresh

-----------------------------------------------------------------------------
(* Steps of one goroutine. *)

Moves(p, pc, op, res) ==
  /\ proc' \in [Procs -> Goroutine]
  /\ \A q \in Procs \ {p} : proc'[q] = proc[q]
  /\ proc'[p].pc = pc /\ proc'[p].op = op /\ proc'[p].res = res

LEMMA GotoMoves ==
    ASSUME QuotaTypes, NEW p \in Procs, NEW pc \in PCs, proc' = Goto(p, pc)
    PROVE  /\ Moves(p, pc, proc[p].op, proc[p].res)
           /\ proc'[p].sgen = proc[p].sgen /\ proc'[p].age = proc[p].age
  <1> DEFINE new == [proc[p] EXCEPT !.pc = pc]
  <1>1. proc \in [Procs -> Goroutine] /\ proc[p] \in Goroutine
    BY DEF QuotaTypes
  <1>2. new \in Goroutine /\ new.pc = pc /\ new.op = proc[p].op /\ new.res = proc[p].res
        /\ new.sgen = proc[p].sgen /\ new.age = proc[p].age
    BY <1>1 DEF Goroutine
  <1>3. proc' = [proc EXCEPT ![p] = new]
    BY DEF Goto
  <1> HIDE DEF new
  <1> QED
    BY <1>1, <1>2, <1>3 DEF Moves

LEMMA FinishMoves ==
    ASSUME QuotaTypes, NEW p \in Procs, Finish(p)
    PROVE  Moves(p, "idle", "none", {})
  <1>1. Idle \in Goroutine /\ Idle.pc = "idle" /\ Idle.op = "none" /\ Idle.res = {}
    BY DEF Idle, Goroutine, PCs
  <1>2. proc' = [proc EXCEPT ![p] = Idle] /\ proc \in [Procs -> Goroutine]
    BY DEF Finish, QuotaTypes
  <1> QED
    BY <1>1, <1>2 DEF Moves

\* What a goroutine must have before it goes to another place.
MayGo(p, pc, op, res) ==
  /\ pc \in {"drain", "tx"} => op = "recover"
  /\ pc \in {"read", "fill"} => op # "recover"
  /\ pc \in {"reserve", "fallback", "persist"} => op = "reserve"
  /\ pc # "idle" /\ op # "recover" => \E r \in Resources : res = {r}
  /\ \/ pc \in {"reserve", "fallback", "persist", "drain", "tx"}
     \/ pc \in {"read", "fill"} /\ op = "reserve"
     => \A r \in res : lock[stripe[r]] = p

\* A goroutine that moves keeps its locks, or ends and frees them.
LEMMA LocksAfterMove ==
    ASSUME QuotaTypes, LocksHeld, NEW p \in Procs, NEW pc, NEW op, NEW res,
           Moves(p, pc, op, res), UNCHANGED stripe,
           MayGo(p, pc, op, res),
           UNCHANGED lock \/ (pc = "idle" /\ lock' = Unlocked(p))
    PROVE  LocksHeld'
  <1>1. DOMAIN lock' = Stripes /\ \A s \in Stripes : lock[s] # p => lock'[s] = lock[s]
    BY DEF LocksHeld, Unlocked
  <1>2. ASSUME NEW q \in Procs, q # p  PROVE Working(q)'
    <2>1. proc'[q] = proc[q] /\ Working(q) /\ proc[q].res \subseteq Resources
      BY <1>2 DEF Moves, LocksHeld, QuotaTypes, Goroutine
    <2>2. Holds(q) => \A r \in proc[q].res : lock'[stripe'[r]] = q
      BY <1>1, <1>2, <2>1 DEF Working, LocksHeld
    <2> QED
      BY <2>1, <2>2 DEF Working, Holds
  <1>3. Working(p)'
    <2>1. proc'[p].pc = pc /\ proc'[p].op = op /\ proc'[p].res = res
      BY DEF Moves
    <2>2. CASE UNCHANGED lock
      BY <2>1, <2>2 DEF Working, Holds, MayGo
    <2>3. CASE pc = "idle"
      BY <2>1, <2>3 DEF Working, Holds
    <2> QED
      BY <2>2, <2>3
  <1> QED
    BY <1>1, <1>2, <1>3 DEF LocksHeld

\* A step of a goroutine outside the recovery transaction: what it takes from
\* the row or the store it books, and it touches the store only under its lock.
LEMMA PlainStep ==
    ASSUME DeltaInv, NEW p \in Procs, NEW pc, NEW op, NEW res,
           Moves(p, pc, op, res), MayGo(p, pc, op, res), pc # "tx", proc[p].pc # "tx",
           UNCHANGED lock \/ (pc = "idle" /\ lock' = Unlocked(p)),
           UNCHANGED <<stripe, flush, drained, dropped, batchLock, crashes, gen>>,
           faults' \in Nat, faults' >= faults,
           UNCHANGED astray \/ faults' > 0, astray' \in [Resources -> Int],
           db' \in [Resources -> Int], store' \in [Resources -> Int], ledger' \in [Resources -> Int],
           \A r \in Resources : db'[r] + store'[r] - ledger'[r] - astray'[r]
                              = db[r] + store[r] - ledger[r] - astray[r],
           \A r \in Resources : store'[r] # store[r] => lock[stripe[r]] = p
    PROVE  DeltaInv'
  <1>1. QuotaTypes'
    BY DEF DeltaInv, QuotaTypes, Moves
  <1>2. LocksHeld'
    BY LocksAfterMove DEF DeltaInv
  <1>3. \A q \in Procs : proc'[q].pc = "tx" \/ proc[q].pc = "tx" => q # p /\ proc'[q] = proc[q]
    BY DEF Moves
  <1>4. BatchHeld'
    BY <1>3 DEF DeltaInv, BatchHeld
  <1>5. ASSUME NEW r \in Resources
        PROVE  /\ db'[r] + store'[r] + flush'[r] + drained'[r] + dropped'[r] = InitQuota + ledger'[r] + astray'[r]
               /\ dropped'[r] # 0 => faults' + crashes' > 0
               /\ astray'[r] # 0 => faults' > 0
    <2>1. /\ db[r] + store[r] + flush[r] + drained[r] + dropped[r] = InitQuota + ledger[r] + astray[r]
          /\ dropped[r] # 0 => faults + crashes > 0
          /\ astray[r] # 0 => faults > 0
      BY DEF DeltaInv, LedgerConserved
    <2>2. /\ db[r] \in Int /\ store[r] \in Int /\ ledger[r] \in Int
          /\ db'[r] \in Int /\ store'[r] \in Int /\ ledger'[r] \in Int /\ astray[r] \in Int /\ astray'[r] \in Int
          /\ flush[r] \in Int /\ drained[r] \in Int /\ dropped[r] \in Int /\ InitQuota \in Int
          /\ faults \in Nat /\ crashes \in Nat
      BY QuotaAssumption DEF DeltaInv, QuotaTypes
    <2>3. db'[r] + store'[r] - ledger'[r] - astray'[r] = db[r] + store[r] - ledger[r] - astray[r]
      OBVIOUS
    <2>4. UNCHANGED <<flush, drained, dropped, crashes>>
      OBVIOUS
    <2>5. db'[r] + store'[r] + flush'[r] + drained'[r] + dropped'[r] = InitQuota + ledger'[r] + astray'[r]
      <3> DEFINE d == db[r]  s == store[r]  l == ledger[r]
                 d1 == db'[r]  s1 == store'[r]  l1 == ledger'[r]
                 f == flush[r]  w == drained[r]  x == dropped[r]  a == astray[r]  a1 == astray'[r]
      <3>1. d + s + f + w + x = InitQuota + l + a /\ d1 + s1 - l1 - a1 = d + s - l - a
        BY <2>1, <2>3
      <3>2. d \in Int /\ s \in Int /\ l \in Int /\ d1 \in Int /\ s1 \in Int /\ l1 \in Int
            /\ f \in Int /\ w \in Int /\ x \in Int /\ a \in Int /\ a1 \in Int /\ InitQuota \in Int
        BY <2>2
      <3>3. f = flush'[r] /\ w = drained'[r] /\ x = dropped'[r]
        BY <2>4
      <3> HIDE DEF d, s, l, d1, s1, l1, f, w, x, a, a1
      <3>4. d1 + s1 + f + w + x = InitQuota + l1 + a1
        BY <3>1, <3>2
      <3> QED
        BY <3>3, <3>4 DEF d1, s1, l1, a1
    <2>6. dropped'[r] # 0 => faults' + crashes' > 0
      <3> DEFINE f == faults  f1 == faults'  k == crashes
      <3>1. f \in Nat /\ f1 \in Nat /\ k \in Nat /\ f1 >= f
        BY <2>2
      <3>2. dropped[r] # 0 => f + k > 0
        BY <2>1
      <3>3. dropped'[r] = dropped[r] /\ crashes' = k
        BY <2>4
      <3> HIDE DEF f, f1, k
      <3>4. dropped[r] # 0 => f1 + k > 0
        BY <3>1, <3>2
      <3> QED
        BY <3>3, <3>4 DEF f1
    <2>7. astray'[r] # 0 => faults' > 0
      <3> DEFINE f == faults  f1 == faults'
      <3>1. f \in Nat /\ f1 \in Nat /\ f1 >= f
        BY <2>2
      <3>2. astray' = astray \/ f1 > 0
        OBVIOUS
      <3>3. astray[r] # 0 => f > 0
        BY <2>1
      <3> HIDE DEF f, f1
      <3>4. astray'[r] # 0 => f1 > 0
        BY <3>1, <3>2, <3>3
      <3> QED
        BY <3>4 DEF f1
    <2> QED
      BY <2>5, <2>6, <2>7
  <1>6. ASSUME NEW q \in Procs, proc'[q].pc = "tx", NEW r \in proc'[q].res
        PROVE  store'[r] = 0 /\ flush'[r] = 0
    <2>1. q # p /\ proc[q].pc = "tx" /\ r \in proc[q].res /\ r \in Resources
      BY <1>3, <1>6 DEF DeltaInv, QuotaTypes, Goroutine
    <2>2. lock[stripe[r]] = q
      BY <2>1 DEF DeltaInv, LocksHeld, Working, Holds
    <2>3. store[r] = 0 /\ flush[r] = 0
      BY <2>1 DEF DeltaInv, CommitSeesEveryDelta
    <2> QED
      BY <2>1, <2>2, <2>3
  <1> QED
    BY <1>1, <1>2, <1>4, <1>5, <1>6 DEF DeltaInv, CommitSeesEveryDelta, LedgerConserved

\* The same where neither rows nor store nor ledger change.
LEMMA QuietMove ==
    ASSUME DeltaInv, NEW p \in Procs, NEW pc, NEW op, NEW res,
           Moves(p, pc, op, res), MayGo(p, pc, op, res), pc # "tx", proc[p].pc # "tx",
           UNCHANGED lock \/ (pc = "idle" /\ lock' = Unlocked(p)),
           UNCHANGED <<db, store, ledger, stripe, flush, drained, dropped, astray, batchLock, crashes, gen>>,
           faults' \in Nat, faults' >= faults
    PROVE  DeltaInv'
  <1>1. /\ db' \in [Resources -> Int] /\ store' \in [Resources -> Int] /\ ledger' \in [Resources -> Int]
        /\ astray' \in [Resources -> Int]
        /\ \A r \in Resources : db'[r] + store'[r] - ledger'[r] - astray'[r]
                              = db[r] + store[r] - ledger[r] - astray[r]
        /\ \A r \in Resources : store'[r] # store[r] => lock[stripe[r]] = p
    BY DEF DeltaInv, QuotaTypes
  <1> QED
    BY <1>1, PlainStep

-----------------------------------------------------------------------------
(* The deltas: every action of a goroutine. *)

LEMMA StartKeepsDeltas ==
    ASSUME DeltaInv, NEW p \in Procs, Start(p)
    PROVE  DeltaInv'
  <1>1. PICK op \in {"reserve", "increase", "decrease", "read", "recover"}, R \in SUBSET Resources,
             pc \in {"lock", "read"} :
          /\ Begin(p, op, R, pc)
          /\ op # "recover" => \E r \in Resources : R = {r}
          /\ pc = "read" => op = "read"
    BY Zenon DEF Start, Resources
  <1> DEFINE new == [Idle EXCEPT !.pc = pc, !.op = op, !.res = R]
  <1>2. new \in Goroutine /\ new.pc = pc /\ new.op = op /\ new.res = R
    <2>1. Idle \in Goroutine
      BY DEF Idle, Goroutine, PCs
    <2>2. op \in {"none", "reserve", "increase", "decrease", "read", "recover"} /\ pc \in PCs
      BY <1>1 DEF PCs
    <2> QED
      BY <2>1, <2>2 DEF Goroutine
  <1>3. proc' = [proc EXCEPT ![p] = new] /\ proc \in [Procs -> Goroutine]
    BY <1>1 DEF Begin, DeltaInv, QuotaTypes
  <1> HIDE DEF new
  <1>4. Moves(p, pc, op, R)
    BY <1>2, <1>3 DEF Moves
  <1>5. MayGo(p, pc, op, R)
    BY <1>1 DEF MayGo
  <1>6. UNCHANGED <<db, store, ledger, stripe, flush, drained, dropped, astray, batchLock, crashes, gen, lock, faults>>
    BY <1>1 DEF Begin, caches, pending, setup
  <1>7. proc[p].pc # "tx" /\ pc # "tx" /\ faults' \in Nat /\ faults' >= faults
    BY <1>1, <1>6 DEF Begin, DeltaInv, QuotaTypes
  <1> QED
    BY <1>4, <1>5, <1>6, <1>7, QuietMove

LEMMA LockNextKeepsDeltas ==
    ASSUME DeltaInv, NEW p \in Procs, LockNext(p)
    PROVE  DeltaInv'
  <1>1. UNCHANGED <<db, store, ledger, stripe, flush, drained, dropped, astray, batchLock, crashes, gen, proc, faults>>
    BY DEF LockNext, caches, pending, setup, bounds
  <1>2. PICK s : lock[s] = Nobody /\ lock' = [lock EXCEPT ![s] = p]
    BY DEF LockNext
  <1>3. DOMAIN lock' = Stripes /\ \A x \in Stripes : lock[x] \in Procs => lock'[x] = lock[x]
    BY <1>2, QuotaAssumption DEF DeltaInv, LocksHeld
  <1>4. ASSUME NEW q \in Procs  PROVE Working(q)'
    <2>1. proc[q].res \subseteq Resources /\ Working(q)
      BY DEF DeltaInv, QuotaTypes, Goroutine, LocksHeld
    <2>2. Holds(q) => \A r \in proc[q].res : lock'[stripe[r]] = q
      BY <1>3, <2>1 DEF Working, DeltaInv, LocksHeld
    <2> QED
      BY <1>1, <2>1, <2>2 DEF Working, Holds
  <1>5. LocksHeld'
    BY <1>1, <1>3, <1>4 DEF LocksHeld, DeltaInv
  <1>6. QuotaTypes' /\ BatchHeld' /\ LedgerConserved' /\ CommitSeesEveryDelta'
    BY <1>1 DEF DeltaInv, QuotaTypes, BatchHeld, LedgerConserved, CommitSeesEveryDelta
  <1> QED
    BY <1>5, <1>6 DEF DeltaInv

LEMMA ReadKeepsDeltas ==
    ASSUME DeltaInv, NEW p \in Procs, proc[p].pc = "read", NEW r \in proc[p].res, ReadThrough(p, r)
    PROVE  DeltaInv'
  <1>1. UNCHANGED <<db, store, ledger, stripe, flush, drained, dropped, astray, batchLock, crashes, gen, lock, faults>>
    BY DEF ReadThrough, caches, pending, setup, bounds
  <1>2. /\ QuotaTypes /\ Working(p) /\ faults' \in Nat /\ faults' >= faults
        /\ proc \in [Procs -> Goroutine] /\ proc[p] \in Goroutine
        /\ r \in Resources /\ db[r] \in Int /\ gen[r] \in Nat
    BY <1>1 DEF DeltaInv, QuotaTypes, LocksHeld, Goroutine
  <1>3. CASE cache[r] = NoHash
    <2> DEFINE new == [proc[p] EXCEPT !.pc = "fill", !.snap = db[r], !.sgen = gen[r], !.age = 0]
    <2>1. new \in Goroutine /\ new.pc = "fill" /\ new.op = proc[p].op /\ new.res = proc[p].res
      BY <1>2 DEF Goroutine, PCs
    <2>2. proc' = [proc EXCEPT ![p] = new]
      BY <1>3 DEF ReadThrough
    <2> HIDE DEF new
    <2>3. Moves(p, "fill", proc[p].op, proc[p].res)
      BY <1>2, <2>1, <2>2 DEF Moves
    <2>4. MayGo(p, "fill", proc[p].op, proc[p].res)
      BY <1>2 DEF MayGo, Working, Holds
    <2> QED
      BY <1>1, <1>2, <2>3, <2>4, QuietMove
  <1>4. CASE proc' = Goto(p, "reserve") /\ proc[p].op = "reserve"
    <2>1. Moves(p, "reserve", proc[p].op, proc[p].res)
      BY <1>2, <1>4, GotoMoves DEF PCs
    <2>2. MayGo(p, "reserve", proc[p].op, proc[p].res)
      BY <1>2, <1>4 DEF MayGo, Working, Holds
    <2> QED
      BY <1>1, <1>2, <2>1, <2>2, QuietMove
  <1>5. CASE proc' = [proc EXCEPT ![p] = Idle]
    <2>1. Moves(p, "idle", "none", {})
      BY <1>2, <1>5, FinishMoves DEF Finish
    <2>2. MayGo(p, "idle", "none", {})
      BY DEF MayGo
    <2> QED
      BY <1>1, <1>2, <2>1, <2>2, QuietMove
  <1> QED
    BY <1>3, <1>4, <1>5 DEF ReadThrough

LEMMA FillKeepsDeltas ==
    ASSUME DeltaInv, NEW p \in Procs, FillCache(p)
    PROVE  DeltaInv'
  <1>1. UNCHANGED <<db, store, ledger, stripe, flush, drained, dropped, astray, batchLock, crashes, gen, lock, faults>>
    BY DEF FillCache, pending, setup, bounds
  <1>2. /\ QuotaTypes /\ Working(p) /\ faults' \in Nat /\ faults' >= faults /\ proc[p].pc = "fill"
    BY <1>1 DEF DeltaInv, QuotaTypes, LocksHeld, FillCache
  <1>3. CASE proc' = Goto(p, "reserve") /\ proc[p].op = "reserve"
    <2>1. Moves(p, "reserve", proc[p].op, proc[p].res)
      BY <1>2, <1>3, GotoMoves DEF PCs
    <2>2. MayGo(p, "reserve", proc[p].op, proc[p].res)
      BY <1>2, <1>3 DEF MayGo, Working, Holds
    <2> QED
      BY <1>1, <1>2, <2>1, <2>2, QuietMove
  <1>4. CASE Finish(p)
    <2>1. Moves(p, "idle", "none", {})
      BY <1>2, <1>4, FinishMoves
    <2>2. MayGo(p, "idle", "none", {})
      BY DEF MayGo
    <2> QED
      BY <1>1, <1>2, <2>1, <2>2, QuietMove
  <1> QED
    BY <1>3, <1>4 DEF FillCache

\* A goroutine that ends where only faults are counted.
LEMMA QuietEnd ==
    ASSUME DeltaInv, NEW p \in Procs, Finish(p), lock' = Unlocked(p), proc[p].pc # "tx",
           UNCHANGED <<db, store, ledger, stripe, flush, drained, dropped, astray, batchLock, crashes, gen>>,
           UNCHANGED faults \/ faults' = faults + 1
    PROVE  DeltaInv'
  <1>1. Moves(p, "idle", "none", {})
    BY FinishMoves DEF DeltaInv
  <1>2. MayGo(p, "idle", "none", {})
    BY DEF MayGo
  <1>3. faults' \in Nat /\ faults' >= faults
    BY DEF DeltaInv, QuotaTypes
  <1> QED
    BY <1>1, <1>2, <1>3, QuietMove

\* A goroutine with its locks that moves where only faults are counted.
LEMMA QuietGoto ==
    ASSUME DeltaInv, NEW p \in Procs,
           NEW pc \in {"read", "fill", "reserve", "fallback", "persist"}, proc' = Goto(p, pc),
           proc[p].pc \notin {"idle", "tx"}, proc[p].op = "reserve",
           \A r \in proc[p].res : lock[stripe[r]] = p,
           UNCHANGED <<db, store, ledger, stripe, flush, drained, dropped, astray, batchLock, crashes, gen, lock>>,
           UNCHANGED faults \/ faults' = faults + 1
    PROVE  DeltaInv'
  <1>1. Moves(p, pc, proc[p].op, proc[p].res)
    BY GotoMoves DEF DeltaInv, PCs
  <1>2. MayGo(p, pc, proc[p].op, proc[p].res)
    BY DEF MayGo, DeltaInv, LocksHeld, Working
  <1>3. faults' \in Nat /\ faults' >= faults
    BY DEF DeltaInv, QuotaTypes
  <1>4. pc # "tx"
    OBVIOUS
  <1> QED
    BY <1>1, <1>2, <1>3, <1>4, QuietMove

\* With no stripe missing a goroutine holds those of all its resources.
LEMMA NothingMissing ==
    ASSUME NEW p \in Procs, Missing(p) = {}
    PROVE  \A r \in proc[p].res : lock[stripe[r]] = p
  BY DEF Missing, StripesOf

LEMMA ReserveCacheKeepsDeltas ==
    ASSUME DeltaInv, NEW p \in Procs, NEW r \in proc[p].res, ReserveCache(p, r)
    PROVE  DeltaInv'
  <1>1. UNCHANGED <<db, store, ledger, stripe, flush, drained, dropped, astray, batchLock, crashes, gen>>
    BY DEF ReserveCache, pending, setup
  <1>2. /\ proc[p].op = "reserve" /\ proc[p].pc \in {"lock", "reserve"}
        /\ \A x \in proc[p].res : lock[stripe[x]] = p
    <2>1. CASE Locked(p, "reserve")
      BY <2>1, NothingMissing DEF Locked
    <2>2. CASE proc[p].pc = "reserve"
      BY <2>2 DEF DeltaInv, LocksHeld, Working, Holds
    <2> QED
      BY <2>1, <2>2 DEF ReserveCache
  <1>3. UNCHANGED faults \/ faults' = faults + 1
    BY DEF ReserveCache
  <1>4. \/ Finish(p) /\ lock' = Unlocked(p)
        \/ UNCHANGED lock /\ \E pc \in {"persist", "read", "fallback"} : proc' = Goto(p, pc)
    BY Zenon DEF ReserveCache
  <1>5. CASE Finish(p) /\ lock' = Unlocked(p)
    BY <1>1, <1>2, <1>3, <1>5, QuietEnd
  <1>6. CASE UNCHANGED lock /\ \E pc \in {"persist", "read", "fallback"} : proc' = Goto(p, pc)
    <2>1. PICK pc \in {"persist", "read", "fallback"} : proc' = Goto(p, pc)
      BY <1>6
    <2> QED
      BY <1>1, <1>2, <1>3, <1>6, <2>1, QuietGoto
  <1> QED
    BY <1>4, <1>5, <1>6

\* A goroutine ends with one amount booked in the row or in the store of a
\* resource whose stripe it holds, or written although it was told of an error.
Booked(r, d) ==
  \/ /\ ledger' = [ledger EXCEPT ![r] = @ + d] /\ UNCHANGED <<astray, faults>>
     /\ \/ db' = [db EXCEPT ![r] = @ + d] /\ UNCHANGED store
        \/ store' = [store EXCEPT ![r] = @ + d] /\ UNCHANGED db
  \/ /\ astray' = [astray EXCEPT ![r] = @ + d] /\ faults' = faults + 1
     /\ db' = [db EXCEPT ![r] = @ + d] /\ UNCHANGED <<store, ledger>>

LEMMA BookedEnd ==
    ASSUME DeltaInv, NEW p \in Procs, Finish(p), lock' = Unlocked(p), proc[p].pc # "tx",
           NEW r \in Resources, NEW d \in Int, lock[stripe[r]] = p, Booked(r, d),
           UNCHANGED <<stripe, flush, drained, dropped, batchLock, crashes, gen>>
    PROVE  DeltaInv'
  <1>1. Moves(p, "idle", "none", {})
    BY FinishMoves DEF DeltaInv
  <1>2. MayGo(p, "idle", "none", {})
    BY DEF MayGo
  <1>3. faults' \in Nat /\ faults' >= faults /\ (UNCHANGED astray \/ faults' > 0)
    BY DEF DeltaInv, QuotaTypes, Booked
  <1>4. /\ db' \in [Resources -> Int] /\ store' \in [Resources -> Int] /\ ledger' \in [Resources -> Int]
        /\ astray' \in [Resources -> Int]
    BY DEF DeltaInv, QuotaTypes, Booked
  <1>5. \A x \in Resources : store'[x] # store[x] => lock[stripe[x]] = p
    BY DEF DeltaInv, QuotaTypes, Booked
  <1>6. \A x \in Resources : db'[x] + store'[x] - ledger'[x] - astray'[x]
                           = db[x] + store[x] - ledger[x] - astray[x]
    BY DEF DeltaInv, QuotaTypes, Booked
  <1> QED
    BY <1>1, <1>2, <1>3, <1>4, <1>5, <1>6, PlainStep

\* A statement that changes one row, with the answer it gives.
LEMMA Written ==
    ASSUME NEW r, NEW d, Write(r, d) \/ WriteFails(r, d), UNCHANGED store
    PROVE  \/ Booked(r, d)
           \/ UNCHANGED <<db, store, ledger, astray>> /\ faults' = faults + 1
  BY DEF Write, WriteFails, Booked

\* The one resource of an operation that is not a recovery.
LEMMA OneResource ==
    ASSUME DeltaInv, NEW p \in Procs, proc[p].pc # "idle", proc[p].op # "recover"
    PROVE  Resource(p) \in Resources /\ proc[p].res = {Resource(p)}
  <1>1. PICK r \in Resources : proc[p].res = {r}
    BY DEF DeltaInv, LocksHeld, Working
  <1>2. Resource(p) \in proc[p].res
    BY <1>1 DEF Resource
  <1> QED
    BY <1>1, <1>2

LEMMA ReserveDBKeepsDeltas ==
    ASSUME DeltaInv, NEW p \in Procs, ReserveDB(p)
    PROVE  DeltaInv'
  <1>1. /\ Finish(p) /\ lock' = Unlocked(p) /\ proc[p].pc = "fallback"
        /\ UNCHANGED <<store, stripe, flush, drained, dropped, batchLock, crashes, gen>>
    BY DEF ReserveDB, pending, setup
  <1>2. PICK r \in Resources : r = Resource(p) /\ lock[stripe[r]] = p
    BY <1>1, OneResource DEF DeltaInv, LocksHeld, Working, Holds
  <1>3. \/ UNCHANGED <<db, ledger, astray, faults>>
        \/ Write(r, -1) \/ WriteFails(r, -1)
    BY <1>2 DEF ReserveDB
  <1>4. \/ UNCHANGED <<db, ledger, astray>> /\ (UNCHANGED faults \/ faults' = faults + 1)
        \/ Booked(r, -1)
    BY <1>1, <1>3, Written
  <1>5. CASE UNCHANGED <<db, ledger, astray>> /\ (UNCHANGED faults \/ faults' = faults + 1)
    BY <1>1, <1>5, QuietEnd
  <1>6. CASE Booked(r, -1)
    BY <1>1, <1>2, <1>6, BookedEnd
  <1> QED
    BY <1>4, <1>5, <1>6

LEMMA PersistKeepsDeltas ==
    ASSUME DeltaInv, NEW p \in Procs, Persist(p)
    PROVE  DeltaInv'
  <1>1. /\ Finish(p) /\ lock' = Unlocked(p) /\ proc[p].pc = "persist"
        /\ UNCHANGED <<stripe, flush, drained, dropped, batchLock, crashes, gen>>
    BY DEF Persist, setup
  <1>2. PICK r \in Resources : r = Resource(p) /\ lock[stripe[r]] = p
    BY <1>1, OneResource DEF DeltaInv, LocksHeld, Working, Holds
  <1>3. \/ /\ store' = [store EXCEPT ![r] = @ - 1] /\ ledger' = [ledger EXCEPT ![r] = @ - 1]
           /\ UNCHANGED <<db, astray, faults>>
        \/ (Write(r, -1) \/ WriteFails(r, -1)) /\ UNCHANGED store
    BY <1>2 DEF Persist
  <1>4. CASE /\ store' = [store EXCEPT ![r] = @ - 1] /\ ledger' = [ledger EXCEPT ![r] = @ - 1]
             /\ UNCHANGED <<db, astray, faults>>
    <2>1. ledger[r] \in Int /\ store[r] \in Int
      BY DEF DeltaInv, QuotaTypes
    <2>2. Booked(r, -1)
      BY <1>4, <2>1 DEF Booked
    <2> QED
      BY <1>1, <1>2, <2>2, BookedEnd
  <1>5. CASE (Write(r, -1) \/ WriteFails(r, -1)) /\ UNCHANGED store
    <2>1. Booked(r, -1) \/ (UNCHANGED <<db, store, ledger, astray>> /\ faults' = faults + 1)
      BY <1>5, Written
    <2> QED
      BY <1>1, <1>2, <2>1, BookedEnd, QuietEnd
  <1> QED
    BY <1>3, <1>4, <1>5

LEMMA AdjustKeepsDeltas ==
    ASSUME DeltaInv, NEW p \in Procs, proc[p].pc = "lock", NEW r \in proc[p].res, NEW d \in {-1, 1},
           Adjust(p, r, d)
    PROVE  DeltaInv'
  <1>1. /\ Finish(p) /\ lock' = Unlocked(p)
        /\ UNCHANGED <<stripe, flush, drained, dropped, batchLock, crashes, gen>>
    BY DEF Adjust, setup
  <1>2. r \in Resources /\ lock[stripe[r]] = p /\ d \in Int
    BY NothingMissing DEF Adjust, DeltaInv, QuotaTypes, Goroutine
  <1>3. \/ UNCHANGED <<db, store, ledger, astray>> /\ faults' = faults + 1
        \/ Booked(r, d)
    BY Written DEF Adjust, Booked
  <1>4. CASE UNCHANGED <<db, store, ledger, astray>> /\ faults' = faults + 1
    BY <1>1, <1>4, QuietEnd
  <1>5. CASE Booked(r, d)
    BY <1>1, <1>2, <1>5, BookedEnd
  <1> QED
    BY <1>3, <1>4, <1>5

LEMMA RaiseFenceKeepsDeltas ==
    ASSUME DeltaInv, NEW p \in Procs, RaiseFence(p)
    PROVE  DeltaInv'
  <1>1. /\ UNCHANGED <<db, store, ledger, stripe, flush, drained, dropped, astray, batchLock, crashes, gen>>
        /\ proc[p].pc = "lock" /\ proc[p].op = "recover" /\ \A r \in proc[p].res : lock[stripe[r]] = p
    BY NothingMissing DEF RaiseFence, pending, setup, Locked
  <1>2. CASE Finish(p) /\ lock' = Unlocked(p) /\ faults' = faults + 1
    BY <1>1, <1>2, QuietEnd
  <1>3. CASE proc' = [proc EXCEPT ![p].pc = "drain", ![p].age = 0] /\ UNCHANGED <<lock, faults>>
    <2> DEFINE new == [proc[p] EXCEPT !.pc = "drain", !.age = 0]
    <2>1. proc \in [Procs -> Goroutine] /\ proc[p] \in Goroutine
      BY DEF DeltaInv, QuotaTypes
    <2>2. new \in Goroutine /\ new.pc = "drain" /\ new.op = proc[p].op /\ new.res = proc[p].res
      BY <2>1 DEF Goroutine, PCs
    <2>3. proc' = [proc EXCEPT ![p] = new]
      BY <1>3
    <2> HIDE DEF new
    <2>4. Moves(p, "drain", proc[p].op, proc[p].res)
      BY <2>1, <2>2, <2>3 DEF Moves
    <2>5. MayGo(p, "drain", proc[p].op, proc[p].res)
      BY <1>1 DEF MayGo
    <2>6. faults' \in Nat /\ faults' >= faults
      BY <1>3 DEF DeltaInv, QuotaTypes
    <2> QED
      BY <1>1, <1>3, <2>4, <2>5, <2>6, QuietMove
  <1> QED
    BY <1>2, <1>3 DEF RaiseFence

-----------------------------------------------------------------------------
(* The deltas: recovery transactions, the updater and the environment. *)

\* No resource gains or loses anything.
Balanced ==
  \A r \in Resources :
    db'[r] + store'[r] + flush'[r] + drained'[r] + dropped'[r] - ledger'[r] - astray'[r]
    = db[r] + store[r] + flush[r] + drained[r] + dropped[r] - ledger[r] - astray[r]

LEMMA LedgerKept ==
    ASSUME QuotaTypes, QuotaTypes', LedgerConserved,
           Balanced,
           (UNCHANGED astray /\ faults' >= faults) \/ faults' > 0,
           \/ UNCHANGED dropped /\ faults' >= faults /\ crashes' >= crashes
           \/ faults' > 0
           \/ crashes' > 0
    PROVE  LedgerConserved'
  <1> SUFFICES ASSUME NEW r \in Resources
               PROVE  /\ (db[r] + store[r] + flush[r] + drained[r] + dropped[r] = InitQuota + ledger[r] + astray[r])'
                      /\ (dropped[r] # 0 => faults + crashes > 0)'
                      /\ (astray[r] # 0 => faults > 0)'
    BY DEF LedgerConserved
  <1>1. dropped'[r] # 0 => faults' + crashes' > 0
    <2> DEFINE f == faults  c == crashes  f1 == faults'  c1 == crashes'
    <2>1. f \in Nat /\ c \in Nat /\ f1 \in Nat /\ c1 \in Nat
      BY DEF QuotaTypes
    <2>2. dropped[r] # 0 => f + c > 0
      BY DEF LedgerConserved
    <2>3. (dropped' = dropped /\ f1 >= f /\ c1 >= c) \/ f1 > 0 \/ c1 > 0
      OBVIOUS
    <2> HIDE DEF f, c, f1, c1
    <2>4. dropped'[r] # 0 => f1 + c1 > 0
      BY <2>1, <2>2, <2>3
    <2> QED
      BY <2>4 DEF f1, c1
  <1>2. (db[r] + store[r] + flush[r] + drained[r] + dropped[r] = InitQuota + ledger[r] + astray[r])'
    <2> DEFINE d == db[r]  s == store[r]  f == flush[r]  w == drained[r]  x == dropped[r]  l == ledger[r]  a == astray[r]
               d1 == db'[r]  s1 == store'[r]  f1 == flush'[r]  w1 == drained'[r]  x1 == dropped'[r]
               l1 == ledger'[r]  a1 == astray'[r]
    <2>1. d \in Int /\ s \in Int /\ f \in Int /\ w \in Int /\ x \in Int /\ l \in Int /\ a \in Int /\ InitQuota \in Int
      BY QuotaAssumption DEF QuotaTypes
    <2>2. d1 \in Int /\ s1 \in Int /\ f1 \in Int /\ w1 \in Int /\ x1 \in Int /\ l1 \in Int /\ a1 \in Int
      BY DEF QuotaTypes
    <2>3. d + s + f + w + x = InitQuota + l + a
      BY DEF LedgerConserved
    <2>4. d1 + s1 + f1 + w1 + x1 - l1 - a1 = d + s + f + w + x - l - a
      BY DEF Balanced
    <2> HIDE DEF d, s, f, w, x, l, a, d1, s1, f1, w1, x1, l1, a1
    <2>5. d1 + s1 + f1 + w1 + x1 = InitQuota + l1 + a1
      BY <2>1, <2>2, <2>3, <2>4
    <2> QED
      BY <2>5 DEF d1, s1, f1, w1, x1, l1, a1
  <1>3. astray'[r] # 0 => faults' > 0
    <2>1. faults \in Nat /\ faults' \in Nat /\ (astray[r] # 0 => faults > 0)
      BY DEF QuotaTypes, LedgerConserved
    <2>2. CASE faults' > 0
      BY <2>2
    <2>3. CASE UNCHANGED astray /\ faults' >= faults
      <3>1. astray'[r] = astray[r]
        BY <2>3
      <3>2. faults > 0 => faults' > 0
        BY <2>1, <2>3
      <3> QED
        BY <2>1, <3>1, <3>2
    <2> QED
      BY <2>2, <2>3
  <1> QED
    BY <1>1, <1>2, <1>3

LEMMA DrainKeepsDeltas ==
    ASSUME DeltaInv, NEW p \in Procs, Drain(p)
    PROVE  DeltaInv'
  <1>1. /\ proc' = Goto(p, "tx") /\ proc[p].pc = "drain" /\ batchLock = Nobody /\ batchLock' = p
        /\ drained' = [r \in Resources |-> IF r \in proc[p].res THEN store[r] ELSE 0]
        /\ store' = [r \in Resources |-> IF r \in proc[p].res THEN 0 ELSE store[r]]
        /\ UNCHANGED <<db, flush, lock, stripe, gen, ledger, dropped, astray, faults, crashes>>
    BY DEF Drain, setup, bounds
  <1>2. QuotaTypes /\ LocksHeld /\ Nobody # "updater" /\ Nobody \notin Procs
    BY QuotaAssumption DEF DeltaInv
  <1>3. Moves(p, "tx", proc[p].op, proc[p].res)
    BY <1>1, <1>2, GotoMoves DEF PCs
  <1>4. MayGo(p, "tx", proc[p].op, proc[p].res)
    BY <1>1, <1>2 DEF MayGo, LocksHeld, Working, Holds
  <1>5. LocksHeld'
    BY <1>1, <1>2, <1>3, <1>4, LocksAfterMove
  <1>6. QuotaTypes'
    BY <1>1, <1>2, <1>3 DEF QuotaTypes, Moves
  <1>7. \A q \in Procs : proc[q].pc # "tx"
    BY <1>1, <1>2 DEF DeltaInv, BatchHeld
  <1>8. \A r \in Resources : drained[r] = 0 /\ flush[r] = 0
    BY <1>1, <1>2, <1>7 DEF DeltaInv, BatchHeld
  <1>9. \A q \in Procs : proc'[q].pc = "tx" => q = p
    BY <1>3, <1>7 DEF Moves
  <1>10. BatchHeld'
    <2>1. \A r \in Resources : drained'[r] # 0 => proc'[p].pc = "tx" /\ r \in proc'[p].res
      BY <1>1, <1>3 DEF Moves
    <2> QED
      BY <1>1, <1>8, <1>9, <2>1 DEF BatchHeld
  <1>11. CommitSeesEveryDelta'
    <2>1. \A r \in proc'[p].res : store'[r] = 0 /\ flush'[r] = 0
      BY <1>1, <1>2, <1>3, <1>8 DEF Moves, QuotaTypes, Goroutine
    <2> QED
      BY <1>9, <2>1 DEF CommitSeesEveryDelta
  <1>12. Balanced
    BY <1>1, <1>2, <1>8 DEF Balanced, QuotaTypes
  <1>13. LedgerConserved'
    BY <1>1, <1>2, <1>6, <1>12, LedgerKept DEF DeltaInv, QuotaTypes
  <1> QED
    BY <1>5, <1>6, <1>10, <1>11, <1>13 DEF DeltaInv

LEMMA RecoverTxKeepsDeltas ==
    ASSUME DeltaInv, NEW p \in Procs, RecoverTx(p)
    PROVE  DeltaInv'
  <1> DEFINE R == proc[p].res
  <1>1. /\ Finish(p) /\ proc[p].pc = "tx" /\ batchLock' = Nobody /\ lock' = Unlocked(p)
        /\ drained' = [r \in Resources |-> 0]
        /\ UNCHANGED <<flush, stripe, dropped, crashes>>
    BY DEF RecoverTx, setup
  <1>2. \/ CommitTx(R) /\ UNCHANGED <<store, astray, faults>>
        \/ /\ faults' = faults + 1
           /\ store' = [r \in Resources |-> store[r] + drained[r]]
           /\ \/ UNCHANGED <<db, ledger, gen, astray>>
              \/ CommitTx(R) /\ astray' = [r \in Resources |-> astray[r] + drained[r]]
    BY DEF RecoverTx
  <1> HIDE DEF R
  <1>3. QuotaTypes /\ LocksHeld /\ Nobody # "updater" /\ Nobody \notin Procs /\ p # "updater"
    BY QuotaAssumption DEF DeltaInv
  <1>4. batchLock = p /\ \A q \in Procs : proc[q].pc = "tx" => q = p
    BY <1>1 DEF DeltaInv, BatchHeld
  <1>5. \A r \in Resources : flush[r] = 0 /\ (drained[r] # 0 => r \in R)
    BY <1>3, <1>4 DEF DeltaInv, BatchHeld, R
  <1>6. Moves(p, "idle", "none", {})
    BY <1>1, <1>3, FinishMoves
  <1>7. LocksHeld'
    <2>1. MayGo(p, "idle", "none", {})
      BY DEF MayGo
    <2> QED
      BY <1>1, <1>3, <1>6, <2>1, LocksAfterMove
  <1>8. QuotaTypes'
    <2>1. proc' \in [Procs -> Goroutine]
      BY <1>6 DEF Moves
    <2>2. /\ db' \in [Resources -> Int] /\ ledger' \in [Resources -> Int] /\ gen' \in [Resources -> Nat]
      BY <1>2, <1>3 DEF CommitTx, QuotaTypes
    <2>3. store' \in [Resources -> Int] /\ astray' \in [Resources -> Int] /\ faults' \in Nat
      BY <1>2, <1>3 DEF QuotaTypes
    <2> QED
      BY <1>1, <1>3, <2>1, <2>2, <2>3 DEF QuotaTypes
  <1>9. \A q \in Procs : proc'[q].pc # "tx"
    BY <1>4, <1>6 DEF Moves
  <1>10. BatchHeld' /\ CommitSeesEveryDelta'
    BY <1>1, <1>5, <1>9 DEF BatchHeld, CommitSeesEveryDelta
  <1>11. Balanced
    <2>1. CASE CommitTx(R) /\ UNCHANGED <<store, astray, faults>>
      BY <1>1, <1>3, <1>5, <2>1 DEF Balanced, QuotaTypes, CommitTx
    <2>2. CASE /\ store' = [r \in Resources |-> store[r] + drained[r]]
               /\ UNCHANGED <<db, ledger, gen, astray>>
      BY <1>1, <1>3, <1>5, <2>2 DEF Balanced, QuotaTypes
    <2>3. CASE /\ store' = [r \in Resources |-> store[r] + drained[r]]
               /\ CommitTx(R) /\ astray' = [r \in Resources |-> astray[r] + drained[r]]
      BY <1>1, <1>3, <1>5, <2>3 DEF Balanced, QuotaTypes, CommitTx
    <2> QED
      BY <1>2, <2>1, <2>2, <2>3
  <1>12. faults' >= faults /\ crashes' >= crashes /\ (UNCHANGED astray \/ faults' > 0)
    BY <1>1, <1>2, <1>3 DEF QuotaTypes
  <1>13. LedgerConserved'
    BY <1>1, <1>3, <1>8, <1>11, <1>12, LedgerKept DEF DeltaInv
  <1> QED
    BY <1>7, <1>8, <1>10, <1>13 DEF DeltaInv

LEMMA SwapKeepsDeltas ==
    ASSUME DeltaInv, SwapStores
    PROVE  DeltaInv'
  <1>1. /\ batchLock = Nobody /\ batchLock' = "updater" /\ flush' = store /\ store' = [r \in Resources |-> 0]
        /\ UNCHANGED <<db, drained, lock, stripe, proc, gen, ledger, dropped, astray, faults, crashes>>
    BY DEF SwapStores, setup, bounds
  <1>2. QuotaTypes /\ Nobody # "updater" /\ Nobody \notin Procs
    BY QuotaAssumption DEF DeltaInv
  <1>3. \A q \in Procs : proc[q].pc # "tx"
    BY <1>1, <1>2 DEF DeltaInv, BatchHeld
  <1>4. \A r \in Resources : flush[r] = 0
    BY <1>1, <1>2 DEF DeltaInv, BatchHeld
  <1>5. QuotaTypes'
    BY <1>1, <1>2 DEF QuotaTypes
  <1>6. LocksHeld'
    BY <1>1 DEF DeltaInv, LocksHeld, Working, Holds
  <1>7. BatchHeld' /\ CommitSeesEveryDelta'
    BY <1>1, <1>3 DEF DeltaInv, BatchHeld, CommitSeesEveryDelta
  <1>8. Balanced
    BY <1>1, <1>2, <1>4 DEF Balanced, QuotaTypes
  <1>9. LedgerConserved'
    BY <1>1, <1>2, <1>5, <1>8, LedgerKept DEF DeltaInv, QuotaTypes
  <1> QED
    BY <1>5, <1>6, <1>7, <1>9 DEF DeltaInv

LEMMA WriteKeepsDeltas ==
    ASSUME DeltaInv, NEW r \in Resources, WriteDelta(r)
    PROVE  DeltaInv'
  <1>1. /\ batchLock = "updater" /\ flush' = [flush EXCEPT ![r] = 0]
        /\ \/ db' = [db EXCEPT ![r] = @ + flush[r]] /\ UNCHANGED <<dropped, astray, faults>>
           \/ dropped' = [dropped EXCEPT ![r] = @ + flush[r]] /\ faults' = faults + 1 /\ UNCHANGED db
        /\ UNCHANGED <<store, batchLock, drained, lock, stripe, proc, gen, ledger, astray, crashes>>
    BY DEF WriteDelta, setup
  <1>2. QuotaTypes /\ "updater" \notin Procs
    BY QuotaAssumption DEF DeltaInv
  <1>3. \A q \in Procs : proc[q].pc # "tx"
    BY <1>1, <1>2 DEF DeltaInv, BatchHeld
  <1>4. QuotaTypes'
    BY <1>1, <1>2 DEF QuotaTypes
  <1>5. LocksHeld'
    BY <1>1 DEF DeltaInv, LocksHeld, Working, Holds
  <1>6. BatchHeld' /\ CommitSeesEveryDelta'
    BY <1>1, <1>3 DEF DeltaInv, BatchHeld, CommitSeesEveryDelta
  <1>7. Balanced
    BY <1>1, <1>2 DEF Balanced, QuotaTypes
  <1>8. (UNCHANGED dropped /\ faults' >= faults /\ crashes' >= crashes) \/ faults' > 0
    BY <1>1, <1>2 DEF QuotaTypes
  <1>9. LedgerConserved'
    BY <1>1, <1>2, <1>4, <1>7, <1>8, LedgerKept DEF DeltaInv, QuotaTypes
  <1> QED
    BY <1>4, <1>5, <1>6, <1>9 DEF DeltaInv

LEMMA BatchDoneKeepsDeltas ==
    ASSUME DeltaInv, BatchDone
    PROVE  DeltaInv'
  <1>1. /\ batchLock = "updater" /\ batchLock' = Nobody /\ \A r \in Resources : flush[r] = 0
        /\ UNCHANGED <<db, store, flush, drained, lock, stripe, proc, gen, ledger, dropped, astray, faults, crashes>>
    BY DEF BatchDone, setup, bounds
  <1>2. \A q \in Procs : proc[q].pc # "tx"
    BY <1>1, QuotaAssumption DEF DeltaInv, BatchHeld
  <1>3. QuotaTypes' /\ LocksHeld' /\ LedgerConserved' /\ CommitSeesEveryDelta'
    BY <1>1 DEF DeltaInv, QuotaTypes, LocksHeld, Working, Holds, LedgerConserved, CommitSeesEveryDelta
  <1>4. BatchHeld'
    BY <1>1, <1>2 DEF DeltaInv, BatchHeld
  <1> QED
    BY <1>3, <1>4 DEF DeltaInv

LEMMA CreditKeepsDeltas ==
    ASSUME DeltaInv, NEW u \in Users, Credit(u)
    PROVE  DeltaInv'
  <1>1. /\ db' = [db EXCEPT ![u] = @ + 1] /\ ledger' = [ledger EXCEPT ![u] = @ + 1]
        /\ UNCHANGED <<store, flush, batchLock, drained, lock, stripe, proc, gen, dropped, astray, faults, crashes>>
    BY DEF Credit, setup, pending
  <1>2. QuotaTypes /\ u \in Resources
    BY DEF DeltaInv, Resources
  <1>3. QuotaTypes'
    BY <1>1, <1>2 DEF QuotaTypes
  <1>4. LocksHeld' /\ BatchHeld' /\ CommitSeesEveryDelta'
    BY <1>1 DEF DeltaInv, LocksHeld, Working, Holds, BatchHeld, CommitSeesEveryDelta
  <1>5. Balanced
    BY <1>1, <1>2 DEF Balanced, QuotaTypes
  <1>6. LedgerConserved'
    BY <1>1, <1>2, <1>3, <1>5, LedgerKept DEF DeltaInv, QuotaTypes
  <1> QED
    BY <1>3, <1>4, <1>6 DEF DeltaInv

LEMMA CrashKeepsDeltas ==
    ASSUME DeltaInv, Crash
    PROVE  DeltaInv'
  <1>1. /\ crashes' = crashes + 1 /\ proc' = [q \in Procs |-> Idle]
        /\ dropped' = [r \in Resources |-> dropped[r] + store[r] + flush[r] + drained[r]]
        /\ store' = [r \in Resources |-> 0] /\ flush' = [r \in Resources |-> 0]
        /\ drained' = [r \in Resources |-> 0] /\ DOMAIN lock' = DOMAIN lock
        /\ UNCHANGED <<db, stripe, gen, ledger, astray, faults>>
    BY DEF Crash, setup
  <1>2. QuotaTypes /\ Idle \in Goroutine /\ Idle.pc = "idle"
    BY DEF DeltaInv, Idle, Goroutine, PCs
  <1>3. QuotaTypes'
    BY <1>1, <1>2 DEF QuotaTypes
  <1>4. \A q \in Procs : proc'[q].pc = "idle"
    BY <1>1, <1>2
  <1>5. LocksHeld' /\ BatchHeld' /\ CommitSeesEveryDelta'
    BY <1>1, <1>4 DEF DeltaInv, LocksHeld, Working, Holds, BatchHeld, CommitSeesEveryDelta
  <1>6. Balanced
    BY <1>1, <1>2 DEF Balanced, QuotaTypes
  <1>7. crashes' > 0
    BY <1>1, <1>2 DEF QuotaTypes
  <1>8. LedgerConserved'
    BY <1>1, <1>2, <1>3, <1>6, <1>7, LedgerKept DEF DeltaInv, QuotaTypes
  <1> QED
    BY <1>3, <1>5, <1>8 DEF DeltaInv

\* Time leaves every goroutine where it is.
LEMMA TickIsQuiet ==
    ASSUME QuotaTypes, Tick
    PROVE  /\ proc' \in [Procs -> Goroutine]
           /\ \A q \in Procs :
                /\ proc'[q].pc = proc[q].pc /\ proc'[q].op = proc[q].op
                /\ proc'[q].res = proc[q].res /\ proc'[q].sgen = proc[q].sgen
                /\ proc'[q].age = IF Timed(q) THEN proc[q].age + 1 ELSE proc[q].age
  <1> DEFINE Older(q) == [proc[q] EXCEPT !.age = @ + 1]
  <1>1. ASSUME NEW q \in Procs
        PROVE  /\ Older(q) \in Goroutine
               /\ Older(q).pc = proc[q].pc /\ Older(q).op = proc[q].op /\ Older(q).res = proc[q].res
               /\ Older(q).sgen = proc[q].sgen /\ Older(q).age = proc[q].age + 1
    <2>1. proc[q] \in Goroutine /\ proc[q].age + 1 \in Nat
      BY DEF QuotaTypes, Goroutine
    <2> QED
      BY <2>1 DEF Goroutine
  <1>2. proc' = [q \in Procs |-> IF Timed(q) THEN Older(q) ELSE proc[q]]
    BY DEF Tick
  <1> HIDE DEF Older
  <1> QED
    BY <1>1, <1>2 DEF QuotaTypes

LEMMA TickKeepsDeltas ==
    ASSUME DeltaInv, Tick
    PROVE  DeltaInv'
  <1>1. UNCHANGED <<db, store, flush, drained, lock, batchLock, stripe, gen, ledger, dropped, astray, faults, crashes>>
    BY DEF Tick, setup, pending, bounds
  <1>2. /\ proc' \in [Procs -> Goroutine]
        /\ \A q \in Procs : proc'[q].pc = proc[q].pc /\ proc'[q].op = proc[q].op /\ proc'[q].res = proc[q].res
    BY TickIsQuiet DEF DeltaInv
  <1>3. QuotaTypes' /\ LedgerConserved'
    BY <1>1, <1>2 DEF DeltaInv, QuotaTypes, LedgerConserved
  <1>4. LocksHeld'
    BY <1>1, <1>2 DEF DeltaInv, LocksHeld, Working, Holds
  <1>5. BatchHeld' /\ CommitSeesEveryDelta'
    BY <1>1, <1>2 DEF DeltaInv, BatchHeld, CommitSeesEveryDelta
  <1> QED
    BY <1>3, <1>4, <1>5 DEF DeltaInv

LEMMA CachesKeepDeltas ==
    ASSUME DeltaInv,
           UNCHANGED <<db, store, flush, drained, lock, batchLock, stripe, proc, gen, ledger, dropped, astray, faults, crashes>>
    PROVE  DeltaInv'
  <1>1. QuotaTypes' /\ LedgerConserved'
    BY DEF DeltaInv, QuotaTypes, LedgerConserved
  <1>2. LocksHeld'
    BY DEF DeltaInv, LocksHeld, Working, Holds
  <1>3. BatchHeld' /\ CommitSeesEveryDelta'
    BY DEF DeltaInv, BatchHeld, CommitSeesEveryDelta
  <1> QED
    BY <1>1, <1>2, <1>3 DEF DeltaInv

LEMMA InitDeltas == Init => DeltaInv
  <1> SUFFICES ASSUME Init PROVE DeltaInv
    OBVIOUS
  <1>1. Idle \in Goroutine /\ Idle.pc = "idle"
    BY DEF Idle, Goroutine, PCs
  <1>2. QuotaTypes
    BY <1>1, QuotaAssumption DEF Init, QuotaTypes
  <1>3. \A q \in Procs : proc[q].pc = "idle"
    BY <1>1 DEF Init
  <1>4. DOMAIN lock = Stripes
    BY DEF Init
  <1>5. \A r \in Resources : stripe[r] \in Stripes
    BY DEF Init, Stripes
  <1>6. LocksHeld
    BY <1>3, <1>4, <1>5 DEF LocksHeld, Working, Holds
  <1>7. BatchHeld /\ CommitSeesEveryDelta
    BY <1>3 DEF BatchHeld, CommitSeesEveryDelta, Init
  <1>8. LedgerConserved
    BY QuotaAssumption DEF LedgerConserved, Init
  <1> QED
    BY <1>2, <1>6, <1>7, <1>8 DEF DeltaInv

LEMMA NextKeepsDeltas == DeltaInv /\ [Next]_vars => DeltaInv'
  <1> SUFFICES ASSUME DeltaInv, [Next]_vars PROVE DeltaInv'
    OBVIOUS
  <1>1. ASSUME NEW p \in Procs, Start(p)  PROVE DeltaInv'
    BY <1>1, StartKeepsDeltas
  <1>2. ASSUME NEW p \in Procs, Step(p)  PROVE DeltaInv'
    <2>1. CASE LockNext(p)
      BY <2>1, LockNextKeepsDeltas
    <2>2. CASE GetUserCache(p) \/ GetTokenByKey(p)
      BY <2>2, ReadKeepsDeltas DEF GetUserCache, GetTokenByKey
    <2>3. CASE FillCache(p)
      BY <2>3, FillKeepsDeltas
    <2>4. CASE TryReserveUserQuota(p) \/ TryReserveTokenQuota(p)
      BY <2>4, ReserveCacheKeepsDeltas DEF TryReserveUserQuota, TryReserveTokenQuota
    <2>5. CASE ReserveDB(p)
      BY <2>5, ReserveDBKeepsDeltas
    <2>6. CASE Persist(p)
      BY <2>6, PersistKeepsDeltas
    <2>7. CASE IncreaseUserQuota(p) \/ DecreaseUserQuota(p) \/ IncreaseTokenQuota(p) \/ DecreaseTokenQuota(p)
      BY <2>7, AdjustKeepsDeltas
         DEF IncreaseUserQuota, DecreaseUserQuota, IncreaseTokenQuota, DecreaseTokenQuota, Locked
    <2>8. CASE RaiseFence(p)
      BY <2>8, RaiseFenceKeepsDeltas
    <2>9. CASE Drain(p)
      BY <2>9, DrainKeepsDeltas
    <2>10. CASE RecoverTx(p)
      BY <2>10, RecoverTxKeepsDeltas
    <2> QED
      BY <1>2, <2>1, <2>2, <2>3, <2>4, <2>5, <2>6, <2>7, <2>8, <2>9, <2>10 DEF Step
  <1>3. CASE Updater
    BY <1>3, SwapKeepsDeltas, WriteKeepsDeltas, BatchDoneKeepsDeltas DEF Updater
  <1>4. ASSUME NEW u \in Users, Credit(u)  PROVE DeltaInv'
    BY <1>4, CreditKeepsDeltas
  <1>5. ASSUME NEW r \in Resources, Expire(r) \/ \E d \in {-1, 1} : LateDelta(r, d)  PROVE DeltaInv'
    BY <1>5, CachesKeepDeltas DEF Expire, LateDelta, pending, setup, bounds
  <1>6. CASE Tick
    BY <1>6, TickKeepsDeltas
  <1>7. CASE Crash
    BY <1>7, CrashKeepsDeltas
  <1>8. CASE UNCHANGED vars
    BY <1>8, CachesKeepDeltas DEF vars, pending, setup, bounds
  <1> QED
    BY <1>1, <1>2, <1>3, <1>4, <1>5, <1>6, <1>7, <1>8 DEF Next

(* The rows, the stores and the ledger of every interleaving agree: what an  *)
(* operation accepted is in the row or on its way there, unless a failing    *)
(* flush or a crash dropped it (quota_reserve.go, utils.go batchUpdate), and *)
(* nothing else is, but what calls wrote that reported an error, deltas that *)
(* a recovery committed and put back included (billing_recovery.go).         *)
THEOREM LedgerBalances == Spec => []LedgerConserved
  <1>1. Init => DeltaInv
    BY InitDeltas
  <1>2. DeltaInv /\ [Next]_vars => DeltaInv'
    BY NextKeepsDeltas
  <1>3. DeltaInv => LedgerConserved
    BY DEF DeltaInv
  <1> QED
    BY <1>1, <1>2, <1>3, PTL DEF Spec

(* A recovery transaction finds no delta of its resources in the store or    *)
(* with the updater: the stripes and the batch lock keep every reservation   *)
(* out (billing_recovery.go, billingRecoveryQuotaMutation).                  *)
THEOREM CommitsSeeEveryDelta == Spec => []CommitSeesEveryDelta
  <1>1. Init => DeltaInv
    BY InitDeltas
  <1>2. DeltaInv /\ [Next]_vars => DeltaInv'
    BY NextKeepsDeltas
  <1>3. DeltaInv => CommitSeesEveryDelta
    BY DEF DeltaInv
  <1> QED
    BY <1>1, <1>2, <1>3, PTL DEF Spec

-----------------------------------------------------------------------------
(* The fence. *)

\* A step that changes one goroutine, publishes nothing and leaves the fences.
LEMMA FenceKept ==
    ASSUME FenceInv, NEW p \in Procs,
           \A q \in Procs \ {p} : proc'[q] = proc[q],
           \/ proc'[p] = proc[p]
           \/ proc'[p].pc \notin {"fill", "drain", "tx"}
           \/ Fenced(p)' /\ proc'[p].age <= MaxGap,
           UNCHANGED <<fence, cacheGen, gen>>, DOMAIN cache' = Resources,
           \A r \in Resources : cache[r] = NoHash => cache'[r] = NoHash
    PROVE  FenceInv'
  <1>1. \A t \in Tokens : t \in Resources
    BY DEF Resources
  <1>2. ASSUME NEW q \in Procs, proc'[q] = proc[q]
        PROVE  Fenced(q)' /\ (Timed(q) => proc[q].age <= MaxGap)'
    BY <1>1, <1>2 DEF FenceInv, Fenced, Timed
  <1>3. proc'[p] # proc[p] => Fenced(p)' /\ (Timed(p) => proc[p].age <= MaxGap)'
    BY DEF Fenced, Timed
  <1>4. \A q \in Procs : Fenced(q)' /\ (Timed(q) => proc[q].age <= MaxGap)'
    BY <1>2, <1>3
  <1>5. TokenSnapshotsFresh'
    BY <1>1 DEF FenceInv, TokenSnapshotsFresh, SnapshotFresh
  <1> QED
    BY <1>4, <1>5 DEF FenceInv

LEMMA FillKeepsFence ==
    ASSUME DeltaInv, FenceInv, NEW p \in Procs, FillCache(p), FenceTTL > 2 * MaxGap
    PROVE  FenceInv'
  <1>1. /\ proc[p].pc = "fill" /\ proc[p].op # "recover" /\ QuotaTypes
        /\ UNCHANGED <<fence, gen>> /\ MaxGap \in Nat /\ FenceTTL \in Nat
    BY QuotaAssumption DEF FillCache, DeltaInv, LocksHeld, Working
  <1>2. PICK r \in Resources : r = Resource(p) /\ proc[p].res = {r}
    BY <1>1, OneResource
  <1>3. (\A q \in Procs \ {p} : proc'[q] = proc[q]) /\ proc'[p].pc \notin {"fill", "drain", "tx"}
    BY <1>1, GotoMoves, FinishMoves DEF FillCache, Moves, PCs
  <1>4. CASE UNCHANGED <<cache, cacheGen>>
    BY <1>1, <1>3, <1>4, FenceKept DEF FenceInv
  <1>5. CASE /\ ~FillBlocked(r)
             /\ cache' = [cache EXCEPT ![r] = proc[p].snap]
             /\ cacheGen' = [cacheGen EXCEPT ![r] = proc[p].sgen]
    <2>1. \A x \in Resources \ {r} : cache'[x] = cache[x] /\ cacheGen'[x] = cacheGen[x]
      BY <1>5 DEF FenceInv
    <2>2. cacheGen'[r] = proc[p].sgen /\ DOMAIN cache' = Resources /\ DOMAIN cacheGen' = Resources
      BY <1>5 DEF FenceInv
    <2>3. ASSUME r \in Tokens  PROVE fence[r] = 0
      BY <1>5, <2>3 DEF FillBlocked, FenceInv
    <2>4. ASSUME NEW q \in Procs, proc[q].pc \in {"drain", "tx"}, r \in proc[q].res, r \in Tokens
          PROVE  FALSE
      <3>1. 0 + proc[q].age >= FenceTTL /\ proc[q].age <= MaxGap
        BY <2>3, <2>4 DEF FenceInv, Fenced, Timed
      <3>2. proc[q].age \in Nat
        BY DEF DeltaInv, QuotaTypes, Goroutine
      <3> QED
        BY <1>1, <3>1, <3>2
    <2>5. ASSUME r \in Tokens  PROVE proc[p].sgen = gen[r]
      <3>1. proc[p].sgen = gen[r] \/ 0 + proc[p].age > MaxGap
        BY <1>1, <1>2, <2>3, <2>5 DEF FenceInv, Fenced
      <3>2. proc[p].age \in Nat /\ proc[p].age <= MaxGap
        BY <1>1 DEF DeltaInv, QuotaTypes, Goroutine, FenceInv, Timed
      <3> QED
        BY <1>1, <3>1, <3>2
    <2>6. TokenSnapshotsFresh'
      BY <1>1, <2>1, <2>2, <2>5 DEF FenceInv, TokenSnapshotsFresh, SnapshotFresh, Resources
    <2>7. ASSUME NEW q \in Procs  PROVE Fenced(q)' /\ (Timed(q) => proc[q].age <= MaxGap)'
      <3>1. CASE q = p
        BY <1>3, <3>1 DEF Fenced, Timed
      <3>2. CASE q # p
        <4>1. proc'[q] = proc[q] /\ Fenced(q) /\ (Timed(q) => proc[q].age <= MaxGap)
          BY <1>3, <3>2 DEF FenceInv
        <4>2. ASSUME NEW t \in proc[q].res \cap Tokens, proc[q].pc \in {"drain", "tx"}
              PROVE  cache'[t] = NoHash
          BY <2>1, <2>4, <4>1, <4>2 DEF Fenced, Resources
        <4> QED
          BY <1>1, <4>1, <4>2 DEF Fenced, Timed
      <3> QED
        BY <3>1, <3>2
    <2> QED
      BY <1>1, <2>2, <2>6, <2>7 DEF FenceInv
  <1> QED
    BY <1>2, <1>4, <1>5 DEF FillCache

LEMMA RaiseFenceKeepsFence ==
    ASSUME DeltaInv, FenceInv, NEW p \in Procs, RaiseFence(p), FenceTTL > 2 * MaxGap
    PROVE  FenceInv'
  <1>1. /\ proc[p].pc = "lock" /\ QuotaTypes /\ UNCHANGED <<gen, cacheGen>>
        /\ MaxGap \in Nat /\ FenceTTL \in Nat
    BY QuotaAssumption DEF RaiseFence, DeltaInv, Locked
  <1>2. PICK F, D \in SUBSET Resources :
          /\ fence' = [r \in Resources |-> IF r \in F THEN FenceTTL ELSE fence[r]]
          /\ cache' = [r \in Resources |-> IF r \in D THEN NoHash ELSE cache[r]]
          /\ \/ Finish(p)
             \/ /\ F = proc[p].res /\ D = proc[p].res
                /\ proc' = [proc EXCEPT ![p].pc = "drain", ![p].age = 0]
    <2>1. proc[p].res \in SUBSET Resources
      BY DEF DeltaInv, QuotaTypes, Goroutine
    <2> QED
      BY <2>1, ZenonT(60) DEF RaiseFence
  <1>3. fence' \in [Resources -> Nat] /\ DOMAIN cache' = Resources
    BY <1>1, <1>2 DEF FenceInv
  <1>4. \A r \in Resources : fence'[r] = FenceTTL \/ fence'[r] = fence[r]
    BY <1>2
  <1>5. \A r \in Resources : cache'[r] = NoHash \/ cache'[r] = cache[r]
    BY <1>2
  <1>6. TokenSnapshotsFresh'
    BY <1>1, <1>5 DEF FenceInv, TokenSnapshotsFresh, SnapshotFresh, Resources
  <1>7. ASSUME NEW q \in Procs, q # p  PROVE Fenced(q)' /\ (Timed(q) => proc[q].age <= MaxGap)'
    <2>1. proc'[q] = proc[q] /\ Fenced(q) /\ (Timed(q) => proc[q].age <= MaxGap) /\ proc[q].age \in Nat
      BY <1>2, <1>7 DEF FenceInv, Finish, DeltaInv, QuotaTypes, Goroutine
    <2>2. ASSUME NEW t \in proc[q].res \cap Tokens
          PROVE  /\ proc[q].pc \in {"drain", "tx"} =>
                      fence'[t] + proc[q].age >= FenceTTL /\ cache'[t] = NoHash
                 /\ proc[q].pc = "fill" =>
                      proc[q].sgen = gen[t] \/ fence'[t] + proc[q].age > MaxGap
      <3>1. t \in Resources
        BY DEF Resources
      <3>2. CASE fence'[t] = FenceTTL
        BY <1>1, <1>5, <2>1, <3>1, <3>2 DEF Fenced
      <3>3. CASE fence'[t] = fence[t]
        BY <1>5, <2>1, <3>1, <3>3 DEF Fenced
      <3> QED
        BY <1>4, <3>1, <3>2, <3>3
    <2> QED
      BY <1>1, <2>1, <2>2 DEF Fenced, Timed
  <1>8. Fenced(p)' /\ (Timed(p) => proc[p].age <= MaxGap)'
    <2>1. CASE Finish(p)
      <3>1. proc'[p].pc = "idle"
        BY <1>1, <2>1, FinishMoves DEF Moves
      <3> QED
        BY <3>1 DEF Fenced, Timed
    <2>2. CASE /\ \A r \in proc[p].res : fence'[r] = FenceTTL /\ cache'[r] = NoHash
               /\ proc' = [proc EXCEPT ![p].pc = "drain", ![p].age = 0]
      <3>1. proc'[p].pc = "drain" /\ proc'[p].age = 0 /\ proc'[p].res = proc[p].res
        BY <1>1, <2>2 DEF QuotaTypes, Goroutine
      <3> QED
        BY <1>1, <2>2, <3>1 DEF Fenced, Timed
    <2>3. \A r \in proc[p].res : r \in Resources
      BY DEF DeltaInv, QuotaTypes, Goroutine
    <2> QED
      BY <1>2, <2>1, <2>2, <2>3
  <1>9. \A q \in Procs : Fenced(q)' /\ (Timed(q) => proc[q].age <= MaxGap)'
    BY <1>7, <1>8
  <1> QED
    BY <1>1, <1>3, <1>6, <1>9 DEF FenceInv

LEMMA RecoverTxKeepsFence ==
    ASSUME DeltaInv, FenceInv, NEW p \in Procs, RecoverTx(p), FenceTTL > 2 * MaxGap
    PROVE  FenceInv'
  <1>1. /\ proc[p].pc = "tx" /\ QuotaTypes /\ UNCHANGED <<fence, cache, cacheGen>> /\ Finish(p)
        /\ MaxGap \in Nat /\ FenceTTL \in Nat /\ proc[p].age \in Nat
    BY QuotaAssumption DEF RecoverTx, DeltaInv, caches, QuotaTypes, Goroutine
  <1>2. proc'[p].pc = "idle" /\ \A q \in Procs \ {p} : proc'[q] = proc[q]
    BY <1>1, FinishMoves DEF Moves
  <1>3. \A r \in Resources : r \notin proc[p].res => gen'[r] = gen[r]
    BY <1>1 DEF RecoverTx, CommitTx, QuotaTypes
  <1>4. ASSUME NEW t \in proc[p].res \cap Tokens
        PROVE  cache[t] = NoHash /\ fence[t] > MaxGap
    <2>1. fence[t] + proc[p].age >= FenceTTL /\ cache[t] = NoHash /\ proc[p].age <= MaxGap
      BY <1>1 DEF FenceInv, Fenced, Timed
    <2>2. fence[t] \in Nat
      BY DEF FenceInv, Resources
    <2> QED
      BY <1>1, <2>1, <2>2
  <1>5. TokenSnapshotsFresh'
    BY <1>1, <1>3, <1>4 DEF FenceInv, TokenSnapshotsFresh, SnapshotFresh, Resources
  <1>6. ASSUME NEW q \in Procs, q # p  PROVE Fenced(q)' /\ (Timed(q) => proc[q].age <= MaxGap)'
    <2>1. proc'[q] = proc[q] /\ Fenced(q) /\ (Timed(q) => proc[q].age <= MaxGap) /\ proc[q].age \in Nat
      BY <1>2, <1>6 DEF FenceInv, DeltaInv, QuotaTypes, Goroutine
    <2>2. ASSUME NEW t \in proc[q].res \cap Tokens, proc[q].pc = "fill"
          PROVE  proc[q].sgen = gen'[t] \/ fence[t] + proc[q].age > MaxGap
      <3>1. CASE t \in proc[p].res
        <4>1. fence[t] \in Nat /\ fence[t] > MaxGap
          BY <1>4, <3>1 DEF FenceInv, Resources
        <4> QED
          BY <1>1, <2>1, <4>1
      <3>2. CASE t \notin proc[p].res
        BY <1>3, <2>1, <2>2, <3>2 DEF Fenced, Resources
      <3> QED
        BY <3>1, <3>2
    <2> QED
      BY <1>1, <2>1, <2>2 DEF Fenced, Timed
  <1>7. \A q \in Procs : Fenced(q)' /\ (Timed(q) => proc[q].age <= MaxGap)'
    BY <1>2, <1>6 DEF Fenced, Timed
  <1> QED
    BY <1>1, <1>5, <1>7 DEF FenceInv

LEMMA TickKeepsFence ==
    ASSUME DeltaInv, FenceInv, Tick, FenceTTL > 2 * MaxGap
    PROVE  FenceInv'
  <1>1. /\ QuotaTypes /\ UNCHANGED <<cache, cacheGen, gen>> /\ MaxGap \in Nat /\ FenceTTL \in Nat
        /\ \A q \in Procs : Timed(q) => proc[q].age < MaxGap
        /\ fence' = [r \in Resources |-> IF fence[r] > 0 THEN fence[r] - 1 ELSE 0]
    BY QuotaAssumption DEF Tick, DeltaInv
  <1>2. \A q \in Procs :
          /\ proc'[q].pc = proc[q].pc /\ proc'[q].res = proc[q].res /\ proc'[q].sgen = proc[q].sgen
          /\ proc'[q].age = IF Timed(q) THEN proc[q].age + 1 ELSE proc[q].age
    BY <1>1, TickIsQuiet
  <1>3. fence' \in [Resources -> Nat]
    BY <1>1 DEF FenceInv
  <1>4. ASSUME NEW q \in Procs  PROVE Fenced(q)' /\ (Timed(q) => proc[q].age <= MaxGap)'
    <2>1. CASE ~Timed(q)
      BY <1>2, <2>1 DEF Fenced, Timed
    <2>2. CASE Timed(q)
      <3>1. /\ proc'[q].age = proc[q].age + 1 /\ proc[q].age \in Nat /\ proc[q].age < MaxGap
        BY <1>1, <1>2, <2>2 DEF QuotaTypes, Goroutine
      <3>2. ASSUME NEW t \in proc[q].res \cap Tokens
            PROVE  /\ proc[q].pc \in {"drain", "tx"} =>
                        fence'[t] + proc'[q].age >= FenceTTL /\ cache[t] = NoHash
                   /\ proc[q].pc = "fill" =>
                        proc[q].sgen = gen[t] \/ fence'[t] + proc'[q].age > MaxGap
        <4> DEFINE f == fence[t]  f1 == fence'[t]  a == proc[q].age  a1 == proc'[q].age
        <4>1. f \in Nat /\ f1 = (IF f > 0 THEN f - 1 ELSE 0) /\ a \in Nat /\ a1 = a + 1 /\ a < MaxGap
          BY <1>1, <3>1 DEF FenceInv, Resources
        <4>2. /\ proc[q].pc \in {"drain", "tx"} => f + a >= FenceTTL /\ cache[t] = NoHash
              /\ proc[q].pc = "fill" => proc[q].sgen = gen[t] \/ f + a > MaxGap
          BY DEF FenceInv, Fenced
        <4> HIDE DEF f, f1, a, a1
        <4>3. f + a > MaxGap => f > 0 /\ f1 + a1 = f + a
          BY <1>1, <4>1
        <4>4. f + a >= FenceTTL => f + a > MaxGap
          BY <1>1, <4>1
        <4>5. /\ proc[q].pc \in {"drain", "tx"} => f1 + a1 >= FenceTTL /\ cache[t] = NoHash
              /\ proc[q].pc = "fill" => proc[q].sgen = gen[t] \/ f1 + a1 > MaxGap
          BY <4>2, <4>3, <4>4
        <4> QED
          BY <4>5 DEF f1, a1
      <3>3. Fenced(q)'
        BY <1>1, <1>2, <3>2 DEF Fenced
      <3>4. proc'[q].age <= MaxGap
        BY <1>1, <3>1
      <3> QED
        BY <3>3, <3>4
    <2> QED
      BY <2>1, <2>2
  <1>5. TokenSnapshotsFresh'
    BY <1>1 DEF FenceInv, TokenSnapshotsFresh, SnapshotFresh
  <1> QED
    BY <1>1, <1>3, <1>4, <1>5 DEF FenceInv

LEMMA ReadKeepsFence ==
    ASSUME DeltaInv, FenceInv, NEW p \in Procs, proc[p].pc = "read", NEW r \in proc[p].res, ReadThrough(p, r)
    PROVE  FenceInv'
  <1>1. /\ UNCHANGED <<fence, cache, cacheGen, gen>> /\ QuotaTypes /\ proc[p] \in Goroutine
        /\ proc \in [Procs -> Goroutine] /\ DOMAIN cache' = Resources /\ MaxGap \in Nat
    BY QuotaAssumption DEF ReadThrough, caches, DeltaInv, QuotaTypes, FenceInv
  <1>2. proc[p].res = {r}
    BY OneResource DEF DeltaInv, LocksHeld, Working
  <1>3. \A q \in Procs \ {p} : proc'[q] = proc[q]
    BY <1>1 DEF ReadThrough, Goto
  <1>4. CASE cache[r] = NoHash
    <2> DEFINE new == [proc[p] EXCEPT !.pc = "fill", !.snap = db[r], !.sgen = gen[r], !.age = 0]
    <2>1. new.pc = "fill" /\ new.sgen = gen[r] /\ new.age = 0 /\ new.res = proc[p].res
      BY <1>1 DEF Goroutine
    <2>2. proc' = [proc EXCEPT ![p] = new]
      BY <1>4 DEF ReadThrough
    <2> HIDE DEF new
    <2>3. proc'[p].pc = "fill" /\ proc'[p].sgen = gen[r] /\ proc'[p].age = 0 /\ proc'[p].res = {r}
      BY <1>1, <1>2, <2>1, <2>2
    <2>4. Fenced(p)' /\ proc'[p].age <= MaxGap
      BY <1>1, <2>3 DEF Fenced
    <2> QED
      BY <1>1, <1>3, <2>4, FenceKept
  <1>5. CASE proc' = Goto(p, "reserve") \/ proc' = [proc EXCEPT ![p] = Idle]
    <2>1. proc'[p].pc \in {"reserve", "idle"}
      BY <1>1, <1>5, GotoMoves, FinishMoves DEF Moves, PCs, Finish
    <2> QED
      BY <1>1, <1>3, <2>1, FenceKept
  <1> QED
    BY <1>4, <1>5 DEF ReadThrough

\* A hash is never created by a delta.
LEMMA DeltaCreatesNothing ==
    ASSUME FenceInv, NEW r, NEW d, CacheDelta(r, d)
    PROVE  DOMAIN cache' = Resources /\ \A x \in Resources : cache[x] = NoHash => cache'[x] = NoHash
  BY DEF CacheDelta, FenceInv

LEMMA ReserveCacheKeepsFence ==
    ASSUME DeltaInv, FenceInv, NEW p \in Procs, NEW r \in proc[p].res, ReserveCache(p, r)
    PROVE  FenceInv'
  <1>1. UNCHANGED <<fence, cacheGen, gen>> /\ QuotaTypes
    BY DEF ReserveCache, DeltaInv
  <1>2. Finish(p) \/ \E pc \in {"persist", "read", "fallback"} : proc' = Goto(p, pc)
    BY Zenon DEF ReserveCache
  <1>3. (\A q \in Procs \ {p} : proc'[q] = proc[q]) /\ proc'[p].pc \notin {"fill", "drain", "tx"}
    <2>1. CASE Finish(p)
      BY <1>1, <2>1, FinishMoves DEF Moves
    <2>2. ASSUME NEW pc \in {"persist", "read", "fallback"}, proc' = Goto(p, pc)
          PROVE  (\A q \in Procs \ {p} : proc'[q] = proc[q]) /\ proc'[p].pc \notin {"fill", "drain", "tx"}
      BY <1>1, <2>2, GotoMoves DEF Moves, PCs
    <2> QED
      BY <1>2, <2>1, <2>2
  <1>4. DOMAIN cache' = Resources /\ \A x \in Resources : cache[x] = NoHash => cache'[x] = NoHash
    <2>1. CASE UNCHANGED cache
      BY <2>1 DEF FenceInv
    <2>2. CASE ReserveResult(r, 1) = "ok" /\ cache' = [cache EXCEPT ![r] = @ - 1]
      <3>1. cache[r] # NoHash
        BY <2>2 DEF ReserveResult
      <3> QED
        BY <2>2, <3>1 DEF FenceInv
    <2> QED
      BY <2>1, <2>2 DEF ReserveCache
  <1> QED
    BY <1>1, <1>3, <1>4, FenceKept

\* The other steps of a goroutine.
LEMMA OtherStepsKeepFence ==
    ASSUME DeltaInv, FenceInv, NEW p \in Procs,
           \/ Start(p) \/ LockNext(p) \/ ReserveDB(p) \/ Persist(p) \/ Drain(p)
           \/ \E r \in proc[p].res, d \in {-1, 1} : Adjust(p, r, d)
    PROVE  FenceInv'
  <1>1. QuotaTypes /\ DOMAIN cache = Resources
    BY DEF DeltaInv, FenceInv
  <1>2. CASE Start(p)
    <2>1. PICK op \in {"reserve", "increase", "decrease", "read", "recover"}, R \in SUBSET Resources,
               pc \in {"lock", "read"} : Begin(p, op, R, pc)
      BY <1>2, Zenon DEF Start, Resources
    <2>2. UNCHANGED <<fence, cache, cacheGen, gen>>
      BY <2>1 DEF Begin, caches
    <2> DEFINE new == [Idle EXCEPT !.pc = pc, !.op = op, !.res = R]
    <2>3. new.pc = pc
      BY DEF Idle
    <2>4. proc' = [proc EXCEPT ![p] = new]
      BY <2>1 DEF Begin
    <2> HIDE DEF new
    <2>5. (\A q \in Procs \ {p} : proc'[q] = proc[q]) /\ proc'[p].pc \notin {"fill", "drain", "tx"}
      BY <1>1, <2>3, <2>4 DEF QuotaTypes
    <2> QED
      BY <1>1, <2>2, <2>5, FenceKept
  <1>3. CASE LockNext(p)
    <2>1. UNCHANGED <<fence, cache, cacheGen, gen, proc>>
      BY <1>3 DEF LockNext, caches
    <2> QED
      BY <1>1, <2>1, FenceKept
  <1>4. CASE ReserveDB(p)
    <2>1. UNCHANGED <<fence, cache, cacheGen, gen>> /\ Finish(p)
      BY <1>4 DEF ReserveDB, caches
    <2>2. (\A q \in Procs \ {p} : proc'[q] = proc[q]) /\ proc'[p].pc = "idle"
      BY <1>1, <2>1, FinishMoves DEF Moves
    <2> QED
      BY <1>1, <2>1, <2>2, FenceKept
  <1>5. CASE Persist(p)
    <2>1. UNCHANGED <<fence, cacheGen, gen>> /\ Finish(p)
      BY <1>5 DEF Persist
    <2>2. (\A q \in Procs \ {p} : proc'[q] = proc[q]) /\ proc'[p].pc = "idle"
      BY <1>1, <2>1, FinishMoves DEF Moves
    <2>3. DOMAIN cache' = Resources /\ \A x \in Resources : cache[x] = NoHash => cache'[x] = NoHash
      <3>1. UNCHANGED cache \/ \E r : CacheDelta(r, 1)
        BY <1>5, Zenon DEF Persist
      <3> QED
        BY <1>1, <3>1, DeltaCreatesNothing
    <2> QED
      BY <2>1, <2>2, <2>3, FenceKept
  <1>6. CASE Drain(p)
    <2>1. UNCHANGED <<fence, cache, cacheGen, gen>> /\ proc' = Goto(p, "tx") /\ proc[p].pc = "drain"
      BY <1>6 DEF Drain, caches
    <2>2. /\ \A q \in Procs \ {p} : proc'[q] = proc[q]
          /\ proc'[p].pc = "tx" /\ proc'[p].res = proc[p].res /\ proc'[p].age = proc[p].age
      BY <1>1, <2>1, GotoMoves DEF Moves, PCs
    <2>3. Fenced(p)' /\ proc'[p].age <= MaxGap
      BY <2>1, <2>2 DEF FenceInv, Fenced, Timed
    <2> QED
      BY <1>1, <2>1, <2>2, <2>3, FenceKept
  <1>7. CASE \E r \in proc[p].res, d \in {-1, 1} : Adjust(p, r, d)
    <2>1. UNCHANGED <<fence, cache, cacheGen, gen>> /\ Finish(p)
      BY <1>7 DEF Adjust
    <2>2. (\A q \in Procs \ {p} : proc'[q] = proc[q]) /\ proc'[p].pc = "idle"
      BY <1>1, <2>1, FinishMoves DEF Moves
    <2> QED
      BY <1>1, <2>1, <2>2, FenceKept
  <1> QED
    BY <1>2, <1>3, <1>4, <1>5, <1>6, <1>7

\* Steps outside the goroutines, but for time.
LEMMA EnvironmentKeepsFence ==
    ASSUME DeltaInv, FenceInv,
           \/ Updater \/ (\E u \in Users : Credit(u)) \/ Crash \/ UNCHANGED vars
           \/ \E r \in Resources : Expire(r) \/ \E d \in {-1, 1} : LateDelta(r, d)
    PROVE  FenceInv'
  <1>1. UNCHANGED <<fence, cacheGen, gen>>
    BY DEF Updater, SwapStores, WriteDelta, BatchDone, Credit, Crash, Expire, LateDelta, vars, caches
  <1>2. DOMAIN cache' = Resources /\ \A x \in Resources : cache[x] = NoHash => cache'[x] = NoHash
    <2>1. UNCHANGED cache \/ (\E r, d : CacheDelta(r, d)) \/ (\E r \in Resources : cache' = [cache EXCEPT ![r] = NoHash])
      BY DEF Updater, SwapStores, WriteDelta, BatchDone, Credit, Crash, Expire, LateDelta, vars, caches
    <2>2. CASE \E r, d : CacheDelta(r, d)
      BY <2>2, DeltaCreatesNothing
    <2> QED
      BY <2>1, <2>2 DEF FenceInv
  <1>3. (\A q \in Procs : proc'[q] = proc[q]) \/ (\A q \in Procs : proc'[q].pc = "idle")
    <2>1. CASE Crash
      BY <2>1 DEF Crash, Idle
    <2>2. CASE ~Crash
      BY <2>2 DEF Updater, SwapStores, WriteDelta, BatchDone, Credit, Expire, LateDelta, vars
    <2> QED
      BY <2>1, <2>2
  <1>4. \A q \in Procs : Fenced(q)' /\ (Timed(q) => proc[q].age <= MaxGap)'
    <2>1. CASE \A q \in Procs : proc'[q].pc = "idle"
      BY <2>1 DEF Fenced, Timed
    <2>2. CASE \A q \in Procs : proc'[q] = proc[q]
      BY <1>1, <1>2, <2>2 DEF FenceInv, Fenced, Timed, Resources
    <2> QED
      BY <1>3, <2>1, <2>2
  <1>5. TokenSnapshotsFresh'
    BY <1>1, <1>2 DEF FenceInv, TokenSnapshotsFresh, SnapshotFresh, Resources
  <1> QED
    BY <1>1, <1>2, <1>4, <1>5 DEF FenceInv

LEMMA InitFence == Init => FenceInv
  BY DEF Init, FenceInv, Fenced, Timed, TokenSnapshotsFresh, SnapshotFresh, Idle, Resources

LEMMA NextKeepsFence ==
    ASSUME FenceTTL > 2 * MaxGap
    PROVE  DeltaInv /\ FenceInv /\ [Next]_vars => FenceInv'
  <1> SUFFICES ASSUME DeltaInv, FenceInv, [Next]_vars PROVE FenceInv'
    OBVIOUS
  <1>1. ASSUME NEW p \in Procs, Start(p) \/ Step(p)  PROVE FenceInv'
    <2>1. CASE GetUserCache(p) \/ GetTokenByKey(p)
      BY <2>1, ReadKeepsFence DEF GetUserCache, GetTokenByKey
    <2>2. CASE FillCache(p)
      BY <2>2, FillKeepsFence
    <2>3. CASE TryReserveUserQuota(p) \/ TryReserveTokenQuota(p)
      BY <2>3, ReserveCacheKeepsFence DEF TryReserveUserQuota, TryReserveTokenQuota
    <2>4. CASE IncreaseUserQuota(p) \/ DecreaseUserQuota(p) \/ IncreaseTokenQuota(p) \/ DecreaseTokenQuota(p)
      BY <2>4, OtherStepsKeepFence
         DEF IncreaseUserQuota, DecreaseUserQuota, IncreaseTokenQuota, DecreaseTokenQuota
    <2>5. CASE RaiseFence(p)
      BY <2>5, RaiseFenceKeepsFence
    <2>6. CASE RecoverTx(p)
      BY <2>6, RecoverTxKeepsFence
    <2>7. CASE Start(p) \/ LockNext(p) \/ ReserveDB(p) \/ Persist(p) \/ Drain(p)
      BY <2>7, OtherStepsKeepFence
    <2> QED
      BY <1>1, <2>1, <2>2, <2>3, <2>4, <2>5, <2>6, <2>7 DEF Step
  <1>2. CASE Tick
    BY <1>2, TickKeepsFence
  <1>3. CASE \/ Updater \/ (\E u \in Users : Credit(u)) \/ Crash \/ UNCHANGED vars
             \/ \E r \in Resources : Expire(r) \/ \E d \in {-1, 1} : LateDelta(r, d)
    BY <1>3, EnvironmentKeepsFence
  <1> QED
    BY <1>1, <1>2, <1>3 DEF Next

(* When a fence outlives two gaps, the longest mutation and the longest fill *)
(* after it, a cached token is never older than the last recovery mutation   *)
(* of the token (token_cache.go, cacheInitToken; quota_reserve.go).          *)
THEOREM TokensStayFresh ==
    ASSUME FenceTTL > 2 * MaxGap
    PROVE  Spec => []TokenSnapshotsFresh
  <1>1. Init => DeltaInv /\ FenceInv
    BY InitDeltas, InitFence
  <1>2. DeltaInv /\ FenceInv /\ [Next]_vars => DeltaInv' /\ FenceInv'
    BY NextKeepsDeltas, NextKeepsFence
  <1>3. FenceInv => TokenSnapshotsFresh
    BY DEF FenceInv
  <1> QED
    BY <1>1, <1>2, <1>3, PTL DEF Spec
=============================================================================
