-------------------------- MODULE SystemTaskProofs --------------------------
(***************************************************************************)
(* Proofs about the system task runner for any number of nodes, tasks and  *)
(* legacy rows and any lease length, with crashes and failed statements.   *)
(* The first part does not use the lease: it rests on the conditional      *)
(* updates of the task rows alone, so it holds however late a node is.     *)
(* The second part is about the lease, and needs that no pass is delayed   *)
(* by more than a lease between two of its statements.                     *)
(***************************************************************************)
EXTENDS MCSystemTask, FiniteSetTheorems, TLAPS

\* What the argument needs of the types.
RowTypes ==
  /\ status \in [Tasks -> {"none"} \cup Active \cup Terminal]
  /\ lockedBy \in [Tasks -> Runners \cup {Nobody}]
  /\ activeKey \subseteq Tasks
  /\ work \in [Runners -> [Tasks -> {"none", "running", "cancelled", "release"}]]

\* A goroutine belongs to the runner recorded in the row it works for, and that
\* row has left pending for good.
WorkIsOwned ==
  \A r \in Runners, t \in Tasks :
    work[r][t] # "none" => lockedBy[t] = r /\ status[t] \notin {"none", "pending"}

RunnerInv == RowTypes /\ WorkIsOwned /\ KeyHeldByActive

\* Every step changes the task rows in one of these ways and in no other.
Insert(t) ==
  /\ status[t] = "none" /\ activeKey = {}
  /\ status' = [status EXCEPT ![t] = "pending"] /\ activeKey' = {t}
  /\ UNCHANGED <<lockedBy, work>>

FailRunning(t) ==
  /\ status[t] = "running"
  /\ status' = [status EXCEPT ![t] = "failed"] /\ activeKey' = activeKey \ {t}
  /\ UNCHANGED <<lockedBy, work>>

Start(r, t) ==
  /\ status[t] = "pending"
  /\ status' = [status EXCEPT ![t] = "running"]
  /\ lockedBy' = [lockedBy EXCEPT ![t] = r]
  /\ \/ work' = [work EXCEPT ![r][t] = "running"]
     \/ UNCHANGED work
  /\ UNCHANGED activeKey

Finish(r, t) ==
  /\ status[t] = "running" /\ work[r][t] # "none"
  /\ \E outcome \in Terminal : status' = [status EXCEPT ![t] = outcome]
  /\ activeKey' = activeKey \ {t}
  /\ work' = [work EXCEPT ![r][t] = "release"]
  /\ UNCHANGED lockedBy

\* A step that leaves the rows alone: goroutines only wind down.
WindDown ==
  /\ UNCHANGED rows
  /\ \/ UNCHANGED work
     \/ \E r \in Runners : work' = [work EXCEPT ![r] = [t \in Tasks |-> "none"]]
     \/ \E r \in Runners, t \in Tasks :
          /\ work[r][t] # "none"
          /\ \/ work' = [work EXCEPT ![r][t] = "none"]
             \/ work' = [work EXCEPT ![r][t] = "cancelled"]

RowStep ==
  \/ \E t \in Tasks : Insert(t) \/ FailRunning(t)
  \/ \E r \in Runners, t \in Tasks : Start(r, t) \/ Finish(r, t)
  \/ WindDown

-----------------------------------------------------------------------------
\* A stale mark fails a running row or changes nothing.
LEMMA MarkRefines ==
    ASSUME RowTypes, NEW t, MarkSystemTaskLeaseExpired(t), UNCHANGED work
    PROVE  RowStep
  <1>1. CASE status[t] = "running" /\ t \in Tasks
    BY <1>1 DEF MarkSystemTaskLeaseExpired, RowStep, FailRunning
  <1>2. CASE status[t] = "running" /\ t \notin Tasks
    <2>1. status' = status /\ activeKey' = activeKey /\ lockedBy' = lockedBy
      BY <1>2, ZenonT(60) DEF MarkSystemTaskLeaseExpired, RowTypes
    <2> QED
      BY <2>1 DEF RowStep, WindDown, rows
  <1>3. CASE status[t] # "running"
    BY <1>3 DEF MarkSystemTaskLeaseExpired, RowStep, WindDown, rows
  <1> QED
    BY <1>1, <1>2, <1>3

\* The conditional update of a claim starts a pending row or changes nothing.
LEMMA StartRefines ==
    ASSUME RowTypes, NEW r \in Runners, StartTask(r) \/ StartedButUnread(r)
    PROVE  RowStep
  <1> DEFINE t == pass[r].task
  <1>0. UNCHANGED activeKey
    BY DEF StartTask, StartedButUnread
  <1>1. CASE status[t] # "pending"
    BY <1>0, <1>1 DEF StartTask, StartedButUnread, RowStep, WindDown, rows
  <1>2. CASE status[t] = "pending"
    <2>1. /\ status' = [status EXCEPT ![t] = "running"]
          /\ lockedBy' = [lockedBy EXCEPT ![t] = r]
          /\ work' = [work EXCEPT ![r][t] = "running"] \/ UNCHANGED work
      BY <1>2 DEF StartTask, StartedButUnread
    <2>2. CASE t \in Tasks
      BY <1>0, <1>2, <2>1, <2>2 DEF RowStep, Start
    <2>3. CASE t \notin Tasks
      <3>1. status' = status /\ lockedBy' = lockedBy
        BY <2>1, <2>3 DEF RowTypes
      <3>2. work' = work
        <4>1. [work EXCEPT ![r][t] = "running"] = work
          BY <2>3 DEF RowTypes
        <4> QED
          BY <2>1, <4>1
      <3> QED
        BY <1>0, <3>1, <3>2 DEF RowStep, WindDown, rows
    <2> QED
      BY <2>2, <2>3
  <1> QED
    BY <1>1, <1>2

\* Every step of the runners is a row step.
LEMMA NextRefines ==
    ASSUME RowTypes, [Next]_vars
    PROVE  RowStep
  <1>1. CASE \E t \in Tasks : CreateSystemTask(t)
    BY <1>1 DEF CreateSystemTask, RowStep, Insert
  <1>2. ASSUME NEW r \in Runners, PassStep(r) \/ StatementFails(r) \/ StartedButUnread(r) \/ Crash(r)
        PROVE  RowStep
    <2>1. CASE MarkStale(r) \/ MarkOld(r)
      <3>1. /\ MarkSystemTaskLeaseExpired(pass[r].task) \/ MarkSystemTaskLeaseExpired(pass[r].old)
            /\ UNCHANGED work
        BY <2>1 DEF MarkStale, MarkOld
      <3> QED
        BY <3>1, MarkRefines
    <2>2. CASE StartTask(r) \/ StartedButUnread(r)
      BY <2>2, StartRefines
    <2>3. CASE \/ SkipExpire(r) \/ ExpireStaleSystemTaskLocks(r) \/ DeleteStale(r)
               \/ ClaimPass(r) \/ CreateLock(r) \/ ReadLock(r) \/ TakeOverLock(r)
               \/ ReleaseClaim(r) \/ StatementFails(r)
      <3>1. UNCHANGED rows /\ UNCHANGED work
        BY <2>3 DEF SkipExpire, ExpireStaleSystemTaskLocks, DeleteStale, ClaimPass, CreateLock,
           ReadLock, TakeOverLock, ReleaseClaim, StatementFails
      <3> QED
        BY <3>1 DEF RowStep, WindDown
    <2>4. CASE Crash(r)
      BY <2>4 DEF Crash, RowStep, WindDown
    <2> QED
      BY <1>2, <2>1, <2>2, <2>3, <2>4 DEF PassStep
  <1>3. ASSUME NEW r \in Runners, NEW t \in Tasks,
               \/ RenewSystemTaskLock(r, t) \/ RenewFails(r, t) \/ UpdateSystemTaskState(r, t)
               \/ FinishSystemTask(r, t) \/ FinishRelease(r, t) \/ FinishFails(r, t)
        PROVE  RowStep
    <2>1. CASE FinishSystemTask(r, t)
      <3>1. CASE OwnsRun(r, t)
        BY <2>1, <3>1 DEF FinishSystemTask, OwnsRun, RowStep, Finish
      <3>2. CASE ~OwnsRun(r, t)
        BY <2>1, <3>2 DEF FinishSystemTask, RowStep, WindDown, rows
      <3> QED
        BY <3>1, <3>2
    <2>2. CASE RenewSystemTaskLock(r, t) \/ RenewFails(r, t) \/ UpdateSystemTaskState(r, t)
                 \/ FinishRelease(r, t) \/ FinishFails(r, t)
      BY <2>2 DEF RenewSystemTaskLock, RenewFails, UpdateSystemTaskState, FinishRelease,
         FinishFails, RowStep, WindDown
    <2> QED
      BY <1>3, <2>1, <2>2
  <1>4. CASE Tick \/ UNCHANGED vars
    BY <1>4 DEF Tick, vars, rows, RowStep, WindDown
  <1> QED
    BY <1>1, <1>2, <1>3, <1>4 DEF Next

-----------------------------------------------------------------------------
\* The initial rows satisfy the invariant.
LEMMA RunnerInit == Init => RunnerInv
  <1> SUFFICES ASSUME Init PROVE RunnerInv
    OBVIOUS
  <1>1. RowTypes
    BY DEF Init, RowTypes, Active, Terminal
  <1>2. WorkIsOwned /\ KeyHeldByActive
    BY DEF Init, WorkIsOwned, KeyHeldByActive
  <1> QED
    BY <1>1, <1>2 DEF RunnerInv

\* Every row step keeps the invariant.
LEMMA RunnerStep ==
    ASSUME RunnerInv, RowStep
    PROVE  RunnerInv'
  <1>0. RowTypes /\ WorkIsOwned /\ KeyHeldByActive
    BY DEF RunnerInv
  <1>1. ASSUME NEW t \in Tasks, Insert(t)
        PROVE  RunnerInv'
    <2>1. RowTypes'
      BY <1>0, <1>1 DEF RowTypes, Insert, Active
    <2>2. WorkIsOwned'
      BY <1>0, <1>1 DEF WorkIsOwned, RowTypes, Insert
    <2>3. KeyHeldByActive'
      BY <1>0, <1>1 DEF KeyHeldByActive, RowTypes, Insert, Active
    <2> QED
      BY <2>1, <2>2, <2>3 DEF RunnerInv
  <1>2. ASSUME NEW t \in Tasks, FailRunning(t)
        PROVE  RunnerInv'
    <2>1. RowTypes'
      BY <1>0, <1>2 DEF RowTypes, FailRunning, Terminal
    <2>2. WorkIsOwned'
      BY <1>0, <1>2 DEF WorkIsOwned, RowTypes, FailRunning
    <2>3. KeyHeldByActive'
      BY <1>0, <1>2 DEF KeyHeldByActive, RowTypes, FailRunning
    <2> QED
      BY <2>1, <2>2, <2>3 DEF RunnerInv
  <1>3. ASSUME NEW r \in Runners, NEW t \in Tasks, Start(r, t)
        PROVE  RunnerInv'
    <2>1. RowTypes'
      BY <1>0, <1>3 DEF RowTypes, Start, Active
    <2>2. WorkIsOwned'
      <3> SUFFICES ASSUME NEW q \in Runners, NEW u \in Tasks, work'[q][u] # "none"
                   PROVE  lockedBy'[u] = q /\ status'[u] \notin {"none", "pending"}
        BY DEF WorkIsOwned
      <3>1. CASE u = t
        <4>1. work[q][u] = "none"
          BY <1>0, <1>3, <3>1 DEF WorkIsOwned, Start
        <4>2. q = r
          BY <1>0, <1>3, <3>1, <4>1 DEF Start, RowTypes
        <4> QED
          BY <1>0, <1>3, <3>1, <4>2 DEF Start, RowTypes
      <3>2. CASE u # t
        BY <1>0, <1>3, <3>2 DEF Start, RowTypes, WorkIsOwned
      <3> QED
        BY <3>1, <3>2
    <2>3. KeyHeldByActive'
      BY <1>0, <1>3 DEF KeyHeldByActive, RowTypes, Start, Active
    <2> QED
      BY <2>1, <2>2, <2>3 DEF RunnerInv
  <1>4. ASSUME NEW r \in Runners, NEW t \in Tasks, Finish(r, t)
        PROVE  RunnerInv'
    <2>1. RowTypes'
      BY <1>0, <1>4 DEF RowTypes, Finish, Terminal
    <2>2. WorkIsOwned'
      BY <1>0, <1>4 DEF WorkIsOwned, RowTypes, Finish, Terminal
    <2>3. KeyHeldByActive'
      BY <1>0, <1>4 DEF KeyHeldByActive, RowTypes, Finish
    <2> QED
      BY <2>1, <2>2, <2>3 DEF RunnerInv
  <1>5. CASE WindDown
    <2>1. RowTypes'
      BY <1>0, <1>5 DEF RowTypes, WindDown, rows
    <2>2. WorkIsOwned'
      BY <1>0, <1>5 DEF WorkIsOwned, RowTypes, WindDown, rows
    <2>3. KeyHeldByActive'
      BY <1>0, <1>5 DEF KeyHeldByActive, WindDown, rows
    <2> QED
      BY <2>1, <2>2, <2>3 DEF RunnerInv
  <1> QED
    BY <1>1, <1>2, <1>3, <1>4, <1>5 DEF RowStep

\* The invariant holds in every reachable state.
LEMMA RunnerInvariant == Spec => []RunnerInv
  <1>1. RunnerInv /\ [Next]_vars => RunnerInv'
    BY NextRefines, RunnerStep DEF RunnerInv
  <1> QED
    BY RunnerInit, <1>1, PTL DEF Spec

\* A task is executed by at most one runner, however late any of them is: the
\* pending -> running update, not the lease, is what decides a claim.
THEOREM ExecutedOnce == Spec => []OneRunnerPerTask
  <1>1. RunnerInv => OneRunnerPerTask
    BY DEF RunnerInv, WorkIsOwned, OneRunnerPerTask
  <1> QED
    BY RunnerInvariant, <1>1, PTL

\* A type is never blocked by a row that has ended.
THEOREM KeyIsFreed == Spec => []KeyHeldByActive
  <1>1. RunnerInv => KeyHeldByActive
    BY DEF RunnerInv
  <1> QED
    BY RunnerInvariant, <1>1, PTL

\* The outcome of a task is never rewritten by a late finish or a stale lease.
THEOREM OutcomeFinal == Spec => OutcomeIsFinal
  <1>1. RunnerInv /\ [Next]_vars
          => [\A t \in Tasks : status[t] \in Terminal => status'[t] = status[t]]_vars
    <2> SUFFICES ASSUME RowTypes, RowStep, NEW u \in Tasks, status[u] \in Terminal
                 PROVE  status'[u] = status[u]
      BY NextRefines DEF RunnerInv
    <2>1. ASSUME NEW t \in Tasks, Insert(t) \/ FailRunning(t)
          PROVE  status'[u] = status[u]
      BY <2>1 DEF Insert, FailRunning, RowTypes, Terminal
    <2>2. ASSUME NEW r \in Runners, NEW t \in Tasks, Start(r, t) \/ Finish(r, t)
          PROVE  status'[u] = status[u]
      BY <2>2 DEF Start, Finish, RowTypes, Terminal
    <2>3. CASE WindDown
      BY <2>3 DEF WindDown, rows
    <2> QED
      BY <2>1, <2>2, <2>3 DEF RowStep
  <1> QED
    BY RunnerInvariant, <1>1, PTL DEF Spec, OutcomeIsFinal

-----------------------------------------------------------------------------
(* The lease.  What follows needs that no pass is delayed by more than a   *)
(* lease: then nobody finds a lock expired that was taken after the pass   *)
(* began.                                                                  *)

Claiming == {"create", "read", "takeover", "markOld", "start", "release"}

\* The lock row is that of the run recorded in its task.
Runs(l) == status[l.task] = "running" /\ lockedBy[l.task] = l.by

Passes == [pc : Timed \cup {"expire", "claim"}, age : 0..MaxStall, task : 0..NTasks, old : 0..NTasks,
           by : Runners \cup {Nobody}]

LeaseTypes ==
  /\ lock \subseteq Leases /\ (\A l, m \in lock : l = m) /\ alive \subseteq Runners
  /\ pass \in [Runners -> Passes]

\* What a pass knows.  A claimed task is not this runner's; who starts it has the
\* lock; a lock that had expired when the claim began belongs to no run, unless
\* it is one of another task (only without keys); a lock that is about to be
\* deleted belongs to no run.
PassHolds(r, keyed) ==
  LET q == pass[r] IN
  /\ q.pc \in Claiming => q.task \in Tasks /\ status[q.task] # "none" /\ lockedBy[q.task] # r
  /\ q.pc \in {"markOld", "start"} => \E l \in lock : l.task = q.task /\ l.by = r /\ l.left >= TTL - q.age
  /\ q.pc \in {"create", "read", "takeover"} =>
       \A l \in lock : Expired(l, q.age) => /\ Runs(l) => ~keyed /\ l.task # q.task
                                            /\ q.pc = "takeover" => l.task = q.old
  /\ q.pc \in {"mark", "delete"} => q.task \in Tasks
  /\ q.pc = "delete" => \A l \in lock : l.task = q.task /\ l.by = q.by /\ Expired(l, q.age) => ~Runs(l)

\* A running row is found by its lock, or by who took the lock over.
RunFound(t, keyed) ==
  \/ \E l \in lock : l.task = t /\ l.by = lockedBy[t]
  \/ ~keyed /\ \E r \in alive : pass[r].pc = "markOld" /\ pass[r].old = t

\* With keys one row at a time is active.
KeysHold(keyed) == keyed => /\ \A t \in Tasks : status[t] \in Active => t \in activeKey
                            /\ \A t, u \in activeKey : t = u

RowsHold(keyed) ==
  /\ KeysHold(keyed)
  /\ \A t \in Tasks : status[t] \in {"none", "pending"} => lockedBy[t] = Nobody
  /\ \A r \in Runners, t \in Tasks : work[r][t] = "release" => status[t] \in Terminal

LeaseInv(keyed) ==
  /\ LeaseTypes /\ RowsHold(keyed)
  /\ \A r \in Runners : PassHolds(r, keyed)
  /\ \A t \in Tasks : status[t] = "running" => RunFound(t, keyed)

LEMMA MaxOfTwo ==
    ASSUME NEW a \in Int, NEW b \in Int
    PROVE  Max({a, b}) = IF a >= b THEN a ELSE b
  <1>1. PICK m : m = IF a >= b THEN a ELSE b
    OBVIOUS
  <1>2. m \in {a, b} /\ \A y \in {a, b} : m >= y
    BY <1>1
  <1>3. \A x \in {a, b} : (\A y \in {a, b} : x >= y) => x = m
    BY <1>2
  <1>4. Max({a, b}) = m
    BY <1>2, <1>3 DEF Max
  <1> QED
    BY <1>1, <1>4

\* A lease that a claim of age n writes has not run out.
LEMMA FreshLease ==
    ASSUME MaxStall <= TTL, NEW r \in Runners, NEW t \in Tasks, NEW n \in 0..MaxStall
    PROVE  /\ LeaseOf(r, t, n) \in Leases /\ LeaseOf(r, t, n).task = t /\ LeaseOf(r, t, n).by = r
           /\ LeaseOf(r, t, n).left = TTL - n /\ TTL - n >= 0
  <1>1. TTL - n \in Int /\ -MaxStall - 1 \in Int /\ TTL - n >= 0 /\ TTL - n >= -MaxStall - 1 /\ TTL - n <= TTL
    BY SystemTaskAssumption
  <1>2. Max({TTL - n, -MaxStall - 1}) = TTL - n
    BY <1>1, MaxOfTwo
  <1> QED
    BY <1>1, <1>2 DEF LeaseOf, Leases

\* What a runner that does not move knows stays true when no expired lock comes
\* up or becomes the lock of a run, and its own lock is not taken away.
LEMMA OtherPass ==
    ASSUME MaxStall <= TTL, NEW k, NEW b \in Runners, LeaseTypes, LeaseTypes', PassHolds(b, k), pass'[b] = pass[b],
           \A t \in Tasks : status[t] # "none" => status'[t] # "none",
           \A t \in Tasks : lockedBy'[t] = lockedBy[t] \/ lockedBy'[t] # b,
           \A l \in lock' : \A n \in 0..MaxStall : Expired(l, n) => l \in lock /\ (Runs(l)' => Runs(l)),
           \A l \in lock : (l.by = b /\ l.task = pass[b].task /\ l.left >= 0 /\ pass[b].pc \in {"markOld", "start"})
             => \E m \in lock' : m.task = l.task /\ m.by = l.by /\ m.left >= l.left
    PROVE  PassHolds(b, k)'
  <1>0. PICK q : q = pass[b]
    OBVIOUS
  <1>1. q.age \in 0..MaxStall /\ q = pass'[b]
    BY <1>0 DEF LeaseTypes, Passes
  <1>2. q.pc \in Claiming => q.task \in Tasks /\ status'[q.task] # "none" /\ lockedBy'[q.task] # b
    BY <1>0 DEF PassHolds
  <1>3. q.pc \in {"markOld", "start"} => \E l \in lock' : l.task = q.task /\ l.by = b /\ l.left >= TTL - q.age
    <2> SUFFICES ASSUME q.pc \in {"markOld", "start"} PROVE \E l \in lock' : l.task = q.task /\ l.by = b /\ l.left >= TTL - q.age
      OBVIOUS
    <2>1. PICK l \in lock : l.task = q.task /\ l.by = b /\ l.left >= TTL - q.age
      BY <1>0 DEF PassHolds
    <2>2. l.left \in Int /\ l.left >= 0
      BY <1>1, <2>1, SystemTaskAssumption DEF LeaseTypes, Leases
    <2>3. PICK m \in lock' : m.task = l.task /\ m.by = l.by /\ m.left >= l.left
      BY <1>0, <2>1, <2>2
    <2>4. m.left \in Int
      BY <2>3, SystemTaskAssumption DEF LeaseTypes, Leases
    <2>5. m.left >= TTL - q.age
      BY <1>1, <2>1, <2>2, <2>3, <2>4, SystemTaskAssumption
    <2> QED
      BY <2>1, <2>3, <2>5
  <1>4. q.pc \in {"create", "read", "takeover"} =>
           \A l \in lock' : Expired(l, q.age) => /\ Runs(l)' => ~k /\ l.task # q.task
                                                 /\ q.pc = "takeover" => l.task = q.old
    BY <1>0, <1>1 DEF PassHolds
  <1>5. q.pc = "delete" => \A l \in lock' : l.task = q.task /\ l.by = q.by /\ Expired(l, q.age) => ~Runs(l)'
    BY <1>0, <1>1 DEF PassHolds
  <1>6. q.pc \in {"mark", "delete"} => q.task \in Tasks
    BY <1>0 DEF PassHolds
  <1> QED
    BY <1>1, <1>2, <1>3, <1>4, <1>5, <1>6 DEF PassHolds

\* The rows alone.
LEMMA RowsStep ==
    ASSUME NEW k, RunnerInv, RowStep, RowsHold(k)
    PROVE  RowsHold(k)'
  <1>0. /\ RowTypes /\ WorkIsOwned /\ KeyHeldByActive /\ KeysHold(k)
        /\ \A t \in Tasks : status[t] \in {"none", "pending"} => lockedBy[t] = Nobody
        /\ \A r \in Runners, t \in Tasks : work[r][t] = "release" => status[t] \in Terminal
    BY DEF RunnerInv, RowsHold
  <1>1. ASSUME NEW t \in Tasks, Insert(t) PROVE RowsHold(k)'
    <2>1. KeysHold(k)'
      BY <1>0, <1>1 DEF KeysHold, RowTypes, Insert, Active
    <2> QED
      BY <1>0, <1>1, <2>1 DEF RowsHold, RowTypes, Insert, Terminal
  <1>2. ASSUME NEW t \in Tasks, FailRunning(t) PROVE RowsHold(k)'
    <2>1. KeysHold(k)'
      BY <1>0, <1>2 DEF KeysHold, RowTypes, FailRunning, Active
    <2> QED
      BY <1>0, <1>2, <2>1 DEF RowsHold, RowTypes, FailRunning, Terminal
  <1>3. ASSUME NEW r \in Runners, NEW t \in Tasks, Start(r, t) PROVE RowsHold(k)'
    <2>1. KeysHold(k)'
      BY <1>0, <1>3 DEF KeysHold, RowTypes, Start, Active
    <2>2. \A u \in Tasks : status'[u] \in {"none", "pending"} => lockedBy'[u] = Nobody
      BY <1>0, <1>3 DEF RowTypes, Start
    <2>3. ASSUME NEW q \in Runners, NEW u \in Tasks, work'[q][u] = "release" PROVE status'[u] \in Terminal
      BY <1>0, <1>3, <2>3 DEF RowTypes, Start, Terminal
    <2> QED
      BY <2>1, <2>2, <2>3 DEF RowsHold
  <1>4. ASSUME NEW r \in Runners, NEW t \in Tasks, Finish(r, t) PROVE RowsHold(k)'
    <2>1. KeysHold(k)'
      BY <1>0, <1>4 DEF KeysHold, RowTypes, Finish, Active, Terminal
    <2>2. \A u \in Tasks : status'[u] \in {"none", "pending"} => lockedBy'[u] = Nobody
      BY <1>0, <1>4 DEF RowTypes, Finish, Terminal
    <2>3. ASSUME NEW q \in Runners, NEW u \in Tasks, work'[q][u] = "release" PROVE status'[u] \in Terminal
      BY <1>0, <1>4, <2>3 DEF RowTypes, Finish, Terminal
    <2> QED
      BY <2>1, <2>2, <2>3 DEF RowsHold
  <1>5. CASE WindDown
    <2>1. KeysHold(k)'
      BY <1>0, <1>5 DEF KeysHold, WindDown, rows
    <2>2. ASSUME NEW q \in Runners, NEW u \in Tasks, work'[q][u] = "release" PROVE status'[u] \in Terminal
      BY <1>0, <1>5, <2>2 DEF RowTypes, WindDown, rows
    <2> QED
      BY <1>0, <1>5, <2>1, <2>2 DEF RowsHold, WindDown, rows
  <1> QED
    BY <1>1, <1>2, <1>3, <1>4, <1>5 DEF RowStep

\* A step of r that takes no lock of another runner that is good.
LEMMA ActorStep ==
    ASSUME MaxStall <= TTL, NEW k, LeaseInv(k), LeaseTypes', RowsHold(k)', NEW r \in Runners,
           \A b \in Runners \ {r} : pass'[b] = pass[b],
           \A t \in Tasks : status[t] # "none" => status'[t] # "none",
           \A t \in Tasks : lockedBy'[t] = lockedBy[t] \/ lockedBy'[t] = r,
           \A l \in lock' : \A n \in 0..MaxStall : Expired(l, n) => l \in lock /\ (Runs(l)' => Runs(l)),
           \A l \in lock : l.left >= 0 /\ l.by # r => \E m \in lock' : m.task = l.task /\ m.by = l.by /\ m.left >= l.left,
           PassHolds(r, k)',
           \A t \in Tasks : status'[t] = "running" => RunFound(t, k)'
    PROVE  LeaseInv(k)'
  <1>1. ASSUME NEW b \in Runners \ {r} PROVE PassHolds(b, k)'
    <2>1. LeaseTypes /\ PassHolds(b, k) /\ pass'[b] = pass[b]
      BY DEF LeaseInv
    <2>2. \A t \in Tasks : lockedBy'[t] = lockedBy[t] \/ lockedBy'[t] # b
      OBVIOUS
    <2>3. \A l \in lock : (l.by = b /\ l.task = pass[b].task /\ l.left >= 0 /\ pass[b].pc \in {"markOld", "start"})
             => \E m \in lock' : m.task = l.task /\ m.by = l.by /\ m.left >= l.left
      OBVIOUS
    <2> QED
      BY <2>1, <2>2, <2>3, OtherPass
  <1>2. \A b \in Runners : PassHolds(b, k)'
    BY <1>1
  <1> QED
    BY <1>2 DEF LeaseInv

\* A step that leaves the lock and the passes alone and starts nothing.
LEMMA RowsOnly ==
    ASSUME MaxStall <= TTL, NEW k, LeaseInv(k), RowsHold(k)', UNCHANGED <<lock, pass, alive, lockedBy>>,
           \A t \in Tasks : status[t] # "none" => status'[t] # "none",
           \A t \in Tasks : status'[t] = "running" => status[t] = "running"
    PROVE  LeaseInv(k)'
  <1>1. LeaseTypes /\ LeaseTypes' /\ \A l \in lock : l.task \in Tasks
    BY DEF LeaseInv, LeaseTypes, Leases
  <1>2. \A l \in lock' : \A n \in 0..MaxStall : Expired(l, n) => l \in lock /\ (Runs(l)' => Runs(l))
    BY <1>1 DEF Runs
  <1>3. ASSUME NEW b \in Runners PROVE PassHolds(b, k)'
    <2>1. PassHolds(b, k) /\ pass'[b] = pass[b]
      BY DEF LeaseInv
    <2>2. \A l \in lock : (l.by = b /\ l.task = pass[b].task /\ l.left >= 0 /\ pass[b].pc \in {"markOld", "start"})
             => \E m \in lock' : m.task = l.task /\ m.by = l.by /\ m.left >= l.left
      <3>1. ASSUME NEW l \in lock PROVE l.left >= l.left
        BY SystemTaskAssumption, <1>1 DEF LeaseTypes, Leases
      <3> QED
        BY <3>1
    <2> QED
      BY <1>1, <1>2, <2>1, <2>2, OtherPass
  <1>4. \A t \in Tasks : status'[t] = "running" => RunFound(t, k)'
    BY DEF LeaseInv, RunFound
  <1> QED
    BY <1>1, <1>3, <1>4 DEF LeaseInv

\* A step of the pass that reads only.
LEMMA ReadingStep ==
    ASSUME MaxStall <= TTL, NEW k, LeaseInv(k), RowsHold(k)', UNCHANGED <<status, lockedBy, lock, alive>>, NEW r \in Runners,
           LeaseTypes', \A b \in Runners \ {r} : pass'[b] = pass[b], PassHolds(r, k)', k \/ pass[r].pc # "markOld"
    PROVE  LeaseInv(k)'
  <1>1. LeaseTypes /\ \A l \in lock : l.left \in Int
    BY SystemTaskAssumption DEF LeaseInv, LeaseTypes, Leases
  <1>2. \A l \in lock' : \A n \in 0..MaxStall : Expired(l, n) => l \in lock /\ (Runs(l)' => Runs(l))
    BY DEF Runs
  <1>3. \A l \in lock : l.left >= 0 /\ l.by # r => \E m \in lock' : m.task = l.task /\ m.by = l.by /\ m.left >= l.left
    BY <1>1
  <1>4. ASSUME NEW t \in Tasks, status'[t] = "running" PROVE RunFound(t, k)'
    <2>1. RunFound(t, k)
      BY <1>4 DEF LeaseInv
    <2>2. CASE \E l \in lock : l.task = t /\ l.by = lockedBy[t]
      BY <2>2 DEF RunFound
    <2>3. CASE ~k /\ \E q \in alive : pass[q].pc = "markOld" /\ pass[q].old = t
      <3>1. PICK q \in alive : pass[q].pc = "markOld" /\ pass[q].old = t
        BY <2>3
      <3>2. q # r
        BY <2>3, <3>1
      <3>3. pass'[q] = pass[q]
        <4>1. q \in Runners
          BY <1>1 DEF LeaseTypes
        <4> QED
          BY <3>2, <4>1
      <3> QED
        BY <2>3, <3>1, <3>3 DEF RunFound
    <2> QED
      BY <2>1, <2>2, <2>3 DEF RunFound
  <1> QED
    BY <1>1, <1>2, <1>3, <1>4, ActorStep

\* The type of the pass of a runner that moves on.
LEMMA PassType ==
    ASSUME LeaseTypes, NEW r \in Runners,
           NEW q \in Passes,
           pass' = [pass EXCEPT ![r] = q], UNCHANGED alive, lock' \subseteq Leases, \A l, m \in lock' : l = m
    PROVE  LeaseTypes' /\ pass'[r] = q /\ \A b \in Runners \ {r} : pass'[b] = pass[b]
  BY DEF LeaseTypes

LEMMA IdleType == Idle \in Passes
  BY SystemTaskAssumption DEF Idle, Timed, Passes

\* The steps of the pass that change neither the rows nor the lock.
LEMMA ReadingSteps ==
    ASSUME MaxStall <= TTL, NEW k, LeaseInv(k), RowsHold(k)', NEW r \in Runners,
           SkipExpire(r) \/ ExpireStaleSystemTaskLocks(r) \/ ClaimPass(r) \/ ReadLock(r) \/ StatementFails(r),
           k \/ ~StatementFails(r)
    PROVE  LeaseInv(k)'
  <1>0. LeaseTypes /\ PassHolds(r, k) /\ RowsHold(k)
    BY DEF LeaseInv
  <1>1. UNCHANGED <<status, lockedBy, lock, alive>>
    BY DEF SkipExpire, ExpireStaleSystemTaskLocks, ClaimPass, ReadLock, StatementFails, rows
  <1>2. PICK p : p = pass[r]
    OBVIOUS
  <1>3. /\ p \in Passes
        /\ \A l \in lock : l.task \in Tasks /\ l.by \in Runners
    BY <1>0, <1>2 DEF LeaseTypes, Leases
  <1>4. Tasks \subseteq 0..NTasks
    BY SystemTaskAssumption DEF Tasks
  <1>5. ASSUME NEW q \in Passes, Goto(r, q), k \/ p.pc # "markOld",
               q.pc \in Claiming => q.task \in Tasks /\ status[q.task] # "none" /\ lockedBy[q.task] # r,
               q.pc \notin {"markOld", "start", "delete"},
               q.pc = "mark" => q.task \in Tasks,
               q.pc \in {"create", "read", "takeover"} =>
                  \A l \in lock : Expired(l, q.age) => /\ Runs(l) => ~k /\ l.task # q.task
                                                       /\ q.pc = "takeover" => l.task = q.old
        PROVE  LeaseInv(k)'
    <2>1. LeaseTypes' /\ pass'[r] = q /\ \A b \in Runners \ {r} : pass'[b] = pass[b]
      BY <1>0, <1>1, <1>5, PassType DEF Goto, LeaseTypes
    <2>2. PassHolds(r, k)'
      BY <1>1, <1>5, <2>1 DEF PassHolds, Runs
    <2> QED
      BY <1>1, <1>2, <1>5, <2>1, <2>2, ReadingStep
  <1>6. ASSUME NEW q \in Passes, Goto(r, q), q.pc \in {"expire", "claim"}, k \/ p.pc # "markOld"
        PROVE  LeaseInv(k)'
    BY <1>5, <1>6 DEF Claiming
  <1>7. Idle.pc = "expire"
    BY DEF Idle
  <1>8. CASE SkipExpire(r)
    <2>1. Goto(r, [p EXCEPT !.pc = "claim"]) /\ p.pc = "expire"
      BY <1>2, <1>8 DEF SkipExpire, Proceed, At
    <2>2. PICK q : q = [p EXCEPT !.pc = "claim"]
      OBVIOUS
    <2> QED
      BY <1>3, <1>6, <2>1, <2>2 DEF Passes
  <1>9. CASE ExpireStaleSystemTaskLocks(r)
    <2>1. PICK l \in lock : Goto(r, [Idle EXCEPT !.pc = "mark", !.task = l.task, !.by = l.by])
      BY <1>9 DEF ExpireStaleSystemTaskLocks
    <2>2. PICK q : q = [Idle EXCEPT !.pc = "mark", !.task = l.task, !.by = l.by]
      OBVIOUS
    <2>3. p.pc = "expire"
      BY <1>2, <1>9 DEF ExpireStaleSystemTaskLocks, At
    <2>4. q \in Passes /\ q.pc = "mark" /\ q.task \in Tasks
      BY <1>3, <1>4, <2>2, IdleType DEF Idle, Timed, Passes
    <2> QED
      BY <1>5, <2>1, <2>2, <2>3, <2>4 DEF Claiming
  <1>10. CASE ClaimPass(r)
    <2>0. p.pc = "claim"
      BY <1>2, <1>10 DEF ClaimPass, At
    <2>1. CASE Goto(r, Idle)
      <3>1. PICK q : q = Idle
        OBVIOUS
      <3> QED
        BY <1>6, <1>7, <2>0, <2>1, <3>1, IdleType
    <2>2. CASE \E t \in Pending : Goto(r, [Idle EXCEPT !.pc = "create", !.task = t])
      <3>1. PICK t \in Pending : Goto(r, [Idle EXCEPT !.pc = "create", !.task = t])
        BY <2>2
      <3>2. PICK q : q = [Idle EXCEPT !.pc = "create", !.task = t]
        OBVIOUS
      <3>3. t \in Tasks /\ status[t] = "pending" /\ lockedBy[t] # r
        BY <1>0, <3>1, SystemTaskAssumption DEF Pending, RowsHold
      <3>4. q \in Passes /\ q.pc = "create" /\ q.task = t
        BY <1>4, <3>2, <3>3, IdleType DEF Idle, Timed, Passes
      <3>5. \A l \in lock : Runs(l) => ~k /\ l.task # t
        <4>1. ASSUME NEW l \in lock, Runs(l) PROVE ~k /\ l.task # t
          <5>1. l.task # t /\ status[l.task] \in Active /\ status[t] \in Active /\ l.task \in Tasks
            BY <1>3, <3>3, <4>1 DEF Runs, Active
          <5>2. ~k
            BY <1>0, <3>3, <5>1 DEF RowsHold, KeysHold
          <5> QED
            BY <5>1, <5>2
        <4> QED
          BY <4>1
      <3> QED
        BY <1>5, <2>0, <3>1, <3>2, <3>3, <3>4, <3>5
    <2> QED
      BY <1>10, <2>1, <2>2 DEF ClaimPass
  <1>11. CASE ReadLock(r)
    <2>0. p.pc = "read"
      BY <1>2, <1>11 DEF ReadLock, At
    <2>1. CASE ~\E l \in lock : Expired(l, p.age)
      <3>1. PICK q : q = Idle
        OBVIOUS
      <3>2. Goto(r, q)
        BY <1>2, <1>11, <2>1, <3>1 DEF ReadLock
      <3> QED
        BY <1>6, <1>7, <2>0, <3>1, <3>2, IdleType
    <2>2. CASE \E l \in lock : Expired(l, p.age)
      <3>1. PICK m \in lock : m = CHOOSE l \in lock : TRUE
        BY <2>2
      <3>2. PICK q : q = [p EXCEPT !.pc = "takeover", !.old = m.task]
        OBVIOUS
      <3>3. Goto(r, q)
        BY <1>2, <1>11, <2>2, <3>1, <3>2 DEF ReadLock
      <3>4. q \in Passes /\ q.pc = "takeover" /\ q.task = p.task /\ q.age = p.age /\ q.old = m.task
        BY <1>3, <1>4, <3>1, <3>2 DEF Timed, Passes
      <3>5. \A l \in lock : l.task = m.task
        BY <1>0, <3>1 DEF LeaseTypes
      <3>6. p.task \in Tasks /\ status[p.task] # "none" /\ lockedBy[p.task] # r
            /\ \A l \in lock : Expired(l, p.age) => (Runs(l) => ~k /\ l.task # p.task)
        BY <1>0, <1>2, <2>0 DEF PassHolds, Claiming
      <3> QED
        BY <1>5, <2>0, <3>3, <3>4, <3>5, <3>6
    <2> QED
      BY <2>1, <2>2
  <1>12. CASE StatementFails(r)
    <2>0. k /\ p.pc \in Timed
      BY <1>2, <1>12 DEF StatementFails
    <2>1. CASE p.pc \in {"mark", "delete"}
      <3>1. PICK q : q = [Idle EXCEPT !.pc = "claim"]
        OBVIOUS
      <3>2. Goto(r, q)
        BY <1>2, <1>12, <2>1, <3>1 DEF StatementFails
      <3>3. q \in Passes /\ q.pc = "claim"
        BY <3>1, IdleType DEF Idle, Passes
      <3> QED
        BY <1>6, <2>0, <3>2, <3>3
    <2>2. CASE p.pc \in {"markOld", "start"}
      <3>1. PICK q : q = [p EXCEPT !.pc = "release"]
        OBVIOUS
      <3>2. Goto(r, q)
        BY <1>2, <1>12, <2>2, <3>1 DEF StatementFails
      <3>3. q \in Passes /\ q.pc = "release" /\ q.task = p.task
        BY <1>3, <3>1 DEF Timed, Passes
      <3>4. p.task \in Tasks /\ status[p.task] # "none" /\ lockedBy[p.task] # r
        BY <1>0, <1>2, <2>2 DEF PassHolds, Claiming
      <3> QED
        BY <1>5, <2>0, <3>2, <3>3, <3>4
    <2>3. CASE p.pc = "create"
      <3>1. PICK q : q = [p EXCEPT !.pc = "read"]
        OBVIOUS
      <3>2. Goto(r, q)
        BY <1>2, <1>12, <2>3, <3>1 DEF StatementFails
      <3>3. q \in Passes /\ q.pc = "read" /\ q.task = p.task /\ q.age = p.age
        BY <1>3, <3>1 DEF Timed, Passes
      <3>4. p.task \in Tasks /\ status[p.task] # "none" /\ lockedBy[p.task] # r
            /\ \A l \in lock : Expired(l, p.age) => (Runs(l) => ~k /\ l.task # p.task)
        BY <1>0, <1>2, <2>3 DEF PassHolds, Claiming
      <3> QED
        BY <1>5, <2>0, <3>2, <3>3, <3>4
    <2>4. CASE p.pc \in {"read", "takeover", "release"}
      <3>1. PICK q : q = Idle
        OBVIOUS
      <3>2. Goto(r, q)
        BY <1>2, <1>12, <2>4, <3>1 DEF StatementFails
      <3> QED
        BY <1>6, <1>7, <2>0, <3>1, <3>2, IdleType
    <2> QED
      BY <2>0, <2>1, <2>2, <2>3, <2>4 DEF Timed
  <1> QED
    BY <1>8, <1>9, <1>10, <1>11, <1>12

\* A row that is failed is found no more; the rows only lose runs.
LEMMA MarkSteps ==
    ASSUME MaxStall <= TTL, NEW k, LeaseInv(k), RowTypes, RowsHold(k)', NEW r \in Runners, MarkStale(r) \/ MarkOld(r)
    PROVE  LeaseInv(k)'
  <1>0. LeaseTypes /\ PassHolds(r, k)
    BY DEF LeaseInv
  <1>1. UNCHANGED <<lockedBy, lock, alive>>
    BY DEF MarkStale, MarkOld, MarkSystemTaskLeaseExpired
  <1>2. PICK p \in Passes : p = pass[r]
    BY <1>0 DEF LeaseTypes
  <1>3. PICK u : u = IF p.pc = "mark" THEN p.task ELSE p.old
    OBVIOUS
  <1>4. MarkSystemTaskLeaseExpired(u)
    BY <1>2, <1>3 DEF MarkStale, MarkOld, At
  <1>5. /\ status' \in [Tasks -> {"none"} \cup Active \cup Terminal]
        /\ \A t \in Tasks : status[t] # "none" => status'[t] # "none"
        /\ \A t \in Tasks : status'[t] = "running" => status[t] = "running" /\ t # u
    BY <1>4 DEF MarkSystemTaskLeaseExpired, RowTypes, Active, Terminal
  <1>6. PICK q : q = [p EXCEPT !.pc = IF p.pc = "mark" THEN "delete" ELSE "start"]
    OBVIOUS
  <1>7. Goto(r, q) /\ p.pc \in {"mark", "markOld"}
    BY <1>2, <1>6 DEF MarkStale, MarkOld, At, Proceed
  <1>8. /\ q \in Passes /\ q.pc = (IF p.pc = "mark" THEN "delete" ELSE "start") /\ q.task = p.task /\ q.age = p.age
        /\ q.by = p.by
    BY <1>2, <1>6 DEF Passes, Timed
  <1>9. LeaseTypes' /\ pass'[r] = q /\ \A b \in Runners \ {r} : pass'[b] = pass[b]
    BY <1>0, <1>1, <1>7, <1>8, PassType DEF Goto, LeaseTypes
  <1>10. \A l \in lock : l.task \in Tasks /\ l.left \in Int /\ (Runs(l)' => Runs(l) /\ l.task # u)
    BY <1>0, <1>1, <1>5, SystemTaskAssumption DEF LeaseTypes, Leases, Runs
  <1>11. PassHolds(r, k)'
    <2>1. CASE p.pc = "mark"
      <3>1. p.task \in Tasks /\ \A l \in lock : l.task = p.task => ~Runs(l)'
        BY <1>0, <1>2, <1>3, <1>10, <2>1 DEF PassHolds
      <3> QED
        BY <1>1, <1>8, <1>9, <2>1, <3>1 DEF PassHolds, Claiming
    <2>2. CASE p.pc = "markOld"
      <3>1. /\ p.task \in Tasks /\ status[p.task] # "none" /\ lockedBy[p.task] # r
            /\ \E l \in lock : l.task = p.task /\ l.by = r /\ l.left >= TTL - p.age
        BY <1>0, <1>2, <2>2 DEF PassHolds, Claiming
      <3> QED
        BY <1>1, <1>5, <1>8, <1>9, <2>2, <3>1 DEF PassHolds, Claiming
    <2> QED
      BY <1>7, <2>1, <2>2
  <1>12. ASSUME NEW t \in Tasks, status'[t] = "running" PROVE RunFound(t, k)'
    <2>1. status[t] = "running" /\ t # u /\ RunFound(t, k)
      BY <1>5, <1>12 DEF LeaseInv
    <2>2. CASE \E l \in lock : l.task = t /\ l.by = lockedBy[t]
      BY <1>1, <2>2 DEF RunFound
    <2>3. CASE ~k /\ \E b \in alive : pass[b].pc = "markOld" /\ pass[b].old = t
      <3>1. PICK b \in alive : pass[b].pc = "markOld" /\ pass[b].old = t
        BY <2>3
      <3>2. b # r
        BY <1>2, <1>3, <2>1, <3>1
      <3>3. pass'[b] = pass[b]
        BY <1>0, <1>9, <3>2 DEF LeaseTypes
      <3> QED
        BY <1>1, <2>3, <3>1, <3>3 DEF RunFound
    <2> QED
      BY <2>1, <2>2, <2>3 DEF RunFound
  <1>13. \A l \in lock' : \A n \in 0..MaxStall : Expired(l, n) => l \in lock /\ (Runs(l)' => Runs(l))
    BY <1>1, <1>10
  <1>14. \A l \in lock : l.left >= 0 /\ l.by # r => \E m \in lock' : m.task = l.task /\ m.by = l.by /\ m.left >= l.left
    BY <1>1, <1>10
  <1> QED
    BY <1>1, <1>5, <1>9, <1>11, <1>12, <1>13, <1>14, ActorStep

\* A lock is deleted that has expired, or that its runner gives back.
LEMMA DropSteps ==
    ASSUME MaxStall <= TTL, NEW k, LeaseInv(k), RowsHold(k)', NEW r \in Runners, DeleteStale(r) \/ ReleaseClaim(r)
    PROVE  LeaseInv(k)'
  <1>0. LeaseTypes /\ PassHolds(r, k)
    BY DEF LeaseInv
  <1>1. UNCHANGED <<status, lockedBy, alive>> /\ lock' \subseteq lock
    BY DEF DeleteStale, ReleaseClaim, ReleaseSystemTaskLock, rows
  <1>2. PICK p \in Passes : p = pass[r]
    BY <1>0 DEF LeaseTypes
  <1>3. p.pc \in {"delete", "release"} /\ p.age \in 0..MaxStall
    BY <1>2 DEF DeleteStale, ReleaseClaim, At, Passes
  <1>4. PICK q \in Passes : Goto(r, q) /\ q.pc \in {"expire", "claim"}
    <2>1. Idle \in Passes /\ Idle.pc = "expire"
      BY IdleType DEF Idle
    <2>2. [Idle EXCEPT !.pc = "claim"] \in Passes /\ [Idle EXCEPT !.pc = "claim"].pc = "claim"
      BY IdleType DEF Idle, Passes
    <2> QED
      BY <2>1, <2>2 DEF DeleteStale, ReleaseClaim
  <1>5. LeaseTypes' /\ pass'[r] = q /\ \A b \in Runners \ {r} : pass'[b] = pass[b]
    BY <1>0, <1>1, <1>4, PassType DEF Goto, LeaseTypes
  <1>6. PassHolds(r, k)'
    BY <1>4, <1>5 DEF PassHolds, Claiming
  <1>7. \A l \in lock : l.task \in Tasks /\ l.left \in Int
    BY <1>0, SystemTaskAssumption DEF LeaseTypes, Leases
  <1>8. ASSUME NEW l \in lock, l \notin lock' PROVE ~Runs(l) /\ (l.left < 0 \/ l.by = r)
    <2>1. CASE DeleteStale(r)
      <3>1. p.pc = "delete" /\ l.task = p.task /\ l.by = p.by /\ Expired(l, p.age)
        BY <1>2, <1>8, <2>1 DEF DeleteStale, At
      <3> QED
        BY <1>0, <1>2, <1>3, <1>7, <3>1, SystemTaskAssumption DEF PassHolds, Expired
    <2>2. CASE ReleaseClaim(r)
      <3>1. p.pc = "release" /\ l.task = p.task /\ l.by = r
        BY <1>2, <1>8, <2>2 DEF ReleaseClaim, ReleaseSystemTaskLock, At
      <3> QED
        BY <1>0, <1>2, <3>1 DEF PassHolds, Runs, Claiming
    <2> QED
      BY <2>1, <2>2
  <1>9. ASSUME NEW t \in Tasks, status'[t] = "running" PROVE RunFound(t, k)'
    <2>1. status[t] = "running" /\ RunFound(t, k)
      BY <1>1, <1>9 DEF LeaseInv
    <2>2. CASE \E l \in lock : l.task = t /\ l.by = lockedBy[t]
      BY <1>1, <1>8, <2>1, <2>2 DEF RunFound, Runs
    <2>3. CASE ~k /\ \E b \in alive : pass[b].pc = "markOld" /\ pass[b].old = t
      <3>1. PICK b \in alive : pass[b].pc = "markOld" /\ pass[b].old = t
        BY <2>3
      <3>2. b # r
        BY <1>2, <1>3, <3>1
      <3>3. pass'[b] = pass[b]
        BY <1>0, <1>5, <3>2 DEF LeaseTypes
      <3> QED
        BY <1>1, <2>3, <3>1, <3>3 DEF RunFound
    <2> QED
      BY <2>1, <2>2, <2>3 DEF RunFound
  <1>10. \A l \in lock' : \A n \in 0..MaxStall : Expired(l, n) => l \in lock /\ (Runs(l)' => Runs(l))
    BY <1>1 DEF Runs
  <1>11. \A l \in lock : l.left >= 0 /\ l.by # r => \E m \in lock' : m.task = l.task /\ m.by = l.by /\ m.left >= l.left
    BY <1>7, <1>8
  <1> QED
    BY <1>1, <1>5, <1>6, <1>9, <1>10, <1>11, ActorStep

\* A lock is created where there is none, or taken over after it has expired.
LEMMA TakeSteps ==
    ASSUME MaxStall <= TTL, NEW k, LeaseInv(k), RowsHold(k)', NEW r \in Runners, CreateLock(r) \/ TakeOverLock(r)
    PROVE  LeaseInv(k)'
  <1>0. LeaseTypes /\ PassHolds(r, k)
    BY DEF LeaseInv
  <1>1. UNCHANGED <<status, lockedBy, alive>> /\ r \in alive
    BY DEF CreateLock, TakeOverLock, rows, At
  <1>2. PICK p \in Passes : p = pass[r]
    BY <1>0 DEF LeaseTypes
  <1>3. p.pc \in {"create", "takeover"} /\ p.age \in 0..MaxStall /\ (p.pc = "create" <=> CreateLock(r))
    BY <1>2 DEF CreateLock, TakeOverLock, At, Passes
  <1>4. p.task \in Tasks /\ status[p.task] # "none" /\ lockedBy[p.task] # r
    BY <1>0, <1>2, <1>3 DEF PassHolds, Claiming
  <1>5. \A l \in lock : Expired(l, p.age) => /\ Runs(l) => ~k /\ l.task # p.task
                                             /\ p.pc = "takeover" => l.task = p.old
    BY <1>0, <1>2, <1>3 DEF PassHolds
  <1>6. PICK m : m = LeaseOf(r, p.task, p.age)
    OBVIOUS
  <1>7. m \in Leases /\ m.task = p.task /\ m.by = r /\ m.left = TTL - p.age /\ m.left \in Int /\ m.left >= 0
    BY <1>3, <1>4, <1>6, FreshLease, SystemTaskAssumption
  <1>8. \A l \in lock : l.task \in Tasks /\ l.left \in Int
    BY <1>0, SystemTaskAssumption DEF LeaseTypes, Leases
  <1>9. CASE IF p.pc = "create" THEN lock # {} ELSE ~\E l \in lock : Expired(l, p.age)
    <2>0. UNCHANGED lock
      BY <1>2, <1>3, <1>9 DEF CreateLock, TakeOverLock
    <2>1. PICK q \in Passes : /\ Goto(r, q) /\ q.pc \in {"expire", "read"}
                              /\ q.pc = "read" => q.task = p.task /\ q.age = p.age
      <3>1. Idle \in Passes /\ Idle.pc = "expire"
        BY IdleType DEF Idle
      <3>2. /\ [p EXCEPT !.pc = "read"] \in Passes /\ [p EXCEPT !.pc = "read"].pc = "read"
            /\ [p EXCEPT !.pc = "read"].task = p.task /\ [p EXCEPT !.pc = "read"].age = p.age
        BY DEF Passes, Timed
      <3>3. Goto(r, [p EXCEPT !.pc = "read"]) \/ Goto(r, Idle)
        BY <1>2, <1>3, <1>9 DEF CreateLock, TakeOverLock, Proceed
      <3> QED
        BY <3>1, <3>2, <3>3
    <2>2. LeaseTypes' /\ pass'[r] = q /\ \A b \in Runners \ {r} : pass'[b] = pass[b]
      BY <1>0, <1>1, <2>0, <2>1, PassType DEF Goto, LeaseTypes
    <2>3. PassHolds(r, k)'
      BY <1>1, <1>4, <1>5, <2>0, <2>1, <2>2 DEF PassHolds, Claiming, Runs
    <2> QED
      BY <1>1, <1>2, <1>3, <2>0, <2>2, <2>3, ReadingStep
  <1>10. CASE IF p.pc = "create" THEN lock = {} ELSE \E l \in lock : Expired(l, p.age)
    <2>1. /\ lock' = {m}
          /\ lock = {} \/ (p.pc = "takeover" /\ \E l \in lock : Expired(l, p.age))
      BY <1>2, <1>3, <1>6, <1>10 DEF CreateLock, TakeOverLock
    <2>2. PICK q : q = [p EXCEPT !.pc = IF p.pc = "takeover" /\ p.old # p.task THEN "markOld" ELSE "start"]
      OBVIOUS
    <2>3. Goto(r, q)
      BY <1>2, <1>3, <1>10, <2>1, <2>2 DEF CreateLock, TakeOverLock, Proceed
    <2>4. /\ q \in Passes /\ q.pc = (IF p.pc = "takeover" /\ p.old # p.task THEN "markOld" ELSE "start")
          /\ q.task = p.task /\ q.age = p.age /\ q.old = p.old
      BY <2>2 DEF Passes, Timed
    <2>5. LeaseTypes' /\ pass'[r] = q /\ \A b \in Runners \ {r} : pass'[b] = pass[b]
      BY <1>0, <1>1, <1>7, <2>1, <2>3, <2>4, PassType DEF Goto
    <2>6. PassHolds(r, k)'
      <3>1. \E l \in lock' : l.task = q.task /\ l.by = r /\ l.left >= TTL - q.age
        BY <1>7, <2>1, <2>4
      <3> QED
        BY <1>1, <1>4, <2>4, <2>5, <3>1 DEF PassHolds, Claiming
    <2>7. \A l \in lock : p.pc = "takeover" /\ Expired(l, p.age)
      BY <1>0, <2>1 DEF LeaseTypes
    <2>8. ASSUME NEW t \in Tasks, status'[t] = "running" PROVE RunFound(t, k)'
      <3>1. status[t] = "running" /\ RunFound(t, k)
        BY <1>1, <2>8 DEF LeaseInv
      <3>2. CASE \E l \in lock : l.task = t /\ l.by = lockedBy[t]
        <4>1. PICK l \in lock : l.task = t /\ l.by = lockedBy[t]
          BY <3>2
        <4>2. ~k /\ t # p.task /\ t = p.old /\ p.pc = "takeover"
          BY <1>5, <2>7, <3>1, <4>1 DEF Runs
        <4> QED
          BY <1>1, <2>4, <2>5, <4>2 DEF RunFound
      <3>3. CASE ~k /\ \E b \in alive : pass[b].pc = "markOld" /\ pass[b].old = t
        <4>1. PICK b \in alive : pass[b].pc = "markOld" /\ pass[b].old = t
          BY <3>3
        <4>2. b # r
          BY <1>2, <1>3, <4>1
        <4>3. pass'[b] = pass[b]
          BY <1>0, <2>5, <4>2 DEF LeaseTypes
        <4> QED
          BY <1>1, <3>3, <4>1, <4>3 DEF RunFound
      <3> QED
        BY <3>1, <3>2, <3>3 DEF RunFound
    <2>9. \A l \in lock' : \A n \in 0..MaxStall : ~Expired(l, n)
      BY <1>7, <2>1, SystemTaskAssumption DEF Expired
    <2>10. \A l \in lock : l.left < 0
      BY <1>3, <1>8, <2>7, SystemTaskAssumption DEF Expired
    <2>11. \A l \in lock : l.left >= 0 /\ l.by # r => \E j \in lock' : j.task = l.task /\ j.by = l.by /\ j.left >= l.left
      BY <1>8, <2>10
    <2> QED
      BY <1>1, <2>5, <2>6, <2>8, <2>9, <2>11, ActorStep
  <1> QED
    BY <1>9, <1>10

\* A claim starts its task under a lock that is still good.
LEMMA StartSteps ==
    ASSUME MaxStall <= TTL, NEW k, LeaseInv(k), RowTypes, RowsHold(k)', NEW r \in Runners, StartTask(r) \/ StartedButUnread(r)
    PROVE  LeaseInv(k)'
  <1>0. LeaseTypes /\ PassHolds(r, k)
    BY DEF LeaseInv
  <1>1. UNCHANGED <<lock, alive>>
    BY DEF StartTask, StartedButUnread
  <1>2. PICK p \in Passes : p = pass[r] /\ p.pc = "start" /\ p.age \in 0..MaxStall
    BY <1>0 DEF LeaseTypes, StartTask, StartedButUnread, At, Passes
  <1>3. p.task \in Tasks /\ status[p.task] # "none" /\ lockedBy[p.task] # r
    BY <1>0, <1>2 DEF PassHolds, Claiming
  <1>4. PICK m \in lock : m.task = p.task /\ m.by = r /\ m.left >= TTL - p.age
    BY <1>0, <1>2 DEF PassHolds
  <1>5. \A l \in lock : l = m /\ l.left \in Int
    BY <1>0, SystemTaskAssumption DEF LeaseTypes, Leases
  <1>6. m.left >= 0
    BY <1>2, <1>4, <1>5, SystemTaskAssumption
  <1>7. CASE status[p.task] # "pending"
    <2>1. PICK q : q = [p EXCEPT !.pc = "release"]
      OBVIOUS
    <2>2. Goto(r, q) /\ UNCHANGED <<status, lockedBy>>
      BY <1>2, <1>7, <2>1 DEF StartTask, StartedButUnread, Proceed
    <2>3. q \in Passes /\ q.pc = "release" /\ q.task = p.task
      BY <2>1 DEF Passes, Timed
    <2>4. LeaseTypes' /\ pass'[r] = q /\ \A b \in Runners \ {r} : pass'[b] = pass[b]
      BY <1>0, <1>1, <2>2, <2>3, PassType DEF Goto, LeaseTypes
    <2>5. PassHolds(r, k)'
      BY <1>3, <2>2, <2>3, <2>4 DEF PassHolds
    <2> QED
      BY <1>1, <1>2, <2>2, <2>4, <2>5, ReadingStep
  <1>8. CASE status[p.task] = "pending"
    <2>1. /\ status' = [status EXCEPT ![p.task] = "running"] /\ lockedBy' = [lockedBy EXCEPT ![p.task] = r]
          /\ Goto(r, Idle)
      BY <1>2, <1>8 DEF StartTask, StartedButUnread
    <2>2. PICK q \in Passes : q = Idle /\ q.pc = "expire"
      BY IdleType DEF Idle
    <2>3. LeaseTypes' /\ pass'[r] = q /\ \A b \in Runners \ {r} : pass'[b] = pass[b]
      BY <1>0, <1>1, <2>1, <2>2, PassType DEF Goto, LeaseTypes
    <2>4. PassHolds(r, k)'
      BY <2>2, <2>3 DEF PassHolds, Claiming
    <2>5. /\ \A t \in Tasks : status[t] # "none" => status'[t] # "none"
          /\ \A t \in Tasks : lockedBy'[t] = lockedBy[t] \/ lockedBy'[t] = r
          /\ \A t \in Tasks \ {p.task} : status'[t] = status[t] /\ lockedBy'[t] = lockedBy[t]
          /\ lockedBy'[p.task] = r
      BY <1>3, <2>1 DEF RowTypes
    <2>6. ASSUME NEW t \in Tasks, status'[t] = "running" PROVE RunFound(t, k)'
      <3>1. CASE t = p.task
        BY <1>1, <1>4, <2>5, <3>1 DEF RunFound
      <3>2. CASE t # p.task
        <4>1. status[t] = "running" /\ RunFound(t, k) /\ lockedBy'[t] = lockedBy[t]
          BY <2>5, <2>6, <3>2 DEF LeaseInv
        <4>2. CASE \E l \in lock : l.task = t /\ l.by = lockedBy[t]
          BY <1>1, <4>1, <4>2 DEF RunFound
        <4>3. CASE ~k /\ \E b \in alive : pass[b].pc = "markOld" /\ pass[b].old = t
          <5>1. PICK b \in alive : pass[b].pc = "markOld" /\ pass[b].old = t
            BY <4>3
          <5>2. b # r
            BY <1>2, <5>1
          <5>3. pass'[b] = pass[b]
            BY <1>0, <2>3, <5>2 DEF LeaseTypes
          <5> QED
            BY <1>1, <4>3, <5>1, <5>3 DEF RunFound
        <4> QED
          BY <4>1, <4>2, <4>3 DEF RunFound
      <3> QED
        BY <3>1, <3>2
    <2>7. \A l \in lock' : \A n \in 0..MaxStall : ~Expired(l, n)
      BY <1>1, <1>5, <1>6, SystemTaskAssumption DEF Expired
    <2>8. \A l \in lock : l.left >= 0 /\ l.by # r => \E j \in lock' : j.task = l.task /\ j.by = l.by /\ j.left >= l.left
      BY <1>1, <1>5
    <2> QED
      BY <2>3, <2>4, <2>5, <2>6, <2>7, <2>8, ActorStep
  <1> QED
    BY <1>7, <1>8

\* A heartbeat renews the lock it holds, and a goroutine that has ended gives it back.
LEMMA HandlerLockSteps ==
    ASSUME MaxStall <= TTL, NEW k, LeaseInv(k), RunnerInv, RowsHold(k)', NEW r \in Runners, NEW t \in Tasks,
           RenewSystemTaskLock(r, t) \/ FinishRelease(r, t)
    PROVE  LeaseInv(k)'
  <1>0. LeaseTypes /\ RowsHold(k) /\ WorkIsOwned /\ UNCHANGED <<status, lockedBy, pass, alive>>
    BY DEF LeaseInv, RunnerInv, RenewSystemTaskLock, FinishRelease, rows
  <1>1. \A l \in lock : l.task \in Tasks /\ l.left \in Int /\ l.left <= TTL
    BY <1>0, SystemTaskAssumption DEF LeaseTypes, Leases
  <1>2. CASE UNCHANGED lock
    BY <1>0, <1>2, RowsOnly
  <1>3. CASE RenewSystemTaskLock(r, t) /\ ~UNCHANGED lock
    <2>1. PICK l \in lock : l.task = t /\ l.by = r
      BY <1>3 DEF RenewSystemTaskLock, HoldsLease
    <2>2. PICK m : m = LeaseOf(r, t, 0)
      OBVIOUS
    <2>3. m \in Leases /\ m.task = t /\ m.by = r /\ m.left = TTL /\ TTL \in Nat
      <3>1. 0 \in 0..MaxStall /\ TTL - 0 = TTL
        BY SystemTaskAssumption
      <3>2. PICK n \in 0..MaxStall : n = 0
        BY <3>1
      <3> QED
        BY <2>2, <3>1, <3>2, FreshLease, SystemTaskAssumption
    <2>4. lock = {l} /\ lock' = {m}
      BY <1>0, <1>3, <2>1, <2>2 DEF RenewSystemTaskLock, LeaseTypes
    <2>5. LeaseTypes'
      BY <1>0, <2>3, <2>4 DEF LeaseTypes
    <2>6. \A j \in lock' : \A n \in 0..MaxStall : ~Expired(j, n)
      BY <2>3, <2>4, SystemTaskAssumption DEF Expired
    <2>7. \A j \in lock : m \in lock' /\ m.task = j.task /\ m.by = j.by /\ m.left >= j.left
      BY <1>1, <2>1, <2>3, <2>4
    <2>8. ASSUME NEW b \in Runners PROVE PassHolds(b, k)'
      <3>1. PassHolds(b, k) /\ pass'[b] = pass[b]
        BY <1>0 DEF LeaseInv
      <3>2. \A j \in lock : (j.by = b /\ j.task = pass[b].task /\ j.left >= 0 /\ pass[b].pc \in {"markOld", "start"})
             => \E i \in lock' : i.task = j.task /\ i.by = j.by /\ i.left >= j.left
        BY <2>7
      <3> QED
        BY <1>0, <2>5, <2>6, <3>1, <3>2, OtherPass
    <2>9. ASSUME NEW u \in Tasks, status'[u] = "running" PROVE RunFound(u, k)'
      BY <1>0, <2>7, <2>9 DEF LeaseInv, RunFound
    <2> QED
      BY <2>5, <2>8, <2>9 DEF LeaseInv
  <1>4. CASE FinishRelease(r, t)
    <2>1. lockedBy[t] = r /\ status[t] # "running" /\ lock' = {l \in lock : ~(l.task = t /\ l.by = r)}
      BY <1>0, <1>4 DEF FinishRelease, ReleaseSystemTaskLock, WorkIsOwned, RowsHold, Terminal
    <2>2. LeaseTypes'
      BY <1>0, <2>1 DEF LeaseTypes
    <2>3. \A l \in lock' : \A n \in 0..MaxStall : Expired(l, n) => l \in lock /\ (Runs(l)' => Runs(l))
      BY <1>0, <2>1 DEF Runs
    <2>4. ASSUME NEW b \in Runners PROVE PassHolds(b, k)'
      <3>1. PassHolds(b, k) /\ pass'[b] = pass[b]
        BY <1>0 DEF LeaseInv
      <3>2. pass[b].pc \in {"markOld", "start"} => ~(b = r /\ pass[b].task = t)
        BY <2>1, <3>1 DEF PassHolds, Claiming
      <3>3. \A j \in lock : (j.by = b /\ j.task = pass[b].task /\ j.left >= 0 /\ pass[b].pc \in {"markOld", "start"})
             => \E i \in lock' : i.task = j.task /\ i.by = j.by /\ i.left >= j.left
        BY <1>1, <2>1, <3>2
      <3> QED
        BY <1>0, <2>2, <2>3, <3>1, <3>3, OtherPass
    <2>5. ASSUME NEW u \in Tasks, status'[u] = "running" PROVE RunFound(u, k)'
      <3>1. status[u] = "running" /\ RunFound(u, k) /\ u # t
        BY <1>0, <2>1, <2>5 DEF LeaseInv
      <3> QED
        BY <1>0, <2>1, <3>1 DEF RunFound
    <2> QED
      BY <2>2, <2>4, <2>5 DEF LeaseInv
  <1> QED
    BY <1>2, <1>3, <1>4

\* A node stops.
LEMMA CrashStep ==
    ASSUME MaxStall <= TTL, NEW k, k, LeaseInv(k), RowsHold(k)', NEW r \in Runners, Crash(r)
    PROVE  LeaseInv(k)'
  <1>0. LeaseTypes /\ UNCHANGED <<status, lockedBy, lock>> /\ alive' = alive \ {r} /\ Goto(r, Idle)
    BY DEF LeaseInv, Crash, rows
  <1>1. LeaseTypes' /\ pass'[r] = Idle /\ \A b \in Runners \ {r} : pass'[b] = pass[b]
    BY <1>0, IdleType DEF LeaseTypes, Goto
  <1>2. PassHolds(r, k)'
    BY <1>1 DEF PassHolds, Claiming, Idle
  <1>3. \A l \in lock' : \A n \in 0..MaxStall : Expired(l, n) => l \in lock /\ (Runs(l)' => Runs(l))
    BY <1>0 DEF Runs
  <1>4. \A l \in lock : l.left >= 0 /\ l.by # r => \E m \in lock' : m.task = l.task /\ m.by = l.by /\ m.left >= l.left
    BY <1>0, SystemTaskAssumption DEF LeaseTypes, Leases
  <1>5. \A t \in Tasks : status'[t] = "running" => RunFound(t, k)'
    BY <1>0 DEF LeaseInv, RunFound
  <1> QED
    BY <1>0, <1>1, <1>2, <1>3, <1>4, <1>5, ActorStep

\* A lease and the age of a pass change together.
LEMMA TickStep ==
    ASSUME MaxStall <= TTL, NEW k, LeaseInv(k), RowsHold(k)', Tick
    PROVE  LeaseInv(k)'
  <1>0. LeaseTypes /\ UNCHANGED <<status, lockedBy, alive>>
    BY DEF LeaseInv, Tick, rows
  <1> DEFINE Older(l) == [l EXCEPT !.left = Max({@ - 1, -MaxStall - 1})]
  <1>1. ASSUME NEW l \in lock
        PROVE  /\ Older(l) \in Leases /\ Older(l).task = l.task /\ Older(l).by = l.by
               /\ Older(l).left = (IF l.left - 1 >= -MaxStall - 1 THEN l.left - 1 ELSE -MaxStall - 1)
               /\ l.left \in (-MaxStall - 1)..TTL
    <2>1. l \in Leases /\ l.left \in (-MaxStall - 1)..TTL
      BY <1>0 DEF LeaseTypes, Leases
    <2>2. PICK a, b \in Int : a = l.left - 1 /\ b = -MaxStall - 1
      BY <2>1, SystemTaskAssumption
    <2>3. Max({a, b}) = IF a >= b THEN a ELSE b
      BY MaxOfTwo
    <2>4. PICK c : c = Max({l.left - 1, -MaxStall - 1})
      OBVIOUS
    <2>5. c = (IF l.left - 1 >= -MaxStall - 1 THEN l.left - 1 ELSE -MaxStall - 1)
      BY <2>2, <2>3, <2>4
    <2>6. c \in (-MaxStall - 1)..TTL
      BY <2>1, <2>5, SystemTaskAssumption
    <2>7. Older(l) = [l EXCEPT !.left = c]
      BY <2>4
    <2> QED
      BY <2>1, <2>5, <2>6, <2>7 DEF Leases
  <1> HIDE DEF Older
  <1>2. lock' = {Older(l) : l \in lock}
    BY DEF Tick, Older
  <1>3. ASSUME NEW b \in Runners
        PROVE  /\ pass'[b] \in Passes /\ pass'[b].pc = pass[b].pc /\ pass'[b].task = pass[b].task /\ pass'[b].old = pass[b].old
               /\ pass'[b].by = pass[b].by /\ pass[b].age \in 0..MaxStall
               /\ pass[b].pc \in Timed => pass'[b].age = pass[b].age + 1 /\ pass'[b].age \in 0..MaxStall
    <2>1. pass[b] \in Passes /\ (pass[b].pc \in Timed => pass[b].age < MaxStall)
      BY <1>0 DEF LeaseTypes, Tick
    <2>2. pass'[b] = [pass[b] EXCEPT !.age = IF pass[b].pc \in Timed THEN @ + 1 ELSE 0]
      BY DEF Tick
    <2>3. pass[b].age \in 0..MaxStall
      BY <2>1 DEF Passes
    <2>4. PICK n : n = IF pass[b].pc \in Timed THEN pass[b].age + 1 ELSE 0
      OBVIOUS
    <2>5. n \in 0..MaxStall
      BY <2>1, <2>3, <2>4, SystemTaskAssumption
    <2>6. pass'[b] = [pass[b] EXCEPT !.age = n]
      BY <2>2, <2>4
    <2> QED
      BY <2>1, <2>3, <2>4, <2>5, <2>6 DEF Passes
  <1>4. pass' \in [Runners -> Passes]
    <2>1. pass' = [b \in Runners |-> pass'[b]]
      BY DEF Tick
    <2> QED
      BY <1>3, <2>1
  <1>5. LeaseTypes'
    BY <1>0, <1>1, <1>2, <1>4 DEF LeaseTypes
  <1>6. ASSUME NEW l \in lock, NEW n \in 0..MaxStall, n + 1 \in 0..MaxStall, Expired(Older(l), n + 1) PROVE Expired(l, n)
    BY <1>1, <1>6, SystemTaskAssumption DEF Expired
  <1>7. ASSUME NEW l \in lock PROVE Runs(Older(l))' <=> Runs(l)
    BY <1>0, <1>1 DEF Runs
  <1>8. ASSUME NEW b \in Runners PROVE PassHolds(b, k)'
    <2>1. PICK p, q : p = pass[b] /\ q = pass'[b]
      OBVIOUS
    <2>2. /\ q.pc = p.pc /\ q.task = p.task /\ q.old = p.old /\ q.by = p.by /\ p.age \in 0..MaxStall
          /\ p.pc \in Timed => q.age = p.age + 1 /\ q.age \in 0..MaxStall
      BY <1>3, <2>1
    <2>3. PassHolds(b, k)
      BY DEF LeaseInv
    <2>4. q.pc \in Claiming => q.task \in Tasks /\ status'[q.task] # "none" /\ lockedBy'[q.task] # b
      BY <1>0, <2>1, <2>2, <2>3 DEF PassHolds
    <2>5. q.pc \in {"markOld", "start"} => \E l \in lock' : l.task = q.task /\ l.by = b /\ l.left >= TTL - q.age
      <3> SUFFICES ASSUME q.pc \in {"markOld", "start"} PROVE \E l \in lock' : l.task = q.task /\ l.by = b /\ l.left >= TTL - q.age
        OBVIOUS
      <3>1. PICK l \in lock : l.task = p.task /\ l.by = b /\ l.left >= TTL - p.age
        BY <2>1, <2>2, <2>3 DEF PassHolds
      <3>2. q.age = p.age + 1 /\ q.age \in 0..MaxStall
        BY <2>2 DEF Timed
      <3>3. Older(l).left >= TTL - q.age
        BY <1>1, <2>2, <3>1, <3>2, SystemTaskAssumption
      <3> QED
        BY <1>1, <1>2, <2>2, <3>1, <3>3
    <2>6. ASSUME q.pc \in {"create", "read", "takeover"}, NEW l \in lock', Expired(l, q.age)
          PROVE  (Runs(l)' => ~k /\ l.task # q.task) /\ (q.pc = "takeover" => l.task = q.old)
      <3>1. PICK j \in lock : l = Older(j)
        BY <1>2
      <3>2. Expired(j, p.age)
        BY <1>6, <2>2, <2>6, <3>1 DEF Timed
      <3>3. (Runs(j) => ~k /\ j.task # p.task) /\ (p.pc = "takeover" => j.task = p.old)
        BY <2>1, <2>2, <2>3, <2>6, <3>2 DEF PassHolds
      <3> QED
        BY <1>1, <1>7, <2>2, <3>1, <3>3
    <2>7. q.pc \in {"mark", "delete"} => q.task \in Tasks
      BY <2>1, <2>2, <2>3 DEF PassHolds
    <2>8. ASSUME q.pc = "delete", NEW l \in lock', l.task = q.task, l.by = q.by, Expired(l, q.age) PROVE ~Runs(l)'
      <3>1. PICK j \in lock : l = Older(j)
        BY <1>2
      <3>2. Expired(j, p.age) /\ j.task = p.task /\ j.by = p.by
        BY <1>1, <1>6, <2>2, <2>8, <3>1 DEF Timed
      <3>3. ~Runs(j)
        BY <2>1, <2>2, <2>3, <2>8, <3>2 DEF PassHolds
      <3> QED
        BY <1>7, <3>1, <3>3
    <2> QED
      BY <2>1, <2>4, <2>5, <2>6, <2>7, <2>8 DEF PassHolds
  <1>9. ASSUME NEW t \in Tasks, status'[t] = "running" PROVE RunFound(t, k)'
    <2>1. RunFound(t, k)
      BY <1>0, <1>9 DEF LeaseInv
    <2>2. CASE \E l \in lock : l.task = t /\ l.by = lockedBy[t]
      BY <1>0, <1>1, <1>2, <2>2 DEF RunFound
    <2>3. CASE ~k /\ \E b \in alive : pass[b].pc = "markOld" /\ pass[b].old = t
      <3>1. PICK b \in alive : pass[b].pc = "markOld" /\ pass[b].old = t
        BY <2>3
      <3>2. pass'[b].pc = pass[b].pc /\ pass'[b].old = pass[b].old
        BY <1>0, <1>3 DEF LeaseTypes
      <3> QED
        BY <1>0, <2>3, <3>1, <3>2 DEF RunFound
    <2> QED
      BY <2>1, <2>2, <2>3 DEF RunFound
  <1> QED
    BY <1>5, <1>8, <1>9 DEF LeaseInv

\* Without keys for all rows, neither a statement fails nor a node stops.
Calm(keyed) == faults \in Nat /\ (~keyed => faults = 0 /\ alive = Runners)

LEMMA LeaseStep ==
    ASSUME MaxStall <= TTL, NEW k, LeaseInv(k), RunnerInv, Calm(k), Calm(k)', [Next]_vars
    PROVE  LeaseInv(k)'
  <1>0. RowTypes /\ RowStep /\ RowsHold(k)
    BY NextRefines DEF RunnerInv, LeaseInv
  <1>1. RowsHold(k)'
    BY <1>0, RowsStep
  <1>2. ASSUME NEW t \in Tasks, CreateSystemTask(t) PROVE LeaseInv(k)'
    <2>1. /\ UNCHANGED <<lock, pass, alive, lockedBy>>
          /\ \A u \in Tasks : status[u] # "none" => status'[u] # "none"
          /\ \A u \in Tasks : status'[u] = "running" => status[u] = "running"
      BY <1>0, <1>2 DEF CreateSystemTask, RowTypes
    <2> QED
      BY <1>1, <2>1, RowsOnly
  <1>3. ASSUME NEW r \in Runners, PassStep(r) \/ StatementFails(r) \/ StartedButUnread(r) \/ Crash(r) PROVE LeaseInv(k)'
    <2>1. StatementFails(r) \/ Crash(r) => k
      BY SystemTaskAssumption DEF Calm, StatementFails, Crash
    <2>2. CASE SkipExpire(r) \/ ExpireStaleSystemTaskLocks(r) \/ ClaimPass(r) \/ ReadLock(r) \/ StatementFails(r)
      BY <1>1, <2>1, <2>2, ReadingSteps
    <2>3. CASE MarkStale(r) \/ MarkOld(r)
      BY <1>0, <1>1, <2>3, MarkSteps
    <2>4. CASE DeleteStale(r) \/ ReleaseClaim(r)
      BY <1>1, <2>4, DropSteps
    <2>5. CASE CreateLock(r) \/ TakeOverLock(r)
      BY <1>1, <2>5, TakeSteps
    <2>6. CASE StartTask(r) \/ StartedButUnread(r)
      BY <1>0, <1>1, <2>6, StartSteps
    <2>7. CASE Crash(r)
      BY <1>1, <2>1, <2>7, CrashStep
    <2> QED
      BY <1>3, <2>2, <2>3, <2>4, <2>5, <2>6, <2>7 DEF PassStep
  <1>4. ASSUME NEW r \in Runners, NEW t \in Tasks,
               \/ RenewSystemTaskLock(r, t) \/ RenewFails(r, t) \/ UpdateSystemTaskState(r, t)
               \/ FinishSystemTask(r, t) \/ FinishRelease(r, t) \/ FinishFails(r, t)
        PROVE  LeaseInv(k)'
    <2>1. CASE RenewSystemTaskLock(r, t) \/ FinishRelease(r, t)
      BY <1>1, <2>1, HandlerLockSteps
    <2>2. CASE RenewFails(r, t) \/ UpdateSystemTaskState(r, t) \/ FinishFails(r, t)
      <3>1. UNCHANGED <<lock, pass, alive, lockedBy, status>>
        BY <2>2 DEF RenewFails, UpdateSystemTaskState, FinishFails, rows
      <3> QED
        BY <1>1, <3>1, RowsOnly
    <2>3. CASE FinishSystemTask(r, t)
      <3>1. UNCHANGED <<lock, pass, alive, lockedBy>>
        BY <2>3 DEF FinishSystemTask
      <3>2. \A u \in Tasks : (status[u] # "none" => status'[u] # "none") /\ (status'[u] = "running" => status[u] = "running")
        BY <1>0, <2>3 DEF FinishSystemTask, RowTypes, Terminal
      <3> QED
        BY <1>1, <3>1, <3>2, RowsOnly
    <2> QED
      BY <1>4, <2>1, <2>2, <2>3
  <1>5. CASE Tick
    BY <1>1, <1>5, TickStep
  <1>6. CASE UNCHANGED vars
    <2>1. UNCHANGED <<lock, pass, alive, lockedBy, status>>
      BY <1>6 DEF vars
    <2> QED
      BY <1>1, <2>1, RowsOnly
  <1> QED
    BY <1>2, <1>3, <1>4, <1>5, <1>6 DEF Next

LEMMA LeaseInitially ==
    ASSUME NEW k, Init, k => \A t \in Tasks : status[t] = "none"
    PROVE  LeaseInv(k) /\ Calm(k)
  <1>1. LeaseTypes
    BY IdleType DEF Init, LeaseTypes
  <1>2. RowsHold(k)
    BY DEF Init, RowsHold, KeysHold, Active
  <1>3. \A r \in Runners : PassHolds(r, k)
    BY DEF Init, PassHolds, Claiming, Idle
  <1>4. \A t \in Tasks : status[t] # "running"
    BY DEF Init
  <1>5. Calm(k)
    BY DEF Init, Calm
  <1> QED
    BY <1>1, <1>2, <1>3, <1>4, <1>5 DEF LeaseInv

\* Faults and stops are counted.
LEMMA FaultSteps ==
    ASSUME [Next]_vars
    PROVE  /\ faults' = faults \/ (faults < MaxFaults /\ faults' = faults + 1)
           /\ alive' = alive \/ Cardinality(Runners \ alive) < MaxCrashes
  <1>1. ASSUME NEW r \in Runners, PassStep(r) PROVE UNCHANGED <<faults, alive>>
    BY <1>1 DEF PassStep, SkipExpire, ExpireStaleSystemTaskLocks, MarkStale, DeleteStale, ClaimPass, CreateLock, ReadLock,
       TakeOverLock, MarkOld, StartTask, ReleaseClaim
  <1>2. ASSUME NEW r \in Runners, StatementFails(r) \/ StartedButUnread(r)
        PROVE  alive' = alive /\ faults < MaxFaults /\ faults' = faults + 1
    BY <1>2 DEF StatementFails, StartedButUnread
  <1>3. ASSUME NEW r \in Runners, Crash(r) PROVE faults' = faults /\ Cardinality(Runners \ alive) < MaxCrashes
    BY <1>3 DEF Crash
  <1>4. ASSUME NEW r \in Runners, NEW t \in Tasks, RenewFails(r, t) \/ FinishFails(r, t)
        PROVE  alive' = alive /\ faults < MaxFaults /\ faults' = faults + 1
    BY <1>4 DEF RenewFails, FinishFails
  <1>5. ASSUME NEW r \in Runners, NEW t \in Tasks,
               RenewSystemTaskLock(r, t) \/ UpdateSystemTaskState(r, t) \/ FinishSystemTask(r, t) \/ FinishRelease(r, t)
        PROVE  UNCHANGED <<faults, alive>>
    BY <1>5 DEF RenewSystemTaskLock, UpdateSystemTaskState, FinishSystemTask, FinishRelease
  <1>6. CASE (\E t \in Tasks : CreateSystemTask(t)) \/ Tick \/ UNCHANGED vars
    BY <1>6 DEF CreateSystemTask, Tick, vars
  <1> QED
    BY <1>1, <1>2, <1>3, <1>4, <1>5, <1>6 DEF Next

LEMMA FoundByLease ==
    ASSUME NEW k, LeaseInv(k)
    PROVE  RunningIsFound
  BY DEF LeaseInv, RunFound, RunningIsFound

(* A row that is running can always be failed once its runner is gone, if  *)
(* no pass is delayed by more than a lease: with keys for all rows,        *)
(* whatever crashes, fails or is late; with rows that predate the key,     *)
(* while no node stops and no statement fails between the takeover of a    *)
(* lock and the mark of the row it belonged to.                            *)
THEOREM RunsAreFound ==
    ASSUME MaxStall <= TTL, Legacy = 0 \/ (MaxFaults = 0 /\ MaxCrashes = 0)
    PROVE  Spec => []RunningIsFound
  <1>0. PICK k \in BOOLEAN : k <=> Legacy = 0
    <2>1. (Legacy = 0) \in BOOLEAN
      OBVIOUS
    <2> QED
      BY <2>1
  <1>1. Init => LeaseInv(k) /\ Calm(k)
    <2>1. Init /\ k => \A t \in Tasks : status[t] = "none"
      <3> SUFFICES ASSUME Init, k, NEW t \in Tasks PROVE status[t] = "none"
        OBVIOUS
      <3>1. PICK n \in 0..Legacy : status = [u \in Tasks |-> IF u <= n THEN "pending" ELSE "none"]
        BY DEF Init
      <3>2. n = 0 /\ t \in Nat /\ t >= 1
        BY <1>0, SystemTaskAssumption DEF Tasks
      <3> QED
        BY <3>1, <3>2
    <2> QED
      BY <2>1, LeaseInitially
  <1>2. Calm(k) /\ [Next]_vars => Calm(k)'
    <2> SUFFICES ASSUME Calm(k), [Next]_vars PROVE Calm(k)'
      OBVIOUS
    <2>1. faults' = faults \/ (faults < MaxFaults /\ faults' = faults + 1)
      BY FaultSteps
    <2>2. ASSUME ~k PROVE faults' = 0 /\ alive' = Runners
      <3>1. Legacy # 0
        BY <1>0, <2>2
      <3>2. faults = 0 /\ alive = Runners /\ MaxFaults = 0 /\ MaxCrashes = 0
        BY <2>2, <3>1 DEF Calm
      <3>3. Runners \ alive = {}
        BY <3>2
      <3>4. ~(Cardinality(Runners \ alive) < MaxCrashes)
        BY <3>2, <3>3, FS_EmptySet
      <3> QED
        BY <2>1, <3>2, <3>4, FaultSteps
    <2> QED
      BY <2>1, <2>2 DEF Calm
  <1>3. LeaseInv(k) /\ RunnerInv /\ Calm(k) /\ Calm(k)' /\ [Next]_vars => LeaseInv(k)'
    BY LeaseStep
  <1>4. LeaseInv(k) => RunningIsFound
    BY FoundByLease
  <1> QED
    BY <1>1, <1>2, <1>3, <1>4, RunnerInvariant, PTL DEF Spec

-----------------------------------------------------------------------------
(* Heartbeats in time. *)

\* Who works has the lock, and it is good.
Held == \A r \in Runners, t \in Tasks : work[r][t] = "running" => \E l \in lock : l.task = t /\ l.by = r /\ l.left >= 0

LEMMA HeldStep ==
    ASSUME MaxStall <= TTL, LeaseInv(TRUE), RunnerInv, Held, [Next]_vars, Tick => ~HeartbeatDue
    PROVE  Held'
  <1>0. LeaseTypes /\ RowTypes /\ WorkIsOwned
    BY DEF LeaseInv, RunnerInv
  <1>1. \A l \in lock : l.left \in Int /\ l.task \in Tasks /\ l.by \in Runners /\ \A m \in lock : l = m
    BY <1>0, SystemTaskAssumption DEF LeaseTypes, Leases
  <1>2. CASE UNCHANGED <<lock, work>>
    BY <1>2 DEF Held
  <1>3. ASSUME NEW r \in Runners, DeleteStale(r) \/ ReleaseClaim(r) PROVE Held'
    <2>1. UNCHANGED work /\ pass[r] \in Passes /\ PassHolds(r, TRUE)
      BY <1>0, <1>3 DEF DeleteStale, ReleaseClaim, LeaseTypes, LeaseInv
    <2>2. ASSUME NEW q \in Runners, NEW t \in Tasks, work[q][t] = "running", NEW l \in lock, l.task = t, l.by = q, l.left >= 0
          PROVE  l \in lock'
      <3>1. CASE DeleteStale(r)
        <4>1. pass[r].age \in 0..MaxStall
          BY <2>1 DEF Passes
        <4>2. ~Expired(l, pass[r].age)
          BY <1>1, <2>2, <4>1, SystemTaskAssumption DEF Expired
        <4> QED
          BY <3>1, <4>2 DEF DeleteStale
      <3>2. CASE ReleaseClaim(r)
        <4>1. lockedBy[pass[r].task] # r /\ lock' = {j \in lock : ~(j.task = pass[r].task /\ j.by = r)}
          BY <2>1, <3>2 DEF ReleaseClaim, ReleaseSystemTaskLock, At, PassHolds, Claiming
        <4>2. lockedBy[t] = q
          BY <1>0, <2>2 DEF WorkIsOwned
        <4> QED
          BY <2>2, <4>1, <4>2
      <3> QED
        BY <1>3, <3>1, <3>2
    <2> QED
      BY <2>1, <2>2 DEF Held
  <1>4. ASSUME NEW r \in Runners, CreateLock(r) \/ TakeOverLock(r) PROVE Held'
    <2>1. UNCHANGED work /\ pass[r].age \in 0..MaxStall
      BY <1>0, <1>4 DEF CreateLock, TakeOverLock, LeaseTypes, Passes
    <2>2. CASE UNCHANGED lock
      BY <1>2, <2>1, <2>2
    <2>3. CASE ~UNCHANGED lock
      <3>1. \A l \in lock : Expired(l, pass[r].age)
        BY <1>1, <1>4, <2>3 DEF CreateLock, TakeOverLock
      <3>2. \A l \in lock : l.left < 0
        BY <1>1, <2>1, <3>1, SystemTaskAssumption DEF Expired
      <3>3. \A q \in Runners, t \in Tasks : work[q][t] # "running"
        BY <1>1, <3>2 DEF Held
      <3> QED
        BY <2>1, <3>3 DEF Held
    <2> QED
      BY <2>2, <2>3
  <1>5. ASSUME NEW r \in Runners, StartTask(r) PROVE Held'
    <2>1. UNCHANGED lock /\ PassHolds(r, TRUE) /\ pass[r].pc = "start" /\ pass[r].age \in 0..MaxStall
      BY <1>0, <1>5 DEF StartTask, LeaseInv, At, LeaseTypes, Passes
    <2>2. PICK l \in lock : l.task = pass[r].task /\ l.by = r /\ l.left >= TTL - pass[r].age
      BY <2>1 DEF PassHolds
    <2>3. l.left >= 0
      BY <1>1, <2>1, <2>2, SystemTaskAssumption
    <2>4. ASSUME NEW q \in Runners, NEW t \in Tasks, work'[q][t] = "running"
          PROVE  work[q][t] = "running" \/ (q = r /\ t = pass[r].task)
      <3>1. work' = work \/ work' = [work EXCEPT ![r][pass[r].task] = "running"]
        BY <1>5 DEF StartTask
      <3> QED
        BY <1>0, <2>4, <3>1 DEF RowTypes
    <2> QED
      BY <2>1, <2>2, <2>3, <2>4 DEF Held
  <1>6. ASSUME NEW r \in Runners, NEW t \in Tasks, RenewSystemTaskLock(r, t) PROVE Held'
    <2>1. CASE HoldsLease(r, t)
      <3>1. PICK l \in lock : l.task = t /\ l.by = r
        BY <2>1 DEF HoldsLease
      <3>2. PICK n \in 0..MaxStall : n = 0
        BY SystemTaskAssumption
      <3>3. PICK m : m = LeaseOf(r, t, 0)
        OBVIOUS
      <3>4. m.task = t /\ m.by = r /\ m.left >= 0
        BY <3>2, <3>3, FreshLease
      <3>5. lock' = {m} /\ UNCHANGED work
        BY <1>6, <2>1, <3>3 DEF RenewSystemTaskLock
      <3>6. \A q \in Runners, u \in Tasks : work[q][u] = "running" => q = r /\ u = t
        BY <1>1, <3>1 DEF Held
      <3> QED
        BY <3>4, <3>5, <3>6 DEF Held
    <2>2. CASE ~HoldsLease(r, t)
      BY <1>0, <1>6, <2>2 DEF RenewSystemTaskLock, Held, RowTypes
    <2> QED
      BY <2>1, <2>2
  <1>7. ASSUME NEW r \in Runners, NEW t \in Tasks,
               RenewFails(r, t) \/ UpdateSystemTaskState(r, t) \/ FinishSystemTask(r, t) \/ FinishFails(r, t)
        PROVE  Held'
    <2>1. UNCHANGED lock /\ \E x \in {"none", "cancelled", "release"} : work' = [work EXCEPT ![r][t] = x]
      BY <1>7 DEF RenewFails, UpdateSystemTaskState, FinishSystemTask, FinishFails
    <2>2. \A q \in Runners, u \in Tasks : work'[q][u] = "running" => work[q][u] = "running"
      BY <1>0, <2>1 DEF RowTypes
    <2> QED
      BY <2>1, <2>2 DEF Held
  <1>8. ASSUME NEW r \in Runners, NEW t \in Tasks, FinishRelease(r, t) PROVE Held'
    <2>1. /\ lock' = {l \in lock : ~(l.task = t /\ l.by = r)} /\ work' = [work EXCEPT ![r][t] = "none"]
          /\ work[r][t] = "release"
      BY <1>8 DEF FinishRelease, ReleaseSystemTaskLock
    <2>2. \A q \in Runners, u \in Tasks : work'[q][u] = "running" => work[q][u] = "running" /\ ~(q = r /\ u = t)
      BY <1>0, <2>1 DEF RowTypes
    <2>3. ASSUME NEW q \in Runners, NEW u \in Tasks, work'[q][u] = "running"
          PROVE  \E l \in lock' : l.task = u /\ l.by = q /\ l.left >= 0
      <3>1. PICK l \in lock : l.task = u /\ l.by = q /\ l.left >= 0
        BY <2>2, <2>3 DEF Held
      <3>2. l \in lock'
        BY <2>1, <2>2, <2>3, <3>1
      <3> QED
        BY <3>1, <3>2
    <2> QED
      BY <2>3 DEF Held
  <1>9. ASSUME NEW r \in Runners, Crash(r) PROVE Held'
    <2>1. UNCHANGED lock /\ work' = [work EXCEPT ![r] = [t \in Tasks |-> "none"]]
      BY <1>9 DEF Crash
    <2>2. \A q \in Runners, u \in Tasks : work'[q][u] = "running" => work[q][u] = "running"
      BY <1>0, <2>1 DEF RowTypes
    <2> QED
      BY <2>1, <2>2 DEF Held
  <1>10. CASE Tick
    <2>1. lock' = {[l EXCEPT !.left = Max({@ - 1, -MaxStall - 1})] : l \in lock} /\ UNCHANGED work
      BY <1>10 DEF Tick
    <2>2. ASSUME NEW q \in Runners, NEW t \in Tasks, work[q][t] = "running" PROVE \E m \in lock' : m.task = t /\ m.by = q /\ m.left >= 0
      <3>1. PICK l \in lock : l.task = t /\ l.by = q /\ l.left >= 0
        BY <2>2 DEF Held
      <3>2. l.left # 0
        BY <1>10, <2>2, <3>1 DEF HeartbeatDue
      <3>3. PICK a, b \in Int : a = l.left - 1 /\ b = -MaxStall - 1
        BY <1>1, SystemTaskAssumption
      <3>4. Max({a, b}) = a /\ a >= 0
        BY <1>1, <3>1, <3>2, <3>3, MaxOfTwo, SystemTaskAssumption
      <3>5. [l EXCEPT !.left = Max({l.left - 1, -MaxStall - 1})] \in lock'
        BY <2>1
      <3>6. [l EXCEPT !.left = a] \in lock'
        BY <3>3, <3>4, <3>5
      <3>7. l \in Leases
        BY <1>0 DEF LeaseTypes
      <3> QED
        BY <3>1, <3>4, <3>6, <3>7 DEF Leases
    <2>3. work' = work
      BY <2>1
    <2> QED
      BY <2>2, <2>3 DEF Held
  <1>11. ASSUME NEW r \in Runners, PassStep(r), ~(DeleteStale(r) \/ ReleaseClaim(r) \/ CreateLock(r) \/ TakeOverLock(r) \/ StartTask(r))
         PROVE  UNCHANGED <<lock, work>>
    BY <1>11 DEF PassStep, SkipExpire, ExpireStaleSystemTaskLocks, MarkStale, ClaimPass, ReadLock, MarkOld
  <1>12. ASSUME NEW r \in Runners, StatementFails(r) \/ StartedButUnread(r) PROVE UNCHANGED <<lock, work>>
    BY <1>12 DEF StatementFails, StartedButUnread
  <1>13. CASE (\E t \in Tasks : CreateSystemTask(t)) \/ UNCHANGED vars
    BY <1>2, <1>13 DEF CreateSystemTask, vars
  <1> QED
    BY <1>2, <1>3, <1>4, <1>5, <1>6, <1>7, <1>8, <1>9, <1>10, <1>11, <1>12, <1>13 DEF Next, PassStep

\* What holds in both scenes.
SceneInv ==
  /\ RunnerInv /\ timely \in BOOLEAN
  /\ timely => LeaseInv(TRUE) /\ Calm(TRUE) /\ Held
  /\ ~timely => LeaseInv(FALSE) /\ Calm(FALSE)

LEMMA SceneInvariant ==
    ASSUME MaxStall <= TTL
    PROVE  SceneSpec => []SceneInv
  <1>1. SceneInit => SceneInv
    <2> SUFFICES ASSUME SceneInit PROVE SceneInv
      OBVIOUS
    <2>1. Init /\ timely \in BOOLEAN /\ (timely => \A t \in Tasks : status[t] = "none")
      BY DEF SceneInit
    <2>2. timely => LeaseInv(TRUE) /\ Calm(TRUE)
      <3>1. PICK k : k = TRUE
        OBVIOUS
      <3> QED
        BY <2>1, <3>1, LeaseInitially
    <2>3. LeaseInv(FALSE) /\ Calm(FALSE)
      <3>1. PICK k : k = FALSE
        OBVIOUS
      <3> QED
        BY <2>1, <3>1, LeaseInitially
    <2>4. Held
      BY <2>1 DEF Init, Held
    <2> QED
      BY <2>1, <2>2, <2>3, <2>4, RunnerInit DEF SceneInv
  <1>2. SceneInv /\ [SceneNext]_<<vars, timely>> => SceneInv'
    <2> SUFFICES ASSUME SceneInv, [SceneNext]_<<vars, timely>> PROVE SceneInv'
      OBVIOUS
    <2>1. [Next]_vars /\ timely' = timely /\ timely \in BOOLEAN /\ RunnerInv /\ faults \in Nat
      BY DEF SceneNext, SceneInv, Calm
    <2>2. RunnerInv'
      BY <2>1, NextRefines, RunnerStep DEF RunnerInv
    <2>3. faults' \in Nat
      BY <2>1, FaultSteps, SystemTaskAssumption
    <2>4. CASE timely
      <3>1. LeaseInv(TRUE) /\ Calm(TRUE) /\ Calm(TRUE)' /\ Held
        BY <2>3, <2>4 DEF SceneInv, Calm
      <3>2. PICK k : k = TRUE
        OBVIOUS
      <3>3. LeaseInv(TRUE)'
        BY <2>1, <3>1, <3>2, LeaseStep
      <3>4. ASSUME SceneNext PROVE Held'
        <4>1. Tick => ~HeartbeatDue
          BY <2>4, <3>4 DEF SceneNext, SceneTick
        <4> QED
          BY <2>1, <3>1, <4>1, HeldStep
      <3>5. ASSUME UNCHANGED vars PROVE Held'
        BY <3>1, <3>5 DEF Held, vars
      <3>6. Held'
        BY <3>4, <3>5
      <3> QED
        BY <2>1, <2>2, <2>4, <3>1, <3>3, <3>6 DEF SceneInv
    <2>5. CASE ~timely
      <3>1. LeaseInv(FALSE) /\ Calm(FALSE)
        BY <2>5 DEF SceneInv
      <3>2. Calm(FALSE)'
        BY <2>3, <2>5, <3>1 DEF SceneNext, Calm, vars
      <3>3. PICK k : k = FALSE
        OBVIOUS
      <3>4. LeaseInv(FALSE)'
        BY <2>1, <3>1, <3>2, <3>3, LeaseStep
      <3> QED
        BY <2>1, <2>2, <2>5, <3>2, <3>4 DEF SceneInv
    <2> QED
      BY <2>4, <2>5
  <1> QED
    BY <1>1, <1>2, PTL DEF SceneSpec

(* While heartbeats are in time, the database lease keeps two goroutines   *)
(* from working on tasks of the type, whatever nodes stop and whatever     *)
(* statements fail.                                                        *)
THEOREM LeaseDedups ==
    ASSUME MaxStall <= TTL
    PROVE  SceneSpec => []TimelyMeansOneHandler
  <1>1. SceneInv => TimelyMeansOneHandler
    <2> SUFFICES ASSUME SceneInv, timely, NEW p \in Runners \X Tasks, NEW q \in Runners \X Tasks,
                        work[p[1]][p[2]] = "running", work[q[1]][q[2]] = "running"
                 PROVE  p = q
      BY DEF TimelyMeansOneHandler, OneHandlerPerType
    <2>1. Held /\ \A l, m \in lock : l = m
      BY DEF SceneInv, LeaseInv, LeaseTypes
    <2>2. p[1] = q[1] /\ p[2] = q[2]
      BY <2>1 DEF Held
    <2> QED
      BY <2>2
  <1> QED
    BY <1>1, SceneInvariant, PTL

(* In both scenes every running row stays reachable for the stale pass.    *)
THEOREM ScenesKeepRunsFound ==
    ASSUME MaxStall <= TTL
    PROVE  SceneSpec => []RunningIsFound
  <1>1. SceneInv => RunningIsFound
    <2> SUFFICES ASSUME SceneInv PROVE RunningIsFound
      OBVIOUS
    <2>1. PICK k \in BOOLEAN : k <=> timely
      OBVIOUS
    <2>2. LeaseInv(k)
      BY <2>1 DEF SceneInv
    <2> QED
      BY <2>2, FoundByLease
  <1> QED
    BY <1>1, SceneInvariant, PTL
=============================================================================
