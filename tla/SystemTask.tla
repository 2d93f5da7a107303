----------------------------- MODULE SystemTask -----------------------------
(***************************************************************************)
(* The system task runner: model/system_task.go and service/system_task.go *)
(* for one task type.  Every master node runs a pass loop (mark stale      *)
(* leases, then claim one pending task) and one goroutine per claimed task *)
(* that runs its handler under a heartbeat.  The nodes share two database  *)
(* tables, the task rows and at most one lock row per type.  No database   *)
(* transaction spans two statements, so every statement is a step here and *)
(* the steps of different nodes interleave.                                *)
(*                                                                         *)
(* Types do not share rows, locks or goroutines, so one type is modelled.  *)
(* Time is relative: a lock carries the time left of its lease and a pass  *)
(* carries the age of the timestamp it took when it began.                 *)
(***************************************************************************)
EXTENDS Integers, FiniteSets, FiniteSetsExt

CONSTANTS
  Runners,          \* runner ids; a restarted node comes back under a new id
  Nobody,           \* an empty locked_by column
  NTasks,           \* bound: how many task rows are ever created
  Legacy,           \* bound: how many rows predate the unique active_key column
  TTL,              \* systemTaskLockTTL in ticks
  MaxStall,         \* bound: how many ticks one pass may be delayed
  MaxCrashes,       \* bound: how many nodes stop
  MaxFaults         \* bound: how many database statements fail

Tasks == 1..NTasks

ASSUME SystemTaskAssumption ==
  /\ NTasks \in Nat /\ Legacy \in 0..NTasks
  /\ TTL \in Nat \ {0} /\ MaxStall \in Nat \ {0}
  /\ MaxCrashes \in Nat /\ MaxFaults \in Nat
  /\ Nobody \notin Runners

VARIABLES
  status,     \* system_tasks.status of each row, "none" before it is inserted
  lockedBy,   \* system_tasks.locked_by
  activeKey,  \* the rows whose active_key is not NULL
  lock,       \* the rows of system_task_locks of this type
  pass,       \* what the pass loop of each runner is doing
  work,       \* what the goroutine of each runner for each task is doing
  alive,      \* the nodes that have not stopped
  faults      \* how many statements have failed

vars == <<status, lockedBy, activeKey, lock, pass, work, alive, faults>>
rows == <<status, lockedBy, activeKey>>

Active == {"pending", "running"}
Terminal == {"succeeded", "failed"}

Leases == [task : Tasks, by : Runners, left : (-MaxStall - 1)..TTL]

\* The statement of the pass that runs next, in source order.
Timed == {"mark", "delete", "create", "read", "takeover", "markOld", "start", "release"}
Idle == [pc |-> "expire", age |-> 0, task |-> 0, old |-> 0, by |-> Nobody]

TypeOK ==
  /\ status \in [Tasks -> {"none"} \cup Active \cup Terminal]
  /\ lockedBy \in [Tasks -> Runners \cup {Nobody}]
  /\ activeKey \subseteq Tasks
  /\ lock \subseteq Leases /\ Cardinality(lock) <= 1
  /\ pass \in [Runners -> [pc : Timed \cup {"expire", "claim"}, age : 0..MaxStall,
                           task : 0..NTasks, old : 0..NTasks, by : Runners \cup {Nobody}]]
  /\ work \in [Runners -> [Tasks -> {"none", "running", "cancelled", "release"}]]
  /\ alive \subseteq Runners
  /\ faults \in 0..MaxFaults

\* Rows inserted before active_key existed are pending and hold no key.
Init ==
  /\ \E n \in 0..Legacy : status = [t \in Tasks |-> IF t <= n THEN "pending" ELSE "none"]
  /\ lockedBy = [t \in Tasks |-> Nobody]
  /\ activeKey = {}
  /\ lock = {}
  /\ pass = [r \in Runners |-> Idle]
  /\ work = [r \in Runners |-> [t \in Tasks |-> "none"]]
  /\ alive = Runners
  /\ faults = 0

-----------------------------------------------------------------------------
(* Statements on the two tables. *)

MutExpired(l, age) == l.left <= -age

\* locked_until < now, for a timestamp taken age ticks ago.
Expired(l, age) == l.left < -age

\* EXISTS (SELECT 1 FROM system_task_locks ... locked_until >= now).
HoldsLease(r, t) == \E l \in lock : l.task = t /\ l.by = r /\ ~Expired(l, 0)

\* A lock row is written with the locked_until computed when the claim began.
LeaseOf(r, t, age) == [task |-> t, by |-> r, left |-> Max({TTL - age, -MaxStall - 1})]

\* An insert of a task row: the unique index on active_key refuses a second one.
CreateSystemTask(t) ==
  /\ status[t] = "none" /\ \A u \in 1..(t - 1) : status[u] # "none"
  /\ activeKey = {}
  /\ status' = [status EXCEPT ![t] = "pending"]
  /\ activeKey' = {t}
  /\ UNCHANGED <<lockedBy, lock, pass, work, alive, faults>>

MutMarkAny(t) ==
  /\ status' = [status EXCEPT ![t] = "failed"]
  /\ activeKey' = activeKey \ {t}
  /\ UNCHANGED lockedBy

MutMarkRequeues(t) ==
  /\ status' = [status EXCEPT ![t] = IF @ = "running" THEN "pending" ELSE @]
  /\ UNCHANGED <<lockedBy, activeKey>>

MutMarkKeepsKey(t) ==
  /\ status' = [status EXCEPT ![t] = IF @ = "running" THEN "failed" ELSE @]
  /\ UNCHANGED <<lockedBy, activeKey>>

\* The error of a row whose lease ran out; a row that is not running is left alone.
MarkSystemTaskLeaseExpired(t) ==
  /\ UNCHANGED lockedBy
  /\ IF status[t] = "running"
     THEN /\ status' = [status EXCEPT ![t] = "failed"]
          /\ activeKey' = activeKey \ {t}
     ELSE UNCHANGED <<status, activeKey>>

ReleaseSystemTaskLock(r, t) == lock' = {l \in lock : ~(l.task = t /\ l.by = r)}

-----------------------------------------------------------------------------
(* The pass loop of one node. *)

Goto(r, fields) == pass' = [pass EXCEPT ![r] = fields]
Proceed(r, pc) == Goto(r, [pass[r] EXCEPT !.pc = pc])
At(r, pc) == r \in alive /\ pass[r].pc = pc

\* The stale lock listing is throttled, and skipped when nothing is stale.
SkipExpire(r) ==
  /\ At(r, "expire")
  /\ Proceed(r, "claim")
  /\ UNCHANGED <<rows, lock, work, alive, faults>>

ExpireStaleSystemTaskLocks(r) ==
  /\ At(r, "expire")
  /\ \E l \in lock :
       /\ Expired(l, 0)
       /\ Goto(r, [Idle EXCEPT !.pc = "mark", !.task = l.task, !.by = l.by])
  /\ UNCHANGED <<rows, lock, work, alive, faults>>

MarkStale(r) ==
  /\ At(r, "mark")
  /\ MarkSystemTaskLeaseExpired(pass[r].task)
  /\ Proceed(r, "delete")
  /\ UNCHANGED <<lock, work, alive, faults>>

MutDeleteStale(r) ==
  /\ At(r, "delete")
  /\ lock' = {}
  /\ Goto(r, [Idle EXCEPT !.pc = "claim"])
  /\ UNCHANGED <<rows, work, alive, faults>>

\* The delete repeats the listing's condition: a lock taken over since then stays.
DeleteStale(r) ==
  /\ At(r, "delete")
  /\ lock' = {l \in lock : ~(l.task = pass[r].task /\ l.by = pass[r].by
                             /\ Expired(l, pass[r].age))}
  /\ Goto(r, [Idle EXCEPT !.pc = "claim"])
  /\ UNCHANGED <<rows, work, alive, faults>>

Pending == {t \in Tasks : status[t] = "pending"}

\* The earliest pending row, or nothing to claim in this pass.
ClaimPass(r) ==
  /\ At(r, "claim")
  /\ \/ Pending = {} /\ Goto(r, Idle)
     \/ \E t \in Pending :
          /\ \A u \in Pending : t <= u
          /\ Goto(r, [Idle EXCEPT !.pc = "create", !.task = t])
  /\ UNCHANGED <<rows, lock, work, alive, faults>>

CreateLock(r) ==
  /\ At(r, "create")
  /\ IF lock = {}
     THEN lock' = {LeaseOf(r, pass[r].task, pass[r].age)} /\ Proceed(r, "start")
     ELSE UNCHANGED lock /\ Proceed(r, "read")
  /\ UNCHANGED <<rows, work, alive, faults>>

ReadLock(r) ==
  /\ At(r, "read")
  /\ Goto(r, IF \E l \in lock : Expired(l, pass[r].age)
             THEN [pass[r] EXCEPT !.pc = "takeover", !.old = (CHOOSE l \in lock : TRUE).task]
             ELSE Idle)
  /\ UNCHANGED <<rows, lock, work, alive, faults>>

\* The conditional update that takes an expired lock row over.
TakeOverLock(r) ==
  /\ At(r, "takeover")
  /\ IF \E l \in lock : Expired(l, pass[r].age)
     THEN /\ lock' = {LeaseOf(r, pass[r].task, pass[r].age)}
          /\ Proceed(r, IF pass[r].old # pass[r].task THEN "markOld" ELSE "start")
     ELSE UNCHANGED lock /\ Goto(r, Idle)
  /\ UNCHANGED <<rows, work, alive, faults>>

\* The run whose lock was taken over is failed before the new one starts.
MarkOld(r) ==
  /\ At(r, "markOld")
  /\ MarkSystemTaskLeaseExpired(pass[r].old)
  /\ Proceed(r, "start")
  /\ UNCHANGED <<lock, work, alive, faults>>

\* pending -> running, conditional on the row alone and not on the lock.
StartTask(r) ==
  /\ At(r, "start")
  /\ LET t == pass[r].task IN
       IF status[t] = "pending"
       THEN /\ status' = [status EXCEPT ![t] = "running"]
            /\ lockedBy' = [lockedBy EXCEPT ![t] = r]
            /\ work' = [work EXCEPT ![r][t] = "running"]
            /\ Goto(r, Idle)
       ELSE UNCHANGED <<status, lockedBy, work>> /\ Proceed(r, "release")
  /\ UNCHANGED <<activeKey, lock, alive, faults>>

ReleaseClaim(r) ==
  /\ At(r, "release")
  /\ ReleaseSystemTaskLock(r, pass[r].task)
  /\ Goto(r, Idle)
  /\ UNCHANGED <<rows, work, alive, faults>>

\* A statement of the pass returns an error: the stale pass is abandoned for the
\* claim pass, a failed insert of the lock is taken for a duplicate, a claim that
\* holds the lock releases it, any other claim ends.
StatementFails(r) ==
  /\ r \in alive /\ pass[r].pc \in Timed
  /\ faults < MaxFaults /\ faults' = faults + 1
  /\ Goto(r, CASE pass[r].pc \in {"mark", "delete"} -> [Idle EXCEPT !.pc = "claim"]
               [] pass[r].pc \in {"markOld", "start"} -> [pass[r] EXCEPT !.pc = "release"]
               [] pass[r].pc = "create" -> [pass[r] EXCEPT !.pc = "read"]
               [] OTHER -> Idle)
  /\ UNCHANGED <<rows, lock, work, alive>>

\* The row was started but reading it back failed: no goroutine is dispatched.
StartedButUnread(r) ==
  /\ At(r, "start") /\ status[pass[r].task] = "pending"
  /\ faults < MaxFaults /\ faults' = faults + 1
  /\ status' = [status EXCEPT ![pass[r].task] = "running"]
  /\ lockedBy' = [lockedBy EXCEPT ![pass[r].task] = r]
  /\ Goto(r, Idle)
  /\ UNCHANGED <<activeKey, lock, work, alive>>

-----------------------------------------------------------------------------
(* The goroutine of a claimed task. *)

\* A heartbeat tick: it extends a lease it still holds, else cancels the context.
RenewSystemTaskLock(r, t) ==
  /\ r \in alive /\ work[r][t] = "running"
  /\ IF HoldsLease(r, t)
     THEN lock' = {LeaseOf(r, t, 0)} /\ UNCHANGED work
     ELSE work' = [work EXCEPT ![r][t] = "cancelled"] /\ UNCHANGED lock
  /\ UNCHANGED <<rows, pass, alive, faults>>

RenewFails(r, t) ==
  /\ r \in alive /\ work[r][t] = "running"
  /\ faults < MaxFaults /\ faults' = faults + 1
  /\ work' = [work EXCEPT ![r][t] = "cancelled"]
  /\ UNCHANGED <<rows, lock, pass, alive>>

\* The row condition shared by the progress update and the finish.
OwnsRun(r, t) == status[t] = "running" /\ lockedBy[t] = r /\ HoldsLease(r, t)

\* A progress update that is refused makes the log cleanup handler return.
UpdateSystemTaskState(r, t) ==
  /\ r \in alive /\ work[r][t] \in {"running", "cancelled"}
  /\ ~OwnsRun(r, t)
  /\ work' = [work EXCEPT ![r][t] = "none"]
  /\ UNCHANGED <<rows, lock, pass, alive, faults>>

\* The handler's last call; it is refused without a live lease on a running row.
FinishSystemTask(r, t) ==
  /\ r \in alive /\ work[r][t] \in {"running", "cancelled"}
  /\ IF OwnsRun(r, t)
     THEN /\ \E outcome \in Terminal : status' = [status EXCEPT ![t] = outcome]
          /\ activeKey' = activeKey \ {t}
          /\ work' = [work EXCEPT ![r][t] = "release"]
     ELSE UNCHANGED <<status, activeKey>> /\ work' = [work EXCEPT ![r][t] = "none"]
  /\ UNCHANGED <<lockedBy, lock, pass, alive, faults>>

FinishRelease(r, t) ==
  /\ r \in alive /\ work[r][t] = "release"
  /\ ReleaseSystemTaskLock(r, t)
  /\ work' = [work EXCEPT ![r][t] = "none"]
  /\ UNCHANGED <<rows, pass, alive, faults>>

\* The finish, or the release after it, returns an error that is only logged.
FinishFails(r, t) ==
  /\ r \in alive /\ work[r][t] # "none"
  /\ faults < MaxFaults /\ faults' = faults + 1
  /\ work' = [work EXCEPT ![r][t] = "none"]
  /\ UNCHANGED <<rows, lock, pass, alive>>

-----------------------------------------------------------------------------
(* The environment. *)

Crash(r) ==
  /\ r \in alive /\ Cardinality(Runners \ alive) < MaxCrashes
  /\ alive' = alive \ {r}
  /\ Goto(r, Idle)
  /\ work' = [work EXCEPT ![r] = [t \in Tasks |-> "none"]]
  /\ UNCHANGED <<rows, lock, faults>>

Tick ==
  /\ \A r \in Runners : pass[r].pc \in Timed => pass[r].age < MaxStall
  /\ lock' = {[l EXCEPT !.left = Max({@ - 1, -MaxStall - 1})] : l \in lock}
  /\ pass' = [r \in Runners |-> [pass[r] EXCEPT !.age = IF pass[r].pc \in Timed THEN @ + 1 ELSE 0]]
  /\ UNCHANGED <<rows, work, alive, faults>>

PassStep(r) ==
  \/ SkipExpire(r) \/ ExpireStaleSystemTaskLocks(r) \/ MarkStale(r) \/ DeleteStale(r)
  \/ ClaimPass(r) \/ CreateLock(r) \/ ReadLock(r) \/ TakeOverLock(r)
  \/ MarkOld(r) \/ StartTask(r) \/ ReleaseClaim(r)

HandlerStep(r, t) == FinishSystemTask(r, t) \/ FinishRelease(r, t)

Next ==
  \/ \E t \in Tasks : CreateSystemTask(t)
  \/ \E r \in Runners : PassStep(r) \/ StatementFails(r) \/ StartedButUnread(r) \/ Crash(r)
  \/ \E r \in Runners, t \in Tasks :
       \/ RenewSystemTaskLock(r, t) \/ RenewFails(r, t) \/ UpdateSystemTaskState(r, t)
       \/ FinishSystemTask(r, t) \/ FinishRelease(r, t) \/ FinishFails(r, t)
  \/ Tick

Spec == Init /\ [][Next]_vars

(* Every node polls on a ticker, its database calls return, its handlers   *)
(* return and time passes.  The stale pass needs strong fairness: a pass   *)
(* may skip it, but not for longer than systemTaskStaleLockInterval.       *)
NodeFairness ==
  /\ WF_vars(\E t \in Tasks : CreateSystemTask(t))
  /\ \A r \in Runners :
       /\ WF_vars(PassStep(r)) /\ SF_vars(ExpireStaleSystemTaskLocks(r))
       /\ \A t \in Tasks : WF_vars(HandlerStep(r, t)) /\ WF_vars(RenewSystemTaskLock(r, t))

LiveSpec == Spec /\ NodeFairness /\ WF_vars(Tick)

-----------------------------------------------------------------------------
(* Properties. *)

(* A running row can always be failed once its runner is gone: either the  *)
(* lock row the stale pass looks for is there, or the runner that took the *)
(* lock over is about to mark the row.                                     *)
RunningIsFound ==
  \A t \in Tasks : status[t] = "running" =>
    \/ \E l \in lock : l.task = t /\ l.by = lockedBy[t]
    \/ \E r \in alive : pass[r].pc = "markOld" /\ pass[r].old = t

(* The database lease dedups execution across master instances: no two     *)
(* goroutines work on tasks of this type at the same time.                 *)
OneHandlerPerType ==
  \A p, q \in Runners \X Tasks :
    (work[p[1]][p[2]] = "running" /\ work[q[1]][q[2]] = "running") => p = q

(* A task is executed once: no two runners ever hold a goroutine for it.   *)
OneRunnerPerTask ==
  \A t \in Tasks : \A r, s \in Runners :
    (work[r][t] # "none" /\ work[s][t] # "none") => r = s

(* The outcome of a task is final: neither a stale lease left behind by a  *)
(* crash after the finish nor a late finish rewrites it.                   *)
OutcomeIsFinal ==
  [][\A t \in Tasks : status[t] \in Terminal => status'[t] = status[t]]_vars

(* The key that blocks a new task of this type is held by an active row    *)
(* only: nothing that ends a task leaves the type blocked.                 *)
KeyHeldByActive == \A t \in activeKey : status[t] \in Active

(* Every task is eventually created and reaches an outcome, whatever       *)
(* nodes stop while it is pending or running.                              *)
EveryTaskEnds == \A t \in Tasks : <>(status[t] \in Terminal)
=============================================================================
