---------------------------- MODULE Subscriptions ----------------------------
(***************************************************************************)
(* The subscriptions of one user after they were bought: the group they    *)
(* lift the user into, its copy in the user cache, the periods of their    *)
(* quota, and the background task that expires and resets them.            *)
(*                                                                         *)
(* The cached copy is taken to exist, so this module is about refreshes    *)
(* only; fills of a missing copy are part of QuotaCache.                   *)
(***************************************************************************)
EXTENDS Integers, FiniteSetsExt

CONSTANTS
  Subs,     \* the subscriptions the user may get
  Offers,   \* the plans they may have, functions of some of the subscriptions:
            \* up and down are groups or "", length and period are times, and
            \* uses is a bound: the requests charged to it in all
  Actors,   \* goroutines of buyers and administrators
  Task,     \* the goroutine of the background task
  Horizon   \* bound: the last instant of the clock

ASSUME SubscriptionsAssumption ==
  /\ Task \notin Actors /\ Horizon \in Nat
  /\ \A offer \in Offers : \A s \in DOMAIN offer :
       s \in Subs /\ offer[s].length \in Nat \ {0} /\ offer[s].period \in Nat

VARIABLES
  plans,   \* the offer of this run of the system
  sub,     \* the rows, with ghosts: what was booked (real) in the period of the instant
           \* `at`, periods counted from `since`; the requests charged so far (made)
           \* and those of them that are not settled yet (open)
  group,   \* the group of the user row
  cached,  \* the group in the user cache
  clock,   \* the database time
  job,     \* the background task
  fresh    \* goroutine -> its refresh of the cached group

subVars == <<plans, sub, group, cached, clock, job, fresh>>

Everyone == Actors \cup {Task}
NoSub == [status |-> "none", up |-> "", down |-> "", prev |-> "", start |-> 0, end |-> 0,
          period |-> 0, last |-> 0, next |-> 0, used |-> 0, since |-> 0, at |-> 0, real |-> 0, made |-> 0, open |-> 0]
Quiet == [pc |-> "off", group |-> "", round |-> 0]
Mark(q) == [up |-> q.up, down |-> q.down, prev |-> q.prev]
Asleep == [pc |-> "idle", now |-> 0, rows |-> {}, last |-> Mark(NoSub)]

SubInit ==
  /\ plans \in Offers /\ sub = [s \in Subs |-> NoSub] /\ group = "default" /\ cached = "default"
  /\ clock = 0 /\ job = Asleep /\ fresh = [a \in Everyone |-> Quiet]

Exists(s) == sub[s].status \notin {"none", "deleted"}
Free(a) == fresh[a].pc \in {"off", "failed"}
Refresh(a, needed) == fresh' = IF needed THEN [fresh EXCEPT ![a] = [Quiet EXCEPT !.pc = "read"]] ELSE fresh

-----------------------------------------------------------------------------
(* Periods of the quota. *)

calcNextResetTime(base, q) ==
  IF q.period = 0 \/ base + q.period > q.end THEN 0 ELSE base + q.period

ResetBase(q) == IF q.last <= 0 THEN q.start ELSE q.last

\* maybeResetUserSubscriptionWithPlanTx: the ends of periods that have passed.
Passed(q, now) == {ResetBase(q) + k * q.period : k \in {i \in 1..Horizon :
                     /\ ResetBase(q) + i * q.period <= now
                     /\ ResetBase(q) + i * q.period <= q.end}}
maybeResetUserSubscriptionWithPlanTx(q, now) ==
  IF (q.next > 0 /\ q.next > now) \/ q.period = 0 THEN q
  ELSE IF Passed(q, now) # {}
  THEN LET base == Max(Passed(q, now))
       IN [q EXCEPT !.used = 0, !.last = base, !.next = calcNextResetTime(base, q)]
  ELSE LET next == calcNextResetTime(ResetBase(q), q)
       IN IF q.next = 0 /\ next > 0 THEN [q EXCEPT !.next = next, !.last = ResetBase(q)] ELSE q

\* The period of an instant, counted from the last point an administrator chose;
\* from the start again when not one whole period was left after that point.
PeriodOf(q, now) ==
  IF q.period = 0 THEN 0
  ELSE Max({k \in 0..Horizon : k = 0 \/ (q.since + k * q.period <= now /\ q.since + k * q.period <= q.end)})

\* PreConsumeUserSubscription charges a request, in the period of the clock.
Consume(s) ==
  LET q == maybeResetUserSubscriptionWithPlanTx(sub[s], clock)
      same == PeriodOf(sub[s], sub[s].at) = PeriodOf(sub[s], clock)
  IN /\ sub[s].status = "active" /\ sub[s].end > clock /\ sub[s].made < plans[s].uses
     /\ sub' = [sub EXCEPT ![s] = [q EXCEPT !.used = @ + 1, !.at = clock, !.real = IF same THEN @ + 1 ELSE 1,
                                                !.made = @ + 1, !.open = @ + 1]]
     /\ UNCHANGED <<plans, group, cached, clock, job, fresh>>

Floored(n) == IF n < 0 THEN 0 ELSE n

\* A request is settled, or refunded by refundSubscriptionPreConsumeTx: the use
\* moves in the period the row stands in, whichever period was charged.
postConsumeUserSubscriptionDeltaTx(s, delta) ==
  LET q == sub[s]
      stands == ResetBase(q)
      same == PeriodOf(q, q.at) = PeriodOf(q, stands)
  IN /\ Exists(s) /\ q.open > 0
     /\ sub' = [sub EXCEPT ![s] = [q EXCEPT !.used = Floored(@ + delta), !.open = @ - 1,
                  !.at = IF same THEN @ ELSE stands,
                  !.real = Floored((IF same THEN @ ELSE 0) + delta)]]
     /\ UNCHANGED <<plans, group, cached, clock, job, fresh>>

\* AdminResetUserSubscriptionsByPlan, AdminResetPlanSubscriptions
resetUserSubscriptionTx(s, advance) ==
  LET q == [sub[s] EXCEPT !.used = 0, !.real = 0]
      next == calcNextResetTime(clock, q)
  IN /\ sub[s].status = "active" /\ sub[s].end > clock
     /\ sub' = [sub EXCEPT ![s] =
                  IF ~advance THEN q
                  ELSE [q EXCEPT !.next = next, !.last = IF next > 0 THEN clock ELSE 0,
                                 !.since = IF next > 0 THEN clock ELSE q.start]]
     /\ UNCHANGED <<plans, group, cached, clock, job, fresh>>

-----------------------------------------------------------------------------
(* Groups. *)

Upgrading(now, except) == {s \in Subs \ except : sub[s].status = "active" /\ sub[s].end > now /\ sub[s].up # ""}

CreateUserSubscription(a, s) ==
  LET plan == plans[s]
      lifts == plan.up # "" /\ group # plan.up
      q == [NoSub EXCEPT !.status = "active", !.up = plan.up, !.down = plan.down, !.prev = IF lifts THEN group ELSE "",
                         !.start = clock, !.end = clock + plan.length, !.period = plan.period, !.since = clock]
      next == calcNextResetTime(clock, q)
  IN /\ Free(a) /\ s \in DOMAIN plans /\ sub[s].status = "none"
     /\ sub' = [sub EXCEPT ![s] = [q EXCEPT !.next = next, !.last = IF next > 0 THEN clock ELSE 0]]
     /\ group' = IF lifts THEN plan.up ELSE group
     /\ Refresh(a, lifts)
     /\ UNCHANGED <<plans, cached, clock, job>>

\* The group an ended subscription leaves behind: its explicit target, or the
\* group from before when it is still the one that lifted the user.
Target(q) ==
  IF q.down # "" THEN q.down
  ELSE IF q.up # "" /\ group = q.up /\ q.prev # "" THEN q.prev ELSE group

downgradeUserGroupForSubscriptionTx(s) ==
  IF Upgrading(clock, {s}) # {} THEN group ELSE Target(sub[s])

\* The task's transaction for the user has locked the rows it expires.
Expiring(s) == job.pc = "apply" /\ s \in job.rows

AdminInvalidateUserSubscription(a, s) ==
  /\ Free(a) /\ Exists(s) /\ ~Expiring(s)
  /\ sub' = [sub EXCEPT ![s].status = "cancelled", ![s].end = clock]
  /\ group' = downgradeUserGroupForSubscriptionTx(s)
  /\ Refresh(a, group' # group)
  /\ UNCHANGED <<plans, cached, clock, job>>

AdminDeleteUserSubscription(a, s) ==
  /\ Free(a) /\ Exists(s) /\ ~Expiring(s)
  /\ sub' = [sub EXCEPT ![s] = [NoSub EXCEPT !.status = "deleted"]]
  /\ group' = downgradeUserGroupForSubscriptionTx(s)
  /\ Refresh(a, group' # group)
  /\ UNCHANGED <<plans, cached, clock, job>>

(* RefreshUserGroupCache: read the row, then write the copy and read the   *)
(* row again until both agree, at most three times; then the copy is       *)
(* written once more and an error returned.                                *)
RefreshRead(a) ==
  /\ fresh[a].pc = "read"
  /\ fresh' = [fresh EXCEPT ![a].pc = "write", ![a].group = group]
  /\ UNCHANGED <<plans, sub, group, cached, clock, job>>

RefreshWrite(a) ==
  /\ fresh[a].pc = "write"
  /\ cached' = fresh[a].group
  /\ fresh' = [fresh EXCEPT ![a] = IF @.round = 3 THEN [Quiet EXCEPT !.pc = "failed"] ELSE [@ EXCEPT !.pc = "verify"]]
  /\ UNCHANGED <<plans, sub, group, clock, job>>

Verified(a) == group = fresh[a].group
RefreshVerify(a) ==
  /\ fresh[a].pc = "verify"
  /\ fresh' = [fresh EXCEPT ![a] = IF Verified(a) THEN Quiet
                                   ELSE [pc |-> "write", group |-> group, round |-> @.round + 1]]
  /\ UNCHANGED <<plans, sub, group, cached, clock, job>>

-----------------------------------------------------------------------------
(* The background task: expire what has ended, then reset what is due. *)

Ended(s, now) == sub[s].status = "active" /\ sub[s].end <= now

ExpireFind ==
  /\ job.pc = "idle" /\ Free(Task)
  /\ job' = [Asleep EXCEPT !.pc = IF \E s \in Subs : Ended(s, clock) THEN "mark" ELSE "due", !.now = clock]
  /\ UNCHANGED <<plans, sub, group, cached, clock, fresh>>

\* The transaction of the user: the rows become expired, the upgraded ones that
\* are left are looked for, and so is the last one that ended.
ExpireDueSubscriptions ==
  LET rows == {s \in Subs : Ended(s, job.now)}
      expired == {s \in Subs : (sub[s].status = "expired" \/ s \in rows) /\ (sub[s].down # "" \/ sub[s].up # "")}
      latest == CHOOSE s \in expired : \A t \in expired : sub[t].end <= sub[s].end
  IN /\ job.pc = "mark"
     /\ sub' = [s \in Subs |-> IF s \in rows THEN [sub[s] EXCEPT !.status = "expired"] ELSE sub[s]]
     /\ job' = IF Upgrading(job.now, rows) # {} \/ expired = {} THEN [Asleep EXCEPT !.pc = "due", !.now = job.now]
               ELSE [job EXCEPT !.pc = "apply", !.rows = rows, !.last = Mark(sub[latest])]
     /\ UNCHANGED <<plans, group, cached, clock, fresh>>

\* Only now does the transaction lock the user row and read the group.
ExpireApply ==
  /\ job.pc = "apply"
  /\ group' = Target(job.last) /\ Refresh(Task, group' # group)
  /\ job' = [Asleep EXCEPT !.pc = "due", !.now = job.now]
  /\ UNCHANGED <<plans, sub, cached, clock>>

ResetFind ==
  /\ job.pc = "due" /\ Free(Task)
  /\ LET rows == {s \in Subs : sub[s].status = "active" /\ sub[s].next > 0 /\ sub[s].next <= clock}
     IN job' = IF rows = {} THEN Asleep ELSE [Asleep EXCEPT !.pc = "reset", !.now = clock, !.rows = rows]
  /\ UNCHANGED <<plans, sub, group, cached, clock, fresh>>

\* Mutant: the row is not read again under its lock.
MutResetDueSubscriptions(s) ==
  /\ job.pc = "reset" /\ s \in job.rows
  /\ sub' = [sub EXCEPT ![s] = [@ EXCEPT !.used = 0, !.last = job.now, !.next = calcNextResetTime(job.now, sub[s])]]
  /\ job' = IF job.rows = {s} THEN Asleep ELSE [job EXCEPT !.rows = @ \ {s}]
  /\ UNCHANGED <<plans, group, cached, clock, fresh>>

\* One row after the other, read again under its lock.
ResetDueSubscriptions(s) ==
  /\ job.pc = "reset" /\ s \in job.rows
  /\ sub' = IF sub[s].next > 0 /\ sub[s].next <= job.now
            THEN [sub EXCEPT ![s] = maybeResetUserSubscriptionWithPlanTx(@, job.now)] ELSE sub
  /\ job' = IF job.rows = {s} THEN Asleep ELSE [job EXCEPT !.rows = @ \ {s}]
  /\ UNCHANGED <<plans, group, cached, clock, fresh>>

SubTick == clock < Horizon /\ clock' = clock + 1 /\ UNCHANGED <<plans, sub, group, cached, job, fresh>>

RunTask == ExpireFind \/ ExpireDueSubscriptions \/ ExpireApply \/ ResetFind \/ \E s \in Subs : ResetDueSubscriptions(s)
RunRefresh(a) == RefreshRead(a) \/ RefreshWrite(a) \/ RefreshVerify(a)

SubNext ==
  \/ \E a \in Actors, s \in Subs :
       \/ CreateUserSubscription(a, s)
       \/ AdminInvalidateUserSubscription(a, s) \/ AdminDeleteUserSubscription(a, s)
  \/ \E s \in Subs :
       \/ Consume(s) \/ \E delta \in {-1, 1} : postConsumeUserSubscriptionDeltaTx(s, delta)
       \/ \E advance \in BOOLEAN : resetUserSubscriptionTx(s, advance)
  \/ \E a \in Everyone : RunRefresh(a)
  \/ RunTask \/ SubTick

SubSpec == SubInit /\ [][SubNext]_subVars

-----------------------------------------------------------------------------
(* Properties. *)

(* What was booked in the running period is never forgotten: the task, a   *)
(* request and an administrator may all start the next period, and it      *)
(* starts once.  Settlements and refunds are booked when they come, so one *)
(* of a request of the last period changes the use of this one.            *)
UsageKept ==
  \A s \in Subs :
    LET q == sub[s]
    IN q.status = "active" /\ PeriodOf(q, q.at) = PeriodOf(q, clock) => q.used = q.real

(* When no refresh is under way the cached group is the group of the row,  *)
(* in whatever order the refreshes read and wrote, unless somebody's last  *)
(* refresh returned an error because the row kept changing.                *)
CachedGroupAgrees == (\A a \in Everyone : fresh[a].pc = "off") => cached = group

(* Resets, refreshes and requests that overlap keep both.                  *)
SubscriptionsHold == UsageKept /\ CachedGroupAgrees

(* Not kept by the code, see the README.                                   *)
(* While an upgrading subscription is active the user keeps an upgraded    *)
(* group: the task looks for one before it takes the group away.           *)
GroupHeldWhileActive == Upgrading(clock, {}) # {} => group # "default"
=============================================================================
