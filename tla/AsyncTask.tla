------------------------------ MODULE AsyncTask ------------------------------
(***************************************************************************)
(* Asynchronous tasks: songs and videos that are submitted, charged, and   *)
(* polled until the provider has finished them, and the older Midjourney   *)
(* tasks.  A task that fails is refunded, one that succeeds is settled.    *)
(*                                                                         *)
(* Polling is a system task, so two pollers overlap only when a lease was  *)
(* lost.  Users who ask for a Gemini or Vertex video, and notifications of *)
(* Midjourney, write the rows as well.                                     *)
(***************************************************************************)
EXTENDS Integers

CONSTANTS
  Tasks,      \* tasks
  Kinds,      \* their kinds: "suno", "video", "live" (Gemini, Vertex) or "mj"
  Pollers,    \* goroutines that poll
  Users,      \* goroutines that read a task, or deliver a notification
  Pre,        \* the quota charged at submission
  Actual,     \* the quota a finished task may turn out to cost
  MaxFaults,  \* bound: failed statements and crashes
  MaxReads    \* bound: times a user asks for a task, or a notification arrives

ASSUME AsyncTaskAssumption ==
  /\ Kinds \subseteq {"suno", "video", "live", "mj"}
  /\ Pre \in Nat \ {0} /\ Actual \in Nat \ {0} /\ MaxFaults \in Nat /\ MaxReads \in Nat

VARIABLES
  taskRow, \* task -> its row
  paid,    \* task -> what the user has been charged for it
  billed,  \* task -> how often it was refunded or settled, and whether a fault hit it
  job,     \* task -> the provider's side
  late,    \* tasks older than the timeout
  timeout, \* whether tasks time out: TaskTimeoutMinutes is positive
  work,    \* goroutine -> what it is doing
  faults,  \* faults so far
  reads    \* reads and notifications so far

taskVars == <<taskRow, paid, billed, job, late, timeout, work, faults, reads>>

Workers == Pollers \cup Users
Ended == {"SUCCESS", "FAILURE"}
Rest == [pc |-> "idle", task |-> "none", from |-> "none", to |-> "none", full |-> FALSE, quota |-> 0]

TaskInit ==
  /\ \E kind \in [Tasks -> Kinds], legacy \in [Tasks -> BOOLEAN] :
       taskRow = [t \in Tasks |-> [kind |-> kind[t], legacy |-> legacy[t], status |-> "none", full |-> FALSE, quota |-> 0]]
  /\ paid = [t \in Tasks |-> 0]
  /\ billed = [t \in Tasks |-> [times |-> 0, hurt |-> FALSE]]
  /\ job = [t \in Tasks |-> "IN_PROGRESS"] /\ late = {} /\ timeout \in BOOLEAN
  /\ work = [w \in Workers |-> Rest] /\ faults = 0 /\ reads = 0

On(w, pc) == work[w].pc = pc
Mine(w) == work[w].task
Continue(w, rec) == work' = [work EXCEPT ![w] = rec]
Hurt(t) == faults < MaxFaults /\ faults' = faults + 1 /\ billed' = [billed EXCEPT ![t].hurt = TRUE]

-----------------------------------------------------------------------------
(* Submission. *)

\* The reservation is settled, then the task is stored; an error of the insert
\* is only logged.
RelayTask(t) ==
  /\ taskRow[t].status = "none" /\ taskRow[t].kind # "mj" /\ paid[t] = 0
  /\ paid' = [paid EXCEPT ![t] = Pre]
  /\ \/ taskRow' = [taskRow EXCEPT ![t].status = "SUBMITTED", ![t].quota = Pre] /\ UNCHANGED <<billed, faults>>
     \/ Hurt(t) /\ UNCHANGED taskRow
  /\ UNCHANGED <<job, late, timeout, work, reads>>

\* A Midjourney task is stored with the quota it will be charged.
PrepareMidjourneyTaskBilling(w, t) ==
  /\ On(w, "idle") /\ w \in Users /\ taskRow[t].status = "none" /\ taskRow[t].kind = "mj"
  /\ taskRow' = [taskRow EXCEPT ![t].status = "", ![t].quota = Pre]
  /\ Continue(w, [Rest EXCEPT !.pc = "charge", !.task = t])
  /\ UNCHANGED <<paid, billed, job, late, timeout, faults, reads>>

SettleMidjourneyTaskBilling(w) ==
  LET t == Mine(w)
  IN /\ On(w, "charge")
     /\ \/ /\ paid' = [paid EXCEPT ![t] = @ + Pre] /\ taskRow' = [taskRow EXCEPT ![t].quota = Pre]
           /\ UNCHANGED <<billed, faults>>
        \/ /\ Hurt(t) /\ taskRow' \in {taskRow, [taskRow EXCEPT ![t].quota = 0]} /\ UNCHANGED paid
     /\ Continue(w, Rest)
     /\ UNCHANGED <<job, late, timeout, reads>>

-----------------------------------------------------------------------------
(* The provider (external). *)

FinishJob(t) ==
  /\ job[t] = "IN_PROGRESS" /\ taskRow[t].status # "none"
  /\ \E end \in Ended : job' = [job EXCEPT ![t] = end]
  /\ UNCHANGED <<taskRow, paid, billed, late, timeout, work, faults, reads>>

PassDeadline(t) ==
  /\ t \notin late /\ taskRow[t].status # "none" /\ late' = late \cup {t}
  /\ UNCHANGED <<taskRow, paid, billed, job, timeout, work, faults, reads>>

-----------------------------------------------------------------------------
(* Polling. *)

\* GetAllUnFinishSyncTasks, and GetAllUnFinishTasks for Midjourney
Unfinished(t) ==
  /\ taskRow[t].status # "none" /\ ~taskRow[t].full
  /\ taskRow[t].kind # "mj" => taskRow[t].status \notin Ended

Found(t, pc, to, full) ==
  [pc |-> pc, task |-> t, from |-> taskRow[t].status, to |-> to, full |-> full, quota |-> taskRow[t].quota]

\* Mutant: a task is not swept once it is under way.
MutGetTimedOutUnfinishedTasks(t) == Unfinished(t) /\ taskRow[t].kind # "mj" /\ t \in late /\ taskRow[t].status = "SUBMITTED"
GetTimedOutUnfinishedTasks(t) == Unfinished(t) /\ taskRow[t].kind # "mj" /\ t \in late

\* A task submitted before TaskRefundLegacyCutoff keeps its charge: the quota of
\* its row is cleared together with its status, and nothing is refunded.
sweepTimedOutTasks(w, t) ==
  /\ timeout /\ On(w, "idle") /\ w \in Pollers /\ GetTimedOutUnfinishedTasks(t)
  /\ LET failed == Found(t, "cas", "FAILURE", TRUE)
     IN Continue(w, IF taskRow[t].legacy THEN [failed EXCEPT !.quota = 0] ELSE failed)
  /\ UNCHANGED <<taskRow, paid, billed, job, late, timeout, faults, reads>>

\* The provider's answer about a song: any status and progress of a task that
\* runs, or how it ended.
updateSunoTasks(w, t) ==
  /\ On(w, "idle") /\ w \in Pollers /\ taskRow[t].kind = "suno" /\ Unfinished(t)
  /\ Continue(w, Found(t, "cas", job[t], job[t] \in Ended))
  /\ UNCHANGED <<taskRow, paid, billed, job, late, timeout, faults, reads>>

\* A video task that runs may be reported with full progress already.  An error
\* other than 429 counts as a failure of the task.
updateVideoSingleTask(w, t) ==
  /\ On(w, "idle") /\ w \in Pollers /\ taskRow[t].kind \in {"video", "live"} /\ Unfinished(t)
  /\ \E to \in {job[t], "FAILURE"} : \E full \in {TRUE, (to \in Ended)} :
       Continue(w, Found(t, "cas", to, full))
  /\ UNCHANGED <<taskRow, paid, billed, job, late, timeout, faults, reads>>

\* The channel of the task cannot be loaded.
ChannelMissing(w, t) ==
  /\ On(w, "idle") /\ w \in Pollers /\ Unfinished(t)
  /\ Continue(w, Found(t, "bulk", "FAILURE", TRUE))
  /\ UNCHANGED <<taskRow, paid, billed, job, late, timeout, faults, reads>>

\* No compare-and-swap, and no refund.
TaskBulkUpdateByID(w) ==
  /\ On(w, "bulk")
  /\ taskRow' = [taskRow EXCEPT ![Mine(w)].status = "FAILURE", ![Mine(w)].full = TRUE]
  /\ Continue(w, Rest)
  /\ UNCHANGED <<paid, billed, job, late, timeout, faults, reads>>

\* A Midjourney task fails by its status, by a reason while its status stays,
\* or after an hour.
runMidjourneyTaskUpdateOnce(w, t) ==
  /\ On(w, "idle") /\ w \in Pollers /\ taskRow[t].kind = "mj" /\ Unfinished(t)
  /\ \/ Continue(w, Found(t, "cas", job[t], job[t] \in Ended))
     \/ job[t] = "FAILURE" /\ Continue(w, Found(t, "reason", taskRow[t].status, TRUE))
     \/ t \in late /\ Continue(w, Found(t, "cas", "FAILURE", TRUE))
  /\ UNCHANGED <<taskRow, paid, billed, job, late, timeout, faults, reads>>

Swaps(w) == taskRow[Mine(w)].status = work[w].from

\* What follows an update that won.
Bill(w) ==
  IF work[w].quota = 0 THEN "idle"
  ELSE IF On(w, "reason") \/ (w \notin Users /\ work[w].to = "FAILURE") THEN "refund"
  ELSE IF w \notin Users /\ work[w].to = "SUCCESS" /\ taskRow[Mine(w)].kind \in {"video", "live"} THEN "settle"
  ELSE "idle"

\* The whole row is written, its quota too.  Nothing is billed when the row was
\* not swapped, or the update failed.
UpdateWithStatus(w) ==
  /\ On(w, "cas") \/ On(w, "reason")
  /\ \/ /\ Swaps(w)
        /\ taskRow' = [taskRow EXCEPT ![Mine(w)] = [@ EXCEPT !.status = work[w].to, !.full = work[w].full, !.quota = work[w].quota]]
        /\ Continue(w, IF Bill(w) = "idle" THEN Rest ELSE [work[w] EXCEPT !.pc = Bill(w)])
        /\ UNCHANGED <<billed, faults>>
     \/ /\ ~Swaps(w) /\ Continue(w, Rest) /\ UNCHANGED <<taskRow, billed, faults>>
     \/ /\ Hurt(Mine(w)) /\ Continue(w, Rest) /\ UNCHANGED taskRow
  /\ UNCHANGED <<paid, job, late, timeout, reads>>

-----------------------------------------------------------------------------
(* Billing. *)

\* The funding comes first and the quota of the row is cleared last; a failed
\* refund is left for manual reconciliation.
RefundTaskQuota(w) ==
  LET t == Mine(w)
  IN /\ On(w, "refund")
     /\ \/ /\ paid' = [paid EXCEPT ![t] = @ - work[w].quota]
           /\ billed' = [billed EXCEPT ![t].times = @ + 1]
           /\ Continue(w, [work[w] EXCEPT !.pc = "quota", !.quota = 0]) /\ UNCHANGED faults
        \/ Hurt(t) /\ Continue(w, Rest) /\ UNCHANGED paid
     /\ UNCHANGED <<taskRow, job, late, timeout, reads>>

\* settleTaskBillingOnComplete keeps the price of a task billed by call, or when
\* nothing is known about its cost.
RecalculateTaskQuota(w) ==
  LET t == Mine(w)
  IN /\ On(w, "settle")
     /\ \/ /\ paid' = [paid EXCEPT ![t] = @ + Actual - work[w].quota]
           /\ billed' = [billed EXCEPT ![t].times = @ + 1]
           /\ Continue(w, [work[w] EXCEPT !.pc = "quota", !.quota = Actual]) /\ UNCHANGED faults
        \/ Continue(w, Rest) /\ UNCHANGED <<paid, billed, faults>>
        \/ Hurt(t) /\ Continue(w, Rest) /\ UNCHANGED paid
     /\ UNCHANGED <<taskRow, job, late, timeout, reads>>

\* Mutant: the quota of the row is left as it was.
MutUpdateQuota(w) == taskRow
UpdateQuota(w) == [taskRow EXCEPT ![Mine(w)].quota = work[w].quota]

SaveQuota(w) ==
  /\ On(w, "quota")
  /\ \/ taskRow' = UpdateQuota(w) /\ UNCHANGED <<billed, faults>>
     \/ Hurt(Mine(w)) /\ UNCHANGED taskRow
  /\ Continue(w, Rest)
  /\ UNCHANGED <<paid, job, late, timeout, reads>>

-----------------------------------------------------------------------------
(* Users and notifications. *)

Read == reads < MaxReads /\ reads' = reads + 1

\* A user asks for a Gemini or Vertex video, in whatever state it is.  The
\* update that follows bills nothing.
tryRealtimeFetch(w, t) ==
  /\ On(w, "idle") /\ w \in Users /\ taskRow[t].kind = "live" /\ taskRow[t].status # "none" /\ Read
  /\ \E full \in {TRUE, job[t] \in Ended} : Continue(w, Found(t, "cas", job[t], full))
  /\ UNCHANGED <<taskRow, paid, billed, job, late, timeout, faults>>

\* A notification loads the row of a Midjourney task and saves all of it.
RelayMidjourneyNotify(w, t) ==
  /\ On(w, "idle") /\ w \in Users /\ taskRow[t].kind = "mj" /\ taskRow[t].status # "none" /\ Read
  /\ Continue(w, Found(t, "save", job[t], job[t] \in Ended))
  /\ UNCHANGED <<taskRow, paid, billed, job, late, timeout, faults>>

SaveNotified(w) ==
  /\ On(w, "save")
  /\ taskRow' = [taskRow EXCEPT ![Mine(w)] = [@ EXCEPT !.status = work[w].to, !.full = work[w].full, !.quota = work[w].quota]]
  /\ Continue(w, Rest)
  /\ UNCHANGED <<paid, billed, job, late, timeout, faults, reads>>

Proceed(w) == UpdateWithStatus(w) \/ TaskBulkUpdateByID(w) \/ RefundTaskQuota(w) \/ RecalculateTaskQuota(w) \/ SaveQuota(w)
Poll(w, t) == updateSunoTasks(w, t) \/ updateVideoSingleTask(w, t) \/ runMidjourneyTaskUpdateOnce(w, t)

TaskNext ==
  \/ \E t \in Tasks : RelayTask(t) \/ FinishJob(t) \/ PassDeadline(t)
  \/ \E w \in Workers : \/ Proceed(w) \/ SettleMidjourneyTaskBilling(w) \/ SaveNotified(w)
  \/ \E w \in Workers, t \in Tasks :
       \/ PrepareMidjourneyTaskBilling(w, t) \/ Poll(w, t) \/ sweepTimedOutTasks(w, t) \/ ChannelMissing(w, t)
       \/ tryRealtimeFetch(w, t) \/ RelayMidjourneyNotify(w, t)

(* Time passes, the poller sweeps before it polls, and its calls return.   *)
TaskFairness ==
  /\ \A t \in Tasks : WF_taskVars(PassDeadline(t)) /\ SF_taskVars(\E w \in Pollers : sweepTimedOutTasks(w, t))
  /\ \A w \in Pollers : WF_taskVars(Proceed(w))

TaskSpec == TaskInit /\ [][TaskNext]_taskVars /\ TaskFairness

-----------------------------------------------------------------------------
(* Properties. *)

Polled(t) == taskRow[t].kind \in {"suno", "video"}
AtRest(t) == \A w \in Workers : Mine(w) # t

(* A song or a video is refunded or settled, and only once, although the   *)
(* sweep and overlapping pollers see it end at the same time.              *)
BilledOnce == \A t \in Tasks : Polled(t) => billed[t].times <= 1

\* A task from before the refunds that timed out: it keeps its first charge, and
\* was neither refunded nor settled (TaskRefundLegacyCutoff, and the test
\* TestSweepTimedOutTasksHonorsRefundRolloutBoundary).
WrittenOff(t) ==
  /\ taskRow[t].legacy /\ timeout /\ t \in late /\ taskRow[t].status = "FAILURE" /\ taskRow[t].quota = 0
  /\ paid[t] = Pre /\ billed[t].times = 0

(* What the user has paid is what the row says, so that the next refund or *)
(* settlement starts from the right sum, unless a statement failed or a    *)
(* task from before the refunds was written off.                           *)
QuotaMatchesCharge ==
  \A t \in Tasks : Polled(t) /\ AtRest(t) /\ ~billed[t].hurt =>
    paid[t] = taskRow[t].quota \/ WrittenOff(t)

(* The bill of a song or a video, through overlapping pollers, sweeps,     *)
(* reads of users and failed statements.                                   *)
TaskBillHolds == BilledOnce /\ QuotaMatchesCharge

(* With a timeout a stored task reaches success or failure, although its   *)
(* provider may never answer; a video may instead be left as the provider  *)
(* reported it, unfinished but with full progress, which nothing polls or  *)
(* sweeps.                                                                 *)
UnfinishedEnds ==
  \A t \in Tasks : timeout /\ taskRow[t].kind # "mj" /\ Unfinished(t) ~>
    taskRow[t].status \in Ended \/ (taskRow[t].kind # "suno" /\ taskRow[t].full)

(* A task that failed is refunded when no statement failed and it is not   *)
(* from before the refunds.                                                *)
FailedTaskIsRefunded ==
  \A t \in Tasks : taskRow[t].kind # "mj" /\ ~taskRow[t].legacy /\ taskRow[t].status = "FAILURE" /\ AtRest(t) /\ ~billed[t].hurt => paid[t] = 0
=============================================================================
