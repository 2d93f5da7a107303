------------------------------ MODULE BillingSession ------------------------------
(***************************************************************************)
(* The callers of the durable billing layer: the BillingSession of each    *)
(* request (service/billing_session.go, driven by controller/relay.go) and *)
(* the workers of the billing recovery task (service/billing_recovery.go). *)
(*                                                                         *)
(* A session is a program counter pc[r] plus the in-memory fields sess[r]; *)
(* every step is one database call and the local computation up to the     *)
(* next one.  A call may fail without effect, or commit and lose its       *)
(* acknowledgement; a session may crash between any two calls; a row may   *)
(* become stale while its session is merely slow.                          *)
(***************************************************************************)
EXTENDS BillingRecovery, Sequences, Functions

CONSTANTS
    Workers,      \* concurrent recovery passes
    Plans,        \* funding sources a preference tries, in order
    Playground,   \* which requests may be playground requests (no token)
    Unlimited,    \* whether the token may be unlimited
    Actuals,      \* actual quotas a request may turn out to cost
    TrustQuota,   \* trust threshold; 0 disables the bypass
    MaxFaults,    \* bound: failing or unacknowledged calls
    MaxStalls,    \* bound: rows that grow stale under a running session
    StallAnywhere,\* whether any call may be that slow, or only the one upstream
    LossyOps,     \* transactions whose acknowledgement may be lost
    Crashes       \* requests whose process may crash

ASSUME BoundsAreNaturals ==
    MaxFaults \in Nat /\ MaxStalls \in Nat /\ TrustQuota \in Nat /\ Actuals \subseteq Nat
ASSUME SwitchesAreSets ==
    /\ StallAnywhere \in BOOLEAN
    /\ Playground \subseteq BOOLEAN /\ Unlimited \subseteq BOOLEAN
    /\ LossyOps \subseteq {"recovery", "subscription", "token"} /\ Crashes \subseteq Requests
    /\ Plans \subseteq {<<"wallet">>, <<"subscription">>,
                        <<"wallet", "subscription">>, <<"subscription", "wallet">>}
\* A trusted request reserves 0, a subscription at least 1; rows hold what is reserved.
ASSUME QuotasCover == {0, 1} \subseteq Quotas /\ Quotas \subseteq Amounts

VARIABLES
    pc,      \* where each session is
    sess,    \* in-memory BillingSession fields
    worker,  \* recovery passes: a program counter and the row in hand
    faults,  \* failures injected so far
    stalls   \* rows grown stale under a running session so far

vars == <<durableVars, pc, sess, worker, faults, stalls>>

-----------------------------------------------------------------------------
(* Sessions *)

NoSession ==
    [plan |-> <<>>, quota |-> 0, playground |-> FALSE, unlimited |-> FALSE,
     trusted |-> FALSE, pre |-> 0, tok |-> 0, extra |-> 0, consumed |-> 0,
     subId |-> FALSE, fundingSettled |-> FALSE, settled |-> FALSE,
     refunded |-> FALSE, fundingRefunded |-> FALSE, extraRefunded |-> FALSE,
     tokenRefunded |-> FALSE, needsRecovery |-> FALSE, refundErr |-> FALSE,
     fallback |-> FALSE, heartbeat |-> FALSE, actual |-> 0, attempt |-> 0,
     failed |-> FALSE]

SettleAttempts == 3   \* SettleBilling calls Settle up to three times

Running(r) == pc[r] \notin {"new", "ended", "dead"}

Source(s) == Head(s.plan)

\* trySubscription reserves at least 1, tryWallet what was asked or nothing
\* when the request is trusted.
EffectiveQuota(s) ==
    IF Source(s) = "subscription"
    THEN IF s.quota > 0 THEN s.quota ELSE 1
    ELSE IF s.trusted THEN 0 ELSE s.quota

Goto(r, p, s) ==
    /\ pc' = [pc EXCEPT ![r] = p]
    /\ sess' = [sess EXCEPT ![r] = s]

Fault == faults < MaxFaults /\ faults' = faults + 1

\* One transaction: it returns nil and has its effect, is refused, fails, or
\* commits while the caller sees an error.
Transaction(kind, ok, effect, onNil, onError) ==
    \/ ok /\ effect /\ onNil /\ UNCHANGED faults
    \/ ~ok /\ UNCHANGED durableVars /\ onError /\ UNCHANGED faults
    \/ Fault /\ UNCHANGED durableVars /\ onError
    \/ Fault /\ kind \in LossyOps /\ ok /\ effect /\ onError

\* The session has a reservation that Refund must give back.
NeedsRefund(s) ==
    /\ ~s.settled /\ ~s.refunded
    /\ \/ /\ ~s.fundingSettled /\ ~s.fundingRefunded
          /\ s.tok > 0 \/ (Source(s) = "subscription" /\ s.consumed > 0)
       \/ ~s.extraRefunded /\ s.extra > 0 /\ Source(s) = "subscription"
       \/ ~s.tokenRefunded /\ s.tok > 0 /\ ~s.playground

RefundComponentsComplete(s) ==
    /\ s.fundingSettled \/ s.fundingRefunded
    /\ s.extra > 0 /\ Source(s) = "subscription" => s.extraRefunded
    /\ s.playground \/ s.tok <= 0 \/ s.tokenRefunded

\* tryWallet / trySubscription start a fresh session for the source in hand.
Try(r, s) ==
    Goto(r, IF Source(s) = "wallet" THEN "wallet_check" ELSE "ensure",
         [NoSession EXCEPT !.plan = s.plan, !.quota = s.quota,
                           !.playground = s.playground, !.unlimited = s.unlimited])

\* Only an insufficient balance falls back to the next source of the plan.
GiveUp(r, s) ==
    IF s.fallback /\ Len(s.plan) > 1
    THEN Try(r, [s EXCEPT !.plan = Tail(@)])
    ELSE Goto(r, "ended", [s EXCEPT !.failed = TRUE])

\* The deferred Refund of a failed request.
Fail(r, s) ==
    Goto(r, IF NeedsRefund(s) THEN "refund_mark" ELSE "ended",
         [s EXCEPT !.failed = TRUE, !.heartbeat = FALSE])

Begin(r) ==
    /\ pc[r] = "new"
    /\ \E plan \in Plans, q \in Quotas, pg \in Playground, u \in Unlimited :
          Try(r, [NoSession EXCEPT !.plan = plan, !.quota = q,
                                   !.playground = pg, !.unlimited = u])
    /\ UNCHANGED <<durableVars, faults>>

MayTrust(s) ==
    /\ TrustQuota > 0 /\ userQuota > TrustQuota
    /\ s.unlimited \/ tokenQuota > TrustQuota

\* The balance is read before the row exists and may be stale when used.
WalletCheck(r) ==
    LET s == sess[r] IN
    /\ pc[r] = "wallet_check"
    /\ IF userQuota <= 0 \/ userQuota < s.quota
       THEN GiveUp(r, [s EXCEPT !.fallback = TRUE])
       ELSE \E t \in IF MayTrust(s) THEN BOOLEAN ELSE {FALSE} :
               Goto(r, "ensure", [s EXCEPT !.trusted = t])
    /\ UNCHANGED <<durableVars, faults>>

Ensure(r) ==
    LET s == sess[r] IN
    /\ pc[r] = "ensure"
    /\ Transaction("recovery",
          EnsureBillingRecoveryOk(r, Source(s), ~s.playground),
          EnsureBillingRecovery(r, Source(s), ~s.playground),
          Goto(r, IF Source(s) = "wallet" THEN "wallet_pre" ELSE "token_pre", s),
          Goto(r, "ended", [s EXCEPT !.failed = TRUE]))

\* Only a wallet that is too small, with a token that suffices, falls back.
WalletInsufficient(r, q, u) ==
    /\ Exists(r) /\ row[r].source = "wallet" /\ row[r].status = "active"
    /\ row[r].pre = "prepared" /\ q > 0 /\ userQuota < q
    /\ row[r].tokenRequired => u \/ tokenQuota >= q

\* Mutant: the session remembers the quota asked for, not the quota taken.
MutWalletPre(r) ==
    LET s == sess[r]
        q == EffectiveQuota(s)
    IN
    /\ pc[r] = "wallet_pre"
    /\ Transaction("recovery",
          PreConsumeWalletOk(r, q, s.unlimited), PreConsumeWallet(r, q),
          Goto(r, "sync", [s EXCEPT !.consumed = s.quota, !.pre = q,
                                    !.tok = IF s.playground THEN 0 ELSE q]),
          Goto(r, "record_failure",
               [s EXCEPT !.fallback = WalletInsufficient(r, q, s.unlimited)]))

WalletPre(r) ==
    LET s == sess[r]
        q == EffectiveQuota(s)
    IN
    /\ pc[r] = "wallet_pre"
    /\ Transaction("recovery",
          PreConsumeWalletOk(r, q, s.unlimited), PreConsumeWallet(r, q),
          Goto(r, "sync", [s EXCEPT !.consumed = q, !.pre = q,
                                    !.tok = IF s.playground THEN 0 ELSE q]),
          Goto(r, "record_failure",
               [s EXCEPT !.fallback = WalletInsufficient(r, q, s.unlimited)]))

\* PreConsumeTokenQuota: a playground request has no token to charge, yet the
\* session remembers the amount.
TokenPre(r) ==
    LET s == sess[r]
        q == EffectiveQuota(s)
    IN
    /\ pc[r] = "token_pre"
    /\ Transaction("token",
          s.playground \/ ReserveTokenOk(q, s.unlimited),
          IF s.playground THEN UNCHANGED durableVars ELSE ReserveToken(r, q),
          Goto(r, "sub_pre", [s EXCEPT !.tok = q]),
          Goto(r, "record_failure", s))

SubPre(r) ==
    LET s == sess[r]
        q == EffectiveQuota(s)
    IN
    /\ pc[r] = "sub_pre"
    /\ Transaction("subscription",
          PreConsumeSubscriptionOk(r, q), PreConsumeSubscription(r, q),
          Goto(r, "sync",
               [s EXCEPT !.pre = q, !.subId = TRUE,
                         !.consumed = IF preRecord[r].status = "consumed"
                                      THEN preRecord[r].amount ELSE q]),
          Goto(r, IF s.tok > 0 /\ ~s.playground THEN "token_rollback" ELSE "record_failure",
               [s EXCEPT !.fallback = /\ ~PreConsumeSubscriptionOk(r, q)
                                      /\ preRecord[r].status = "none"]))

TokenRollback(r) ==
    LET s == sess[r] IN
    /\ pc[r] = "token_rollback"
    /\ Transaction("token", TRUE, IncreaseToken(r, s.tok),
          Goto(r, "record_failure", [s EXCEPT !.tok = 0]),
          Goto(r, "rollback_sync", [s EXCEPT !.needsRecovery = TRUE]))

\* syncRecovery after a failed rollback; its error is only logged.
RollbackSync(r) ==
    LET s == sess[r] IN
    /\ pc[r] = "rollback_sync"
    /\ Transaction("recovery", UpdateAmountsOk(r),
          UpdateAmounts(r, FALSE, 0, s.extra, IF s.playground THEN 0 ELSE s.tok),
          Goto(r, "record_failure", s), Goto(r, "record_failure", s))

\* recordBillingPreConsumeFailure; its errors are only logged.
RecordFailure(r) ==
    LET s == sess[r] IN
    /\ pc[r] = "record_failure"
    /\ IF s.needsRecovery
       THEN Transaction("recovery", MarkRefundPendingOk(r), MarkRefundPending(r),
                        GiveUp(r, s), GiveUp(r, s))
       ELSE Transaction("recovery", AbortPreparedOk(r), AbortPrepared(r),
                        GiveUp(r, s), GiveUp(r, s))

Sync(r) ==
    LET s == sess[r] IN
    /\ pc[r] = "sync"
    /\ Transaction("recovery", UpdateAmountsOk(r),
          UpdateAmounts(r, s.subId, s.consumed, s.extra, IF s.playground THEN 0 ELSE s.tok),
          Goto(r, "live", [s EXCEPT !.heartbeat = TRUE]),
          Goto(r, "sync_refund", s))

SyncRefund(r) ==
    LET s == sess[r] IN
    /\ pc[r] = "sync_refund"
    /\ Transaction("recovery", MarkRefundPendingOk(r), MarkRefundPending(r),
                   Fail(r, s), Fail(r, s))

\* Reserve before an attempt at a dearer model; an error fails the request.
Reserve(r) ==
    LET s == sess[r] IN
    /\ pc[r] = "live" /\ ~s.trusted
    /\ \E target \in Quotas :
          LET d == ReserveDelta(r, target) IN
          /\ target > s.pre
          /\ Transaction("recovery", ReserveOk(r, target, s.unlimited),
                ReserveBillingRecovery(r, target),
                Goto(r, "live",
                     [s EXCEPT !.pre = @ + d,
                               !.tok = IF s.playground THEN @ ELSE @ + d,
                               !.consumed = IF Source(s) = "wallet" THEN @ + d ELSE @,
                               !.extra = IF Source(s) = "wallet" THEN @ ELSE @ + d]),
                Fail(r, s))

\* The upstream failed for good.
Abandon(r) ==
    /\ pc[r] = "live"
    /\ Fail(r, sess[r])
    /\ UNCHANGED <<durableVars, faults>>

-----------------------------------------------------------------------------
(* Settle *)

StartSettle(r) ==
    /\ pc[r] = "live"
    /\ \E a \in Actuals :
          /\ a - sess[r].pre \in Deltas
          /\ Goto(r, "settle_update", [sess[r] EXCEPT !.actual = a, !.attempt = 1])
    /\ UNCHANGED <<durableVars, faults>>

Delta(s) == s.actual - s.pre

\* SettleBilling retries; once it gives up, the request fails unless its
\* response has already been sent.
SettleError(r, s) ==
    IF s.attempt < SettleAttempts
    THEN Goto(r, "settle_update", [s EXCEPT !.attempt = @ + 1])
    ELSE \/ Goto(r, "ended", [s EXCEPT !.heartbeat = FALSE])
         \/ Fail(r, s)

SettleUpdate(r) ==
    LET s == sess[r] IN
    /\ pc[r] = "settle_update"
    /\ Transaction("recovery", UpdateSettlementOk(r), UpdateSettlement(r, Delta(s)),
          Goto(r, IF Delta(s) # 0 /\ s.fundingSettled
                  THEN "settle_token" ELSE "settle_funding", s),
          SettleError(r, s))

SettleFunding(r) ==
    LET s == sess[r]
        e == <<"funding", "settle">>
    IN
    /\ pc[r] = "settle_funding"
    /\ Transaction("recovery", ApplyAdjustmentOk(r, e), ApplyAdjustment(r, e),
          Goto(r, "settle_token", [s EXCEPT !.fundingSettled = @ \/ Delta(s) # 0]),
          SettleError(r, s))

\* With a delta a token error does not stop Settle: it goes on to
\* MarkBillingRecoverySettled, which refuses an incomplete row.
SettleToken(r) ==
    LET s == sess[r]
        e == <<"token", "settle">>
    IN
    /\ pc[r] = "settle_token"
    /\ Transaction("recovery", ApplyAdjustmentOk(r, e), ApplyAdjustment(r, e),
          Goto(r, "settle_mark", s),
          IF Delta(s) = 0 THEN SettleError(r, s) ELSE Goto(r, "settle_mark", s))

\* Mutant: the error of MarkBillingRecoverySettled is ignored.
MutSettleMark(r) ==
    LET s == sess[r]
        t == [s EXCEPT !.settled = TRUE, !.heartbeat = FALSE]
    IN
    /\ pc[r] = "settle_mark"
    /\ Transaction("recovery", MarkSettledOk(r), MarkSettled(r),
          Goto(r, "ended", t), Goto(r, "ended", t))

SettleMark(r) ==
    LET s == sess[r] IN
    /\ pc[r] = "settle_mark"
    /\ Transaction("recovery", MarkSettledOk(r), MarkSettled(r),
          Goto(r, "ended", [s EXCEPT !.settled = TRUE, !.heartbeat = FALSE]),
          SettleError(r, s))

-----------------------------------------------------------------------------
(* Refund *)

RefundMark(r) ==
    LET s == sess[r] IN
    /\ pc[r] = "refund_mark"
    /\ Transaction("recovery", MarkRefundPendingOk(r), MarkRefundPending(r),
          Goto(r, "refund_funding", [s EXCEPT !.refundErr = FALSE]),
          Goto(r, "refund_funding", [s EXCEPT !.refundErr = TRUE]))

\* When the mark failed neither refund branch runs and its error stays nil.
RefundFunding(r) ==
    LET s == sess[r]
        e == <<"funding", "refund">>
        done == Goto(r, "refund_extra", [s EXCEPT !.fundingRefunded = TRUE])
        skip == Goto(r, "refund_extra", s)
    IN
    /\ pc[r] = "refund_funding"
    /\ CASE s.fundingRefunded \/ s.fundingSettled ->
              skip /\ UNCHANGED <<durableVars, faults>>
         [] s.refundErr /\ ~(s.fundingRefunded \/ s.fundingSettled) ->
              done /\ UNCHANGED <<durableVars, faults>>
         [] OTHER ->
              Transaction("recovery", ApplyAdjustmentOk(r, e), ApplyAdjustment(r, e), done,
                          Goto(r, "refund_extra", [s EXCEPT !.refundErr = TRUE]))

RefundExtra(r) ==
    LET s == sess[r]
        e == <<"extra", "refund">>
    IN
    /\ pc[r] = "refund_extra"
    /\ IF ~s.refundErr /\ ~s.extraRefunded /\ s.extra > 0 /\ s.subId
       THEN Transaction("recovery", ApplyAdjustmentOk(r, e), ApplyAdjustment(r, e),
               Goto(r, "refund_token", [s EXCEPT !.extraRefunded = TRUE]),
               Goto(r, "refund_token", [s EXCEPT !.refundErr = TRUE]))
       ELSE Goto(r, "refund_token", s) /\ UNCHANGED <<durableVars, faults>>

RefundToken(r) ==
    LET s == sess[r]
        e == <<"token", "refund">>
    IN
    /\ pc[r] = "refund_token"
    /\ IF ~s.refundErr /\ ~s.tokenRefunded /\ s.tok > 0 /\ ~s.playground
       THEN Transaction("recovery", ApplyAdjustmentOk(r, e), ApplyAdjustment(r, e),
               Goto(r, "refund_finish", [s EXCEPT !.tokenRefunded = TRUE]),
               Goto(r, "refund_finish", [s EXCEPT !.refundErr = TRUE]))
       ELSE /\ Goto(r, "refund_finish",
                    [s EXCEPT !.tokenRefunded = @ \/ s.playground \/ s.tok <= 0])
            /\ UNCHANGED <<durableVars, faults>>

RefundFinish(r) ==
    LET s == sess[r]
        t == [s EXCEPT !.refunded = TRUE]
    IN
    /\ pc[r] = "refund_finish"
    /\ IF ~s.refundErr /\ RefundComponentsComplete(s)
       THEN Transaction("recovery", MarkRefundedOk(r), MarkRefunded(r),
               Goto(r, "ended", t), Goto(r, "ended", [t EXCEPT !.refundErr = TRUE]))
       ELSE Goto(r, "ended", s) /\ UNCHANGED <<durableVars, faults>>

-----------------------------------------------------------------------------
(* The process around a session *)

\* The process stops; memory is lost, the rows stay.
Crash(r) ==
    /\ r \in Crashes /\ Running(r)
    /\ Goto(r, "dead", [sess[r] EXCEPT !.heartbeat = FALSE])
    /\ UNCHANGED <<durableVars, worker, faults, stalls>>

Heartbeat(r) ==
    /\ sess[r].heartbeat /\ TouchOk(r) /\ r \in stale
    /\ TouchBillingRecovery(r)
    /\ UNCHANGED <<pc, sess, worker, faults, stalls>>

\* A row is not written for BillingRecoveryStaleAfter: its session is over, or
\* (MaxStalls times) runs but was slower than that.
Age(r) ==
    /\ GrowStale(r)
    /\ IF Running(r)
       THEN stalls < MaxStalls /\ (StallAnywhere \/ pc[r] = "live") /\ stalls' = stalls + 1
       ELSE UNCHANGED stalls
    /\ UNCHANGED <<pc, sess, worker, faults>>

SessionStep(r) ==
    /\ \/ Begin(r) \/ WalletCheck(r) \/ Ensure(r) \/ WalletPre(r) \/ TokenPre(r)
       \/ SubPre(r) \/ TokenRollback(r) \/ RollbackSync(r) \/ RecordFailure(r)
       \/ Sync(r) \/ SyncRefund(r) \/ Reserve(r) \/ Abandon(r) \/ StartSettle(r)
       \/ SettleUpdate(r) \/ SettleFunding(r) \/ SettleToken(r) \/ SettleMark(r)
       \/ RefundMark(r) \/ RefundFunding(r) \/ RefundExtra(r) \/ RefundToken(r)
       \/ RefundFinish(r)
    /\ UNCHANGED <<worker, stalls>>

-----------------------------------------------------------------------------
(* Recovery passes.  The row is re-read between two calls only to skip a    *)
(* component whose column is completed, which its marker would skip too, so *)
(* a read and the call after it are one step.                               *)

Idle == [pc |-> "idle", req |-> "none"]

WorkerGoto(w, p) == worker' = [worker EXCEPT ![w].pc = p]

WorkerStop(w) == worker' = [worker EXCEPT ![w] = Idle]

\* The list is read once; staleness is not checked again.
Pick(w) ==
    /\ worker[w].pc = "idle"
    /\ \E r \in Requests :
          Recoverable(r) /\ worker' = [worker EXCEPT ![w] = [pc |-> "load", req |-> r]]
    /\ UNCHANGED <<durableVars, faults>>

Load(w) ==
    LET st == row[worker[w].req].status IN
    /\ worker[w].pc = "load"
    /\ \/ st = "settlement_pending" /\ WorkerGoto(w, "settle_funding")
       \/ st \in {"active", "refund_pending"} /\ WorkerGoto(w, "refund_mark")
       \/ st \in Terminal /\ WorkerStop(w)
    /\ UNCHANGED <<durableVars, faults>>

\* Apply one effect unless the row says it is done or has nothing to give back.
WorkerApply(w, from, e, needed, to) ==
    LET r == worker[w].req IN
    /\ worker[w].pc = from
    /\ IF needed /\ e \notin row[r].completed
       THEN Transaction("recovery", ApplyAdjustmentOk(r, e), ApplyAdjustment(r, e),
                        WorkerGoto(w, to), WorkerStop(w))
       ELSE WorkerGoto(w, to) /\ UNCHANGED <<durableVars, faults>>

WorkerSettle(w) ==
    LET r == worker[w].req IN
    \/ WorkerApply(w, "settle_funding", <<"funding", "settle">>, TRUE, "settle_token")
    \/ WorkerApply(w, "settle_token", <<"token", "settle">>, TRUE, "settle_mark")
    \/ /\ worker[w].pc = "settle_mark"
       /\ Transaction("recovery", SettlementComplete(r) /\ MarkSettledOk(r), MarkSettled(r),
                      WorkerStop(w), WorkerStop(w))

WorkerRefund(w) ==
    LET r == worker[w].req IN
    \/ /\ worker[w].pc = "refund_mark"
       /\ Transaction("recovery", MarkRefundPendingOk(r), MarkRefundPending(r),
                      WorkerGoto(w, "refund_funding"), WorkerStop(w))
    \/ WorkerApply(w, "refund_funding", <<"funding", "refund">>, TRUE, "refund_extra")
    \/ WorkerApply(w, "refund_extra", <<"extra", "refund">>, row[r].extra > 0, "refund_token")
    \/ WorkerApply(w, "refund_token", <<"token", "refund">>, row[r].token > 0, "refund_finish")
    \/ /\ worker[w].pc = "refund_finish"
       /\ Transaction("recovery", RefundComplete(r) /\ MarkRefundedOk(r), MarkRefunded(r),
                      WorkerStop(w), WorkerStop(w))

WorkerStep(w) ==
    /\ Pick(w) \/ Load(w) \/ WorkerSettle(w) \/ WorkerRefund(w)
    /\ UNCHANGED <<pc, sess, stalls>>

-----------------------------------------------------------------------------
Init ==
    /\ DurableInit
    /\ pc = [r \in Requests |-> "new"]
    /\ sess = [r \in Requests |-> NoSession]
    /\ worker = [w \in Workers |-> Idle]
    /\ faults = 0 /\ stalls = 0

\* Nothing is left to do: every session is over and every row terminal.
Finished ==
    /\ \A r \in Requests : pc[r] \in {"ended", "dead"} /\ row[r].status \notin Live
    /\ \A w \in Workers : worker[w].pc = "idle"
    /\ UNCHANGED vars

Next ==
    \/ \E r \in Requests : SessionStep(r) \/ Crash(r) \/ Heartbeat(r) \/ Age(r)
    \/ \E w \in Workers : WorkerStep(w)
    \/ Finished

Spec == Init /\ [][Next]_vars

\* The recovery task runs every 30 s and rows keep ageing; a handler that is
\* not crashed goes on to settle or to fail.
Fairness ==
    /\ \A r \in Requests : WF_vars(SessionStep(r)) /\ WF_vars(Age(r) /\ ~Running(r))
    /\ \A w \in Workers : WF_vars(WorkerStep(w))

LiveSpec == Spec /\ Fairness

-----------------------------------------------------------------------------
(* Properties *)

\* The subscription's use is what the requests took from it.  The code clamps
\* the use at zero, so a refund that gives back too much, or twice, would
\* silently erase the use of other requests.
SubscriptionConserved ==
    subUsed = SumFunction([r \in Requests |-> charge[r].sub])

\* What a settlement of the component may take above the reservations, and what
\* the supplementary reserves of a request amount to.
SettledAbove(c) == [r \in Requests |-> Clamp(Booked(r, <<c, "settle">>))]
ToppedUp(r) == SumFunction([m \in reservations[r] |-> m.amount])

\* Competing requests cannot reserve more than there is: only a settlement above
\* the reservation or a supplementary wallet reserve takes the wallet below
\* zero, only a settlement takes the token there unless it is unlimited, and the
\* subscription never exceeds its total.
OverdraftOnlyAfterReservation ==
    /\ userQuota + SumFunction([r \in Requests |-> SettledAbove("funding")[r] + ToppedUp(r)]) >= 0
    /\ (\A r \in Requests : ~sess[r].unlimited) =>
          tokenQuota + SumFunction(SettledAbove("token")) >= 0
    /\ SubTotal > 0 => subUsed <= SubTotal

\* Requests that share balances neither take more than there is nor erase what
\* another has taken.
SharedFundsHold == SubscriptionConserved /\ OverdraftOnlyAfterReservation

\* A settled row: its source and its token paid exactly the actual quota,
\* however Settle, its retries and the recovery pass shared the work.
SettledPaysActual ==
    \A r \in Requests : row[r].status = "settled" =>
        /\ charge[r].wallet + charge[r].sub = sess[r].actual
        /\ charge[r].token = IF row[r].tokenRequired THEN sess[r].actual ELSE 0

\* A refunded row: wallet and subscription got all of it back, wherever the
\* process crashed; the wallet is charged together with its row and a
\* subscription pre-consume is found again through its record.
RefundedPaysNothing ==
    \A r \in Requests : row[r].status = "refunded" =>
        /\ charge[r].wallet = 0 /\ charge[r].sub = 0
        /\ row[r].source = "wallet" => charge[r].token = 0

\* A row aborted by a session that did not crash: not even the token was taken,
\* so the session may rebind the row to its fallback source.
AbortedTookNothing ==
    \A r \in Requests : Reusable(r) /\ pc[r] # "dead" =>
        charge[r] = [wallet |-> 0, sub |-> 0, token |-> 0]

\* A row that has ended says what its request was charged.
OutcomeMatchesCharge == SettledPaysActual /\ RefundedPaysNothing /\ AbortedTookNothing

\* The session never believes more than the database: settled in memory means
\* the row is settled, refunded without error means the row is refunded.
SessionMatchesRow ==
    \A r \in Requests :
        /\ sess[r].settled => row[r].status = "settled"
        /\ sess[r].refunded /\ ~sess[r].refundErr /\ pc[r] = "ended"
              => row[r].status = "refunded"

\* postConsumeUserSubscriptionDeltaTx refuses a settlement that would lift the
\* subscription above its total, and every pass and session meets this again.
SettlementRefused(r) ==
    /\ row[r].status = "settlement_pending" /\ row[r].source = "subscription"
    /\ ~ApplyAdjustmentOk(r, <<"funding", "settle">>)

\* Every row that is opened is settled or refunded in the end, whatever crashes,
\* fails or stalls, or its settlement does not fit in its subscription: such a
\* row stays pending for as long as the subscription has no room for it, and no
\* other row does.
EveryRowCloses ==
    \A r \in Requests : Exists(r) ~> row[r].status \in Terminal \/ SettlementRefused(r)

\* What a client relies on: the request is charged its price or nothing, and
\* nothing moves once that is decided.
RC == INSTANCE RequestCharge WITH
    outcome <- [r \in Requests |-> IF row[r].status \in Terminal
                                   THEN row[r].status ELSE "open"],
    net <- [r \in Requests |-> [funding |-> charge[r].wallet + charge[r].sub,
                                token |-> charge[r].token]],
    price <- [r \in Requests |-> [funding |-> sess[r].actual,
                                  token |-> IF row[r].tokenRequired
                                            THEN sess[r].actual ELSE 0]]

\* The sessions and recovery passes together implement RequestCharge.
ChargesAtMostOnce == RC!Spec
=============================================================================
