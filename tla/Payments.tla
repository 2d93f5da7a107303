------------------------------ MODULE Payments ------------------------------
(***************************************************************************)
(* Top-up and subscription orders of one user: checkout, the notifications *)
(* of the five payment providers, the order lock of each process, manual   *)
(* completion, and the transactions that credit the wallet or create a     *)
(* subscription.                                                           *)
(*                                                                         *)
(* A provider repeats a notification until it is answered with success,    *)
(* which some handlers also do when they could not complete the order.     *)
(* Every order is for one unit: what it credits depends on the provider.   *)
(***************************************************************************)
EXTENDS Integers, FiniteSets

CONSTANTS
  Orders,     \* the orders of the user
  Books,      \* what the orders may be for: functions of the orders
  Procs,      \* goroutines that handle notifications and administrators' requests
  NodeOf,     \* goroutine -> the process it runs in
  MaxQuota,   \* the wallet stays below this
  PlanLimit,  \* MaxPurchasePerUser
  MaxFaults   \* bound: failed transactions, lost answers and restarts

Providers == {"epay", "stripe", "creem", "waffo", "waffo_pancake"}

ASSUME PaymentsAssumption ==
  /\ Books \subseteq
       [Orders -> [kind : {"topup", "subscription"}, provider : Providers, onetime : BOOLEAN]]
  /\ "nobody" \notin Procs
  /\ MaxQuota \in Nat \ {0} /\ PlanLimit \in Nat \ {0} /\ MaxFaults \in Nat

VARIABLES
  ord,     \* order -> its row, its checkout session, what it brought, and whether
           \* a notification was answered with success without being carried out
  due,     \* order -> the notification its provider has not seen answered
  proc,    \* goroutine -> what it is doing
  held,    \* <<node, order>> -> the goroutine that holds the order lock
  row,     \* the goroutine whose transaction has locked the user row
  wallet,  \* the quota of the user
  subs,    \* how many subscriptions of the plan the user has
  mishaps  \* faults so far

payVars == <<ord, due, proc, held, row, wallet, subs, mishaps>>

NoOne == "nobody"
Resting == [pc |-> "idle", order |-> "none", event |-> "none"]
QuotaPerUnit == 2
Price == 1

PayInit ==
  /\ \E book \in Books :
       ord = [o \in Orders |-> [kind |-> book[o].kind, provider |-> book[o].provider,
                                onetime |-> book[o].onetime, status |-> "none", session |-> "none",
                                paid |-> FALSE, times |-> 0, sum |-> 0, dismissed |-> FALSE]]
  /\ due = [o \in Orders |-> "none"] /\ proc = [p \in Procs |-> Resting]
  /\ held = [n \in {NodeOf[p] : p \in Procs} |-> [o \in Orders |-> NoOne]]
  /\ row = NoOne /\ wallet = 0 /\ subs = 0 /\ mishaps = 0

Put(o, rec) == ord' = [ord EXCEPT ![o] = rec]

-----------------------------------------------------------------------------
(* Checkout. *)

\* Creem orders hold the quota itself, the others an amount of money.
Worth(o) == IF ord[o].provider = "creem" THEN 1 ELSE QuotaPerUnit

\* What an administrator's completion credits.
ManualWorth(o) == QuotaPerUnit

topUpQuotaMaxCurrent(quota) == MaxQuota - 1 - quota

\* The check before the payment; the settlement repeats it.
ValidateTopUpQuotaCapacity(o) ==
  IF ord[o].kind = "topup" THEN wallet <= topUpQuotaMaxCurrent(Worth(o)) ELSE subs < PlanLimit

\* Stripe sessions, and Epay purchases of quota, are opened before the order
\* is stored; the link is only shown when both succeeded.
LinkFirst(o) ==
  ord[o].provider = "stripe" \/ (ord[o].provider = "epay" /\ ord[o].kind = "topup")

createEpayTopUpOrder(o) ==
  /\ ord[o].status = "none" /\ LinkFirst(o) /\ ValidateTopUpQuotaCapacity(o)
  /\ Put(o, [ord[o] EXCEPT !.status = "pending", !.session = "open"])
  /\ UNCHANGED <<due, proc, held, row, wallet, subs, mishaps>>

InsertOrder(o) ==
  /\ ord[o].status = "none" /\ ~LinkFirst(o) /\ ValidateTopUpQuotaCapacity(o)
  /\ Put(o, [ord[o] EXCEPT !.status = "pending", !.session = "opening"])
  /\ UNCHANGED <<due, proc, held, row, wallet, subs, mishaps>>

\* A checkout that cannot be opened: Waffo rows are saved as failed, Epay
\* subscription orders expire, Creem rows are left as they are.
Unopened(o) ==
  CASE ord[o].provider = "creem" -> ord[o].status
    [] ord[o].provider = "epay" -> IF ord[o].status = "pending" THEN "expired" ELSE ord[o].status
    [] OTHER -> "failed"

OpenCheckout(o) ==
  /\ ord[o].session = "opening"
  /\ \/ Put(o, [ord[o] EXCEPT !.session = "open"])
     \/ Put(o, [ord[o] EXCEPT !.session = "closed", !.status = Unopened(o)])
  /\ UNCHANGED <<due, proc, held, row, wallet, subs, mishaps>>

-----------------------------------------------------------------------------
(* The provider (external): the user pays, or the session ends otherwise. *)

Notify(o, event) == due' = [due EXCEPT ![o] = event]

PayOrder(o) ==
  /\ ord[o].session = "open"
  /\ Put(o, [ord[o] EXCEPT !.session = "closed", !.paid = TRUE]) /\ Notify(o, "paid")
  /\ UNCHANGED <<proc, held, row, wallet, subs, mishaps>>

EndSession(o) ==
  /\ ord[o].session = "open" /\ ord[o].provider \in {"stripe", "waffo"}
  /\ \E event \in (IF ord[o].provider = "stripe" THEN {"expired", "failed"} ELSE {"failed"}) :
       Notify(o, event)
  /\ Put(o, [ord[o] EXCEPT !.session = "closed"])
  /\ UNCHANGED <<proc, held, row, wallet, subs, mishaps>>

-----------------------------------------------------------------------------
(* Handlers. *)

Go(p, pc) == proc' = [proc EXCEPT ![p].pc = pc]
At(p, pc) == proc[p].pc = pc
Of(p) == ord[proc[p].order]

\* A notification reaches a process.  A failed Waffo payment is recorded
\* without the order lock.
Webhook(p, o) ==
  /\ At(p, "idle") /\ due[o] # "none"
  /\ proc' = [proc EXCEPT ![p] =
       [pc |-> IF ord[o].provider = "waffo" /\ due[o] = "failed" THEN "top" ELSE "lock",
        order |-> o, event |-> due[o]]]
  /\ UNCHANGED <<ord, due, held, row, wallet, subs, mishaps>>

AdminCompleteTopUp(p, o) ==
  /\ At(p, "idle") /\ ord[o].kind = "topup" /\ ord[o].status = "pending"
  /\ proc' = [proc EXCEPT ![p] = [pc |-> "lock", order |-> o, event |-> "manual"]]
  /\ UNCHANGED <<ord, due, held, row, wallet, subs, mishaps>>

\* Stripe and Creem orders are looked for among the subscriptions first.
LockOrder(p) ==
  LET q == proc[p]
      first == CASE q.event = "manual" -> "top"
                 [] q.event = "failed" -> "read"
                 [] q.event \in {"paid", "expired"} /\ Of(p).kind = "topup"
                      /\ Of(p).provider \notin {"stripe", "creem"} -> "top"
                 [] OTHER -> "sub"
  IN /\ At(p, "lock") /\ held[NodeOf[p]][q.order] = NoOne
     /\ held' = [held EXCEPT ![NodeOf[p]][q.order] = p]
     /\ Go(p, first)
     /\ UNCHANGED <<ord, due, row, wallet, subs, mishaps>>

Unlocked(p) ==
  [held EXCEPT ![NodeOf[p]][proc[p].order] = IF @ = p THEN NoOne ELSE @]

\* The deferred unlock and the answer to what was carried out or refused.  Stripe
\* is always answered with success.  An answer may get lost.
Answer(p, ok) ==
  /\ held' = Unlocked(p)
  /\ proc' = [proc EXCEPT ![p] = Resting]
  /\ LET o == proc[p].order
         seen == proc[p].event # "manual" /\ due[o] = proc[p].event /\ (ok \/ Of(p).provider = "stripe")
     IN \/ due' = [due EXCEPT ![o] = IF seen THEN "none" ELSE @] /\ UNCHANGED mishaps
        \/ seen /\ mishaps < MaxFaults /\ mishaps' = mishaps + 1 /\ UNCHANGED due

\* A transaction that changes nothing: the order was completed before, or it is
\* refused, which Stripe is not told.
Refuse(p, ok) ==
  /\ Answer(p, ok)
  /\ LET o == proc[p].order
         dismissed == ~ok /\ proc[p].event # "manual" /\ due'[o] = "none"
     IN Put(o, [ord[o] EXCEPT !.dismissed = @ \/ dismissed])

\* The transaction locks the order and the user row, then counts.
CompleteSubscriptionOrder(p) ==
  /\ At(p, "sub") /\ proc[p].event = "paid" /\ Of(p).kind = "subscription" /\ row = NoOne
  /\ IF Of(p).status = "pending" /\ subs < PlanLimit
     THEN Go(p, "commit") /\ row' = p /\ UNCHANGED <<ord, held, due, mishaps>>
     ELSE Refuse(p, Of(p).status = "success") /\ UNCHANGED row
  /\ UNCHANGED <<wallet, subs>>

CreateUserSubscriptionFromPlanTx(p) ==
  /\ At(p, "commit")
  /\ subs' = subs + 1 /\ row' = NoOne
  /\ Put(proc[p].order, [Of(p) EXCEPT !.status = "success", !.times = @ + 1])
  /\ Answer(p, TRUE)
  /\ UNCHANGED wallet

ExpireSubscriptionOrder(p) ==
  /\ At(p, "sub") /\ proc[p].event = "expired" /\ Of(p).kind = "subscription"
  /\ Put(proc[p].order, [Of(p) EXCEPT !.status = IF @ = "pending" THEN "expired" ELSE @])
  /\ Answer(p, TRUE)
  /\ UNCHANGED <<row, wallet, subs>>

\* ErrSubscriptionOrderNotFound
NotASubscription(p) ==
  /\ At(p, "sub") /\ Of(p).kind = "topup" /\ Go(p, "top")
  /\ UNCHANGED <<ord, due, held, row, wallet, subs, mishaps>>

\* Creem answers success when the order was handled before, Stripe's answer
\* does not depend on it.
Repeated(p) == Of(p).status = "success" \/ (Of(p).provider = "creem" /\ Of(p).status # "pending")

\* Mutant: the settlement's check is stricter than the one before the payment.
MutcreditTopUpQuota(quota) == wallet < topUpQuotaMaxCurrent(quota)
creditTopUpQuota(quota) == wallet <= topUpQuotaMaxCurrent(quota)

\* Mutant: an order that was completed is completed again.
MutCompletable(p) == Of(p).status \in {"pending", "success"}
Completable(p) == Of(p).status = "pending"

\* One transaction: the row lock, the status, the credit and the reward of the
\* inviter.  A wallet that is too full rolls it back.
Credit(p, quota) ==
  IF Completable(p) /\ creditTopUpQuota(quota)
  THEN /\ Put(proc[p].order, [Of(p) EXCEPT !.status = "success", !.times = @ + 1, !.sum = @ + quota])
       /\ wallet' = wallet + quota /\ Answer(p, TRUE)
  ELSE Refuse(p, Repeated(p)) /\ UNCHANGED wallet

Top(p, event) == At(p, "top") /\ proc[p].event = event /\ row = NoOne

RechargeEpay(p) == Top(p, "paid") /\ Of(p).provider = "epay" /\ Credit(p, Worth(proc[p].order)) /\ UNCHANGED <<row, subs>>
Recharge(p) == Top(p, "paid") /\ Of(p).provider = "stripe" /\ Credit(p, Worth(proc[p].order)) /\ UNCHANGED <<row, subs>>
RechargeCreem(p) ==
  /\ Top(p, "paid") /\ Of(p).provider = "creem" /\ Of(p).onetime
  /\ Credit(p, Worth(proc[p].order)) /\ UNCHANGED <<row, subs>>
RechargeWaffo(p) == Top(p, "paid") /\ Of(p).provider = "waffo" /\ Credit(p, Worth(proc[p].order)) /\ UNCHANGED <<row, subs>>
RechargeWaffoPancake(p) ==
  Top(p, "paid") /\ Of(p).provider = "waffo_pancake" /\ Credit(p, Worth(proc[p].order)) /\ UNCHANGED <<row, subs>>
ManualCompleteTopUp(p) == Top(p, "manual") /\ Credit(p, ManualWorth(proc[p].order)) /\ UNCHANGED <<row, subs>>

UpdatePendingTopUpStatus(p) ==
  /\ At(p, "top") /\ proc[p].event \in {"failed", "expired"}
  /\ Put(proc[p].order, [Of(p) EXCEPT !.status = IF @ = "pending" THEN proc[p].event ELSE @])
  /\ Answer(p, TRUE)
  /\ UNCHANGED <<row, wallet, subs>>

\* sessionAsyncPaymentFailed reads the row, and saves it as failed later.
sessionAsyncPaymentFailed(p) ==
  /\ At(p, "read")
  /\ IF Of(p).kind = "topup" /\ Of(p).status = "pending" THEN Go(p, "save") /\ UNCHANGED <<held, due, mishaps>>
     ELSE Answer(p, TRUE)
  /\ UNCHANGED <<ord, row, wallet, subs>>

SaveFailed(p) ==
  /\ At(p, "save")
  /\ Put(proc[p].order, [Of(p) EXCEPT !.status = "failed"])
  /\ Answer(p, TRUE)
  /\ UNCHANGED <<row, wallet, subs>>

\* The answer is success, and the provider will not come back.
Dismiss(p) ==
  /\ due' = [due EXCEPT ![proc[p].order] = "none"]
  /\ Put(proc[p].order, [Of(p) EXCEPT !.dismissed = TRUE])

\* Creem sells the quota as something other than a single payment: the handler
\* tells it to have taken notice.
IgnoreOrderType(p) ==
  /\ Top(p, "paid") /\ Of(p).provider = "creem" /\ ~Of(p).onetime
  /\ Dismiss(p) /\ held' = Unlocked(p) /\ proc' = [proc EXCEPT ![p] = Resting]
  /\ UNCHANGED <<row, wallet, subs, mishaps>>

\* Where a failed statement is answered with success: everywhere for Stripe; in
\* Waffo Pancake's look-up of the order, before the lock; in Creem's look-up of a
\* subscription, which then counts as an order of another type; and where
\* Waffo's failed payment is recorded.
AnsweredAnyway(p) ==
  \/ Of(p).provider = "stripe" /\ ~At(p, "lock")
  \/ Of(p).provider = "waffo_pancake" /\ At(p, "lock")
  \/ Of(p).provider = "creem" /\ At(p, "sub") /\ ~Of(p).onetime
  \/ Of(p).provider = "waffo" /\ proc[p].event = "failed"

\* A statement fails, or the process restarts: nothing was changed.
Fault(p) ==
  /\ ~At(p, "idle") /\ mishaps < MaxFaults /\ mishaps' = mishaps + 1
  /\ proc' = [proc EXCEPT ![p] = Resting]
  /\ held' = Unlocked(p) /\ row' = IF row = p THEN NoOne ELSE row
  /\ \/ UNCHANGED <<due, ord>>
     \/ proc[p].event # "manual" /\ AnsweredAnyway(p) /\ Dismiss(p)
  /\ UNCHANGED <<wallet, subs>>

-----------------------------------------------------------------------------
(* Subscriptions without a provider. *)

PurchaseSubscriptionWithBalance ==
  /\ row = NoOne /\ wallet >= Price /\ subs < PlanLimit
  /\ wallet' = wallet - Price /\ subs' = subs + 1
  /\ UNCHANGED <<ord, due, proc, held, row, mishaps>>

AdminBindSubscription ==
  /\ row = NoOne /\ subs < PlanLimit /\ subs' = subs + 1
  /\ UNCHANGED <<ord, due, proc, held, row, wallet, mishaps>>

Handle(p) ==
  \/ LockOrder(p) \/ NotASubscription(p) \/ CompleteSubscriptionOrder(p)
  \/ CreateUserSubscriptionFromPlanTx(p) \/ ExpireSubscriptionOrder(p)
  \/ RechargeEpay(p) \/ Recharge(p) \/ RechargeCreem(p) \/ RechargeWaffo(p) \/ RechargeWaffoPancake(p)
  \/ IgnoreOrderType(p) \/ ManualCompleteTopUp(p) \/ UpdatePendingTopUpStatus(p)
  \/ sessionAsyncPaymentFailed(p) \/ SaveFailed(p)

PayNext ==
  \/ \E o \in Orders : createEpayTopUpOrder(o) \/ InsertOrder(o) \/ OpenCheckout(o) \/ PayOrder(o) \/ EndSession(o)
  \/ \E p \in Procs : Handle(p) \/ Fault(p) \/ \E o \in Orders : Webhook(p, o) \/ AdminCompleteTopUp(p, o)
  \/ PurchaseSubscriptionWithBalance \/ AdminBindSubscription

PaySpec == PayInit /\ [][PayNext]_payVars

-----------------------------------------------------------------------------
(* Properties. *)

(* An order is delivered at most once, whatever is repeated, and whoever    *)
(* completes it: provider, browser or administrator, on any node.          *)
DeliveredAtMostOnce == \A o \in Orders : ord[o].times <= 1

(* No top-up lifts the wallet to the ceiling, although the balance moves   *)
(* between the check at checkout and the payment.                          *)
WalletBelowCeiling == wallet < MaxQuota

(* MaxPurchasePerUser holds for orders that complete at the same time.     *)
PurchaseLimitHolds == subs <= PlanLimit

(* What callbacks, browsers and administrators do to the orders of a user  *)
(* at the same time keeps all three.                                       *)
OrdersHold == DeliveredAtMostOnce /\ WalletBelowCeiling /\ PurchaseLimitHolds

(* A paid order is delivered in the end, unless the wallet or the plan has *)
(* no room for it, or its notification was dismissed: answered with        *)
(* success by a handler that had refused it or whose statement had failed  *)
(* (Stripe; the look-ups of Waffo Pancake and Creem), or by Creem's because*)
(* of the order's type.                                                    *)
PaidIsDelivered ==
  \A o \in Orders :
    ord[o].paid ~> (ord[o].times = 1 \/ ~ValidateTopUpQuotaCapacity(o) \/ ord[o].dismissed)

(* Not kept by the code, see the README.                                   *)
(* An order credits the same quota whether its provider or an              *)
(* administrator completes it.                                             *)
CreditsWhatWasBought == \A o \in Orders : ord[o].sum \in {0, Worth(o)}
=============================================================================
