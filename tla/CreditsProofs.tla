---------------------------- MODULE CreditsProofs ----------------------------
(***************************************************************************)
(* Proofs about what adds to an account.                                   *)
(*                                                                         *)
(* Orders: for any orders, providers, goroutines and nodes.  Neither the   *)
(* order lock, which is one process's own, nor the number of times a       *)
(* notification is repeated matters: the status is compared under the row  *)
(* lock.                                                                   *)
(*                                                                         *)
(* Codes, awards and invitations: for any goroutines that race, with and   *)
(* without row locks.                                                      *)
(*                                                                         *)
(* Subscriptions: for any plans, goroutines and any length of time.        *)
(***************************************************************************)
EXTENDS Payments, Rewards, Subscriptions, Sums

(* Orders. *)

OrderFields == {"kind", "provider", "onetime", "status", "session", "paid", "times", "sum", "dismissed"}

\* An order that can still be completed has not been.
OrderHolds(q) ==
  /\ DOMAIN q = OrderFields /\ q.times \in {0, 1}
  /\ q.status \in {"none", "pending"} => q.times = 0

\* Who is about to create a subscription has the user row, and counted under it.
HandlerHolds(p, q) ==
  /\ DOMAIN q = {"pc", "order", "event"}
  /\ q.pc # "idle" => q.order \in Orders
  /\ q.pc = "commit" => row = p /\ subs < PlanLimit /\ ord[q.order].times = 0

AccountHolds == wallet \in Nat /\ wallet < MaxQuota /\ subs \in Nat /\ subs <= PlanLimit

PayInv ==
  /\ AccountHolds
  /\ DOMAIN ord = Orders /\ \A o \in Orders : OrderHolds(ord[o])
  /\ DOMAIN proc = Procs /\ \A p \in Procs : HandlerHolds(p, proc[p])

LEMMA NobodyCommits ==
    ASSUME PayInv, row = NoOne
    PROVE  \A p \in Procs : proc[p].pc # "commit"
  BY PaymentsAssumption DEF PayInv, HandlerHolds, NoOne

\* Only an order changes, and not what it has brought.
LEMMA OrderStep ==
    ASSUME PayInv, NEW o \in Orders, NEW q, ord' = [ord EXCEPT ![o] = q],
           OrderHolds(q), q.times = ord[o].times, UNCHANGED <<proc, row, wallet, subs>>
    PROVE  PayInv'
  <1>1. /\ DOMAIN ord' = Orders /\ ord'[o] = q /\ \A x \in Orders \ {o} : ord'[x] = ord[x]
    BY DEF PayInv
  <1>2. \A x \in Orders : OrderHolds(ord'[x]) /\ ord'[x].times = ord[x].times
    BY <1>1 DEF PayInv
  <1>3. AccountHolds' /\ DOMAIN proc' = Procs
    BY DEF PayInv, AccountHolds
  <1>4. \A p \in Procs : HandlerHolds(p, proc[p])'
    BY <1>2 DEF PayInv, HandlerHolds
  <1>5. \A x \in Orders : OrderHolds(ord[x])'
    BY <1>2 DEF OrderHolds
  <1> QED
    BY <1>1, <1>3, <1>4, <1>5 DEF PayInv

\* A goroutine goes on, and brings nothing.
LEMMA HandlerStep ==
    ASSUME PayInv, NEW p \in Procs, NEW q, proc' = [proc EXCEPT ![p] = q],
           DOMAIN q = {"pc", "order", "event"}, q.pc # "idle" => q.order \in Orders, q.pc # "commit",
           DOMAIN ord' = Orders, \A o \in Orders : OrderHolds(ord'[o]) /\ ord'[o].times = ord[o].times,
           UNCHANGED <<wallet, subs>>, row' = row \/ row = p
    PROVE  PayInv'
  <1>1. DOMAIN proc' = Procs /\ proc'[p] = q /\ \A x \in Procs \ {p} : proc'[x] = proc[x]
    BY DEF PayInv
  <1>2. AccountHolds'
    BY DEF PayInv, AccountHolds
  <1>3. ASSUME NEW x \in Procs PROVE HandlerHolds(x, proc[x])'
    <2>1. CASE x = p
      BY <1>1, <2>1 DEF HandlerHolds
    <2>2. CASE x # p
      BY <1>1, <2>2 DEF PayInv, HandlerHolds
    <2> QED
      BY <2>1, <2>2
  <1>4. \A o \in Orders : OrderHolds(ord[o])'
    BY DEF OrderHolds
  <1> QED
    BY <1>1, <1>2, <1>3, <1>4 DEF PayInv

\* Nobody else is about to create a subscription: a goroutine may end and bring
\* what it has to its order and to the account.
LEMMA BringStep ==
    ASSUME PayInv, NEW p \in Procs, proc' = [proc EXCEPT ![p] = Resting],
           \A x \in Procs \ {p} : proc[x].pc # "commit",
           NEW o \in Orders, NEW q, ord' = [ord EXCEPT ![o] = q], OrderHolds(q), AccountHolds'
    PROVE  PayInv'
  <1>1. /\ DOMAIN proc' = Procs /\ proc'[p] = Resting /\ \A x \in Procs \ {p} : proc'[x] = proc[x]
        /\ DOMAIN ord' = Orders /\ ord'[o] = q /\ \A x \in Orders \ {o} : ord'[x] = ord[x]
    BY DEF PayInv
  <1>2. \A x \in Procs : HandlerHolds(x, proc[x])'
    BY <1>1 DEF PayInv, HandlerHolds, Resting
  <1>3. \A x \in Orders : OrderHolds(ord'[x])
    BY <1>1 DEF PayInv
  <1>4. \A x \in Orders : OrderHolds(ord[x])'
    BY <1>3 DEF OrderHolds
  <1> QED
    BY <1>1, <1>2, <1>4 DEF PayInv

LEMMA CheckoutSteps ==
    ASSUME PayInv, NEW o \in Orders,
           createEpayTopUpOrder(o) \/ InsertOrder(o) \/ OpenCheckout(o) \/ PayOrder(o) \/ EndSession(o)
    PROVE  PayInv'
  <1>0. PICK q : q = ord[o]
    OBVIOUS
  <1>1. OrderHolds(q) /\ UNCHANGED <<proc, row, wallet, subs>>
    BY <1>0 DEF PayInv, createEpayTopUpOrder, InsertOrder, OpenCheckout, PayOrder, EndSession
  <1>2. CASE createEpayTopUpOrder(o) \/ InsertOrder(o)
    <2>1. PICK session : Put(o, [q EXCEPT !.status = "pending", !.session = session]) /\ q.status = "none"
      BY <1>0, <1>2 DEF createEpayTopUpOrder, InsertOrder
    <2> DEFINE new == [q EXCEPT !.status = "pending", !.session = session]
    <2>2. OrderHolds(new) /\ new.times = q.times
      BY <1>1, <2>1 DEF OrderHolds, OrderFields
    <2> QED
      BY <1>0, <1>1, <2>1, <2>2, OrderStep DEF Put
  <1>3. CASE OpenCheckout(o)
    <2>1. CASE Put(o, [q EXCEPT !.session = "open"])
      <3> DEFINE new == [q EXCEPT !.session = "open"]
      <3>1. OrderHolds(new) /\ new.times = q.times
        BY <1>1 DEF OrderHolds, OrderFields
      <3> QED
        BY <1>0, <1>1, <2>1, <3>1, OrderStep DEF Put
    <2>2. CASE Put(o, [q EXCEPT !.session = "closed", !.status = Unopened(o)])
      <3> DEFINE new == [q EXCEPT !.session = "closed", !.status = Unopened(o)]
      <3>1. Unopened(o) \in {q.status, "expired", "failed"}
        BY <1>0 DEF Unopened
      <3>2. OrderHolds(new) /\ new.times = q.times
        BY <1>1, <3>1 DEF OrderHolds, OrderFields
      <3> QED
        BY <1>0, <1>1, <2>2, <3>2, OrderStep DEF Put
    <2> QED
      BY <1>0, <1>3, <2>1, <2>2 DEF OpenCheckout
  <1>4. CASE PayOrder(o)
    <2> DEFINE new == [q EXCEPT !.session = "closed", !.paid = TRUE]
    <2>1. OrderHolds(new) /\ new.times = q.times
      BY <1>1 DEF OrderHolds, OrderFields
    <2> QED
      BY <1>0, <1>1, <1>4, <2>1, OrderStep DEF Put, PayOrder
  <1>5. CASE EndSession(o)
    <2> DEFINE new == [q EXCEPT !.session = "closed"]
    <2>1. OrderHolds(new) /\ new.times = q.times
      BY <1>1 DEF OrderHolds, OrderFields
    <2> QED
      BY <1>0, <1>1, <1>5, <2>1, OrderStep DEF Put, EndSession
  <1> QED
    BY <1>2, <1>3, <1>4, <1>5

LEMMA ArrivalSteps ==
    ASSUME PayInv, NEW p \in Procs, NEW o \in Orders, Webhook(p, o) \/ AdminCompleteTopUp(p, o)
    PROVE  PayInv'
  <1>1. PICK pc, event : /\ proc' = [proc EXCEPT ![p] = [pc |-> pc, order |-> o, event |-> event]] /\ pc \in {"top", "lock"}
                         /\ UNCHANGED <<ord, row, wallet, subs>>
    BY Zenon DEF Webhook, AdminCompleteTopUp
  <1> DEFINE q == [pc |-> pc, order |-> o, event |-> event]
  <1>2. DOMAIN q = {"pc", "order", "event"} /\ q.order = o /\ q.pc = pc
    OBVIOUS
  <1>3. DOMAIN ord' = Orders /\ \A x \in Orders : OrderHolds(ord'[x]) /\ ord'[x].times = ord[x].times
    BY <1>1 DEF PayInv
  <1> HIDE DEF q
  <1>4. proc' = [proc EXCEPT ![p] = q]
    BY <1>1 DEF q
  <1> QED
    BY <1>1, <1>2, <1>3, <1>4, HandlerStep

\* A goroutine that works on an order.
LEMMA Working ==
    ASSUME PayInv, NEW p \in Procs, ~At(p, "idle")
    PROVE  proc[p].order \in Orders /\ OrderHolds(Of(p)) /\ DOMAIN proc[p] = {"pc", "order", "event"}
  BY DEF PayInv, HandlerHolds, At, Of

\* It ends, or goes on, without a change of its order.
LEMMA OnlyHandler ==
    ASSUME PayInv, NEW p \in Procs, UNCHANGED <<ord, wallet, subs>>, row' = row \/ row = p,
           \/ proc' = [proc EXCEPT ![p] = Resting]
           \/ ~At(p, "idle") /\ \E pc \in {"top", "read", "sub", "save"} : Go(p, pc)
    PROVE  PayInv'
  <1>1. DOMAIN ord' = Orders /\ \A x \in Orders : OrderHolds(ord'[x]) /\ ord'[x].times = ord[x].times
    BY DEF PayInv
  <1>2. CASE proc' = [proc EXCEPT ![p] = Resting]
    <2>1. DOMAIN Resting = {"pc", "order", "event"} /\ Resting.pc = "idle"
      BY DEF Resting
    <2> HIDE DEF Resting
    <2> QED
      BY <1>1, <1>2, <2>1, HandlerStep
  <1>3. ASSUME ~At(p, "idle"), NEW pc \in {"top", "read", "sub", "save"}, Go(p, pc) PROVE PayInv'
    <2> DEFINE q == [proc[p] EXCEPT !.pc = pc]
    <2>1. DOMAIN q = {"pc", "order", "event"} /\ q.pc = pc /\ q.order \in Orders
      BY <1>3, Working
    <2>2. proc' = [proc EXCEPT ![p] = q]
      BY <1>3 DEF Go
    <2> HIDE DEF q
    <2> QED
      BY <1>1, <1>3, <2>1, <2>2, HandlerStep
  <1> QED
    BY <1>2, <1>3

\* It ends with another status of its order, which is not to be completed again.
LEMMA StatusStep ==
    ASSUME PayInv, NEW p \in Procs, ~At(p, "idle"), proc' = [proc EXCEPT ![p] = Resting], UNCHANGED <<row, wallet, subs>>,
           NEW status, status \notin {"none", "pending"} \/ status = Of(p).status,
           Put(proc[p].order, [Of(p) EXCEPT !.status = status])
    PROVE  PayInv'
  <1>0. PICK o, q : o = proc[p].order /\ q = Of(p)
    OBVIOUS
  <1>1. o \in Orders /\ OrderHolds(q) /\ q = ord[o]
    BY <1>0, Working DEF Of
  <1> DEFINE new == [q EXCEPT !.status = status]
  <1>2. OrderHolds(new) /\ new.times = q.times
    BY <1>0, <1>1 DEF OrderHolds, OrderFields
  <1>3. ord' = [ord EXCEPT ![o] = new]
    BY <1>0 DEF Put
  <1> HIDE DEF new
  <1>4. DOMAIN ord' = Orders /\ \A x \in Orders : OrderHolds(ord'[x]) /\ ord'[x].times = ord[x].times
    BY <1>1, <1>2, <1>3 DEF PayInv
  <1>5. DOMAIN Resting = {"pc", "order", "event"} /\ Resting.pc = "idle"
    BY DEF Resting
  <1> HIDE DEF Resting
  <1> QED
    BY <1>4, <1>5, HandlerStep

\* It ends, and its order is at most marked as dismissed.
LEMMA NotedStep ==
    ASSUME PayInv, NEW p \in Procs, ~At(p, "idle"), proc' = [proc EXCEPT ![p] = Resting],
           UNCHANGED <<wallet, subs>>, row' = row \/ row = p,
           NEW dismissed, Put(proc[p].order, [Of(p) EXCEPT !.dismissed = dismissed])
    PROVE  PayInv'
  <1>0. PICK o, q : o = proc[p].order /\ q = Of(p)
    OBVIOUS
  <1>1. o \in Orders /\ OrderHolds(q) /\ q = ord[o]
    BY <1>0, Working DEF Of
  <1> DEFINE new == [q EXCEPT !.dismissed = dismissed]
  <1>2. OrderHolds(new) /\ new.times = q.times
    BY <1>1 DEF OrderHolds, OrderFields
  <1>3. ord' = [ord EXCEPT ![o] = new]
    BY <1>0 DEF Put
  <1> HIDE DEF new
  <1>4. DOMAIN ord' = Orders /\ \A x \in Orders : OrderHolds(ord'[x]) /\ ord'[x].times = ord[x].times
    BY <1>1, <1>2, <1>3 DEF PayInv
  <1>5. DOMAIN Resting = {"pc", "order", "event"} /\ Resting.pc = "idle"
    BY DEF Resting
  <1> HIDE DEF Resting
  <1> QED
    BY <1>4, <1>5, HandlerStep

\* A transaction that changes nothing ends.
LEMMA RefusedStep ==
    ASSUME PayInv, NEW p \in Procs, ~At(p, "idle"), NEW ok, Refuse(p, ok), UNCHANGED <<row, wallet, subs>>
    PROVE  PayInv'
  <1>1. PICK dismissed : Put(proc[p].order, [Of(p) EXCEPT !.dismissed = dismissed])
    BY DEF Refuse, Of
  <1>2. proc' = [proc EXCEPT ![p] = Resting]
    BY DEF Refuse, Answer
  <1> QED
    BY <1>1, <1>2, NotedStep

LEMMA LockSteps ==
    ASSUME PayInv, NEW p \in Procs,
           LockOrder(p) \/ NotASubscription(p) \/ sessionAsyncPaymentFailed(p) \/ IgnoreOrderType(p) \/ Fault(p)
    PROVE  PayInv'
  <1>1. CASE LockOrder(p)
    <2>1. \E pc \in {"top", "read", "sub", "save"} : Go(p, pc)
      BY <1>1, Zenon DEF LockOrder
    <2>2. ~At(p, "idle") /\ UNCHANGED <<ord, wallet, subs, row>>
      BY <1>1 DEF LockOrder, At
    <2> QED
      BY <2>1, <2>2, OnlyHandler
  <1>2. CASE NotASubscription(p)
    <2>1. ~At(p, "idle") /\ UNCHANGED <<ord, wallet, subs, row>> /\ Go(p, "top")
      BY <1>2 DEF NotASubscription, At
    <2> QED
      BY <2>1, OnlyHandler
  <1>3. CASE sessionAsyncPaymentFailed(p)
    <2>1. ~At(p, "idle") /\ UNCHANGED <<ord, wallet, subs, row>> /\ (Go(p, "save") \/ proc' = [proc EXCEPT ![p] = Resting])
      BY <1>3 DEF sessionAsyncPaymentFailed, At, Answer
    <2> QED
      BY <2>1, OnlyHandler
  <1>4. CASE Fault(p)
    <2>1. UNCHANGED <<wallet, subs>> /\ (row' = row \/ row = p) /\ proc' = [proc EXCEPT ![p] = Resting] /\ ~At(p, "idle")
      BY <1>4 DEF Fault
    <2>2. CASE UNCHANGED ord
      BY <2>1, <2>2, OnlyHandler
    <2>3. CASE Dismiss(p)
      BY <2>1, <2>3, NotedStep DEF Dismiss
    <2> QED
      BY <1>4, <2>2, <2>3 DEF Fault
  <1>5. CASE IgnoreOrderType(p)
    <2>1. UNCHANGED <<row, wallet, subs>> /\ proc' = [proc EXCEPT ![p] = Resting] /\ ~At(p, "idle") /\ Dismiss(p)
      BY <1>5 DEF IgnoreOrderType, Top, At
    <2> QED
      BY <2>1, NotedStep DEF Dismiss
  <1> QED
    BY <1>1, <1>2, <1>3, <1>4, <1>5

LEMMA EndingSteps ==
    ASSUME PayInv, NEW p \in Procs, ExpireSubscriptionOrder(p) \/ UpdatePendingTopUpStatus(p) \/ SaveFailed(p)
    PROVE  PayInv'
  <1>1. ~At(p, "idle") /\ proc' = [proc EXCEPT ![p] = Resting] /\ UNCHANGED <<row, wallet, subs>>
    BY DEF ExpireSubscriptionOrder, UpdatePendingTopUpStatus, SaveFailed, Answer, At
  <1>2. CASE ExpireSubscriptionOrder(p)
    <2> DEFINE status == IF Of(p).status = "pending" THEN "expired" ELSE Of(p).status
    <2>1. Put(proc[p].order, [Of(p) EXCEPT !.status = status])
      BY <1>2 DEF ExpireSubscriptionOrder
    <2>2. status \notin {"none", "pending"} \/ status = Of(p).status
      OBVIOUS
    <2> HIDE DEF status
    <2> QED
      BY <1>1, <2>1, <2>2, StatusStep
  <1>3. CASE UpdatePendingTopUpStatus(p)
    <2> DEFINE status == IF Of(p).status = "pending" THEN proc[p].event ELSE Of(p).status
    <2>1. Put(proc[p].order, [Of(p) EXCEPT !.status = status]) /\ proc[p].event \in {"failed", "expired"}
      BY <1>3 DEF UpdatePendingTopUpStatus
    <2>2. status \notin {"none", "pending"} \/ status = Of(p).status
      BY <2>1
    <2> HIDE DEF status
    <2> QED
      BY <1>1, <2>1, <2>2, StatusStep
  <1>4. CASE SaveFailed(p)
    BY <1>1, <1>4, StatusStep DEF SaveFailed
  <1> QED
    BY <1>2, <1>3, <1>4

\* The user row is locked before the subscriptions are counted.
LEMMA SubscribeSteps ==
    ASSUME PayInv, NEW p \in Procs, CompleteSubscriptionOrder(p) \/ CreateUserSubscriptionFromPlanTx(p)
    PROVE  PayInv'
  <1>0. PICK o, q : o = proc[p].order /\ q = Of(p)
    OBVIOUS
  <1>1. ~At(p, "idle") /\ o \in Orders /\ OrderHolds(q) /\ q = ord[o] /\ DOMAIN proc[p] = {"pc", "order", "event"}
    <2>1. ~At(p, "idle")
      BY DEF CompleteSubscriptionOrder, CreateUserSubscriptionFromPlanTx, At
    <2> QED
      BY <1>0, <2>1, Working DEF Of
  <1>2. CASE /\ CompleteSubscriptionOrder(p) /\ Go(p, "commit") /\ row' = p /\ Of(p).status = "pending" /\ subs < PlanLimit
             /\ UNCHANGED ord
    <2>1. row = NoOne /\ UNCHANGED <<ord, wallet, subs>>
      BY <1>2 DEF CompleteSubscriptionOrder
    <2>2. \A x \in Procs : proc[x].pc # "commit"
      BY <2>1, NobodyCommits
    <2> DEFINE new == [proc[p] EXCEPT !.pc = "commit"]
    <2>3. DOMAIN new = {"pc", "order", "event"} /\ new.order = o
      BY <1>0, <1>1
    <2>4. proc' = [proc EXCEPT ![p] = new]
      BY <1>2 DEF Go
    <2> HIDE DEF new
    <2>5. DOMAIN proc' = Procs /\ proc'[p] = new /\ \A x \in Procs \ {p} : proc'[x] = proc[x]
      BY <2>4 DEF PayInv
    <2>6. q.times = 0
      BY <1>0, <1>1, <1>2 DEF OrderHolds
    <2>7. ASSUME NEW x \in Procs PROVE HandlerHolds(x, proc[x])'
      <3>1. CASE x = p
        BY <1>1, <1>2, <2>1, <2>3, <2>5, <2>6, <3>1 DEF HandlerHolds
      <3>2. CASE x # p
        BY <2>2, <2>5, <3>2 DEF PayInv, HandlerHolds
      <3> QED
        BY <3>1, <3>2
    <2> QED
      BY <2>1, <2>5, <2>7 DEF PayInv, AccountHolds, OrderHolds
  <1>3. CASE CompleteSubscriptionOrder(p) /\ Refuse(p, Of(p).status = "success") /\ UNCHANGED row
    <2>1. UNCHANGED <<wallet, subs>>
      BY <1>3 DEF CompleteSubscriptionOrder
    <2> QED
      BY <1>1, <1>3, <2>1, RefusedStep
  <1>4. CASE CreateUserSubscriptionFromPlanTx(p)
    <2>1. /\ proc[p].pc = "commit" /\ subs' = subs + 1 /\ UNCHANGED wallet /\ proc' = [proc EXCEPT ![p] = Resting]
          /\ Put(o, [q EXCEPT !.status = "success", !.times = @ + 1])
      BY <1>0, <1>4 DEF CreateUserSubscriptionFromPlanTx, At, Answer
    <2>2. row = p /\ subs < PlanLimit /\ q.times = 0
      BY <1>0, <2>1 DEF PayInv, HandlerHolds, Of
    <2>3. \A x \in Procs \ {p} : proc[x].pc # "commit"
      BY <2>2 DEF PayInv, HandlerHolds
    <2>4. AccountHolds'
      BY <2>1, <2>2, PaymentsAssumption DEF PayInv, AccountHolds
    <2> DEFINE new == [q EXCEPT !.status = "success", !.times = q.times + 1]
    <2>5. OrderHolds(new) /\ ord' = [ord EXCEPT ![o] = new]
      BY <1>1, <2>1, <2>2 DEF OrderHolds, OrderFields, Put
    <2> HIDE DEF new
    <2> QED
      BY <1>1, <2>1, <2>3, <2>4, <2>5, BringStep
  <1>5. CASE CompleteSubscriptionOrder(p)
    BY <1>2, <1>3, <1>5 DEF CompleteSubscriptionOrder
  <1> QED
    BY <1>4, <1>5

LEMMA CreditSteps ==
    ASSUME PayInv, NEW p \in Procs,
           \/ RechargeEpay(p) \/ Recharge(p) \/ RechargeCreem(p) \/ RechargeWaffo(p) \/ RechargeWaffoPancake(p)
           \/ ManualCompleteTopUp(p)
    PROVE  PayInv'
  <1>1. PICK quota \in {1, 2} : Credit(p, quota) /\ At(p, "top") /\ row = NoOne /\ UNCHANGED <<row, subs>>
    BY DEF RechargeEpay, Recharge, RechargeCreem, RechargeWaffo, RechargeWaffoPancake, ManualCompleteTopUp, Top, Worth,
           ManualWorth, QuotaPerUnit
  <1>2. CASE ~(Completable(p) /\ creditTopUpQuota(quota))
    <2>1. UNCHANGED <<wallet, subs, row>> /\ Refuse(p, Repeated(p)) /\ ~At(p, "idle")
      BY <1>1, <1>2 DEF Credit, At
    <2> QED
      BY <2>1, RefusedStep
  <1>3. CASE Completable(p) /\ creditTopUpQuota(quota)
    <2>0. PICK o, q : o = proc[p].order /\ q = Of(p)
      OBVIOUS
    <2>1. o \in Orders /\ OrderHolds(q) /\ q = ord[o]
      <3>1. ~At(p, "idle")
        BY <1>1 DEF At
      <3> QED
        BY <2>0, <3>1, Working DEF Of
    <2>2. /\ proc' = [proc EXCEPT ![p] = Resting] /\ wallet' = wallet + quota
          /\ Put(o, [q EXCEPT !.status = "success", !.times = @ + 1, !.sum = @ + quota])
      BY <1>1, <1>3, <2>0 DEF Credit, Answer
    <2>3. q.times = 0
      BY <1>3, <2>0, <2>1 DEF Completable, OrderHolds
    <2>4. AccountHolds'
      <3>1. wallet <= MaxQuota - 1 - quota
        BY <1>3 DEF creditTopUpQuota, topUpQuotaMaxCurrent
      <3> QED
        BY <1>1, <2>2, <3>1, PaymentsAssumption DEF PayInv, AccountHolds
    <2>5. \A x \in Procs \ {p} : proc[x].pc # "commit"
      BY <1>1, NobodyCommits
    <2> DEFINE new == [q EXCEPT !.status = "success", !.times = q.times + 1, !.sum = q.sum + quota]
    <2>6. OrderHolds(new) /\ ord' = [ord EXCEPT ![o] = new]
      BY <2>1, <2>2, <2>3 DEF OrderHolds, OrderFields, Put
    <2> HIDE DEF new
    <2> QED
      BY <2>1, <2>2, <2>4, <2>5, <2>6, BringStep
  <1> QED
    BY <1>2, <1>3

LEMMA BalanceSteps ==
    ASSUME PayInv, PurchaseSubscriptionWithBalance \/ AdminBindSubscription
    PROVE  PayInv'
  <1>1. row = NoOne /\ UNCHANGED <<ord, proc, row>>
    BY DEF PurchaseSubscriptionWithBalance, AdminBindSubscription
  <1>2. \A p \in Procs : proc[p].pc # "commit"
    BY <1>1, NobodyCommits
  <1>3. AccountHolds'
    BY PaymentsAssumption DEF PurchaseSubscriptionWithBalance, AdminBindSubscription, PayInv, AccountHolds, Price
  <1> QED
    BY <1>1, <1>2, <1>3 DEF PayInv, HandlerHolds, OrderHolds

(* Whatever notifications are repeated, answers lost, transactions rolled  *)
(* back and requests of the user, of browsers and of administrators in     *)
(* flight at once, on any number of nodes: an order is delivered at most   *)
(* once, no top-up lifts the wallet to its ceiling, and completions do not *)
(* pass MaxPurchasePerUser.                                                *)
THEOREM OrdersAreSafe == PaySpec => []OrdersHold
  <1>1. PayInit => PayInv
    <2> SUFFICES ASSUME PayInit PROVE PayInv
      OBVIOUS
    <2>1. DOMAIN ord = Orders /\ \A o \in Orders : OrderHolds(ord[o])
      BY DEF PayInit, OrderHolds, OrderFields
    <2>2. DOMAIN proc = Procs /\ \A p \in Procs : HandlerHolds(p, proc[p])
      BY DEF PayInit, HandlerHolds, Resting
    <2>3. AccountHolds
      BY PaymentsAssumption DEF PayInit, AccountHolds
    <2> QED
      BY <2>1, <2>2, <2>3 DEF PayInv
  <1>2. PayInv /\ [PayNext]_payVars => PayInv'
    <2> SUFFICES ASSUME PayInv, [PayNext]_payVars PROVE PayInv'
      OBVIOUS
    <2>1. ASSUME NEW p \in Procs, Handle(p) PROVE PayInv'
      BY <2>1, LockSteps, SubscribeSteps, EndingSteps, CreditSteps DEF Handle
    <2>2. CASE UNCHANGED payVars
      BY <2>2 DEF payVars, PayInv, AccountHolds, OrderHolds, HandlerHolds
    <2> QED
      BY <2>1, <2>2, CheckoutSteps, ArrivalSteps, LockSteps, BalanceSteps DEF PayNext
  <1>3. PayInv => OrdersHold
    BY DEF PayInv, AccountHolds, OrderHolds, OrdersHold, DeliveredAtMostOnce, WalletBelowCeiling, PurchaseLimitHolds
  <1> QED
    BY <1>1, <1>2, <1>3, PTL DEF PaySpec

-----------------------------------------------------------------------------
(* Codes, awards and invitations. *)

\* A usable code has been credited as often as it was made usable again.
CodeInv ==
  /\ DOMAIN code = {"status", "expired", "credits", "asked", "written", "edits"}
  /\ code.credits \in Nat /\ code.written \in Nat /\ code.credits <= 1 + code.written
  /\ code.status = "enabled" => code.credits <= code.written

Crediting(a, k) == Is(a, "credit") /\ act[a].of = k

\* Who credits a check-in has written its record, alone.
AwardInv ==
  /\ DOMAIN act = Claimants /\ DOMAIN award = Days \cup {Activity} /\ today \in Days
  /\ \A a \in Claimants : Is(a, "credit") => act[a].of \in DOMAIN award
  /\ \A k \in DOMAIN award :
       /\ DOMAIN award[k] = {"row", "paid"} /\ award[k].paid \in {0, 1} /\ (award[k].paid = 1 => award[k].row)
       /\ \A a \in Claimants : Crediting(a, k) => award[k].row /\ award[k].paid = 0
  /\ \A a, b \in Claimants : \A k \in DOMAIN award : Crediting(a, k) /\ Crediting(b, k) => a = b

\* Who registers a user has counted the others: under the lock, or to compare again.
InviteInv ==
  /\ DOMAIN act = Claimants /\ IsFiniteSet(members) /\ Cardinality(members) <= InviteLimit
  /\ \A a \in Claimants : Is(a, "register") =>
       /\ act[a].sum < InviteLimit
       /\ rowLocks => locked = a /\ act[a].sum = Cardinality(members)

(* Who redeems and who edits a code may interleave at any point: a code is *)
(* credited once, and once more for each write that made it usable again.  *)
THEOREM CodesAreSpentOnce == RewSpec => []RedeemedOncePerIssue
  <1>1. RewInit => CodeInv
    BY DEF RewInit, CodeInv
  <1>2. CodeInv /\ [RewNext]_rewVars => CodeInv'
    <2> SUFFICES ASSUME CodeInv, [RewNext]_rewVars PROVE CodeInv'
      OBVIOUS
    <2>1. CASE UNCHANGED code
      BY <2>1 DEF CodeInv
    <2>2. ASSUME NEW a \in Claimants, Redeem(a) PROVE CodeInv'
      BY <2>2 DEF Redeem, EnabledStill, CodeInv
    <2>3. ASSUME NEW a \in Claimants, GetRedemptionById(a) PROVE CodeInv'
      BY <2>3 DEF GetRedemptionById, CodeInv
    <2>4. ASSUME NEW a \in Claimants, UpdateRedemption(a) PROVE CodeInv'
      BY <2>4 DEF UpdateRedemption, CodeInv
    <2>5. ASSUME NEW a \in Claimants, DeleteRedemptionById(a) PROVE CodeInv'
      BY <2>5 DEF DeleteRedemptionById, CodeInv
    <2>6. CASE ExpireCode
      BY <2>6 DEF ExpireCode, CodeInv
    <2>7. ASSUME NEW a \in Claimants, RedeemRead(a) PROVE UNCHANGED code
      BY <2>7 DEF RedeemRead, codeVars
    <2>8. CASE AwardNext
      BY <2>1, <2>8 DEF AwardNext, HasCheckedInToday, HasActivityClaim, ClaimActivityReward, userCheckinWithTransaction,
           userCheckinWithoutTransaction, CheckinCredit, Midnight, codeVars
    <2>9. CASE AffiliateNext
      BY <2>1, <2>9 DEF AffiliateNext, ResolveAffiliateInviterTx, CreateUserWithAffiliateTx, inviteUser, AccrueRead, ApplyAffiliateRewardTx,
           ThawRead, ThawAffiliateQuotaTx, TransferAffiliateQuota, UpdateRead, UpdateWithTx, FreezeEnds, codeVars
    <2> QED
      BY <2>1, <2>2, <2>3, <2>4, <2>5, <2>6, <2>7, <2>8, <2>9 DEF RewNext, CodeNext, rewVars
  <1>3. CodeInv => RedeemedOncePerIssue
    BY DEF CodeInv, RedeemedOncePerIssue
  <1> QED
    BY <1>1, <1>2, <1>3, PTL DEF RewSpec

\* What a goroutine does when it goes on.
Onward(a) == DOMAIN act' = Claimants /\ \A b \in Claimants \ {a} : act'[b] = act[b]

\* A goroutine that is not about to credit goes on, and no award changes.
LEMMA ElsewhereStep ==
    ASSUME AwardInv, NEW a \in Claimants, Onward(a), act'[a].pc # "credit", UNCHANGED award, today' \in Days
    PROVE  AwardInv'
  <1>1. DOMAIN act' = Claimants /\ \A b \in Claimants \ {a} : act'[b] = act[b]
    BY DEF Onward
  <1>2. \A b \in Claimants, k \in DOMAIN award : Crediting(b, k)' => Crediting(b, k)
    BY <1>1 DEF Crediting, Is
  <1>3. \A b \in Claimants : Is(b, "credit")' => act'[b].of \in DOMAIN award
    BY <1>1 DEF Is, AwardInv
  <1> QED
    BY <1>1, <1>2, <1>3 DEF AwardInv

\* One award changes while nobody else is about to credit it.
LEMMA AwardStep ==
    ASSUME AwardInv, NEW a \in Claimants, NEW r, act' = [act EXCEPT ![a] = r], UNCHANGED today,
           NEW k \in DOMAIN award, DOMAIN award' = DOMAIN award, \A i \in DOMAIN award \ {k} : award'[i] = award[i],
           DOMAIN award'[k] = {"row", "paid"}, award'[k].paid \in {0, 1}, award'[k].paid = 1 => award'[k].row,
           r.pc = "credit" => r.of = k /\ award'[k].row /\ award'[k].paid = 0,
           \A b \in Claimants \ {a} : ~Crediting(b, k)
    PROVE  AwardInv'
  <1>1. DOMAIN act' = Claimants /\ act'[a] = r /\ \A b \in Claimants \ {a} : act'[b] = act[b]
    BY DEF AwardInv
  <1>2. \A b \in Claimants \ {a} : \A i : Crediting(b, i)' <=> Crediting(b, i)
    BY <1>1 DEF Crediting, Is
  <1>3. \A i : Crediting(a, i)' => i = k /\ award'[k].row /\ award'[k].paid = 0
    BY <1>1 DEF Crediting, Is
  <1>4. ASSUME NEW i \in DOMAIN award, NEW b \in Claimants, Crediting(b, i)' PROVE award'[i].row /\ award'[i].paid = 0
    <2>1. CASE b = a
      BY <1>3, <1>4, <2>1
    <2>2. CASE b # a
      BY <1>2, <1>4, <2>2 DEF AwardInv
    <2> QED
      BY <2>1, <2>2
  <1>5. ASSUME NEW i \in DOMAIN award, NEW b \in Claimants, NEW c \in Claimants, Crediting(b, i)', Crediting(c, i)' PROVE b = c
    BY <1>2, <1>3, <1>5 DEF AwardInv
  <1>6. \A i \in DOMAIN award : DOMAIN award'[i] = {"row", "paid"} /\ award'[i].paid \in {0, 1} /\ (award'[i].paid = 1 => award'[i].row)
    BY DEF AwardInv
  <1>7. \A b \in Claimants : Is(b, "credit")' => act'[b].of \in DOMAIN award
    BY <1>1 DEF Is, AwardInv
  <1> QED
    BY <1>1, <1>4, <1>5, <1>6, <1>7 DEF AwardInv

\* An award without a record is being credited by nobody.
LEMMA UnrecordedIsFree ==
    ASSUME AwardInv, NEW k \in DOMAIN award, UniqueRow(k)
    PROVE  award[k].paid = 0 /\ \A b \in Claimants : ~Crediting(b, k)
  BY DEF AwardInv, UniqueRow

\* A step that ends a goroutine's work and leaves the awards alone.
LEMMA RestStep ==
    ASSUME AwardInv, NEW a \in Claimants, Does(a, Off), UNCHANGED <<award, today>>
    PROVE  AwardInv'
  <1>1. Onward(a) /\ act'[a].pc # "credit"
    BY DEF Onward, Does, Off, AwardInv
  <1> QED
    BY <1>1, ElsewhereStep DEF AwardInv

\* The record and the credit in one transaction.
LEMMA TransactionStep ==
    ASSUME AwardInv, NEW a \in Claimants, Does(a, Off), UNCHANGED today, NEW k \in DOMAIN award, UniqueRow(k),
           award' = [award EXCEPT ![k] = [row |-> TRUE, paid |-> @.paid + 1]]
    PROVE  AwardInv'
  <1>1. award[k].paid = 0 /\ \A b \in Claimants \ {a} : ~Crediting(b, k)
    BY UnrecordedIsFree
  <1>2. DOMAIN award' = DOMAIN award /\ \A i \in DOMAIN award \ {k} : award'[i] = award[i]
    OBVIOUS
  <1>3. award'[k] = [row |-> TRUE, paid |-> award[k].paid + 1]
    OBVIOUS
  <1>4. DOMAIN award'[k] = {"row", "paid"} /\ award'[k].paid = 1 /\ award'[k].row
    BY <1>1, <1>3
  <1>5. PICK r : r = Off
    BY Zenon
  <1>6. r.pc # "credit" /\ act' = [act EXCEPT ![a] = r]
    BY <1>5 DEF Off, Does
  <1>7. UNCHANGED today
    OBVIOUS
  <1>8. award'[k].paid \in {0, 1}
    BY <1>4
  <1> QED
    BY <1>1, <1>2, <1>4, <1>6, <1>7, <1>8, AwardStep

LEMMA ClaimSteps ==
    ASSUME AwardInv, NEW a \in Claimants,
           ClaimActivityReward(a) \/ userCheckinWithTransaction(a) \/ userCheckinWithoutTransaction(a)
    PROVE  AwardInv'
  <1>1. CASE ClaimActivityReward(a)
    <2>1. CASE UniqueRow(Activity)
      <3>1. Activity \in DOMAIN award
        BY DEF AwardInv
      <3> QED
        BY <1>1, <2>1, <3>1, TransactionStep DEF ClaimActivityReward
    <2>2. CASE ~UniqueRow(Activity)
      BY <1>1, <2>2, RestStep DEF ClaimActivityReward
    <2> QED
      BY <2>1, <2>2
  <1>2. CASE userCheckinWithTransaction(a)
    <2>1. PICK k \in DOMAIN award : k = today
      BY DEF AwardInv
    <2>2. CASE UniqueRow(today)
      <3>1. UniqueRow(k) /\ award' = [award EXCEPT ![k] = [row |-> TRUE, paid |-> @.paid + 1]] /\ Does(a, Off) /\ UNCHANGED today
        BY <1>2, <2>1, <2>2 DEF userCheckinWithTransaction
      <3> QED
        BY <3>1, TransactionStep
    <2>3. CASE ~UniqueRow(today)
      BY <1>2, <2>3, RestStep DEF userCheckinWithTransaction
    <2> QED
      BY <2>2, <2>3
  <1>3. CASE userCheckinWithoutTransaction(a)
    <2>1. PICK k \in DOMAIN award : k = today
      BY DEF AwardInv
    <2>2. CASE UniqueRow(k)
      <3>1. PICK r : r = [Off EXCEPT !.pc = "credit", !.of = k]
        BY Zenon
      <3>2. r.of = k /\ act' = [act EXCEPT ![a] = r] /\ UNCHANGED today
        BY <1>3, <2>1, <2>2, <3>1 DEF userCheckinWithoutTransaction, Does, Off
      <3>3. award[k].paid = 0 /\ \A b \in Claimants \ {a} : ~Crediting(b, k)
        BY <2>2, UnrecordedIsFree
      <3>4. award' = [award EXCEPT ![k].row = TRUE]
        BY <1>3, <2>1, <2>2 DEF userCheckinWithoutTransaction
      <3>5. DOMAIN award' = DOMAIN award /\ \A i \in DOMAIN award \ {k} : award'[i] = award[i]
        BY <3>4
      <3>6. DOMAIN award[k] = {"row", "paid"}
        BY DEF AwardInv
      <3>7. DOMAIN award'[k] = {"row", "paid"} /\ award'[k].paid = 0 /\ award'[k].row
        BY <3>3, <3>4, <3>6
      <3> QED
        BY <3>2, <3>3, <3>5, <3>7, AwardStep
    <2>3. CASE ~UniqueRow(k)
      BY <1>3, <2>1, <2>3, RestStep DEF userCheckinWithoutTransaction
    <2> QED
      BY <2>2, <2>3
  <1> QED
    BY <1>1, <1>2, <1>3

LEMMA CheckinCreditStep ==
    ASSUME AwardInv, NEW a \in Claimants, CheckinCredit(a)
    PROVE  AwardInv'
  <1>1. PICK k : k = act[a].of
    OBVIOUS
  <1>2. Does(a, Off) /\ UNCHANGED today /\ Crediting(a, k) /\ k \in DOMAIN award
    BY <1>1 DEF CheckinCredit, Crediting, AwardInv
  <1>3. CASE UNCHANGED award
    BY <1>2, <1>3, RestStep
  <1>4. ASSUME NEW f \in {"row", "paid"}, NEW x,
               award' = [award EXCEPT ![k][f] = x], f = "row" => x = FALSE, f = "paid" => x = 1
        PROVE  AwardInv'
    <2>1. DOMAIN award' = DOMAIN award /\ \A i \in DOMAIN award \ {k} : award'[i] = award[i]
      BY <1>4
    <2>2. DOMAIN award[k] = {"row", "paid"} /\ award[k].paid = 0 /\ award[k].row
      BY <1>2, <1>4 DEF AwardInv
    <2>3. \A b \in Claimants \ {a} : ~Crediting(b, k)
      BY <1>2, <1>4 DEF AwardInv
    <2>4. /\ DOMAIN award'[k] = {"row", "paid"} /\ award'[k].paid \in {0, 1}
          /\ award'[k].paid = 1 => award'[k].row
      <3>1. CASE f = "row"
        BY <1>4, <2>2, <3>1
      <3>2. CASE f = "paid"
        BY <1>4, <2>2, <3>2
      <3> QED
        BY <1>4, <3>1, <3>2
    <2>5. PICK r : r = Off
      BY Zenon
    <2>6. r.pc # "credit" /\ act' = [act EXCEPT ![a] = r]
      BY <1>2, <2>5 DEF Off, Does
    <2> QED
      BY <1>2, <1>4, <2>1, <2>3, <2>4, <2>6, AwardStep
  <1>5. CASE award' = [award EXCEPT ![k].paid = @ + 1]
    <2>1. award[k].paid + 1 = 1
      BY <1>2, <1>5 DEF AwardInv
    <2>2. award' = [award EXCEPT ![k]["paid"] = 1]
      BY <1>5, <2>1
    <2> QED
      BY <1>4, <1>5, <2>2
  <1>6. CASE award' = [award EXCEPT ![k].row = FALSE]
    <2>1. award' = [award EXCEPT ![k]["row"] = FALSE]
      BY <1>6
    <2> QED
      BY <1>4, <1>6, <2>1
  <1> QED
    BY <1>1, <1>3, <1>5, <1>6 DEF CheckinCredit

\* What the steps of redemption and of invitations do to a goroutine.
LEMMA OtherSteps ==
    ASSUME AwardInv, CodeNext \/ AffiliateNext
    PROVE  AwardInv'
  <1>0. DOMAIN act = Claimants
    BY DEF AwardInv
  <1>1. UNCHANGED <<award, today>>
    BY DEF CodeNext, RedeemRead, Redeem, GetRedemptionById, UpdateRedemption, DeleteRedemptionById, ExpireCode, AffiliateNext,
         ResolveAffiliateInviterTx, CreateUserWithAffiliateTx, inviteUser, AccrueRead, ApplyAffiliateRewardTx, ThawRead, ThawAffiliateQuotaTx,
         TransferAffiliateQuota, UpdateRead, UpdateWithTx, FreezeEnds, awardVars
  <1>2. CASE UNCHANGED act
    BY <1>1, <1>2 DEF AwardInv, Crediting, Is
  <1>3. ASSUME NEW a \in Claimants, Onward(a), act'[a].pc # "credit" PROVE AwardInv'
    BY <1>1, <1>3, ElsewhereStep DEF AwardInv
  <1>4. ASSUME NEW a \in Claimants, Does(a, Off) PROVE AwardInv'
    BY <1>1, <1>4, RestStep
  <1>5. ASSUME NEW a \in Claimants, RedeemRead(a) \/ GetRedemptionById(a) PROVE AwardInv'
    <2>1. CASE RedeemRead(a)
      BY <1>0, <1>3, <2>1 DEF RedeemRead, Does, Off, Onward
    <2>2. CASE GetRedemptionById(a)
      BY <1>0, <1>3, <2>2 DEF GetRedemptionById, Does, Off, Onward
    <2> QED
      BY <1>5, <2>1, <2>2
  <1>6. ASSUME NEW a \in Claimants, NEW u, ResolveAffiliateInviterTx(a, u) \/ AccrueRead(a, u) PROVE AwardInv'
    <2>1. CASE ResolveAffiliateInviterTx(a, u)
      BY <1>0, <1>3, <2>1 DEF ResolveAffiliateInviterTx, Does, Off, Onward
    <2>2. CASE AccrueRead(a, u)
      BY <1>0, <1>3, <2>2 DEF AccrueRead, Does, Off, Onward
    <2> QED
      BY <1>6, <2>1, <2>2
  <1>7. ASSUME NEW a \in Claimants, ThawRead(a) \/ UpdateRead(a) PROVE AwardInv'
    <2>1. CASE ThawRead(a)
      BY <1>0, <1>3, <2>1 DEF ThawRead, Does, Off, Onward
    <2>2. CASE UpdateRead(a)
      BY <1>0, <1>3, <2>2 DEF UpdateRead, Does, Off, Onward
    <2> QED
      BY <1>7, <2>1, <2>2
  <1>8. CASE CodeNext
    BY <1>2, <1>4, <1>5, <1>8 DEF CodeNext, Redeem, UpdateRedemption, DeleteRedemptionById, ExpireCode
  <1>10. ASSUME NEW a \in Claimants, CreateUserWithAffiliateTx(a) PROVE AwardInv'
    <2>1. Onward(a) /\ act'[a].pc # "credit"
      BY <1>0, <1>10 DEF CreateUserWithAffiliateTx, Does, Off, Onward
    <2> QED
      BY <1>3, <2>1
  <1>9. CASE AffiliateNext
    BY <1>2, <1>4, <1>6, <1>7, <1>9, <1>10 DEF AffiliateNext, inviteUser, ApplyAffiliateRewardTx, ThawAffiliateQuotaTx,
         TransferAffiliateQuota, UpdateWithTx, FreezeEnds
  <1> QED
    BY <1>8, <1>9

(* With transactions and without, and whatever a restart or a failed       *)
(* deletion leaves behind: a day's check-in and the activity are credited  *)
(* at most once, and never without the record that refuses the next.       *)
THEOREM AwardsAreSingle == RewSpec => []AwardedAtMostOnce
  <1>1. RewInit => AwardInv
    BY DEF RewInit, AwardInv, Crediting, Is, Off
  <1>2. AwardInv /\ [RewNext]_rewVars => AwardInv'
    <2> SUFFICES ASSUME AwardInv, [RewNext]_rewVars PROVE AwardInv'
      OBVIOUS
    <2>0. DOMAIN act = Claimants
      BY DEF AwardInv
    <2>1. ASSUME NEW a \in Claimants, HasCheckedInToday(a) \/ HasActivityClaim(a) PROVE AwardInv'
      <3>1. Onward(a) /\ act'[a].pc # "credit"
        BY <2>0, <2>1 DEF HasCheckedInToday, HasActivityClaim, Does, Off, Onward
      <3> QED
        BY <2>1, <3>1, ElsewhereStep DEF HasCheckedInToday, HasActivityClaim, awardVars, AwardInv
    <2>2. CASE Midnight
      BY <2>2 DEF Midnight, AwardInv, Crediting, Is
    <2>3. CASE UNCHANGED rewVars
      BY <2>3 DEF rewVars, AwardInv, Crediting, Is
    <2> QED
      BY <2>1, <2>2, <2>3, ClaimSteps, CheckinCreditStep, OtherSteps DEF RewNext, AwardNext
  <1>3. AwardInv => AwardedAtMostOnce
    BY DEF AwardInv, AwardedAtMostOnce
  <1> QED
    BY <1>1, <1>2, <1>3, PTL DEF RewSpec

\* A goroutine that does not register goes on: it takes the row, gives it back, or neither.
LEMMA OutsiderStep ==
    ASSUME InviteInv, NEW a \in Claimants, Onward(a), act'[a].pc # "register", UNCHANGED <<rowLocks, members>>,
           Lock(a) \/ Unlock(a) \/ UNCHANGED locked
    PROVE  InviteInv'
  <1>1. ASSUME NEW b \in Claimants, act'[b].pc = "register"
        PROVE  /\ act'[b].sum < InviteLimit
               /\ rowLocks => locked' = b /\ act'[b].sum = Cardinality(members)
    <2>1. b # a /\ act'[b] = act[b]
      BY <1>1 DEF Onward
    <2>2. act[b].sum < InviteLimit /\ (rowLocks => locked = b /\ act[b].sum = Cardinality(members))
      BY <1>1, <2>1 DEF InviteInv, Is
    <2>3. rowLocks => locked' = locked
      BY <2>1, <2>2, RewardsAssumption DEF Lock, Unlock, Nobody
    <2> QED
      BY <2>1, <2>2, <2>3
  <1> QED
    BY <1>1 DEF InviteInv, Onward, Is

LEMMA ResolveStep ==
    ASSUME InviteInv, NEW a \in Claimants, NEW u, ResolveAffiliateInviterTx(a, u)
    PROVE  InviteInv'
  <1>1. DOMAIN act = Claimants
    BY DEF InviteInv
  <1>2. DOMAIN act' = Claimants /\ act'[a].sum = Cardinality(members) /\ \A b \in Claimants \ {a} : act'[b] = act[b]
    BY <1>1 DEF ResolveAffiliateInviterTx, Does, Off
  <1>3. UNCHANGED <<rowLocks, members>> /\ Cardinality(members) < InviteLimit /\ (rowLocks => locked = Nobody /\ locked' = a)
    BY DEF ResolveAffiliateInviterTx, Lock
  <1>4. \A b \in Claimants \ {a} : Is(b, "register") => ~rowLocks /\ act[b].sum < InviteLimit
    BY <1>3, RewardsAssumption DEF InviteInv, Nobody
  <1> QED
    BY <1>2, <1>3, <1>4 DEF InviteInv, Is

LEMMA CreateStep ==
    ASSUME InviteInv, NEW a \in Claimants, CreateUserWithAffiliateTx(a)
    PROVE  InviteInv'
  <1>1. DOMAIN act' = Claimants /\ act'[a].pc # "register" /\ \A b \in Claimants \ {a} : act'[b] = act[b]
    BY DEF InviteInv, CreateUserWithAffiliateTx, Does, Off
  <1>2. UNCHANGED rowLocks
    BY DEF CreateUserWithAffiliateTx
  <1>3. \A b \in Claimants \ {a} : Is(b, "register") => ~rowLocks /\ act[b].sum < InviteLimit
    BY DEF CreateUserWithAffiliateTx, InviteInv
  <1>4. IsFiniteSet(members') /\ Cardinality(members') <= InviteLimit
    <2>1. CASE rowLocks \/ act[a].sum = Cardinality(members)
      <3>1. members' = members \cup {act[a].of} /\ Cardinality(members) < InviteLimit
        BY <2>1 DEF CreateUserWithAffiliateTx, InviteInv
      <3>2. PICK S, u : S = members /\ u = act[a].of
        OBVIOUS
      <3>3. IsFiniteSet(S) /\ Cardinality(S) \in Nat
        BY <3>2, FS_CardinalityType DEF InviteInv
      <3>4. IsFiniteSet(S \cup {u}) /\ Cardinality(S \cup {u}) = IF u \in S THEN Cardinality(S) ELSE Cardinality(S) + 1
        BY <3>3, FS_AddElement
      <3> QED
        BY <3>1, <3>2, <3>3, <3>4, RewardsAssumption
    <2>2. CASE ~(rowLocks \/ act[a].sum = Cardinality(members))
      BY <2>2 DEF CreateUserWithAffiliateTx, InviteInv
    <2> QED
      BY <2>1, <2>2
  <1> QED
    BY <1>1, <1>2, <1>3, <1>4 DEF InviteInv, Is

(* Registrations with one inviter's code may overlap as they like: under   *)
(* the lock of the inviter's row, or because SQLite fails the transaction  *)
(* whose count is stale, the number of invited users stays within the      *)
(* limit.                                                                  *)
THEOREM InviteLimitIsKept == RewSpec => []InviteLimitHolds
  <1>1. RewInit => InviteInv
    BY FS_EmptySet, RewardsAssumption DEF RewInit, InviteInv, Is, Off
  <1>2. InviteInv /\ [RewNext]_rewVars => InviteInv'
    <2> SUFFICES ASSUME InviteInv, [RewNext]_rewVars PROVE InviteInv'
      OBVIOUS
    <2>0. DOMAIN act = Claimants
      BY DEF InviteInv
    <2>1. CASE UNCHANGED <<rowLocks, members, locked, act>>
      BY <2>1 DEF InviteInv, Is
    <2>2. ASSUME NEW a \in Claimants, Does(a, Off), UNCHANGED <<rowLocks, members>>, Unlock(a) \/ UNCHANGED locked PROVE InviteInv'
      BY <2>0, <2>2, OutsiderStep DEF Does, Off, Onward
    <2>3. CASE CodeNext
      <3>1. UNCHANGED <<rowLocks, members, locked>>
        BY <2>3 DEF CodeNext, RedeemRead, Redeem, GetRedemptionById, UpdateRedemption, DeleteRedemptionById, ExpireCode, affVars
      <3>2. ASSUME NEW a \in Claimants, RedeemRead(a) PROVE InviteInv'
        BY <2>0, <3>1, <3>2, OutsiderStep DEF RedeemRead, Does, Off, Onward
      <3>3. ASSUME NEW a \in Claimants, GetRedemptionById(a) PROVE InviteInv'
        BY <2>0, <3>1, <3>3, OutsiderStep DEF GetRedemptionById, Does, Off, Onward
      <3> QED
        BY <2>1, <2>2, <2>3, <3>1, <3>2, <3>3 DEF CodeNext, Redeem, UpdateRedemption, DeleteRedemptionById, ExpireCode
    <2>4. CASE AwardNext
      <3>1. UNCHANGED <<rowLocks, members, locked>>
        BY <2>4 DEF AwardNext, HasCheckedInToday, HasActivityClaim, ClaimActivityReward, userCheckinWithTransaction,
             userCheckinWithoutTransaction, CheckinCredit, Midnight, affVars
      <3>2. ASSUME NEW a \in Claimants, HasCheckedInToday(a) \/ HasActivityClaim(a) PROVE InviteInv'
        <4>1. Onward(a) /\ act'[a].pc # "register"
          BY <2>0, <3>2 DEF HasCheckedInToday, HasActivityClaim, Does, Off, Onward
        <4> QED
          BY <3>1, <4>1, OutsiderStep
      <3>3. ASSUME NEW a \in Claimants, userCheckinWithoutTransaction(a) PROVE InviteInv'
        BY <2>0, <3>1, <3>3, OutsiderStep DEF userCheckinWithoutTransaction, Does, Off, Onward
      <3> QED
        BY <2>1, <2>2, <2>4, <3>1, <3>2, <3>3 DEF AwardNext, ClaimActivityReward, userCheckinWithTransaction, CheckinCredit, Midnight
    <2>5. CASE AffiliateNext
      <3>1. ASSUME NEW a \in Claimants, NEW o, AccrueRead(a, o) PROVE InviteInv'
        BY <2>0, <3>1, OutsiderStep DEF AccrueRead, LockInviter, Does, Off, Onward
      <3>2. ASSUME NEW a \in Claimants, ThawRead(a) PROVE InviteInv'
        BY <2>0, <3>2, OutsiderStep DEF ThawRead, LockThaw, Does, Off, Onward
      <3>3. ASSUME NEW a \in Claimants, UpdateRead(a) PROVE InviteInv'
        BY <2>0, <3>3, OutsiderStep DEF UpdateRead, affVars, Does, Off, Onward
      <3>4. ASSUME NEW a \in Claimants, ApplyAffiliateRewardTx(a) \/ ThawAffiliateQuotaTx(a) \/ UpdateWithTx(a) \/ inviteUser(a)
            PROVE  InviteInv'
        BY <2>2, <3>4 DEF ApplyAffiliateRewardTx, ThawAffiliateQuotaTx, UpdateWithTx, inviteUser
      <3> QED
        BY <2>1, <2>5, <3>1, <3>2, <3>3, <3>4, ResolveStep, CreateStep DEF AffiliateNext, TransferAffiliateQuota, FreezeEnds
    <2> QED
      BY <2>1, <2>3, <2>4, <2>5 DEF RewNext, rewVars
  <1>3. InviteInv => InviteLimitHolds
    BY DEF InviteInv, InviteLimitHolds
  <1> QED
    BY <1>1, <1>2, <1>3, PTL DEF RewSpec

-----------------------------------------------------------------------------
(* What an inviter earns. *)

Entries == [action : {"none", "accrue", "skip"}, reward : Nat, frozen : BOOLEAN, thawed : BOOLEAN]
AllAccrued == {o \in Deals : ledger[o].action = "accrue"}
Earned == {o \in Deals : ledger[o].action = "accrue" /\ (~ledger[o].frozen \/ ledger[o].thawed)}

CounterFields == {"avail", "frozen", "history", "moved", "bonus"}

\* The counters of the inviter are the sums of the ledger and the bonuses, and
\* what was earned is within the limits.
BooksInv ==
  /\ ledger \in [Deals -> Entries] /\ \A o \in Deals : ledger[o].frozen => ledger[o].action = "accrue"
  /\ DOMAIN inviter = CounterFields
  /\ inviter.avail \in Nat /\ inviter.moved \in Nat /\ inviter.history \in Nat /\ inviter.bonus \in Nat
  /\ inviter.avail + inviter.moved = inviter.bonus + Total(Earned)
  /\ inviter.history = inviter.bonus + Total(AllAccrued)
  /\ \A u \in Newcomers : Total(Accrued(u)) <= InviteeCap
  /\ inviter.history - inviter.bonus < RewardLimit \/ inviter.history = inviter.bonus

\* Who accrues a reward is alone with the invited user and has read what was
\* earned; who thaws has seen rows that are frozen.  With row locks both have the
\* inviter's row, so that what they read is still so.
DeskHolds(a) ==
  /\ Is(a, "accrue") =>
       /\ act[a].of \in Deals /\ ledger[act[a].of].action = "none"
       /\ rowLocks => locked = a /\ act[a].sum = inviter.history
  /\ Is(a, "thaw") =>
       /\ act[a].saw \in SUBSET Deals /\ \A o \in act[a].saw : ledger[o].frozen
       /\ rowLocks => locked = a /\ \A o \in act[a].saw : ~ledger[o].thawed

DeskInv ==
  /\ DOMAIN act = Claimants
  /\ \A a \in Claimants : DeskHolds(a)
  /\ \A a, b \in Claimants : Is(a, "accrue") /\ Is(b, "accrue") /\ a # b => InviteeOf[act[a].of] # InviteeOf[act[b].of]

AffInv == BooksInv /\ DeskInv

LEMMA BooksKept ==
    ASSUME BooksInv, UNCHANGED <<inviter, ledger>>
    PROVE  BooksInv'
  BY DEF BooksInv, Total, Earned, AllAccrued, Accrued

LEMMA TotalIsNatural ==
    ASSUME BooksInv, IsFiniteSet(Deals), NEW S \in SUBSET Deals
    PROVE  Total(S) \in Nat
  <1>1. PICK f : f = [o \in Deals |-> ledger[o].reward]
    OBVIOUS
  <1>2. IsFiniteSet(S) /\ \A o \in S : f[o] \in Nat
    BY <1>1, FS_Subset DEF BooksInv, Entries
  <1>3. SumFunctionOnSet(f, S) \in Nat
    BY <1>2, SumNatural
  <1> QED
    BY <1>1, <1>3 DEF Total

\* A thaw leaves alone what the ledger says of an order.
LEMMA ThawKeeps ==
    ASSUME BooksInv, NEW rows \in SUBSET Deals, Thawed(rows)
    PROVE  \A o \in Deals : ledger'[o].action = ledger[o].action /\ ledger'[o].frozen = ledger[o].frozen
  <1>1. \A o \in Deals : ledger[o] \in Entries
    BY DEF BooksInv
  <1> QED
    BY <1>1 DEF Entries, Thawed

\* The ledger takes a new reward.
LEMMA AccrueBooks ==
    ASSUME BooksInv, IsFiniteSet(Deals), NEW o \in Deals, ledger[o].action = "none", NEW reward \in Nat,
           NEW freeze \in BOOLEAN,
           ledger' = [ledger EXCEPT ![o] = [action |-> "accrue", reward |-> reward, frozen |-> freeze, thawed |-> FALSE]],
           inviter' = [inviter EXCEPT !.history = @ + reward,
                                      !.avail = IF freeze THEN @ ELSE @ + reward,
                                      !.frozen = IF freeze THEN @ + reward ELSE @],
           Total(Accrued(InviteeOf[o])) + reward <= InviteeCap,
           inviter.history + reward < RewardLimit
    PROVE  BooksInv'
  <1>1. ledger \in [Deals -> Entries]
    BY DEF BooksInv
  <1>2. /\ ledger'[o] = [action |-> "accrue", reward |-> reward, frozen |-> freeze, thawed |-> FALSE]
        /\ \A p \in Deals \ {o} : ledger'[p] = ledger[p]
    BY <1>1
  <1>3. ledger' \in [Deals -> Entries] /\ \A p \in Deals : ledger'[p].frozen => ledger'[p].action = "accrue"
    <2>1. [action |-> "accrue", reward |-> reward, frozen |-> freeze, thawed |-> FALSE] \in Entries
      BY DEF Entries
    <2> QED
      BY <1>1, <1>2, <2>1 DEF BooksInv
  <1>4. PICK f, h : f = [p \in Deals |-> ledger[p].reward] /\ h = [p \in Deals |-> ledger'[p].reward]
    OBVIOUS
  <1>5. f \in [Deals -> Nat] /\ h \in [Deals -> Nat] /\ h[o] = reward /\ \A p \in Deals \ {o} : h[p] = f[p]
    BY <1>1, <1>2, <1>3, <1>4 DEF Entries
  <1>6. ASSUME NEW S \in SUBSET Deals, o \notin S
        PROVE  /\ Total(S) \in Nat /\ Total(S)' = Total(S)
               /\ Total(S \cup {o})' = Total(S) + reward
    <2>1. IsFiniteSet(S) /\ (\A p \in S : f[p] \in Int) /\ (\A p \in S : f[p] \in Nat) /\ \A p \in S : h[p] = f[p]
      BY <1>5, <1>6, FS_Subset
    <2>2. /\ SumFunctionOnSet(h, S) = SumFunctionOnSet(f, S)
          /\ SumFunctionOnSet(h, S \cup {o}) = SumFunctionOnSet(f, S) + h[o]
      BY <1>5, <1>6, <2>1, SumGrow
    <2>3. SumFunctionOnSet(f, S) \in Nat
      BY <2>1, SumNatural
    <2> QED
      BY <1>4, <1>5, <2>2, <2>3 DEF Total
  <1>7. ASSUME NEW S \in SUBSET Deals, NEW T \in SUBSET Deals, o \notin S
        PROVE  /\ S = T => Total(T)' = Total(S)
               /\ S \cup {o} = T => Total(T)' = Total(S) + reward
               /\ Total(S) \in Nat
    BY <1>6, <1>7
  <1>8. DOMAIN inviter' = CounterFields /\ inviter'.history = inviter.history + reward
        /\ inviter'.avail = (IF freeze THEN inviter.avail ELSE inviter.avail + reward) /\ inviter'.moved = inviter.moved
        /\ inviter'.bonus = inviter.bonus
    BY DEF BooksInv, CounterFields
  <1>9. inviter'.avail \in Nat /\ inviter'.moved \in Nat /\ inviter'.history \in Nat /\ inviter'.bonus \in Nat
        /\ inviter'.history - inviter'.bonus < RewardLimit
    BY <1>8, RewardsAssumption DEF BooksInv
  <1>10. inviter'.history = inviter'.bonus + Total(AllAccrued)'
    <2>1. PICK S, T : S = AllAccrued /\ T = AllAccrued'
      OBVIOUS
    <2>2. S \in SUBSET Deals /\ T \in SUBSET Deals /\ o \notin S /\ T = S \cup {o}
      BY <1>2, <2>1 DEF AllAccrued
    <2>3. Total(T)' = Total(S) + reward /\ Total(S) \in Nat
      BY <1>7, <2>2
    <2>4. inviter.history = inviter.bonus + Total(S) /\ inviter.bonus \in Nat
      BY <2>1 DEF BooksInv
    <2> QED
      BY <1>8, <2>1, <2>3, <2>4
  <1>11. inviter'.avail + inviter'.moved = inviter'.bonus + Total(Earned)'
    <2>1. PICK S, T : S = Earned /\ T = Earned'
      OBVIOUS
    <2>2. S \in SUBSET Deals /\ T \in SUBSET Deals /\ o \notin S /\ T = (IF freeze THEN S ELSE S \cup {o})
      BY <1>2, <2>1 DEF Earned
    <2>3. Total(T)' = (IF freeze THEN Total(S) ELSE Total(S) + reward) /\ Total(S) \in Nat
      BY <1>7, <2>2
    <2>4. inviter.avail + inviter.moved = inviter.bonus + Total(S) /\ inviter.avail \in Nat /\ inviter.moved \in Nat
          /\ inviter.bonus \in Nat
      BY <2>1 DEF BooksInv
    <2> QED
      BY <1>8, <2>1, <2>3, <2>4
  <1>12. ASSUME NEW u \in Newcomers PROVE Total(Accrued(u))' <= InviteeCap
    <2>1. PICK S, T : S = Accrued(u) /\ T = Accrued(u)'
      OBVIOUS
    <2>2. S \in SUBSET Deals /\ T \in SUBSET Deals /\ o \notin S /\ T = (IF InviteeOf[o] = u THEN S \cup {o} ELSE S)
      BY <1>2, <2>1 DEF Accrued
    <2>3. Total(T)' = (IF InviteeOf[o] = u THEN Total(S) + reward ELSE Total(S))
      BY <1>7, <2>2
    <2>4. Total(S) <= InviteeCap
      BY <2>1 DEF BooksInv
    <2> QED
      BY <2>1, <2>3, <2>4
  <1> QED
    BY <1>3, <1>8, <1>9, <1>10, <1>11, <1>12 DEF BooksInv

\* Frozen rewards of the ledger become available, and an amount moves to the wallet.
LEMMA ThawBooks ==
    ASSUME BooksInv, IsFiniteSet(Deals), NEW rows \in SUBSET Deals,
           \A o \in rows : ledger[o].frozen /\ ~ledger[o].thawed,
           Thawed(rows), NEW amount \in Nat, amount <= inviter.avail + Total(rows), DOMAIN inviter' = CounterFields,
           inviter'.avail = inviter.avail + Total(rows) - amount, inviter'.moved = inviter.moved + amount,
           inviter'.history = inviter.history, inviter'.bonus = inviter.bonus
    PROVE  BooksInv'
  <1>1. ledger \in [Deals -> Entries] /\ \A o \in Deals : ledger[o].frozen => ledger[o].action = "accrue"
    BY DEF BooksInv
  <1>2. ASSUME NEW o \in Deals
        PROVE  /\ ledger'[o] \in Entries /\ ledger'[o].action = ledger[o].action /\ ledger'[o].reward = ledger[o].reward
               /\ ledger'[o].frozen = ledger[o].frozen /\ (ledger'[o].thawed <=> (o \in rows \/ ledger[o].thawed))
    <2>1. ledger[o] \in Entries
      BY <1>1
    <2>2. CASE o \in rows
      BY <2>1, <2>2 DEF Entries, Thawed
    <2>3. CASE o \notin rows
      BY <2>1, <2>3 DEF Thawed
    <2> QED
      BY <2>2, <2>3
  <1>3. ledger' \in [Deals -> Entries] /\ \A o \in Deals : ledger'[o].frozen => ledger'[o].action = "accrue"
    BY <1>1, <1>2 DEF Thawed
  <1>4. PICK f : f = [o \in Deals |-> ledger[o].reward]
    OBVIOUS
  <1>5. f = [o \in Deals |-> ledger'[o].reward]
    BY <1>2, <1>4
  <1>6. f \in [Deals -> Nat]
    BY <1>1, <1>4 DEF Entries
  <1>7. ASSUME NEW S \in SUBSET Deals
        PROVE  Total(S) = SumFunctionOnSet(f, S) /\ Total(S)' = SumFunctionOnSet(f, S) /\ SumFunctionOnSet(f, S) \in Nat
    <2>1. IsFiniteSet(S) /\ \A o \in S : f[o] \in Nat
      BY <1>6, FS_Subset
    <2>2. SumFunctionOnSet(f, S) \in Nat
      BY <2>1, SumNatural
    <2> QED
      BY <1>4, <1>5, <2>2 DEF Total
  <1>8. PICK sum \in Nat : sum = Total(rows) /\ sum = SumFunctionOnSet(f, rows)
    BY <1>7
  <1>9. inviter'.avail = inviter.avail + sum - amount /\ amount <= inviter.avail + sum
    BY <1>8
  <1>10. inviter'.avail + inviter'.moved = inviter'.bonus + Total(Earned)'
    <2>1. PICK S, T : S = Earned /\ T = Earned'
      OBVIOUS
    <2>2. S \in SUBSET Deals /\ T \in SUBSET Deals /\ S \cap rows = {} /\ T = S \cup rows
      BY <1>1, <1>2, <2>1 DEF Earned
    <2>3. SumFunctionOnSet(f, S \cup rows) = SumFunctionOnSet(f, S) + SumFunctionOnSet(f, rows)
      <3>1. \A o \in Deals : f[o] \in Int
        BY <1>6
      <3> QED
        BY <2>2, <3>1, SumDisjoint
    <2>4. PICK n \in Nat : n = SumFunctionOnSet(f, S)
      BY <1>7, <2>2
    <2>5. Total(T)' = n + sum /\ Total(S) = n
      BY <1>7, <1>8, <2>2, <2>3, <2>4
    <2>6. inviter.avail + inviter.moved = inviter.bonus + n /\ inviter.avail \in Nat /\ inviter.moved \in Nat
          /\ inviter.bonus \in Nat
      BY <2>1, <2>5 DEF BooksInv
    <2> QED
      BY <1>9, <2>1, <2>5, <2>6
  <1>11. inviter'.history = inviter'.bonus + Total(AllAccrued)'
    <2>0. AllAccrued' = AllAccrued
      BY <1>2 DEF AllAccrued
    <2>1. PICK S : S = AllAccrued /\ S = AllAccrued'
      BY <2>0
    <2>2. S \in SUBSET Deals
      BY <2>1 DEF AllAccrued
    <2>3. Total(S)' = Total(S)
      BY <1>7, <2>2
    <2> QED
      BY <1>9, <2>1, <2>3 DEF BooksInv
  <1>12. ASSUME NEW u \in Newcomers PROVE Total(Accrued(u))' <= InviteeCap
    <2>0. Accrued(u)' = Accrued(u)
      BY <1>2 DEF Accrued
    <2>1. PICK S : S = Accrued(u) /\ S = Accrued(u)'
      BY <2>0
    <2>2. S \in SUBSET Deals
      BY <2>1 DEF Accrued
    <2>3. Total(S)' = Total(S)
      BY <1>7, <2>2
    <2> QED
      BY <2>1, <2>3 DEF BooksInv
  <1>13. inviter'.avail \in Nat /\ inviter'.moved \in Nat /\ inviter'.history \in Nat /\ inviter'.bonus \in Nat
         /\ (inviter'.history - inviter'.bonus < RewardLimit \/ inviter'.history = inviter'.bonus)
    BY <1>8, <1>9 DEF BooksInv
  <1> QED
    BY <1>3, <1>9, <1>10, <1>11, <1>12, <1>13 DEF BooksInv

\* A reward is skipped, and the sums do not change.
LEMMA SkipBooks ==
    ASSUME BooksInv, IsFiniteSet(Deals), NEW o \in Deals, ledger[o].action = "none",
           ledger' = [ledger EXCEPT ![o].action = "skip"], UNCHANGED inviter
    PROVE  BooksInv'
  <1>1. ledger \in [Deals -> Entries] /\ ~ledger[o].frozen
    BY DEF BooksInv
  <1>2. ASSUME NEW p \in Deals
        PROVE  /\ ledger'[p] \in Entries /\ (ledger'[p].action = "accrue" <=> ledger[p].action = "accrue")
               /\ ledger'[p].reward = ledger[p].reward
               /\ ledger'[p].frozen = ledger[p].frozen /\ ledger'[p].thawed = ledger[p].thawed
    <2>1. ledger[p] \in Entries
      BY <1>1
    <2>2. CASE p = o
      BY <1>1, <2>1, <2>2 DEF Entries
    <2>3. CASE p # o
      BY <1>1, <2>1, <2>3
    <2> QED
      BY <2>2, <2>3
  <1>3. ledger' \in [Deals -> Entries] /\ \A p \in Deals : ledger'[p].frozen => ledger'[p].action = "accrue"
    BY <1>1, <1>2 DEF BooksInv
  <1>4. [p \in Deals |-> ledger'[p].reward] = [p \in Deals |-> ledger[p].reward]
    BY <1>2
  <1>5. Earned' = Earned /\ AllAccrued' = AllAccrued /\ \A u \in Newcomers : Accrued(u)' = Accrued(u)
    BY <1>2 DEF Earned, AllAccrued, Accrued
  <1>6. /\ Total(Earned)' = Total(Earned) /\ Total(AllAccrued)' = Total(AllAccrued)
        /\ \A u \in Newcomers : Total(Accrued(u))' = Total(Accrued(u))
    BY <1>4, <1>5 DEF Total
  <1> QED
    BY <1>3, <1>6 DEF BooksInv

LEMMA TransferBooks ==
    ASSUME BooksInv, IsFiniteSet(Deals), NEW a \in Claimants, TransferAffiliateQuota(a)
    PROVE  BooksInv'
  <1>1. PICK rows \in SUBSET Deals : rows = {o \in Deals : Ripe(o)}
    OBVIOUS
  <1>2. \A o \in rows : ledger[o].frozen /\ ~ledger[o].thawed
    BY <1>1 DEF Ripe
  <1>3. PICK amount \in 1..(inviter.avail + Total(rows)) :
          inviter' = [inviter EXCEPT !.avail = @ + Total(rows) - amount,
                                     !.frozen = IF @ >= Total(rows) THEN @ - Total(rows) ELSE 0, !.moved = @ + amount]
    BY <1>1 DEF TransferAffiliateQuota
  <1>4. Thawed(rows)
    BY <1>1 DEF TransferAffiliateQuota
  <1>5. amount \in Nat /\ amount <= inviter.avail + Total(rows)
    BY <1>3
  <1>6. /\ DOMAIN inviter' = CounterFields /\ inviter'.avail = inviter.avail + Total(rows) - amount
        /\ inviter'.moved = inviter.moved + amount /\ inviter'.history = inviter.history /\ inviter'.bonus = inviter.bonus
    BY <1>3 DEF BooksInv, CounterFields
  <1> QED
    BY <1>2, <1>4, <1>5, <1>6, ThawBooks

\* The bonus of a registration.
LEMMA BonusBooks ==
    ASSUME BooksInv, IsFiniteSet(Deals), UNCHANGED ledger,
           inviter' = [inviter EXCEPT !.avail = @ + QuotaForInviter, !.history = @ + QuotaForInviter,
                                      !.bonus = @ + QuotaForInviter]
    PROVE  BooksInv'
  <1>1. /\ DOMAIN inviter' = CounterFields /\ inviter'.avail = inviter.avail + QuotaForInviter
        /\ inviter'.history = inviter.history + QuotaForInviter /\ inviter'.bonus = inviter.bonus + QuotaForInviter
        /\ inviter'.moved = inviter.moved
    BY DEF BooksInv, CounterFields
  <1>2. /\ Total(Earned)' = Total(Earned) /\ Total(AllAccrued)' = Total(AllAccrued)
        /\ \A u \in Newcomers : Total(Accrued(u))' = Total(Accrued(u))
    BY DEF Total, Earned, AllAccrued, Accrued
  <1>3. PICK e, t : e = Total(Earned) /\ t = Total(AllAccrued)
    OBVIOUS
  <1>4. e \in Nat /\ t \in Nat
    <2>1. Earned \in SUBSET Deals /\ AllAccrued \in SUBSET Deals
      BY DEF Earned, AllAccrued
    <2> QED
      BY <1>3, <2>1, TotalIsNatural
  <1> QED
    BY <1>1, <1>2, <1>3, <1>4, RewardsAssumption DEF BooksInv

\* Of the goroutines, a alone goes on: what the others know stays true.
LEMMA DeskStep ==
    ASSUME DeskInv, NEW a \in Claimants, Onward(a), UNCHANGED rowLocks, Lock(a) \/ Unlock(a) \/ UNCHANGED locked,
           DeskHolds(a)',
           \A b \in Claimants \ {a} : (rowLocks => locked # b) =>
              /\ Is(b, "accrue") => ledger'[act[b].of].action = "none"
              /\ Is(b, "thaw") => \A o \in act[b].saw : ledger'[o].frozen,
           UNCHANGED <<ledger, inviter>> \/ ~rowLocks \/ locked = a \/ locked = Nobody,
           Is(a, "accrue")' => \A b \in Claimants \ {a} : Is(b, "accrue") => InviteeOf[act[b].of] # InviteeOf[act'[a].of]
    PROVE  DeskInv'
  <1>1. DOMAIN act' = Claimants /\ \A b \in Claimants \ {a} : act'[b] = act[b]
    BY DEF Onward
  <1>2. ASSUME NEW b \in Claimants \ {a} PROVE DeskHolds(b)'
    <2>0. DeskHolds(b) /\ act'[b] = act[b]
      BY <1>1 DEF DeskInv
    <2>1. CASE ~(Is(b, "accrue") \/ Is(b, "thaw"))
      BY <2>0, <2>1 DEF DeskHolds, Is
    <2>2. CASE (Is(b, "accrue") \/ Is(b, "thaw")) /\ rowLocks
      <3>1. locked = b
        BY <2>0, <2>2 DEF DeskHolds
      <3>2. locked' = b
        BY <2>2, <3>1, RewardsAssumption DEF Lock, Unlock, Nobody
      <3>3. UNCHANGED <<ledger, inviter>>
        BY <2>2, <3>1, RewardsAssumption DEF Nobody
      <3> QED
        BY <2>0, <2>2, <3>1, <3>2, <3>3 DEF DeskHolds, Is
    <2>3. CASE (Is(b, "accrue") \/ Is(b, "thaw")) /\ ~rowLocks
      BY <2>0, <2>3 DEF DeskHolds, Is
    <2> QED
      BY <2>1, <2>2, <2>3
  <1>3. ASSUME NEW b \in Claimants, NEW c \in Claimants, Is(b, "accrue")', Is(c, "accrue")', b # c
        PROVE  InviteeOf[act'[b].of] # InviteeOf[act'[c].of]
    BY <1>1, <1>3 DEF DeskInv, Is
  <1> QED
    BY <1>1, <1>2, <1>3 DEF DeskInv

\* A goroutine goes on that neither accrues nor thaws, and the books stay as they are.
LEMMA BystanderStep ==
    ASSUME AffInv, NEW a \in Claimants, Onward(a), act'[a].pc \notin {"accrue", "thaw"},
           UNCHANGED <<rowLocks, inviter, ledger>>, Lock(a) \/ Unlock(a) \/ UNCHANGED locked
    PROVE  AffInv'
  <1>1. DeskInv /\ BooksInv
    BY DEF AffInv
  <1>2. DeskHolds(a)' /\ ~Is(a, "accrue")'
    BY DEF DeskHolds, Is
  <1>3. \A b \in Claimants \ {a} : /\ Is(b, "accrue") => ledger'[act[b].of].action = "none"
                                   /\ Is(b, "thaw") => \A o \in act[b].saw : ledger'[o].frozen
    BY <1>1 DEF DeskInv, DeskHolds
  <1>4. DeskInv'
    BY <1>1, <1>2, <1>3, DeskStep
  <1> QED
    BY <1>1, <1>4, BooksKept DEF AffInv

LEMMA AccrueReadStep ==
    ASSUME AffInv, NEW a \in Claimants, NEW o \in Deals, AccrueRead(a, o)
    PROVE  AffInv'
  <1>1. DeskInv /\ BooksInv /\ DOMAIN act = Claimants
    BY DEF AffInv, DeskInv
  <1>2. UNCHANGED <<rowLocks, inviter, ledger>> /\ Lock(a)
    BY DEF AccrueRead, LockInviter
  <1>3. Onward(a) /\ act'[a].pc = "accrue" /\ act'[a].of = o /\ act'[a].sum = inviter.history
    BY <1>1 DEF AccrueRead, Does, Off, Onward
  <1>4. DeskHolds(a)'
    BY <1>2, <1>3 DEF AccrueRead, DeskHolds, Is, Lock
  <1>5. \A b \in Claimants \ {a} : /\ Is(b, "accrue") => ledger'[act[b].of].action = "none"
                                   /\ Is(b, "thaw") => \A p \in act[b].saw : ledger'[p].frozen
    BY <1>1, <1>2 DEF DeskInv, DeskHolds
  <1>6. \A b \in Claimants \ {a} : Is(b, "accrue") => InviteeOf[act[b].of] # InviteeOf[o]
    BY <1>1 DEF AccrueRead, DeskInv, DeskHolds
  <1>7. DeskInv'
    BY <1>1, <1>2, <1>3, <1>4, <1>5, <1>6, DeskStep
  <1> QED
    BY <1>1, <1>2, <1>7, BooksKept DEF AffInv

LEMMA ThawReadStep ==
    ASSUME AffInv, NEW a \in Claimants, ThawRead(a)
    PROVE  AffInv'
  <1>1. DeskInv /\ BooksInv /\ DOMAIN act = Claimants
    BY DEF AffInv, DeskInv
  <1>2. UNCHANGED <<rowLocks, inviter, ledger>> /\ Lock(a)
    BY DEF ThawRead, LockThaw
  <1>3. Onward(a) /\ act'[a].pc = "thaw" /\ act'[a].saw = {o \in Deals : Ripe(o)}
    BY <1>1 DEF ThawRead, Does, Off, Onward
  <1>4. DeskHolds(a)' /\ ~Is(a, "accrue")'
    BY <1>2, <1>3 DEF DeskHolds, Is, Lock, Ripe
  <1>5. \A b \in Claimants \ {a} : /\ Is(b, "accrue") => ledger'[act[b].of].action = "none"
                                   /\ Is(b, "thaw") => \A p \in act[b].saw : ledger'[p].frozen
    BY <1>1, <1>2 DEF DeskInv, DeskHolds
  <1>7. DeskInv'
    BY <1>1, <1>2, <1>3, <1>4, <1>5, DeskStep
  <1> QED
    BY <1>1, <1>2, <1>7, BooksKept DEF AffInv

LEMMA ApplyStep ==
    ASSUME AffInv, IsFiniteSet(Deals), NEW a \in Claimants, ApplyAffiliateRewardTx(a)
    PROVE  AffInv'
  <1>1. DeskInv /\ BooksInv /\ DOMAIN act = Claimants /\ DeskHolds(a) /\ Is(a, "accrue")
    BY DEF AffInv, DeskInv, ApplyAffiliateRewardTx
  <1>2. PICK o \in Deals : o = act[a].of /\ ledger[o].action = "none"
    BY <1>1 DEF DeskHolds
  <1>3. Onward(a) /\ act'[a].pc = "idle" /\ UNCHANGED rowLocks /\ Unlock(a)
    BY <1>1 DEF ApplyAffiliateRewardTx, Does, Off, Onward
  <1>4. CASE UNCHANGED <<inviter, ledger>>
    BY <1>3, <1>4, BystanderStep
  <1>5. CASE ~UNCHANGED <<inviter, ledger>>
    <2>1. act[a].sum = inviter.history /\ (rowLocks => locked = a)
      BY <1>1, <1>5 DEF ApplyAffiliateRewardTx, DeskHolds
    <2>2. BooksInv' /\ \A p \in Deals \ {o} : ledger'[p] = ledger[p]
      <3>0. ledger \in [Deals -> Entries] /\ o \in Deals
        BY <1>1 DEF BooksInv
      <3>1. CASE ledger' = [ledger EXCEPT ![o].action = "skip"] /\ UNCHANGED inviter
        BY <1>1, <1>2, <3>0, <3>1, SkipBooks
      <3>2. CASE ~(ledger' = [ledger EXCEPT ![o].action = "skip"] /\ UNCHANGED inviter)
        <4>1. PICK left, reward : /\ left = InviteeCap - Total(Accrued(InviteeOf[o]))
                                  /\ reward = IF Reward < left THEN Reward ELSE left
          OBVIOUS
        <4>2. /\ ~(left <= 0 \/ act[a].sum + reward >= RewardLimit)
              /\ \E freeze \in BOOLEAN :
                   /\ ledger' = [ledger EXCEPT ![o] = [action |-> "accrue", reward |-> reward, frozen |-> freeze, thawed |-> FALSE]]
                   /\ inviter' = [inviter EXCEPT !.history = @ + reward,
                                             !.avail = IF freeze THEN @ ELSE @ + reward,
                                             !.frozen = IF freeze THEN @ + reward ELSE @]
          BY <1>2, <1>5, <3>2, <4>1 DEF ApplyAffiliateRewardTx
        <4>3. PICK freeze \in BOOLEAN :
                   /\ ledger' = [ledger EXCEPT ![o] = [action |-> "accrue", reward |-> reward, frozen |-> freeze, thawed |-> FALSE]]
                   /\ inviter' = [inviter EXCEPT !.history = @ + reward,
                                             !.avail = IF freeze THEN @ ELSE @ + reward,
                                             !.frozen = IF freeze THEN @ + reward ELSE @]
          BY <4>2
        <4>4. Total(Accrued(InviteeOf[o])) \in Nat
          <5>1. Accrued(InviteeOf[o]) \in SUBSET Deals
            BY DEF Accrued
          <5> QED
            BY <1>1, <5>1, TotalIsNatural
        <4>5. reward \in Nat /\ Total(Accrued(InviteeOf[o])) + reward <= InviteeCap
          BY <4>1, <4>2, <4>4, RewardsAssumption
        <4>6. inviter.history + reward < RewardLimit
          BY <1>1, <2>1, <4>2, <4>5, RewardsAssumption DEF BooksInv
        <4>7. BooksInv'
          BY <1>1, <1>2, <4>3, <4>5, <4>6, AccrueBooks
        <4> QED
          BY <3>0, <4>3, <4>7
      <3> QED
        BY <3>1, <3>2
    <2>3. DeskHolds(a)' /\ ~Is(a, "accrue")'
      BY <1>3 DEF DeskHolds, Is
    <2>4. ASSUME NEW b \in Claimants \ {a}
          PROVE  /\ Is(b, "accrue") => ledger'[act[b].of].action = "none"
                 /\ Is(b, "thaw") => \A p \in act[b].saw : ledger'[p].frozen
      <3>1. DeskHolds(b)
        BY <1>1 DEF DeskInv
      <3>2. ASSUME Is(b, "accrue") PROVE ledger'[act[b].of].action = "none"
        <4>1. InviteeOf[act[a].of] # InviteeOf[act[b].of]
          BY <1>1, <3>2 DEF DeskInv
        <4> QED
          BY <1>2, <2>2, <3>1, <3>2, <4>1 DEF DeskHolds
      <3>3. ASSUME Is(b, "thaw") PROVE \A p \in act[b].saw : ledger'[p].frozen
        <4>1. \A p \in act[b].saw : p \in Deals /\ ledger[p].frozen /\ ledger[p].action = "accrue"
          BY <1>1, <3>1, <3>3 DEF DeskHolds, BooksInv
        <4> QED
          BY <1>2, <2>2, <4>1
      <3> QED
        BY <3>2, <3>3
    <2>5. DeskInv'
      BY <1>1, <1>3, <2>1, <2>3, <2>4, DeskStep
    <2> QED
      BY <2>2, <2>5 DEF AffInv
  <1> QED
    BY <1>4, <1>5

LEMMA ThawStep ==
    ASSUME AffInv, IsFiniteSet(Deals), NEW a \in Claimants, ThawAffiliateQuotaTx(a)
    PROVE  AffInv'
  <1>1. DeskInv /\ BooksInv /\ DOMAIN act = Claimants /\ DeskHolds(a) /\ Is(a, "thaw")
    BY DEF AffInv, DeskInv, ThawAffiliateQuotaTx
  <1>2. PICK rows \in SUBSET Deals : rows = act[a].saw
    BY <1>1 DEF DeskHolds
  <1>3. Onward(a) /\ act'[a].pc = "idle" /\ UNCHANGED rowLocks /\ Unlock(a)
    BY <1>1 DEF ThawAffiliateQuotaTx, Does, Off, Onward
  <1>4. CASE UNCHANGED <<inviter, ledger>>
    BY <1>3, <1>4, BystanderStep
  <1>5. CASE ~UNCHANGED <<inviter, ledger>>
    <2>1. /\ Thawed(rows)
          /\ inviter' = [inviter EXCEPT !.avail = @ + Total(rows), !.frozen = IF @ >= Total(rows) THEN @ - Total(rows) ELSE 0]
          /\ ~rowLocks => \A o \in rows : ~ledger[o].thawed
      BY <1>2, <1>5 DEF ThawAffiliateQuotaTx
    <2>2. (\A o \in rows : ledger[o].frozen /\ ~ledger[o].thawed) /\ (rowLocks => locked = a)
      BY <1>1, <1>2, <2>1 DEF DeskHolds
    <2>3. BooksInv'
      <3>1. Total(rows) \in Nat
        BY <1>1, TotalIsNatural
      <3>2. /\ DOMAIN inviter' = CounterFields /\ inviter'.avail = inviter.avail + Total(rows) - 0
            /\ inviter'.moved = inviter.moved + 0 /\ inviter'.history = inviter.history /\ inviter'.bonus = inviter.bonus
            /\ 0 <= inviter.avail + Total(rows)
        BY <1>1, <2>1, <3>1 DEF BooksInv, CounterFields
      <3>3. PICK amount \in Nat : amount = 0
        OBVIOUS
      <3> QED
        BY <1>1, <2>1, <2>2, <3>2, <3>3, ThawBooks
    <2>4. \A o \in Deals : ledger'[o].action = ledger[o].action /\ ledger'[o].frozen = ledger[o].frozen
      BY <1>1, <2>1, ThawKeeps
    <2>5. \A b \in Claimants \ {a} : /\ Is(b, "accrue") => ledger'[act[b].of].action = "none"
                                     /\ Is(b, "thaw") => \A p \in act[b].saw : ledger'[p].frozen
      BY <1>1, <2>4 DEF DeskInv, DeskHolds
    <2>6. DeskHolds(a)' /\ ~Is(a, "accrue")'
      BY <1>3 DEF DeskHolds, Is
    <2>7. DeskInv'
      BY <1>1, <1>3, <2>2, <2>5, <2>6, DeskStep
    <2> QED
      BY <2>3, <2>7 DEF AffInv
  <1> QED
    BY <1>4, <1>5

\* Nothing is written to the inviter's row while a goroutine has it.
LEMMA CounterStep ==
    ASSUME AffInv, IsFiniteSet(Deals), NEW a \in Claimants, TransferAffiliateQuota(a) \/ UpdateWithTx(a) \/ inviteUser(a)
    PROVE  AffInv'
  <1>1. DeskInv /\ BooksInv /\ DOMAIN act = Claimants
    BY DEF AffInv, DeskInv
  <1>2. UNCHANGED <<rowLocks, locked>> /\ locked = Nobody
    BY DEF TransferAffiliateQuota, UpdateWithTx, inviteUser
  <1>3. Onward(a) /\ act'[a].pc = "idle"
    <2>1. CASE TransferAffiliateQuota(a)
      BY <1>1, <2>1 DEF TransferAffiliateQuota, Onward, Is
    <2>2. CASE UpdateWithTx(a)
      BY <1>1, <2>2 DEF UpdateWithTx, Does, Off, Onward
    <2>3. CASE inviteUser(a)
      BY <1>1, <2>3 DEF inviteUser, Does, Off, Onward
    <2> QED
      BY <2>1, <2>2, <2>3
  <1>4. BooksInv'
    <2>1. CASE UpdateWithTx(a)
      <3>0. UNCHANGED ledger
        BY <2>1 DEF UpdateWithTx
      <3>1. /\ DOMAIN inviter' = CounterFields /\ inviter'.avail = inviter.avail /\ inviter'.moved = inviter.moved
            /\ inviter'.history = inviter.history /\ inviter'.bonus = inviter.bonus
        BY <1>1, <2>1 DEF UpdateWithTx, BooksInv, CounterFields
      <3>2. /\ Total(Earned)' = Total(Earned) /\ Total(AllAccrued)' = Total(AllAccrued)
            /\ \A u \in Newcomers : Total(Accrued(u))' = Total(Accrued(u))
        BY <3>0 DEF Total, Earned, AllAccrued, Accrued
      <3> QED
        BY <1>1, <3>0, <3>1, <3>2 DEF BooksInv
    <2>2. CASE inviteUser(a)
      BY <1>1, <2>2, BooksKept, BonusBooks DEF inviteUser
    <2> QED
      BY <1>1, <2>1, <2>2, TransferBooks
  <1>5. DeskHolds(a)' /\ ~Is(a, "accrue")'
    BY <1>3 DEF DeskHolds, Is
  <1>6. \A o \in Deals : ledger'[o].action = ledger[o].action /\ ledger'[o].frozen = ledger[o].frozen
    <2>1. CASE TransferAffiliateQuota(a)
      <3>1. PICK rows \in SUBSET Deals : Thawed(rows)
        BY <2>1 DEF TransferAffiliateQuota
      <3> QED
        BY <1>1, <3>1, ThawKeeps
    <2>2. CASE UpdateWithTx(a) \/ inviteUser(a)
      BY <2>2 DEF UpdateWithTx, inviteUser
    <2> QED
      BY <2>1, <2>2
  <1>7. \A b \in Claimants \ {a} : /\ Is(b, "accrue") => ledger'[act[b].of].action = "none"
                                   /\ Is(b, "thaw") => \A p \in act[b].saw : ledger'[p].frozen
    BY <1>1, <1>6 DEF DeskInv, DeskHolds
  <1>8. DeskInv'
    BY <1>1, <1>2, <1>3, <1>5, <1>7, DeskStep
  <1> QED
    BY <1>4, <1>8 DEF AffInv

LEMMA AffStep ==
    ASSUME AffInv, IsFiniteSet(Deals), [RewNext]_rewVars
    PROVE  AffInv'
  <1>0. DOMAIN act = Claimants
    BY DEF AffInv, DeskInv
  <1>1. CASE UNCHANGED <<rowLocks, inviter, ledger, locked, act>>
    <2>1. BooksInv'
      BY <1>1, BooksKept DEF AffInv
    <2>2. DeskInv'
      BY <1>1 DEF AffInv, DeskInv, DeskHolds, Is
    <2> QED
      BY <2>1, <2>2 DEF AffInv
  <1>2. ASSUME NEW a \in Claimants, Does(a, Off), UNCHANGED <<rowLocks, inviter, ledger>>, Unlock(a) \/ UNCHANGED locked PROVE AffInv'
    BY <1>0, <1>2, BystanderStep DEF Does, Off, Onward
  <1>3. CASE CodeNext
    <2>1. UNCHANGED <<rowLocks, inviter, ledger, locked>>
      BY <1>3 DEF CodeNext, RedeemRead, Redeem, GetRedemptionById, UpdateRedemption, DeleteRedemptionById, ExpireCode, affVars
    <2>2. ASSUME NEW a \in Claimants, RedeemRead(a) PROVE AffInv'
      BY <1>0, <2>1, <2>2, BystanderStep DEF RedeemRead, Does, Off, Onward
    <2>3. ASSUME NEW a \in Claimants, GetRedemptionById(a) PROVE AffInv'
      BY <1>0, <2>1, <2>3, BystanderStep DEF GetRedemptionById, Does, Off, Onward
    <2> QED
      BY <1>1, <1>2, <1>3, <2>1, <2>2, <2>3 DEF CodeNext, Redeem, UpdateRedemption, DeleteRedemptionById, ExpireCode
  <1>4. CASE AwardNext
    <2>1. UNCHANGED <<rowLocks, inviter, ledger, locked>>
      BY <1>4 DEF AwardNext, HasCheckedInToday, HasActivityClaim, ClaimActivityReward, userCheckinWithTransaction,
           userCheckinWithoutTransaction, CheckinCredit, Midnight, affVars
    <2>2. ASSUME NEW a \in Claimants, HasCheckedInToday(a) \/ HasActivityClaim(a) PROVE AffInv'
      <3>1. Onward(a) /\ act'[a].pc \notin {"accrue", "thaw"}
        BY <1>0, <2>2 DEF HasCheckedInToday, HasActivityClaim, Does, Off, Onward
      <3> QED
        BY <2>1, <3>1, BystanderStep
    <2>3. ASSUME NEW a \in Claimants, userCheckinWithoutTransaction(a) PROVE AffInv'
      BY <1>0, <2>1, <2>3, BystanderStep DEF userCheckinWithoutTransaction, Does, Off, Onward
    <2> QED
      BY <1>1, <1>2, <1>4, <2>1, <2>2, <2>3 DEF AwardNext, ClaimActivityReward, userCheckinWithTransaction, CheckinCredit, Midnight
  <1>5. CASE AffiliateNext
    <2>1. ASSUME NEW a \in Claimants, NEW u, ResolveAffiliateInviterTx(a, u) PROVE AffInv'
      BY <1>0, <2>1, BystanderStep DEF ResolveAffiliateInviterTx, Does, Off, Onward
    <2>2. ASSUME NEW a \in Claimants, CreateUserWithAffiliateTx(a) PROVE AffInv'
      <3>1. Onward(a) /\ act'[a].pc \notin {"accrue", "thaw"} /\ UNCHANGED <<rowLocks, inviter, ledger>> /\ Unlock(a)
        BY <1>0, <2>2 DEF CreateUserWithAffiliateTx, Does, Off, Onward
      <3> QED
        BY <3>1, BystanderStep
    <2>3. ASSUME NEW a \in Claimants, UpdateRead(a) PROVE AffInv'
      BY <1>0, <2>3, BystanderStep DEF UpdateRead, affVars, Does, Off, Onward
    <2> QED
      BY <1>1, <1>5, <2>1, <2>2, <2>3, AccrueReadStep, ApplyStep, ThawReadStep, ThawStep, CounterStep DEF AffiliateNext, FreezeEnds
  <1> QED
    BY <1>1, <1>3, <1>4, <1>5 DEF RewNext, rewVars

LEMMA AffInitially ==
    ASSUME RewInit
    PROVE  AffInv
  <1>1. ledger = [o \in Deals |-> NoEntry] /\ inviter = [avail |-> 0, frozen |-> 0, history |-> 0, moved |-> 0, bonus |-> 0]
        /\ act = [a \in Claimants |-> Off]
    BY DEF RewInit
  <1>2. ledger \in [Deals -> Entries] /\ \A o \in Deals : ledger[o].action = "none" /\ ~ledger[o].frozen
    BY <1>1 DEF Entries, NoEntry
  <1>3. Earned = {} /\ AllAccrued = {} /\ \A u \in Newcomers : Accrued(u) = {}
    BY <1>2 DEF Earned, AllAccrued, Accrued
  <1>4. Total({}) = 0
    <2>1. PICK f : f = [o \in Deals |-> ledger[o].reward]
      OBVIOUS
    <2>2. SumFunctionOnSet(f, {}) = 0
      <3>1. IsFiniteSet({}) /\ \A x \in {} : f[x] \in Int
        BY FS_EmptySet
      <3> QED
        BY <3>1, SumType
    <2> QED
      BY <2>1, <2>2 DEF Total
  <1>5. BooksInv
    BY <1>1, <1>2, <1>3, <1>4, RewardsAssumption DEF BooksInv, CounterFields
  <1>6. DeskInv
    BY <1>1 DEF DeskInv, DeskHolds, Is, Off
  <1> QED
    BY <1>5, <1>6 DEF AffInv

(* Payments of invited users, thaws, transfers, updates of the profile and *)
(* the bonuses from before the program's activation interleave, on a       *)
(* database with row locks or without: what the inviter may spend is what  *)
(* the ledger earned and the bonuses, no invited user brings more than the *)
(* cap, and what was earned without the bonuses stays below the limit;     *)
(* with the codes, the awards and the invitations this is all of           *)
(* RewardsHold, for any finite set of orders.                              *)
THEOREM RewardsAreSafe ==
    ASSUME IsFiniteSet(Deals)
    PROVE  RewSpec => []RewardsHold
  <1>1. RewInit => AffInv
    BY AffInitially
  <1>2. AffInv /\ [RewNext]_rewVars => AffInv'
    BY AffStep
  <1>3. AffInv => AvailableIsEarned
    BY DEF AffInv, BooksInv, AvailableIsEarned, Earned, AllAccrued
  <1>4. AffInv /\ InviteLimitHolds => AffiliateLimitsHold
    BY DEF AffInv, BooksInv, AffiliateLimitsHold
  <1>5. RedeemedOncePerIssue /\ AwardedAtMostOnce /\ AvailableIsEarned /\ AffiliateLimitsHold => RewardsHold
    BY DEF RewardsHold
  <1> QED
    BY <1>1, <1>2, <1>3, <1>4, <1>5, CodesAreSpentOnce, AwardsAreSingle, InviteLimitIsKept, PTL DEF RewSpec

-----------------------------------------------------------------------------
(* Subscriptions: the largest of some numbers. *)

LEMMA MaxIs ==
    ASSUME NEW S, S \subseteq Int, NEW m \in S, \A y \in S : y <= m
    PROVE  Max(S) = m
  <1>1. \A x \in S : (\A y \in S : x >= y) => x = m
    BY SMT
  <1>2. m \in S /\ \A y \in S : m >= y
    BY SMT
  <1> QED
    BY <1>1, <1>2, Zenon DEF Max

LEMMA MaxExists ==
    ASSUME NEW n \in Nat, NEW S, S \subseteq 0..n, S # {}
    PROVE  Max(S) \in S /\ \A y \in S : y <= Max(S)
  <1>1. PICK T : T = {n - y : y \in S}
    OBVIOUS
  <1>2. T \subseteq Nat /\ T # {}
    <2>1. \A y \in S : y \in Int /\ y <= n /\ n - y \in Nat
      OBVIOUS
    <2> QED
      BY <1>1, <2>1, Zenon
  <1> DEFINE R == {ss \in Nat \X Nat : ss[1] < ss[2]}
  <1>3. PICK x \in T : \A y \in T : ~(<<y, x>> \in R)
    <2> HIDE DEF R
    <2>1. IsWellFoundedOn(R, Nat)
      BY NatLessThanWellFounded DEF R, OpToRel
    <2> QED
      BY <1>2, <2>1, WFMin
  <1>4. \A y \in T : x <= y
    <2> TAKE y \in T
    <2>1. ~(y < x)
      BY <1>2, <1>3
    <2> QED
      BY <1>2, <2>1
  <1>5. PICK m \in S : x = n - m
    BY <1>1
  <1>6. \A y \in S : y <= m
    <2> TAKE y \in S
    <2>1. n - m <= n - y
      BY <1>1, <1>4, <1>5
    <2> QED
      BY <2>1
  <1>7. S \subseteq Int
    OBVIOUS
  <1>8. Max(S) = m
    BY <1>6, <1>7, MaxIs
  <1> QED
    BY <1>6, <1>8

(* The boundaries of the periods of a subscription. *)

Grid(q, k) == q.since + k * q.period

\* The numbers of a row that the argument is about.
Numbers(q) ==
  /\ q.start \in Nat /\ q.end \in Nat /\ q.period \in Nat /\ q.last \in Nat /\ q.next \in Nat
  /\ q.used \in Nat /\ q.since \in Nat /\ q.at \in Nat /\ q.real \in Nat

LEMMA GridType ==
    ASSUME NEW q, Numbers(q), NEW k \in Nat
    PROVE  Grid(q, k) \in Nat /\ Grid(q, 0) = q.since
  BY DEF Grid, Numbers

LEMMA GridAdds ==
    ASSUME NEW q, Numbers(q), NEW k \in Nat, NEW i \in Nat
    PROVE  Grid(q, k) + i * q.period = Grid(q, k + i)
  BY DEF Grid, Numbers

LEMMA GridGrows ==
    ASSUME NEW q, Numbers(q), q.period > 0, NEW k \in Nat, NEW j \in Nat, j < k
    PROVE  Grid(q, j) + q.period <= Grid(q, k) /\ k <= Grid(q, k)
  <1>1. PICK p, a, b \in Nat : p = q.period /\ a = j /\ b = k - j - 1
    BY DEF Numbers
  <1>2. k = a + b + 1
    BY <1>1
  <1>3. b * p >= 0 /\ a * p >= 0 /\ (a + b + 1) * p = a * p + b * p + p
    BY <1>1
  <1>4. a * p >= a /\ b * p >= b
    BY <1>1
  <1> QED
    BY <1>1, <1>2, <1>3, <1>4 DEF Grid, Numbers

\* k is the period of the instant t.
In(q, t, k) ==
  /\ k \in Nat /\ (k = 0 \/ (Grid(q, k) <= t /\ Grid(q, k) <= q.end))
  /\ Grid(q, k + 1) > t \/ Grid(q, k + 1) > q.end

LEMMA PeriodIs ==
    ASSUME NEW q, Numbers(q), q.period > 0, NEW t \in 0..Horizon
    PROVE  In(q, t, PeriodOf(q, t))
  <1>1. PICK S : S = {k \in 0..Horizon : k = 0 \/ (q.since + k * q.period <= t /\ q.since + k * q.period <= q.end)}
    OBVIOUS
  <1>2. Horizon \in Nat /\ S \subseteq 0..Horizon /\ 0 \in S
    BY <1>1, SubscriptionsAssumption
  <1>3. PICK k : k = Max(S)
    OBVIOUS
  <1>4. k \in S /\ \A y \in S : y <= k
    BY <1>2, <1>3, MaxExists
  <1>5. k \in Nat /\ (k = 0 \/ (Grid(q, k) <= t /\ Grid(q, k) <= q.end))
    BY <1>1, <1>4 DEF Grid
  <1>6. ASSUME Grid(q, k + 1) <= t, Grid(q, k + 1) <= q.end PROVE FALSE
    <2>1. k + 1 \in Nat /\ k < k + 1 /\ Grid(q, k + 1) \in Nat
      BY <1>5, GridType
    <2>2. k + 1 <= Grid(q, k + 1)
      BY <1>5, <2>1, GridGrows
    <2>3. k + 1 \in 0..Horizon
      BY <1>2, <1>6, <2>1, <2>2
    <2>4. k + 1 \in S
      BY <1>1, <1>6, <2>3 DEF Grid
    <2> QED
      BY <1>4, <1>5, <2>4
  <1>7. Grid(q, k + 1) \in Nat /\ q.end \in Nat
    BY <1>5, GridType DEF Numbers
  <1>8. PeriodOf(q, t) = k
    <2>1. q.period # 0
      BY DEF Numbers
    <2> QED
      BY <1>1, <1>3, <2>1 DEF PeriodOf
  <1> QED
    BY <1>2, <1>5, <1>6, <1>7, <1>8 DEF In

LEMMA PeriodsGrow ==
    ASSUME NEW q, Numbers(q), q.period > 0, NEW t \in Int, NEW u \in Int, t <= u, NEW k, NEW j, In(q, t, k), In(q, u, j)
    PROVE  k <= j
  <1> SUFFICES ASSUME ~(k <= j) PROVE FALSE
    OBVIOUS
  <1>1. k \in Nat /\ j \in Nat /\ k # 0 /\ j + 1 <= k
    BY DEF In
  <1>2. Grid(q, j + 1) \in Nat /\ Grid(q, k) \in Nat /\ q.end \in Nat
    BY <1>1, GridType DEF Numbers
  <1>3. Grid(q, j + 1) <= Grid(q, k)
    <2>1. CASE j + 1 = k
      BY <1>2, <2>1
    <2>2. CASE j + 1 < k
      <3>1. j + 1 \in Nat
        BY <1>1
      <3>2. Grid(q, j + 1) + q.period <= Grid(q, k)
        BY <1>1, <2>2, <3>1, GridGrows
      <3> QED
        BY <1>2, <3>2 DEF Numbers
    <2> QED
      BY <1>1, <2>1, <2>2
  <1>4. Grid(q, k) <= t /\ Grid(q, k) <= q.end
    BY <1>1 DEF In
  <1> QED
    BY <1>1, <1>2, <1>3, <1>4 DEF In

\* An instant at a boundary that counts.
LEMMA PeriodAtLeast ==
    ASSUME NEW q, Numbers(q), q.period > 0, NEW t \in Int, NEW k, In(q, t, k), NEW j \in Nat,
           Grid(q, j) <= t, Grid(q, j) <= q.end
    PROVE  j <= k
  <1> SUFFICES ASSUME ~(j <= k) PROVE FALSE
    OBVIOUS
  <1>1. k \in Nat /\ k + 1 <= j
    BY DEF In
  <1>2. Grid(q, k + 1) \in Nat /\ Grid(q, j) \in Nat /\ q.end \in Nat
    BY <1>1, GridType DEF Numbers
  <1>3. Grid(q, k + 1) <= Grid(q, j)
    <2>1. CASE k + 1 = j
      BY <1>2, <2>1
    <2>2. CASE k + 1 < j
      <3>1. k + 1 \in Nat
        BY <1>1
      <3>2. Grid(q, k + 1) + q.period <= Grid(q, j)
        BY <1>1, <2>2, <3>1, GridGrows
      <3> QED
        BY <1>2, <3>2 DEF Numbers
    <2> QED
      BY <1>1, <2>1, <2>2
  <1> QED
    BY <1>1, <1>2, <1>3 DEF In

\* The ends of periods that have passed since the last reset.
LEMMA PassedIs ==
    ASSUME NEW q, Numbers(q), q.period > 0, NEW now \in 0..Horizon, NEW k \in Nat, ResetBase(q) = Grid(q, k),
           NEW c, c = PeriodOf(q, now)
    PROVE  /\ k < c => Passed(q, now) # {} /\ Max(Passed(q, now)) = Grid(q, c)
           /\ ~(k < c) => Passed(q, now) = {}
  <1>1. In(q, now, c) /\ c \in Nat /\ Horizon \in Nat /\ now \in Int
    BY PeriodIs, SubscriptionsAssumption DEF In
  <1>2. \A i \in 1..Horizon : i \in Nat /\ ResetBase(q) + i * q.period = Grid(q, k + i) /\ Grid(q, k + i) \in Nat
    <2> TAKE i \in 1..Horizon
    <2>1. i \in Nat /\ k + i \in Nat
      BY <1>1
    <2>2. Grid(q, k) + i * q.period = Grid(q, k + i)
      BY ONLY <2>1, k \in Nat, Numbers(q), GridAdds
    <2>3. Grid(q, k + i) \in Nat
      BY ONLY <2>1, Numbers(q), GridType
    <2> QED
      BY ONLY <2>1, <2>2, <2>3, ResetBase(q) = Grid(q, k)
  <1>3. PICK P : P = Passed(q, now)
    OBVIOUS
  <1>4. P = {Grid(q, k + i) : i \in {n \in 1..Horizon : Grid(q, k + n) <= now /\ Grid(q, k + n) <= q.end}}
    BY <1>2, <1>3 DEF Passed
  <1>5. \A i \in 1..Horizon : Grid(q, k + i) <= now /\ Grid(q, k + i) <= q.end => k + i <= c
    <2> TAKE i \in 1..Horizon
    <2>1. k + i \in Nat
      OBVIOUS
    <2> QED
      BY <1>1, <2>1, PeriodAtLeast
  <1>6. CASE k < c
    <2>1. PICK d \in Nat : d = c - k
      BY <1>1, <1>6
    <2>2. d >= 1 /\ k + d = c /\ c # 0
      BY <1>1, <1>6, <2>1
    <2>3. Grid(q, c) <= now /\ Grid(q, c) <= q.end /\ Grid(q, c) \in Nat
      BY <1>1, <2>2, GridType DEF In
    <2>4. c <= Grid(q, c)
      <3>1. 0 \in Nat /\ 0 < c
        BY <1>1, <2>2
      <3> QED
        BY <1>1, <3>1, GridGrows
    <2>5. d \in 1..Horizon
      BY <1>1, <2>1, <2>2, <2>3, <2>4
    <2>6. Grid(q, c) \in P
      BY <1>4, <2>2, <2>3, <2>5
    <2>7. \A y \in P : y \in Int /\ y <= Grid(q, c)
      <3> SUFFICES ASSUME NEW i \in 1..Horizon, Grid(q, k + i) <= now /\ Grid(q, k + i) <= q.end
                   PROVE  Grid(q, k + i) \in Int /\ Grid(q, k + i) <= Grid(q, c)
        BY <1>4
      <3>1. k + i <= c /\ k + i \in Nat /\ Grid(q, k + i) \in Nat
        BY <1>2, <1>5
      <3>2. CASE k + i = c
        BY <3>1, <3>2
      <3>3. CASE k + i < c
        <4>1. Grid(q, k + i) + q.period <= Grid(q, c)
          BY <1>1, <3>1, <3>3, GridGrows
        <4> QED
          BY <2>3, <3>1, <4>1 DEF Numbers
      <3> QED
        BY <1>1, <3>1, <3>2, <3>3
    <2>8. PICK m : m = Grid(q, c)
      OBVIOUS
    <2>9. P \subseteq Int /\ m \in P /\ \A y \in P : y <= m
      BY <2>6, <2>7, <2>8
    <2>10. Max(P) = m
      BY <2>9, MaxIs
    <2> QED
      BY <1>3, <1>6, <2>8, <2>9, <2>10
  <1>7. CASE ~(k < c)
    <2>1. \A i \in 1..Horizon : ~(k + i <= c)
      BY <1>1, <1>7
    <2> QED
      BY <1>3, <1>4, <1>5, <1>7, <2>1
  <1> QED
    BY <1>6, <1>7

SubFields == {"status", "up", "down", "prev", "start", "end", "period", "last", "next", "used", "since", "at", "real",
              "made", "open"}

\* The last reset is the start of period k and the next one, if known, its end.
Anchored(q, k) == k \in Nat /\ ResetBase(q) = Grid(q, k) /\ (q.next > 0 => q.next = Grid(q, k + 1))

\* What does not change in a reset.
SamePlan(r, q) ==
  /\ DOMAIN r = DOMAIN q
  /\ \A f \in {"status", "start", "end", "period", "since", "at", "real"} : r[f] = q[f]

LEMMA NextIs ==
    ASSUME NEW q, Numbers(q), NEW k \in Nat, NEW b, b = Grid(q, k)
    PROVE  /\ calcNextResetTime(b, q) \in Nat
           /\ calcNextResetTime(b, q) > 0 => calcNextResetTime(b, q) = Grid(q, k + 1)
  <1>1. Grid(q, k) \in Nat /\ Grid(q, k + 1) = Grid(q, k) + q.period
    BY GridType DEF Grid, Numbers
  <1> QED
    BY <1>1 DEF calcNextResetTime, Numbers

\* maybeResetUserSubscriptionWithPlanTx starts the period of now, if it is a later one.
LEMMA AfterReset ==
    ASSUME NEW q, DOMAIN q = SubFields, Numbers(q), q.period > 0, NEW now \in 0..Horizon,
           NEW k, Anchored(q, k), NEW c, c = PeriodOf(q, now), NEW r, r = maybeResetUserSubscriptionWithPlanTx(q, now)
    PROVE  /\ SamePlan(r, q) /\ Numbers(r)
           /\ k < c => Anchored(r, c) /\ r.used = 0
           /\ ~(k < c) => Anchored(r, k) /\ r.used = q.used
  <1>1. In(q, now, c) /\ c \in Nat /\ now \in Int /\ k \in Nat
    BY PeriodIs DEF In, Anchored
  <1>2. Grid(q, k) \in Nat /\ Grid(q, c) \in Nat /\ Grid(q, k + 1) \in Nat /\ ResetBase(q) \in Nat
    BY <1>1, GridType DEF Anchored
  <1>3. CASE k < c
    <2>1. Passed(q, now) # {} /\ Max(Passed(q, now)) = Grid(q, c)
      BY <1>1, <1>3, PassedIs DEF Anchored
    <2>2. k + 1 \in Nat /\ Grid(q, k + 1) <= Grid(q, c) /\ Grid(q, c) > 0
      <3>1. Grid(q, k) + q.period <= Grid(q, c) /\ c <= Grid(q, c)
        BY <1>1, <1>3, GridGrows
      <3>2. Grid(q, k + 1) = Grid(q, k) + q.period
        BY <1>1 DEF Grid, Numbers
      <3> QED
        BY <1>1, <1>2, <1>3, <3>1, <3>2
    <2>3. Grid(q, c) <= now
      BY <1>1, <1>3 DEF In
    <2>4. ~((q.next > 0 /\ q.next > now) \/ q.period = 0)
      BY <1>1, <1>2, <2>2, <2>3 DEF Anchored, Numbers
    <2>5. PICK b : b = Grid(q, c)
      OBVIOUS
    <2>6. PICK n : n = calcNextResetTime(b, q)
      OBVIOUS
    <2>7. r = [q EXCEPT !.used = 0, !.last = b, !.next = n]
      BY <2>1, <2>4, <2>5, <2>6 DEF maybeResetUserSubscriptionWithPlanTx
    <2>8. n \in Nat /\ (n > 0 => n = Grid(q, c + 1))
      BY <1>1, <2>5, <2>6, NextIs
    <2>9. SamePlan(r, q) /\ Numbers(r) /\ r.used = 0 /\ r.last = b /\ r.next = n
      BY <1>2, <2>5, <2>7, <2>8 DEF SamePlan, Numbers, SubFields
    <2>10. Grid(r, c) = Grid(q, c) /\ Grid(r, c + 1) = Grid(q, c + 1)
      BY <2>9 DEF SamePlan, Grid
    <2>11. ResetBase(r) = b
      BY <1>2, <2>2, <2>5, <2>9 DEF ResetBase
    <2> QED
      BY <1>1, <1>3, <2>5, <2>8, <2>9, <2>10, <2>11 DEF Anchored
  <1>4. CASE ~(k < c)
    <2>1. Passed(q, now) = {}
      BY <1>1, <1>4, PassedIs DEF Anchored
    <2>2. CASE r = q
      BY <1>4, <2>2 DEF SamePlan
    <2>3. CASE r # q
      <3>1. PICK b : b = ResetBase(q)
        OBVIOUS
      <3>2. PICK n : n = calcNextResetTime(b, q)
        OBVIOUS
      <3>3. r = [q EXCEPT !.next = n, !.last = b] /\ q.next = 0
        BY <2>1, <2>3, <3>1, <3>2 DEF maybeResetUserSubscriptionWithPlanTx
      <3>4. n \in Nat /\ (n > 0 => n = Grid(q, k + 1)) /\ b = Grid(q, k)
        BY <1>1, <3>1, <3>2, NextIs DEF Anchored
      <3>5. SamePlan(r, q) /\ Numbers(r) /\ r.used = q.used /\ r.last = b /\ r.next = n
        BY <1>2, <3>1, <3>3, <3>4 DEF SamePlan, Numbers, SubFields
      <3>6. Grid(r, k) = Grid(q, k) /\ Grid(r, k + 1) = Grid(q, k + 1)
        BY <3>5 DEF SamePlan, Grid
      <3>7. ResetBase(r) = b
        BY <1>2, <3>1, <3>5 DEF ResetBase, Numbers, SamePlan
      <3> QED
        BY <1>1, <1>4, <3>4, <3>5, <3>6, <3>7 DEF Anchored
    <2> QED
      BY <2>2, <2>3
  <1> QED
    BY <1>3, <1>4

\* What is counted since the start of period k is what was charged in it.
Counted(q, k) ==
  \/ PeriodOf(q, q.at) < k /\ q.used = 0
  \/ PeriodOf(q, q.at) = k /\ q.used = q.real
  \/ q.used = 0 /\ q.real = 0

\* An active row at the instant now.
RowHolds(q, now) ==
  /\ Numbers(q) /\ q.start <= now /\ q.since <= now /\ q.at <= now
  /\ q.period = 0 => q.used = q.real
  /\ q.period > 0 => \E k \in Nat : k <= PeriodOf(q, now) /\ Anchored(q, k) /\ Counted(q, k)

LEMMA PeriodSame ==
    ASSUME NEW q, NEW r, SamePlan(r, q), NEW t
    PROVE  PeriodOf(r, t) = PeriodOf(q, t)
  BY DEF SamePlan, PeriodOf

LEMMA PeriodInTime ==
    ASSUME NEW q, Numbers(q), q.period > 0, NEW t \in 0..Horizon, NEW u \in 0..Horizon, t <= u
    PROVE  PeriodOf(q, t) \in Nat /\ PeriodOf(q, u) \in Nat /\ PeriodOf(q, t) <= PeriodOf(q, u)
  <1>1. In(q, t, PeriodOf(q, t)) /\ In(q, u, PeriodOf(q, u))
    BY PeriodIs
  <1>2. PeriodOf(q, t) <= PeriodOf(q, u)
    BY <1>1, PeriodsGrow
  <1> QED
    BY <1>1, <1>2 DEF In

LEMMA RowTells ==
    ASSUME NEW now \in 0..Horizon, NEW q, RowHolds(q, now), PeriodOf(q, q.at) = PeriodOf(q, now)
    PROVE  q.used = q.real
  <1>1. CASE q.period = 0
    BY <1>1 DEF RowHolds
  <1>2. CASE q.period # 0
    <2>1. Numbers(q) /\ q.period > 0 /\ q.at \in 0..Horizon /\ q.at <= now
      BY SubscriptionsAssumption, <1>2 DEF RowHolds, Numbers
    <2>2. PeriodOf(q, now) \in Nat
      BY <2>1, PeriodInTime
    <2>3. PICK k \in Nat : k <= PeriodOf(q, now) /\ Counted(q, k)
      BY <2>1 DEF RowHolds
    <2> QED
      BY <2>2, <2>3 DEF Counted
  <1> QED
    BY <1>1, <1>2

LEMMA RowAges ==
    ASSUME NEW now \in 0..Horizon, NEW t \in 0..Horizon, now <= t, NEW q, RowHolds(q, now)
    PROVE  RowHolds(q, t)
  <1>1. Numbers(q) /\ q.start <= t /\ q.since <= t /\ q.at <= t
    BY DEF RowHolds, Numbers
  <1>2. ASSUME q.period > 0 PROVE \E k \in Nat : k <= PeriodOf(q, t) /\ Anchored(q, k) /\ Counted(q, k)
    <2>1. PICK k \in Nat : k <= PeriodOf(q, now) /\ Anchored(q, k) /\ Counted(q, k)
      BY <1>2 DEF RowHolds
    <2>2. PeriodOf(q, now) \in Nat /\ PeriodOf(q, t) \in Nat /\ PeriodOf(q, now) <= PeriodOf(q, t)
      BY <1>1, <1>2, PeriodInTime
    <2>3. k <= PeriodOf(q, t)
      BY <2>1, <2>2
    <2> QED
      BY <2>1, <2>3
  <1> QED
    BY <1>1, <1>2 DEF RowHolds

\* A request is charged.
LEMMA RowCharged ==
    ASSUME NEW now \in 0..Horizon, NEW q, DOMAIN q = SubFields, RowHolds(q, now),
           NEW r, r = maybeResetUserSubscriptionWithPlanTx(q, now),
           NEW n, PeriodOf(q, q.at) = PeriodOf(q, now) => n = q.real + 1,
           PeriodOf(q, q.at) # PeriodOf(q, now) => n = 1,
           NEW z, DOMAIN z = SubFields, \A f \in SubFields \ {"used", "at", "real", "made", "open"} : z[f] = r[f],
           z.used = r.used + 1, z.at = now, z.real = n
    PROVE  DOMAIN z = SubFields /\ RowHolds(z, now)
  <1>0. Numbers(q) /\ n \in Nat
    BY DEF RowHolds, Numbers
  <1>1. CASE q.period = 0
    <2>1. r = q
      BY <1>1 DEF maybeResetUserSubscriptionWithPlanTx
    <2>2. PeriodOf(q, q.at) = 0 /\ PeriodOf(q, now) = 0
      BY <1>1 DEF PeriodOf
    <2>3. q.used = q.real
      BY <1>1 DEF RowHolds
    <2>4. DOMAIN z = SubFields /\ z.used = z.real /\ z.period = 0 /\ Numbers(z)
      BY <1>0, <1>1, <2>1, <2>2, <2>3 DEF SubFields, Numbers
    <2>5. z.start <= now /\ z.since <= now /\ z.at <= now
      BY <2>1 DEF SubFields, RowHolds
    <2> QED
      BY <2>4, <2>5 DEF RowHolds
  <1>2. CASE q.period # 0
    <2>1. q.period > 0 /\ q.at \in 0..Horizon /\ q.at <= now
      BY SubscriptionsAssumption, <1>0, <1>2 DEF RowHolds, Numbers
    <2>2. PICK k \in Nat : k <= PeriodOf(q, now) /\ Anchored(q, k) /\ Counted(q, k)
      BY <2>1 DEF RowHolds
    <2>3. PICK a, c \in Nat : a = PeriodOf(q, q.at) /\ c = PeriodOf(q, now) /\ a <= c
      BY <1>0, <2>1, PeriodInTime
    <2>4. /\ SamePlan(r, q) /\ Numbers(r)
          /\ k < c => Anchored(r, c) /\ r.used = 0
          /\ ~(k < c) => Anchored(r, k) /\ r.used = q.used
      BY <1>0, <2>1, <2>2, <2>3, AfterReset
    <2>5. Anchored(r, c) /\ (k < c => r.used = 0) /\ (k = c => r.used = q.used)
      BY <2>2, <2>3, <2>4
    <2>6. DOMAIN z = SubFields /\ Numbers(z) /\ z.used = r.used + 1 /\ z.at = now /\ z.real = n
      BY <1>0, <2>4 DEF SamePlan, SubFields, Numbers
    <2>7. /\ z.period = q.period /\ z.start = q.start /\ z.since = q.since /\ z.end = q.end
          /\ z.last = r.last /\ z.next = r.next /\ r.period = q.period /\ r.start = q.start /\ r.since = q.since
      BY <2>4 DEF SamePlan, SubFields
    <2>8. Anchored(z, c)
      BY <2>5, <2>7 DEF Anchored, ResetBase, Grid
    <2>9. PeriodOf(z, now) = c
      BY <2>3, <2>7 DEF PeriodOf
    <2>10. z.used = z.real
      <3>1. CASE a = c
        BY <1>0, <2>2, <2>3, <2>5, <2>6, <3>1 DEF Counted, Numbers
      <3>2. CASE a # c
        BY <1>0, <2>2, <2>3, <2>5, <2>6, <3>2 DEF Counted, Numbers
      <3> QED
        BY <3>1, <3>2
    <2>11. z.start <= now /\ z.since <= now /\ z.at <= now
      BY <2>6, <2>7 DEF RowHolds
    <2>12. Counted(z, c)
      BY <2>6, <2>9, <2>10 DEF Counted
    <2> QED
      BY <2>1, <2>3, <2>6, <2>7, <2>8, <2>9, <2>11, <2>12 DEF RowHolds
  <1> QED
    BY <1>1, <1>2

\* The start of the period that a row stands in belongs to that period.
LEMMA StandsIn ==
    ASSUME NEW q, Numbers(q), q.period > 0, NEW now \in 0..Horizon, q.since <= now,
           NEW k \in Nat, Anchored(q, k), k <= PeriodOf(q, now)
    PROVE  ResetBase(q) \in 0..Horizon /\ ResetBase(q) <= now /\ PeriodOf(q, ResetBase(q)) = k
  <1>1. PICK b, j : b = ResetBase(q) /\ j = PeriodOf(q, now)
    OBVIOUS
  <1>2. In(q, now, j) /\ j \in Nat /\ k <= j /\ now \in Nat /\ Horizon \in Nat /\ now <= Horizon
    BY <1>1, PeriodIs, SubscriptionsAssumption DEF In
  <1>3. b = Grid(q, k) /\ b \in Nat
    BY <1>1, GridType DEF Anchored
  <1>4. k = 0 => b = q.since
    BY <1>3, GridType
  <1>5. k # 0 => b <= now /\ b <= q.end
    <2> SUFFICES ASSUME k # 0 PROVE b <= now /\ b <= q.end
      OBVIOUS
    <2>1. Grid(q, j) \in Nat /\ Grid(q, j) <= now /\ Grid(q, j) <= q.end /\ q.end \in Nat /\ q.period \in Nat
      BY <1>2, GridType DEF In, Numbers
    <2>2. CASE k = j
      BY <1>3, <2>1, <2>2
    <2>3. CASE k < j
      <3>1. Grid(q, k) + q.period <= Grid(q, j)
        BY <1>2, <2>3, GridGrows
      <3> QED
        BY <1>2, <1>3, <2>1, <3>1
    <2> QED
      BY <1>2, <2>2, <2>3
  <1>6. b \in 0..Horizon /\ b <= now
    BY <1>2, <1>3, <1>4, <1>5
  <1>7. PICK c : c = PeriodOf(q, b) /\ In(q, b, c)
    BY <1>6, PeriodIs
  <1>8. c \in Nat /\ b \in Int
    BY <1>3, <1>7 DEF In
  <1>9. k <= c
    <2>1. CASE k = 0
      BY <1>8, <2>1
    <2>2. CASE k # 0
      <3>1. Grid(q, k) <= b /\ Grid(q, k) <= q.end
        BY <1>3, <1>5, <2>2
      <3> QED
        BY <1>7, <1>8, <3>1, PeriodAtLeast
    <2> QED
      BY <2>1, <2>2
  <1>10. ~(k < c)
    <2> SUFFICES ASSUME k < c PROVE FALSE
      OBVIOUS
    <2>1. Grid(q, k) + q.period <= Grid(q, c) /\ Grid(q, c) \in Nat /\ q.period \in Nat
      BY <1>8, GridGrows, GridType DEF Numbers
    <2>2. Grid(q, c) <= b
      BY <1>7, <1>8 DEF In
    <2> QED
      BY <1>3, <2>1, <2>2
  <1> QED
    BY <1>1, <1>6, <1>7, <1>8, <1>9, <1>10

\* A request is settled or refunded in the period that the row stands in.
LEMMA RowSettled ==
    ASSUME NEW now \in 0..Horizon, NEW q, RowHolds(q, now), NEW delta \in Int,
           NEW same, same <=> PeriodOf(q, q.at) = PeriodOf(q, ResetBase(q)),
           NEW z, \A f \in SubFields \ {"used", "at", "real", "made", "open"} : z[f] = q[f],
           z.used = Floored(q.used + delta), z.at = IF same THEN q.at ELSE ResetBase(q),
           z.real = Floored((IF same THEN q.real ELSE 0) + delta)
    PROVE  RowHolds(z, now)
  <1>0. Numbers(q) /\ q.start <= now /\ q.since <= now /\ q.at <= now
    BY DEF RowHolds
  <1>1. \A f \in {"start", "end", "period", "last", "next", "since"} : z[f] = q[f]
    BY DEF SubFields
  <1>2. \A t : PeriodOf(z, t) = PeriodOf(q, t)
    BY <1>1 DEF PeriodOf
  <1>3. z.used \in Nat /\ z.real \in Nat
    BY <1>0 DEF Floored, Numbers
  <1>4. CASE q.period = 0
    <2>1. same
      BY <1>4 DEF PeriodOf
    <2>2. q.used = q.real
      BY <1>4 DEF RowHolds
    <2>3. z.at = q.at /\ z.used = z.real
      BY <2>1, <2>2
    <2>4. Numbers(z)
      BY <1>0, <1>1, <1>3, <2>3 DEF Numbers
    <2> QED
      BY <1>0, <1>1, <1>4, <2>3, <2>4 DEF RowHolds
  <1>5. CASE q.period # 0
    <2>1. q.period > 0 /\ q.at \in 0..Horizon
      BY SubscriptionsAssumption, <1>0, <1>5 DEF Numbers
    <2>2. PICK k \in Nat : k <= PeriodOf(q, now) /\ Anchored(q, k) /\ Counted(q, k)
      BY <2>1 DEF RowHolds
    <2>3. ResetBase(q) \in 0..Horizon /\ ResetBase(q) <= now /\ PeriodOf(q, ResetBase(q)) = k
      BY <1>0, <2>1, <2>2, StandsIn
    <2>4. PICK a \in Nat : a = PeriodOf(q, q.at)
      BY <1>0, <2>1, PeriodInTime
    <2>5. z.at \in Nat /\ z.at <= now /\ PeriodOf(z, z.at) = k
      BY <1>0, <1>2, <2>3 DEF Numbers
    <2>6. z.used = z.real
      <3>1. q.used = IF same THEN q.real ELSE 0
        BY <2>2, <2>3, <2>4 DEF Counted
      <3> QED
        BY <3>1
    <2>7. Numbers(z)
      BY <1>0, <1>1, <1>3, <2>5 DEF Numbers
    <2>8. Anchored(z, k)
      BY <1>1, <2>2 DEF Anchored, ResetBase, Grid
    <2>9. Counted(z, k) /\ k <= PeriodOf(z, now)
      BY <1>2, <2>2, <2>5, <2>6 DEF Counted
    <2>10. z.start <= now /\ z.since <= now /\ z.period = q.period
      BY <1>0, <1>1
    <2> QED
      BY <1>5, <2>5, <2>7, <2>8, <2>9, <2>10 DEF RowHolds
  <1> QED
    BY <1>4, <1>5

\* The task resets a row that was due at an earlier instant t.
LEMMA RowReset ==
    ASSUME NEW now \in 0..Horizon, NEW t \in 0..Horizon, t <= now, NEW q, DOMAIN q = SubFields, RowHolds(q, now),
           q.next > 0, q.next <= t, NEW r, r = maybeResetUserSubscriptionWithPlanTx(q, t)
    PROVE  DOMAIN r = SubFields /\ r.status = q.status /\ RowHolds(r, now)
  <1>1. CASE q.period = 0
    BY <1>1 DEF maybeResetUserSubscriptionWithPlanTx
  <1>2. CASE q.period # 0
    <2>1. Numbers(q) /\ q.period > 0
      BY <1>2 DEF RowHolds, Numbers
    <2>2. PICK k \in Nat : k <= PeriodOf(q, now) /\ Anchored(q, k) /\ Counted(q, k)
      BY <2>1 DEF RowHolds
    <2>3. PICK c, d \in Nat : c = PeriodOf(q, t) /\ d = PeriodOf(q, now) /\ c <= d
      BY <2>1, PeriodInTime
    <2>4. /\ SamePlan(r, q) /\ Numbers(r)
          /\ k < c => Anchored(r, c) /\ r.used = 0
          /\ ~(k < c) => Anchored(r, k) /\ r.used = q.used
      BY <2>1, <2>2, <2>3, AfterReset
    <2>5. PeriodOf(r, now) = d /\ PeriodOf(r, r.at) = PeriodOf(q, q.at)
      <3>1. r.at = q.at
        BY <2>4 DEF SamePlan
      <3> QED
        BY <2>3, <2>4, <3>1, PeriodSame
    <2>6. r.real = q.real /\ r.start = q.start /\ r.since = q.since /\ r.at = q.at /\ r.period = q.period /\ r.status = q.status
          /\ DOMAIN r = SubFields
      BY <2>4 DEF SamePlan
    <2>7. CASE k < c
      <3>0. q.at \in 0..Horizon /\ q.at <= now
        BY SubscriptionsAssumption, <2>1 DEF RowHolds, Numbers
      <3>1. PICK a \in Nat : a = PeriodOf(q, q.at)
        BY <2>1, <3>0, PeriodInTime
      <3>2. Counted(r, c)
        BY <2>2, <2>3, <2>4, <2>5, <2>6, <2>7, <3>1 DEF Counted
      <3> QED
        BY <2>1, <2>3, <2>4, <2>5, <2>6, <2>7, <3>2 DEF RowHolds
    <2>8. CASE ~(k < c)
      <3>1. Counted(r, k)
        BY <2>2, <2>4, <2>5, <2>6, <2>8 DEF Counted
      <3> QED
        BY <2>1, <2>2, <2>3, <2>4, <2>5, <2>6, <2>8, <3>1 DEF RowHolds
    <2> QED
      BY <2>7, <2>8
  <1> QED
    BY <1>1, <1>2

\* An administrator sets the use to zero, and may start a period now.
LEMMA RowZeroed ==
    ASSUME NEW now \in 0..Horizon, NEW q, DOMAIN q = SubFields, RowHolds(q, now),
           NEW r, r = [q EXCEPT !.used = 0, !.real = 0]
    PROVE  DOMAIN r = SubFields /\ r.status = q.status /\ RowHolds(r, now)
  <1>1. Numbers(r) /\ DOMAIN r = SubFields /\ r.used = 0 /\ r.real = 0 /\ r.status = q.status
    BY DEF RowHolds, Numbers, SubFields
  <1>2. \A f \in {"start", "end", "period", "since", "at", "last", "next"} : r[f] = q[f]
    BY DEF SubFields
  <1>3. ASSUME NEW k \in Nat, Anchored(q, k) PROVE Anchored(r, k) /\ Counted(r, k)
    BY <1>1, <1>2, <1>3 DEF Anchored, ResetBase, Grid, Counted
  <1>4. PeriodOf(r, now) = PeriodOf(q, now)
    BY <1>2 DEF PeriodOf
  <1> QED
    BY <1>1, <1>2, <1>3, <1>4 DEF RowHolds

LEMMA RowAdvanced ==
    ASSUME NEW now \in 0..Horizon, NEW q, DOMAIN q = SubFields, RowHolds(q, now), NEW n, n = calcNextResetTime(now, q),
           NEW r, r = [q EXCEPT !.used = 0, !.real = 0, !.next = n, !.last = IF n > 0 THEN now ELSE 0,
                                !.since = IF n > 0 THEN now ELSE q.start]
    PROVE  DOMAIN r = SubFields /\ r.status = q.status /\ RowHolds(r, now)
  <1>0. Numbers(q) /\ q.start <= now /\ q.since <= now /\ q.at <= now /\ now \in Nat
    BY DEF RowHolds
  <1>1. n \in Nat /\ (n > 0 => n = now + q.period)
    BY <1>0 DEF calcNextResetTime, Numbers
  <1>2. /\ DOMAIN r = SubFields /\ r.status = q.status /\ r.used = 0 /\ r.real = 0 /\ r.next = n
        /\ r.last = (IF n > 0 THEN now ELSE 0) /\ r.since = (IF n > 0 THEN now ELSE q.start)
        /\ r.start = q.start /\ r.end = q.end /\ r.period = q.period /\ r.at = q.at
    BY DEF SubFields
  <1>3. Numbers(r) /\ r.start <= now /\ r.since <= now /\ r.at <= now
    BY <1>0, <1>1, <1>2 DEF Numbers
  <1>4. ASSUME r.period > 0 PROVE 0 \in Nat /\ 0 <= PeriodOf(r, now) /\ Anchored(r, 0) /\ Counted(r, 0)
    <2>1. PeriodOf(r, now) \in Nat
      <3>1. now <= now
        OBVIOUS
      <3> QED
        BY <1>3, <1>4, <3>1, PeriodInTime
    <2>2. ResetBase(r) = r.since
      BY <1>0, <1>1, <1>2 DEF ResetBase, Numbers
    <2>3. Grid(r, 0) = r.since /\ Grid(r, 0 + 1) = r.since + r.period
      BY <1>3 DEF Grid, Numbers
    <2> QED
      BY <1>1, <1>2, <2>1, <2>2, <2>3 DEF Anchored, Counted
  <1> QED
    BY <1>2, <1>3, <1>4 DEF RowHolds

LEMMA RowCreated ==
    ASSUME NEW now \in 0..Horizon, NEW q, DOMAIN q = SubFields, q.start = now, q.since = now, q.end \in Nat, q.period \in Nat,
           q.used = 0, q.real = 0, q.at = 0, NEW n, n = calcNextResetTime(now, q),
           NEW r, r = [q EXCEPT !.next = n, !.last = IF n > 0 THEN now ELSE 0]
    PROVE  DOMAIN r = SubFields /\ RowHolds(r, now)
  <1>1. now \in Nat /\ n \in Nat /\ (n > 0 => n = now + q.period)
    BY DEF calcNextResetTime
  <1>2. /\ DOMAIN r = SubFields /\ r.used = 0 /\ r.real = 0 /\ r.next = n /\ r.last = IF n > 0 THEN now ELSE 0
        /\ r.since = now /\ r.start = now /\ r.end = q.end /\ r.period = q.period /\ r.at = 0
    BY DEF SubFields
  <1>3. Numbers(r) /\ r.start <= now /\ r.since <= now /\ r.at <= now
    BY <1>1, <1>2 DEF Numbers
  <1>4. ASSUME r.period > 0 PROVE 0 \in Nat /\ 0 <= PeriodOf(r, now) /\ Anchored(r, 0) /\ Counted(r, 0)
    <2>1. PeriodOf(r, now) \in Nat
      <3>1. now <= now
        OBVIOUS
      <3> QED
        BY <1>3, <1>4, <3>1, PeriodInTime
    <2>2. ResetBase(r) = r.since
      BY <1>1, <1>2 DEF ResetBase
    <2>3. Grid(r, 0) = r.since /\ Grid(r, 0 + 1) = r.since + r.period
      BY <1>3 DEF Grid, Numbers
    <2> QED
      BY <1>1, <1>2, <2>1, <2>2, <2>3 DEF Anchored, Counted
  <1> QED
    BY <1>2, <1>3, <1>4 DEF RowHolds

-----------------------------------------------------------------------------
(* Subscriptions: the rows. *)

JobFields == {"pc", "now", "rows", "last"}

RowsInv ==
  /\ plans \in Offers /\ clock \in 0..Horizon
  /\ DOMAIN job = JobFields /\ job.now \in 0..Horizon /\ job.now <= clock
  /\ sub = [s \in Subs |-> sub[s]]
  /\ \A s \in Subs : DOMAIN sub[s] = SubFields /\ (sub[s].status = "active" => RowHolds(sub[s], clock))

LEMMA RowsTell == RowsInv => UsageKept
  <1> SUFFICES ASSUME RowsInv, NEW s \in Subs, sub[s].status = "active",
                      PeriodOf(sub[s], sub[s].at) = PeriodOf(sub[s], clock)
               PROVE  sub[s].used = sub[s].real
    BY DEF UsageKept
  <1>1. PICK q, t : q = sub[s] /\ t = clock
    OBVIOUS
  <1>2. t \in 0..Horizon /\ RowHolds(q, t) /\ PeriodOf(q, q.at) = PeriodOf(q, t)
    BY <1>1 DEF RowsInv
  <1> QED
    BY <1>1, <1>2, RowTells

LEMMA RowsInitially == SubInit => RowsInv
  <1> SUFFICES ASSUME SubInit PROVE RowsInv
    OBVIOUS
  <1>1. plans \in Offers /\ clock \in 0..Horizon /\ DOMAIN job = JobFields /\ job.now \in 0..Horizon /\ job.now <= clock
    BY SubscriptionsAssumption DEF SubInit, Asleep, JobFields
  <1>2. DOMAIN NoSub = SubFields /\ NoSub.status # "active"
    BY DEF NoSub, SubFields
  <1>3. sub = [s \in Subs |-> NoSub]
    BY DEF SubInit
  <1>4. \A s \in Subs : sub[s] = NoSub
    BY <1>3
  <1>5. sub = [s \in Subs |-> sub[s]]
    BY <1>3
  <1> QED
    BY <1>1, <1>2, <1>4, <1>5 DEF RowsInv

\* One row changes.
LEMMA RowChanges ==
    ASSUME RowsInv, NEW s \in Subs, NEW r, sub' = [sub EXCEPT ![s] = r],
           DOMAIN r = SubFields, r.status = "active" => RowHolds(r, clock), UNCHANGED <<plans, clock>>,
           DOMAIN job' = JobFields, job'.now \in 0..Horizon, job'.now <= clock
    PROVE  RowsInv'
  <1>1. sub' = [u \in Subs |-> IF u = s THEN r ELSE sub[u]]
    BY DEF RowsInv
  <1>2. ASSUME NEW u \in Subs PROVE DOMAIN sub'[u] = SubFields /\ (sub'[u].status = "active" => RowHolds(sub'[u], clock))
    <2>1. CASE u = s
      BY <1>1, <2>1
    <2>2. CASE u # s
      <3>1. sub'[u] = sub[u]
        BY <1>1, <2>2
      <3> QED
        BY <3>1 DEF RowsInv
    <2> QED
      BY <2>1, <2>2
  <1>3. ASSUME NEW u \in Subs, sub'[u].status = "active" PROVE RowHolds(sub'[u], clock')
    <2>1. clock' = clock /\ RowHolds(sub'[u], clock)
      BY <1>2, <1>3
    <2> QED
      BY <2>1
  <1> QED
    BY <1>1, <1>2, <1>3 DEF RowsInv

LEMMA RowsStep ==
    ASSUME RowsInv, [SubNext]_subVars
    PROVE  RowsInv'
  <1>0. /\ plans \in Offers /\ clock \in 0..Horizon /\ Horizon \in Nat /\ clock \in Nat
        /\ DOMAIN job = JobFields /\ job.now \in 0..Horizon /\ job.now <= clock
    BY SubscriptionsAssumption DEF RowsInv
  <1>1. DOMAIN Asleep = JobFields /\ Asleep.now = 0 /\ DOMAIN NoSub = SubFields /\ NoSub.status # "active"
    BY DEF Asleep, JobFields, NoSub, SubFields
  <1>2. \A s \in Subs : DOMAIN sub[s] = SubFields /\ (sub[s].status = "active" => RowHolds(sub[s], clock))
    BY DEF RowsInv
  <1>3. ASSUME NEW s \in Subs, Consume(s) PROVE RowsInv'
    <2>1. PICK q, now : q = sub[s] /\ now = clock
      OBVIOUS
    <2>2. PICK r : r = maybeResetUserSubscriptionWithPlanTx(q, now)
      OBVIOUS
    <2>3. PICK n : n = IF PeriodOf(q, q.at) = PeriodOf(q, now) THEN q.real + 1 ELSE 1
      OBVIOUS
    <2>4. PICK z : z = [r EXCEPT !.used = r.used + 1, !.at = now, !.real = n, !.made = r.made + 1, !.open = r.open + 1]
      OBVIOUS
    <2>5. DOMAIN q = SubFields /\ RowHolds(q, now) /\ now \in 0..Horizon
      BY <1>0, <1>2, <1>3, <2>1 DEF Consume
    <2>6. DOMAIN z = SubFields /\ RowHolds(z, now)
      <3>1. /\ PeriodOf(q, q.at) = PeriodOf(q, now) => n = q.real + 1
            /\ PeriodOf(q, q.at) # PeriodOf(q, now) => n = 1
        BY <2>3
      <3>2. DOMAIN r = SubFields
        BY <2>2, <2>5 DEF maybeResetUserSubscriptionWithPlanTx, SubFields
      <3>3. /\ DOMAIN z = SubFields /\ \A f \in SubFields \ {"used", "at", "real", "made", "open"} : z[f] = r[f]
            /\ z.used = r.used + 1 /\ z.at = now /\ z.real = n
        BY <2>4, <3>2 DEF SubFields
      <3> QED
        BY <2>2, <2>5, <3>1, <3>3, RowCharged
    <2>7. SamePlan(r, q)
      BY <2>2, <2>5 DEF maybeResetUserSubscriptionWithPlanTx, SamePlan, SubFields
    <2>8. r.real = q.real
      BY <2>7 DEF SamePlan
    <2>9. sub' = [sub EXCEPT ![s] = z] /\ UNCHANGED <<plans, clock, job>>
      BY <1>3, <2>1, <2>2, <2>3, <2>4, <2>8 DEF Consume
    <2> QED
      BY <1>0, <2>1, <2>6, <2>9, RowChanges
  <1>4. ASSUME NEW s \in Subs, NEW advance \in BOOLEAN, resetUserSubscriptionTx(s, advance) PROVE RowsInv'
    <2>1. PICK q, now : q = sub[s] /\ now = clock
      OBVIOUS
    <2>2. PICK r : r = [q EXCEPT !.used = 0, !.real = 0]
      OBVIOUS
    <2>3. PICK n : n = calcNextResetTime(now, r)
      OBVIOUS
    <2>4. DOMAIN q = SubFields /\ RowHolds(q, now) /\ now \in 0..Horizon
      BY <1>0, <1>2, <1>4, <2>1 DEF resetUserSubscriptionTx
    <2>5. DOMAIN r = SubFields /\ RowHolds(r, now)
      BY <2>2, <2>4, RowZeroed
    <2>6. UNCHANGED <<plans, clock, job>>
      BY <1>4 DEF resetUserSubscriptionTx
    <2>7. CASE ~advance
      <3>1. sub' = [sub EXCEPT ![s] = r]
        BY <1>4, <2>1, <2>2, <2>7 DEF resetUserSubscriptionTx
      <3> QED
        BY <1>0, <2>1, <2>5, <2>6, <3>1, RowChanges
    <2>8. CASE advance
      <3>1. PICK z : z = [r EXCEPT !.next = n, !.last = IF n > 0 THEN now ELSE 0, !.since = IF n > 0 THEN now ELSE r.start]
        OBVIOUS
      <3>2. z = [r EXCEPT !.used = 0, !.real = 0, !.next = n, !.last = IF n > 0 THEN now ELSE 0,
                          !.since = IF n > 0 THEN now ELSE r.start]
        BY <2>2, <2>4, <2>5, <3>1 DEF SubFields
      <3>3. DOMAIN z = SubFields /\ RowHolds(z, now)
        BY <2>3, <2>4, <2>5, <3>2, RowAdvanced
      <3>4. sub' = [sub EXCEPT ![s] = z]
        BY <1>4, <2>1, <2>2, <2>3, <2>8, <3>1 DEF resetUserSubscriptionTx
      <3> QED
        BY <1>0, <2>1, <2>6, <3>3, <3>4, RowChanges
    <2> QED
      BY <2>7, <2>8
  <1>5. ASSUME NEW a \in Actors, NEW s \in Subs, CreateUserSubscription(a, s) PROVE RowsInv'
    <2>1. PICK now, g : now = clock /\ g = group
      OBVIOUS
    <2>2. PICK p : p = plans[s]
      OBVIOUS
    <2>3. p.length \in Nat /\ p.period \in Nat
      BY <1>0, <1>5, <2>2, SubscriptionsAssumption DEF CreateUserSubscription
    <2>4. PICK v : v = IF p.up # "" /\ g # p.up THEN g ELSE ""
      OBVIOUS
    <2>5. PICK q : q = [NoSub EXCEPT !.status = "active", !.up = p.up, !.down = p.down, !.prev = v, !.start = now,
                                     !.end = now + p.length, !.period = p.period, !.since = now]
      OBVIOUS
    <2>6. PICK n : n = calcNextResetTime(now, q)
      OBVIOUS
    <2>7. PICK r : r = [q EXCEPT !.next = n, !.last = IF n > 0 THEN now ELSE 0]
      OBVIOUS
    <2>8. /\ DOMAIN q = SubFields /\ q.start = now /\ q.since = now /\ q.end = now + p.length /\ q.period = p.period
          /\ q.used = 0 /\ q.real = 0 /\ q.at = 0
      BY <2>5 DEF NoSub, SubFields
    <2>9. now \in 0..Horizon /\ q.end \in Nat /\ q.period \in Nat
      BY <1>0, <2>1, <2>3, <2>8
    <2>10. DOMAIN r = SubFields /\ RowHolds(r, now)
      BY <2>6, <2>7, <2>8, <2>9, RowCreated
    <2>11. sub' = [sub EXCEPT ![s] = r] /\ UNCHANGED <<plans, clock, job>>
      BY <1>5, <2>1, <2>2, <2>4, <2>5, <2>6, <2>7 DEF CreateUserSubscription
    <2> QED
      BY <1>0, <2>1, <2>10, <2>11, RowChanges
  <1>6. ASSUME NEW a \in Actors, NEW s \in Subs, AdminInvalidateUserSubscription(a, s) PROVE RowsInv'
    <2>1. PICK r : r = [sub[s] EXCEPT !.status = "cancelled", !.end = clock]
      OBVIOUS
    <2>2. DOMAIN r = SubFields /\ r.status # "active"
      BY <1>2, <2>1 DEF SubFields
    <2>3. sub' = [sub EXCEPT ![s] = r] /\ UNCHANGED <<plans, clock, job>>
      BY <1>6, <2>1 DEF AdminInvalidateUserSubscription, RowsInv
    <2> QED
      BY <1>0, <2>2, <2>3, RowChanges
  <1>7. ASSUME NEW a \in Actors, NEW s \in Subs, AdminDeleteUserSubscription(a, s) PROVE RowsInv'
    <2>1. PICK r : r = [NoSub EXCEPT !.status = "deleted"]
      OBVIOUS
    <2>2. DOMAIN r = SubFields /\ r.status # "active"
      BY <1>1, <2>1 DEF SubFields
    <2>3. sub' = [sub EXCEPT ![s] = r] /\ UNCHANGED <<plans, clock, job>>
      BY <1>7, <2>1 DEF AdminDeleteUserSubscription
    <2> QED
      BY <1>0, <2>2, <2>3, RowChanges
  <1>8. ASSUME UNCHANGED <<plans, sub, clock>>, DOMAIN job' = JobFields, job'.now \in 0..Horizon, job'.now <= clock
        PROVE  RowsInv'
    BY <1>0, <1>2, <1>8 DEF RowsInv
  <1>9. CASE \E a \in Everyone : RunRefresh(a)
    BY <1>0, <1>8, <1>9 DEF RunRefresh, RefreshRead, RefreshWrite, RefreshVerify
  <1>10. CASE ExpireFind \/ ExpireApply \/ ResetFind
    <2>1. UNCHANGED <<plans, sub, clock>>
      BY <1>10 DEF ExpireFind, ExpireApply, ResetFind
    <2>2. DOMAIN job' = JobFields /\ (job'.now = 0 \/ job'.now = clock \/ job'.now = job.now)
      BY <1>1, <1>10 DEF ExpireFind, ExpireApply, ResetFind, Asleep, JobFields
    <2> QED
      BY <1>0, <1>8, <2>1, <2>2
  <1>11. CASE ExpireDueSubscriptions
    <2>1. PICK R : R = {s \in Subs : Ended(s, job.now)}
      OBVIOUS
    <2>2. sub' = [s \in Subs |-> IF s \in R THEN [sub[s] EXCEPT !.status = "expired"] ELSE sub[s]] /\ UNCHANGED <<plans, clock>>
      BY <1>11, <2>1 DEF ExpireDueSubscriptions
    <2>3. DOMAIN job' = JobFields /\ job'.now = job.now
      BY <1>0, <1>11 DEF ExpireDueSubscriptions, Asleep, JobFields
    <2>4. ASSUME NEW s \in Subs
          PROVE  DOMAIN sub'[s] = SubFields /\ (sub'[s].status = "active" => sub'[s] = sub[s])
      BY <1>2, <2>2 DEF SubFields
    <2>5. ASSUME NEW s \in Subs, sub'[s].status = "active" PROVE RowHolds(sub'[s], clock')
      <3>1. sub'[s] = sub[s] /\ clock' = clock
        BY <2>2, <2>4, <2>5
      <3>2. sub[s].status = "active"
        BY <2>5, <3>1
      <3> QED
        BY <1>2, <3>1, <3>2
    <2>6. sub' = [s \in Subs |-> sub'[s]]
      BY <2>2
    <2> QED
      BY <1>0, <2>2, <2>3, <2>4, <2>5, <2>6 DEF RowsInv
  <1>12. ASSUME NEW s \in Subs, ResetDueSubscriptions(s) PROVE RowsInv'
    <2>1. DOMAIN job' = JobFields /\ (job'.now = 0 \/ job'.now = job.now) /\ UNCHANGED <<plans, clock>>
      BY <1>0, <1>1, <1>12 DEF ResetDueSubscriptions, JobFields
    <2>2. job'.now \in 0..Horizon /\ job'.now <= clock
      BY <1>0, <2>1
    <2>3. CASE sub' = sub
      BY <1>8, <2>1, <2>2, <2>3
    <2>4. CASE sub' # sub
      <3>1. PICK q, now, t : q = sub[s] /\ now = clock /\ t = job.now
        OBVIOUS
      <3>2. PICK r : r = maybeResetUserSubscriptionWithPlanTx(q, t)
        OBVIOUS
      <3>3. sub' = [sub EXCEPT ![s] = r] /\ q.next > 0 /\ q.next <= t
        BY <1>12, <2>4, <3>1, <3>2 DEF ResetDueSubscriptions
      <3>4. DOMAIN q = SubFields /\ now \in 0..Horizon /\ t \in 0..Horizon /\ t <= now
        BY <1>0, <1>2, <3>1
      <3>5. SamePlan(r, q)
        BY <3>2, <3>4 DEF maybeResetUserSubscriptionWithPlanTx, SamePlan, SubFields
      <3>6. DOMAIN r = SubFields /\ r.status = q.status
        BY <3>4, <3>5 DEF SamePlan
      <3>7. ASSUME q.status = "active" PROVE RowHolds(r, now)
        <4>1. RowHolds(q, now)
          BY <1>2, <3>1, <3>7
        <4> QED
          BY <3>2, <3>3, <3>4, <4>1, RowReset
      <3> QED
        BY <2>1, <2>2, <3>1, <3>3, <3>6, <3>7, RowChanges
    <2> QED
      BY <2>3, <2>4
  <1>13. CASE SubTick
    <2>1. PICK now, t \in 0..Horizon : now = clock /\ t = clock' /\ now <= t
      BY <1>0, <1>13 DEF SubTick
    <2>2. UNCHANGED <<plans, sub, job>>
      BY <1>13 DEF SubTick
    <2>3. ASSUME NEW s \in Subs, sub'[s].status = "active" PROVE RowHolds(sub'[s], clock')
      <3>1. PICK q : q = sub[s]
        OBVIOUS
      <3>2. RowHolds(q, now)
        BY <1>2, <2>1, <2>2, <2>3, <3>1
      <3>3. RowHolds(q, t)
        BY <2>1, <3>2, RowAges
      <3> QED
        BY <2>1, <2>2, <3>1, <3>3
    <2>4. job'.now <= clock'
      BY <1>0, <2>1, <2>2
    <2> QED
      BY <1>0, <1>2, <2>1, <2>2, <2>3, <2>4 DEF RowsInv
  <1>14. CASE UNCHANGED subVars
    BY <1>0, <1>8, <1>14 DEF subVars
  <1>15. ASSUME NEW s \in Subs, NEW delta \in {-1, 1}, postConsumeUserSubscriptionDeltaTx(s, delta) PROVE RowsInv'
    <2>1. PICK q, now, b : q = sub[s] /\ now = clock /\ b = ResetBase(q)
      OBVIOUS
    <2>2. PICK same : same = (PeriodOf(q, q.at) = PeriodOf(q, b))
      OBVIOUS
    <2>3. PICK z : z = [q EXCEPT !.used = Floored(q.used + delta), !.open = q.open - 1, !.at = IF same THEN q.at ELSE b,
                                 !.real = Floored((IF same THEN q.real ELSE 0) + delta)]
      OBVIOUS
    <2>4. DOMAIN q = SubFields /\ now \in 0..Horizon /\ delta \in Int /\ (q.status = "active" => RowHolds(q, now))
      BY <1>0, <1>2, <2>1
    <2>5. /\ DOMAIN z = SubFields /\ \A f \in SubFields \ {"used", "at", "real", "made", "open"} : z[f] = q[f]
          /\ z.used = Floored(q.used + delta) /\ z.at = (IF same THEN q.at ELSE b)
          /\ z.real = Floored((IF same THEN q.real ELSE 0) + delta)
      BY <2>3, <2>4 DEF SubFields
    <2>6. z.status = "active" => RowHolds(z, now)
      <3> SUFFICES ASSUME z.status = "active" PROVE RowHolds(z, now)
        OBVIOUS
      <3>1. RowHolds(q, now)
        BY <2>4, <2>5 DEF SubFields
      <3>2. same <=> PeriodOf(q, q.at) = PeriodOf(q, ResetBase(q))
        BY <2>1, <2>2
      <3>3. z.at = IF same THEN q.at ELSE ResetBase(q)
        BY <2>1, <2>5
      <3> QED
        BY <2>4, <2>5, <3>1, <3>2, <3>3, RowSettled
    <2>7. sub' = [sub EXCEPT ![s] = z] /\ UNCHANGED <<plans, clock, job>>
      BY <1>15, <2>1, <2>2, <2>3 DEF postConsumeUserSubscriptionDeltaTx
    <2> QED
      BY <1>0, <2>1, <2>5, <2>6, <2>7, RowChanges
  <1> QED
    BY <1>3, <1>4, <1>5, <1>6, <1>7, <1>9, <1>10, <1>11, <1>12, <1>13, <1>14, <1>15 DEF SubNext, RunTask

-----------------------------------------------------------------------------
(* Subscriptions: the cached group. *)

\* Somebody will still write the copy, or compare what he wrote last with the
\* row, or has returned an error.
Chases(r) == r.pc \in {"read", "write", "failed"} \/ (r.pc = "verify" /\ r.group = cached)

GroupInv ==
  /\ fresh = [a \in Everyone |-> fresh[a]]
  /\ \A a \in Everyone : DOMAIN fresh[a] = {"pc", "group", "round"}
  /\ cached = group \/ \E a \in Everyone : Chases(fresh[a])

LEMMA GroupChanges ==
    ASSUME GroupInv, NEW a \in Everyone, Refresh(a, group' # group), UNCHANGED cached
    PROVE  GroupInv'
  <1>1. CASE group' = group
    <2>1. fresh' = fresh
      BY <1>1 DEF Refresh
    <2>2. ASSUME NEW b \in Everyone, Chases(fresh[b]) PROVE Chases(fresh[b])'
      BY <2>1, <2>2 DEF Chases
    <2> QED
      BY <1>1, <2>1, <2>2 DEF GroupInv
  <1>2. CASE group' # group
    <2>1. fresh' = [fresh EXCEPT ![a] = [Quiet EXCEPT !.pc = "read"]]
      BY <1>2 DEF Refresh
    <2>2. PICK r : r = [Quiet EXCEPT !.pc = "read"]
      OBVIOUS
    <2>3. DOMAIN r = {"pc", "group", "round"} /\ r.pc = "read"
      BY <2>2 DEF Quiet
    <2>4. fresh' = [b \in Everyone |-> IF b = a THEN r ELSE fresh[b]]
      BY <2>1, <2>2 DEF GroupInv
    <2>5. Chases(fresh[a])'
      BY <2>3, <2>4 DEF Chases
    <2>6. \A b \in Everyone : DOMAIN fresh'[b] = {"pc", "group", "round"}
      BY <2>3, <2>4 DEF GroupInv
    <2>7. fresh' = [b \in Everyone |-> fresh'[b]]
      BY <2>4
    <2> QED
      BY <2>5, <2>6, <2>7 DEF GroupInv
  <1> QED
    BY <1>1, <1>2

LEMMA GroupStep ==
    ASSUME GroupInv, [SubNext]_subVars
    PROVE  GroupInv'
  <1>1. ASSUME UNCHANGED <<group, cached, fresh>> PROVE GroupInv'
    <2>1. ASSUME NEW b \in Everyone, Chases(fresh[b]) PROVE Chases(fresh[b])'
      BY <1>1, <2>1 DEF Chases
    <2> QED
      BY <1>1, <2>1 DEF GroupInv
  <1>2. ASSUME NEW a \in Actors, NEW s \in Subs, CreateUserSubscription(a, s) PROVE GroupInv'
    <2>1. PICK p, g : p = plans[s] /\ g = group
      OBVIOUS
    <2>2. group' = (IF p.up # "" /\ g # p.up THEN p.up ELSE g) /\ UNCHANGED cached /\ Refresh(a, p.up # "" /\ g # p.up)
      BY <1>2, <2>1 DEF CreateUserSubscription
    <2>3. (p.up # "" /\ g # p.up) <=> group' # group
      BY <2>1, <2>2
    <2>4. Refresh(a, group' # group) /\ a \in Everyone
      BY <2>2, <2>3 DEF Refresh, Everyone
    <2> QED
      BY <2>2, <2>4, GroupChanges
  <1>3. ASSUME NEW a \in Actors, NEW s \in Subs, AdminInvalidateUserSubscription(a, s) \/ AdminDeleteUserSubscription(a, s)
        PROVE  GroupInv'
    <2>1. Refresh(a, group' # group) /\ UNCHANGED cached /\ a \in Everyone
      BY <1>3 DEF AdminInvalidateUserSubscription, AdminDeleteUserSubscription, Everyone
    <2> QED
      BY <2>1, GroupChanges
  <1>4. CASE ExpireApply
    <2>1. Refresh(Task, group' # group) /\ UNCHANGED cached /\ Task \in Everyone
      BY <1>4 DEF ExpireApply, Everyone
    <2> QED
      BY <2>1, GroupChanges
  <1>5. ASSUME NEW a \in Everyone, NEW r, fresh' = [fresh EXCEPT ![a] = r], DOMAIN r = {"pc", "group", "round"}
        PROVE  /\ fresh' = [b \in Everyone |-> fresh'[b]] /\ fresh'[a] = r
               /\ \A b \in Everyone : DOMAIN fresh'[b] = {"pc", "group", "round"} /\ (b # a => fresh'[b] = fresh[b])
    <2>1. fresh' = [b \in Everyone |-> IF b = a THEN r ELSE fresh[b]]
      BY <1>5 DEF GroupInv
    <2> QED
      BY <1>5, <2>1 DEF GroupInv
  <1>6. ASSUME NEW a \in Everyone, RefreshRead(a) PROVE GroupInv'
    <2>1. PICK r : r = [fresh[a] EXCEPT !.pc = "write", !.group = group]
      OBVIOUS
    <2>2. DOMAIN r = {"pc", "group", "round"} /\ r.pc = "write" /\ fresh' = [fresh EXCEPT ![a] = r]
      BY <1>6, <2>1 DEF RefreshRead, GroupInv
    <2>3. Chases(fresh[a])'
      BY <1>5, <2>2 DEF Chases
    <2> QED
      BY <1>5, <2>2, <2>3 DEF GroupInv
  <1>7. ASSUME NEW a \in Everyone, RefreshWrite(a) PROVE GroupInv'
    <2>1. PICK q : q = fresh[a]
      OBVIOUS
    <2>2. PICK r : r = IF q.round = 3 THEN [Quiet EXCEPT !.pc = "failed"] ELSE [q EXCEPT !.pc = "verify"]
      OBVIOUS
    <2>3. fresh' = [fresh EXCEPT ![a] = r] /\ cached' = q.group
      BY <1>7, <2>1, <2>2 DEF RefreshWrite, GroupInv
    <2>4. DOMAIN q = {"pc", "group", "round"}
      BY <2>1 DEF GroupInv
    <2>5. DOMAIN r = {"pc", "group", "round"} /\ (r.pc = "failed" \/ (r.pc = "verify" /\ r.group = q.group))
      BY <2>2, <2>4 DEF Quiet
    <2>6. Chases(fresh[a])'
      BY <1>5, <2>3, <2>5 DEF Chases
    <2> QED
      BY <1>5, <2>3, <2>5, <2>6 DEF GroupInv
  <1>8. ASSUME NEW a \in Everyone, RefreshVerify(a) PROVE GroupInv'
    <2>1. PICK q : q = fresh[a]
      OBVIOUS
    <2>2. PICK r : r = IF group = q.group THEN Quiet ELSE [pc |-> "write", group |-> group, round |-> q.round + 1]
      OBVIOUS
    <2>3. fresh' = [fresh EXCEPT ![a] = r] /\ UNCHANGED <<group, cached>> /\ q.pc = "verify"
      BY <1>8, <2>1, <2>2 DEF RefreshVerify, GroupInv, Verified
    <2>4. DOMAIN r = {"pc", "group", "round"} /\ (group # q.group => r.pc = "write")
      BY <2>2 DEF Quiet
    <2>5. cached' = group' \/ \E b \in Everyone : Chases(fresh[b])'
      <3>1. CASE group # q.group
        <4>1. Chases(fresh[a])'
          BY <1>5, <2>3, <2>4, <3>1 DEF Chases
        <4> QED
          BY <4>1
      <3>2. CASE group = q.group /\ cached # group
        <4>1. PICK b \in Everyone : Chases(fresh[b])
          BY <3>2 DEF GroupInv
        <4>2. b # a
          BY <2>1, <2>3, <3>2, <4>1 DEF Chases
        <4>3. fresh'[b] = fresh[b]
          BY <1>5, <2>3, <2>4, <4>2
        <4>4. Chases(fresh[b])'
          BY <2>3, <4>1, <4>3 DEF Chases
        <4> QED
          BY <4>4
      <3> QED
        BY <2>3, <3>1, <3>2
    <2> QED
      BY <1>5, <2>3, <2>4, <2>5 DEF GroupInv
  <1>9. CASE ExpireFind \/ ExpireDueSubscriptions \/ ResetFind \/ SubTick \/ \E s \in Subs : ResetDueSubscriptions(s)
    BY <1>1, <1>9 DEF ExpireFind, ExpireDueSubscriptions, ResetFind, SubTick, ResetDueSubscriptions
  <1>10. CASE \E s \in Subs : \/ Consume(s) \/ \E delta \in {-1, 1} : postConsumeUserSubscriptionDeltaTx(s, delta)
                             \/ \E advance \in BOOLEAN : resetUserSubscriptionTx(s, advance)
    BY <1>1, <1>10 DEF Consume, postConsumeUserSubscriptionDeltaTx, resetUserSubscriptionTx
  <1>11. CASE UNCHANGED subVars
    BY <1>1, <1>11 DEF subVars
  <1> QED
    BY <1>2, <1>3, <1>4, <1>6, <1>7, <1>8, <1>9, <1>10, <1>11 DEF SubNext, RunTask, RunRefresh

(* For any subscriptions, plans, goroutines and any length of time:        *)
(* requests, the background task and administrators may each start the     *)
(* next period, with a clock read before a lock, while requests of any     *)
(* period are settled and refunded, and none of them drops what was booked *)
(* in the running one; and refreshes of the cached group may overlap with  *)
(* changes and with each other in any order, and the last one repairs the  *)
(* copy unless somebody's refresh returned an error.                       *)
THEOREM SubscriptionsAreSafe == SubSpec => []SubscriptionsHold
  <1>1. SubInit => RowsInv /\ GroupInv
    <2> SUFFICES ASSUME SubInit PROVE RowsInv /\ GroupInv
      OBVIOUS
    <2>1. GroupInv
      BY DEF SubInit, GroupInv, Quiet
    <2> QED
      BY <2>1, RowsInitially
  <1>2. RowsInv /\ GroupInv /\ [SubNext]_subVars => (RowsInv /\ GroupInv)'
    BY RowsStep, GroupStep
  <1>3. RowsInv /\ GroupInv => SubscriptionsHold
    <2> SUFFICES ASSUME RowsInv, GroupInv PROVE SubscriptionsHold
      OBVIOUS
    <2>1. CachedGroupAgrees
      BY DEF GroupInv, CachedGroupAgrees, Chases
    <2> QED
      BY <2>1, RowsTell DEF SubscriptionsHold
  <1> QED
    BY <1>1, <1>2, <1>3, PTL DEF SubSpec
=============================================================================
