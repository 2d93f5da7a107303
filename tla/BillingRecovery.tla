------------------------------ MODULE BillingRecovery ------------------------------
(***************************************************************************)
(* The durable half of request billing: the billing_recoveries row of a    *)
(* request, its adjustment markers, the subscription pre-consume record,   *)
(* and the three balances they move (model/billing_recovery.go).           *)
(*                                                                         *)
(* Every exported function of the file is one database transaction, so it  *)
(* is one action here.  For a function F there is a state predicate FOk    *)
(* ("F returns nil") and an action F (what F commits when it returns nil); *)
(* a call that returns an error commits nothing.                           *)
(*                                                                         *)
(* DurableNext lets any caller call any function in any order: it stands   *)
(* for every interleaving of request handlers, recovery workers, crashes   *)
(* and retries.  BillingSession gives the callers of the program.          *)
(*                                                                         *)
(* All requests belong to one user with one token and one subscription, so *)
(* that they compete for the same balances.                                *)
(***************************************************************************)
EXTENDS Integers

CONSTANTS
    Requests,        \* request ids
    Quotas,          \* amounts a caller may reserve
    Amounts,         \* amounts a caller may report as reserved
    Deltas,          \* settlement deltas a caller may ask for
    InitUserQuota,   \* wallet balance before the first request
    InitTokenQuota,  \* remaining quota of the token
    SubTotal         \* AmountTotal of the subscription; 0 means unlimited

ASSUME QuotasAreNaturals == Quotas \subseteq Nat /\ Amounts \subseteq Nat
ASSUME DeltasAreIntegers == Deltas \subseteq Int
ASSUME BalancesAreIntegers ==
    InitUserQuota \in Int /\ InitTokenQuota \in Int /\ SubTotal \in Nat

VARIABLES
    row,          \* request -> billing_recoveries row
    adjustments,  \* request -> effect -> marker (billing_recovery_adjustments)
    reservations, \* request -> "reserve:<target>" markers
    preRecord,    \* request -> subscription_pre_consume_records row
    userQuota,    \* users.quota
    tokenQuota,   \* tokens.remain_quota
    subUsed,      \* user_subscriptions.amount_used
    stale,        \* requests whose row has updated_at below the cutoff
    charge        \* auxiliary: what each request has moved out of each balance

balances == <<userQuota, tokenQuota, subUsed, charge>>
durableVars == <<row, adjustments, reservations, preRecord, balances, stale>>

-----------------------------------------------------------------------------
(* Rows and markers *)

Sources == {"wallet", "subscription"}

Live == {"active", "settlement_pending", "refund_pending"}

Terminal == {"settled", "refunded"}

\* An effect is a component and an operation; the extra reserve of a
\* subscription is refunded but never settled.
Effects == {"funding", "extra", "token"} \X {"refund"}
           \cup {"funding", "token"} \X {"settle"}

NoRow ==
    [status |-> "absent", source |-> "wallet", pre |-> "prepared",
     tokenRequired |-> FALSE, sub |-> FALSE, funding |-> 0, extra |-> 0,
     token |-> 0, delta |-> 0, completed |-> {}]

NoRecord == [status |-> "none", amount |-> 0]

Exists(r) == row[r].status # "absent"

\* "completed" holds the five *_refund and *_settlement columns.
SettlementComplete(r) ==
    {<<"funding", "settle">>, <<"token", "settle">>} \subseteq row[r].completed

RefundComplete(r) ==
    /\ <<"funding", "refund">> \in row[r].completed
    /\ row[r].extra > 0 => <<"extra", "refund">> \in row[r].completed
    /\ row[r].token > 0 => <<"token", "refund">> \in row[r].completed

Reusable(r) ==
    /\ row[r].status = "refunded"
    /\ row[r].pre = "prepared"
    /\ row[r].funding = 0 /\ row[r].extra = 0 /\ row[r].token = 0

NoMarker == [done |-> FALSE, amount |-> 0]

Fenced(r, e) == adjustments[r][e].done

\* The amount the marker of an effect records; 0 while there is none.
Booked(r, e) == adjustments[r][e].amount

\* A write sets updated_at to now.
Touched(r) == stale' = stale \ {r}

Clamp(n) == IF n < 0 THEN 0 ELSE n

\* postConsumeUserSubscriptionDeltaTx refuses a delta above the total.
SubDeltaOk(delta) == SubTotal > 0 => Clamp(subUsed + delta) <= SubTotal

SetRow(r, x) == row' = [row EXCEPT ![r] = x]

\* A request takes w from the wallet, u from the subscription and t from the
\* token (negative: gives back); the subscription's use never falls below 0.
Take(r, w, u, t) ==
    /\ userQuota' = userQuota - w
    /\ tokenQuota' = tokenQuota - t
    /\ subUsed' = IF u = 0 THEN subUsed ELSE Clamp(subUsed + u)
    /\ charge' = [charge EXCEPT ![r] = [wallet |-> @.wallet + w, sub |-> @.sub + u,
                                        token |-> @.token + t]]

-----------------------------------------------------------------------------
(* Opening, rebinding and closing an attempt that reserved nothing *)

EnsureBillingRecoveryOk(r, src, tokenRequired) ==
    Exists(r) => /\ row[r].tokenRequired = tokenRequired
                 /\ row[r].source = src \/ Reusable(r)

EnsureBillingRecovery(r, src, tokenRequired) ==
    /\ SetRow(r, IF ~Exists(r)
                 THEN [NoRow EXCEPT !.status = "active", !.source = src,
                                    !.tokenRequired = tokenRequired]
                 ELSE IF row[r].source = src THEN row[r]
                 ELSE [row[r] EXCEPT !.source = src, !.status = "active"])
    /\ stale' = IF Exists(r) /\ row[r].source = src THEN stale ELSE stale \ {r}
    /\ UNCHANGED <<adjustments, reservations, preRecord, balances>>

AbortPreparedOk(r) ==
    /\ Exists(r)
    /\ \/ row[r].status = "refunded"
       \/ /\ row[r].status = "active" /\ row[r].pre = "prepared"
          /\ row[r].funding = 0 /\ row[r].extra = 0 /\ row[r].token = 0

AbortPrepared(r) ==
    /\ SetRow(r, [row[r] EXCEPT !.status = "refunded"])
    /\ stale' = IF row[r].status = "refunded" THEN stale ELSE stale \ {r}
    /\ UNCHANGED <<adjustments, reservations, preRecord, balances>>

-----------------------------------------------------------------------------
(* Reserving *)

WalletPreConsumed(r, q) ==
    /\ row[r].pre = "committed"
    /\ row[r].funding = q
    /\ row[r].tokenRequired => row[r].token = q

\* Mutant: the status of the row is not checked.
MutWalletOkAnyStatus(r, q, unlimited) ==
    /\ Exists(r) /\ row[r].source = "wallet"
    /\ row[r].pre = "committed" => WalletPreConsumed(r, q)
    /\ row[r].pre = "prepared" /\ q > 0 =>
          /\ row[r].tokenRequired => unlimited \/ tokenQuota >= q
          /\ userQuota >= q

PreConsumeWalletOk(r, q, unlimited) ==
    /\ Exists(r)
    /\ row[r].source = "wallet" /\ row[r].status = "active"
    /\ row[r].pre = "committed" => WalletPreConsumed(r, q)
    /\ row[r].pre = "prepared" /\ q > 0 =>
          /\ row[r].tokenRequired => unlimited \/ tokenQuota >= q
          /\ userQuota >= q

PreConsumeWallet(r, q) ==
    LET t == IF row[r].tokenRequired THEN q ELSE 0 IN
    IF WalletPreConsumed(r, q)
    THEN UNCHANGED durableVars
    ELSE /\ SetRow(r, [row[r] EXCEPT !.funding = q, !.token = t, !.pre = "committed"])
         /\ Take(r, q, 0, t)
         /\ Touched(r)
         /\ UNCHANGED <<adjustments, reservations, preRecord>>

\* model.PreConsumeUserSubscription: its own transaction, fenced by the record.
PreConsumeSubscriptionOk(r, q) ==
    \/ preRecord[r].status = "consumed"
    \/ /\ preRecord[r].status = "none" /\ q > 0
       /\ SubTotal > 0 => SubTotal - subUsed >= q

PreConsumeSubscription(r, q) ==
    IF preRecord[r].status = "consumed"
    THEN UNCHANGED durableVars
    ELSE /\ preRecord' = [preRecord EXCEPT ![r] = [status |-> "consumed", amount |-> q]]
         /\ Take(r, 0, q, 0)
         /\ UNCHANGED <<row, adjustments, reservations, stale>>

\* The token balance outside a recovery transaction: TryReserveTokenQuota
\* before a subscription pre-consume and IncreaseTokenQuota to take it back.
ReserveTokenOk(q, unlimited) == unlimited \/ tokenQuota >= q

ReserveToken(r, q) ==
    /\ Take(r, 0, 0, q)
    /\ UNCHANGED <<row, adjustments, reservations, preRecord, stale>>

IncreaseToken(r, q) ==
    /\ Take(r, 0, 0, -q)
    /\ UNCHANGED <<row, adjustments, reservations, preRecord, stale>>

UpdateAmountsOk(r) == Exists(r) /\ row[r].status = "active"

UpdateAmounts(r, sub, funding, extra, token) ==
    /\ SetRow(r, [row[r] EXCEPT !.sub = sub, !.funding = funding, !.extra = extra,
                                !.token = token, !.pre = "committed"])
    /\ Touched(r)
    /\ UNCHANGED <<adjustments, reservations, preRecord, balances>>

Reserved(r) ==
    row[r].funding + (IF row[r].source = "subscription" THEN row[r].extra ELSE 0)

\* What ReserveBillingRecovery(target) will add: nothing when the row already
\* covers the target or the marker of this target exists.
ReserveDelta(r, target) ==
    LET d == target - Reserved(r) IN
    IF d <= 0 \/ (\E m \in reservations[r] : m.target = target) THEN 0 ELSE d

ReserveOk(r, target, unlimited) ==
    /\ Exists(r) /\ target > 0
    /\ row[r].status = "active" /\ row[r].pre = "committed"
    /\ \A m \in reservations[r] :
          m.target = target /\ target > Reserved(r) => m.amount = target - Reserved(r)
    /\ LET d == ReserveDelta(r, target) IN
       d > 0 => /\ row[r].source = "subscription" /\ row[r].sub => SubDeltaOk(d)
                /\ row[r].tokenRequired => unlimited \/ tokenQuota >= d

ReserveBillingRecovery(r, target) ==
    LET d == ReserveDelta(r, target)
        t == IF row[r].tokenRequired THEN d ELSE 0
        f == IF row[r].source = "subscription" THEN 0 ELSE d
    IN
    IF d = 0 THEN UNCHANGED durableVars
    ELSE /\ SetRow(r, [row[r] EXCEPT !.funding = @ + f, !.extra = @ + (d - f),
                                     !.token = @ + t])
         /\ reservations' = [reservations EXCEPT ![r] =
                               @ \cup {[target |-> target, amount |-> d]}]
         /\ Take(r, f, IF row[r].sub THEN d - f ELSE 0, t)
         /\ Touched(r)
         /\ UNCHANGED <<adjustments, preRecord>>

-----------------------------------------------------------------------------
(* Moving the row towards a settlement or a refund *)

UpdateSettlementOk(r) ==
    Exists(r) /\ row[r].status \in {"active", "settlement_pending", "settled"}

UpdateSettlement(r, delta) ==
    IF row[r].status = "settled"
    THEN UNCHANGED durableVars
    ELSE /\ SetRow(r, [row[r] EXCEPT !.delta = delta, !.status = "settlement_pending"])
         /\ Touched(r)
         /\ UNCHANGED <<adjustments, reservations, preRecord, balances>>

\* Mutant: a settlement that began may be refunded.
MutMarkRefundPendingOk(r) == Exists(r) /\ row[r].status # "settled"

MarkRefundPendingOk(r) ==
    Exists(r) /\ row[r].status \in {"active", "refund_pending", "refunded"}

\* Mutant: the amounts are never reconstructed.
MutUnsynced(r) == FALSE

\* A subscription pre-consume that committed before its amounts were persisted
\* is reconstructed from its still-consumed record.
Unsynced(r) ==
    /\ row[r].source = "subscription" /\ row[r].pre = "prepared"
    /\ preRecord[r].status = "consumed"

MarkRefundPending(r) ==
    IF row[r].status = "refunded"
    THEN UNCHANGED durableVars
    ELSE /\ SetRow(r,
              IF Unsynced(r)
              THEN [row[r] EXCEPT !.status = "refund_pending", !.sub = TRUE,
                                  !.funding = preRecord[r].amount,
                                  !.token = IF row[r].tokenRequired
                                            THEN preRecord[r].amount ELSE @,
                                  !.pre = "committed"]
              ELSE [row[r] EXCEPT !.status = "refund_pending"])
         /\ Touched(r)
         /\ UNCHANGED <<adjustments, reservations, preRecord, balances>>

MarkSettledOk(r) ==
    /\ Exists(r)
    /\ \/ row[r].status = "settled"
       \/ row[r].status = "settlement_pending" /\ SettlementComplete(r)

MarkSettled(r) ==
    /\ SetRow(r, [row[r] EXCEPT !.status = "settled"])
    /\ stale' = IF row[r].status = "settled" THEN stale ELSE stale \ {r}
    /\ UNCHANGED <<adjustments, reservations, preRecord, balances>>

MarkRefundedOk(r) ==
    /\ Exists(r)
    /\ \/ row[r].status = "refunded"
       \/ row[r].status = "refund_pending" /\ RefundComplete(r)

MarkRefunded(r) ==
    /\ SetRow(r, [row[r] EXCEPT !.status = "refunded"])
    /\ stale' = IF row[r].status = "refunded" THEN stale ELSE stale \ {r}
    /\ UNCHANGED <<adjustments, reservations, preRecord, balances>>

-----------------------------------------------------------------------------
(* ApplyBillingRecoveryAdjustment: one fenced accounting effect *)

\* Mutant: the marker is not looked up.
MutAdjustmentSkipped(r, e) == e[2] = "refund" /\ row[r].status \in Terminal

\* The call returns nil without an effect.
AdjustmentSkipped(r, e) ==
    \/ e[2] = "refund" /\ row[r].status \in Terminal
    \/ Fenced(r, e)

EffectAmount(r, e) ==
    CASE e[2] = "settle"  -> row[r].delta
      [] e[2] = "refund" /\ e[1] = "funding" -> row[r].funding
      [] e[2] = "refund" /\ e[1] = "extra"   -> row[r].extra
      [] e[2] = "refund" /\ e[1] = "token"   -> row[r].token

\* What the effect takes out of each balance (negative: gives back).
WalletTaken(r, e) ==
    LET a == EffectAmount(r, e) IN
    IF e[1] # "funding" \/ row[r].source # "wallet" THEN 0
    ELSE IF e[2] = "settle" THEN a ELSE -a

TokenTaken(r, e) ==
    LET a == EffectAmount(r, e) IN
    IF e[1] # "token" \/ ~row[r].tokenRequired THEN 0
    ELSE IF e[2] = "settle" THEN a ELSE -a

\* A refund of the funding goes through the pre-consume record, which must
\* still be consumed; a missing record counts as already refunded.
RefundsRecord(r, e) ==
    /\ e = <<"funding", "refund">> /\ row[r].source = "subscription"
    /\ row[r].funding # 0 /\ preRecord[r].status = "consumed"

\* Mutant: the extra refund gives back the whole reservation.
MutSubTaken(r, e) ==
    CASE RefundsRecord(r, e) -> -preRecord[r].amount
      [] e = <<"funding", "settle">> /\ row[r].source = "subscription" /\ row[r].sub
                                     -> row[r].delta
      [] e = <<"extra", "refund">> /\ row[r].sub -> -Reserved(r)
      [] OTHER -> 0

SubTaken(r, e) ==
    CASE RefundsRecord(r, e) -> -preRecord[r].amount
      [] e = <<"funding", "settle">> /\ row[r].source = "subscription" /\ row[r].sub
                                     -> row[r].delta
      [] e = <<"extra", "refund">> /\ row[r].sub -> -row[r].extra
      [] OTHER -> 0

ApplyAdjustmentOk(r, e) ==
    /\ Exists(r)
    /\ \/ AdjustmentSkipped(r, e)
       \/ /\ row[r].status \in IF e[2] = "settle" THEN {"settlement_pending"}
                               ELSE {"active", "refund_pending"}
          /\ SubTaken(r, e) # 0 => SubDeltaOk(SubTaken(r, e))

ApplyAdjustment(r, e) ==
    IF AdjustmentSkipped(r, e)
    THEN UNCHANGED durableVars
    ELSE /\ Take(r, WalletTaken(r, e), SubTaken(r, e), TokenTaken(r, e))
         /\ preRecord' = IF RefundsRecord(r, e)
                         THEN [preRecord EXCEPT ![r] = [@ EXCEPT !.status = "refunded"]]
                         ELSE preRecord
         /\ adjustments' = [adjustments EXCEPT ![r] =
               [@ EXCEPT ![e] = [done |-> TRUE, amount |-> EffectAmount(r, e)]]]
         /\ SetRow(r, [row[r] EXCEPT !.completed = @ \cup {e}])
         /\ Touched(r)
         /\ UNCHANGED reservations

-----------------------------------------------------------------------------
(* Time *)

TouchOk(r) == row[r].status \in {"active", "settlement_pending"}

TouchBillingRecovery(r) ==
    /\ Touched(r)
    /\ UNCHANGED <<row, adjustments, reservations, preRecord, balances>>

\* The row has not been written for BillingRecoveryStaleAfter.
GrowStale(r) ==
    /\ row[r].status \in Live /\ r \notin stale
    /\ stale' = stale \cup {r}
    /\ UNCHANGED <<row, adjustments, reservations, preRecord, balances>>

\* Mutant: interrupted settlements are not listed.
MutRecoverable(r) == row[r].status \in {"active", "refund_pending"} /\ r \in stale

\* ListStaleBillingRecoveries: the rows a recovery pass may pick.
Recoverable(r) == row[r].status \in Live /\ r \in stale

-----------------------------------------------------------------------------
DurableInit ==
    /\ row = [r \in Requests |-> NoRow]
    /\ adjustments = [r \in Requests |-> [e \in Effects |-> NoMarker]]
    /\ reservations = [r \in Requests |-> {}]
    /\ preRecord = [r \in Requests |-> NoRecord]
    /\ userQuota = InitUserQuota /\ tokenQuota = InitTokenQuota /\ subUsed = 0
    /\ stale = {}
    /\ charge = [r \in Requests |-> [wallet |-> 0, sub |-> 0, token |-> 0]]

\* A caller reports to UpdateBillingRecoveryAmounts what it reserved; for a
\* wallet row PreConsumeWallet has already written that amount.
ReportsWalletAmount(r, funding) ==
    row[r].source = "wallet" => funding = row[r].funding

Opening(r) ==
    \/ \E src \in Sources, t \in BOOLEAN :
          EnsureBillingRecoveryOk(r, src, t) /\ EnsureBillingRecovery(r, src, t)
    \/ AbortPreparedOk(r) /\ AbortPrepared(r)

Reserving(r) ==
    \/ \E q \in Quotas, u \in BOOLEAN :
          \/ PreConsumeWalletOk(r, q, u) /\ PreConsumeWallet(r, q)
          \/ ReserveTokenOk(q, u) /\ ReserveToken(r, q)
          \/ ReserveOk(r, q, u) /\ ReserveBillingRecovery(r, q)
    \/ \E q \in Quotas :
          \/ PreConsumeSubscriptionOk(r, q) /\ PreConsumeSubscription(r, q)
          \/ IncreaseToken(r, q)
    \/ \E sub \in BOOLEAN, f, x, t \in Amounts :
          /\ UpdateAmountsOk(r) /\ ReportsWalletAmount(r, f)
          /\ UpdateAmounts(r, sub, f, x, t)

Closing(r) ==
    \/ \E d \in Deltas : UpdateSettlementOk(r) /\ UpdateSettlement(r, d)
    \/ MarkRefundPendingOk(r) /\ MarkRefundPending(r)
    \/ \E e \in Effects : ApplyAdjustmentOk(r, e) /\ ApplyAdjustment(r, e)
    \/ MarkSettledOk(r) /\ MarkSettled(r)
    \/ MarkRefundedOk(r) /\ MarkRefunded(r)

Timing(r) ==
    \/ TouchOk(r) /\ TouchBillingRecovery(r)
    \/ GrowStale(r)

DurableNext ==
    \E r \in Requests : Opening(r) \/ Reserving(r) \/ Closing(r) \/ Timing(r)

DurableSpec == DurableInit /\ [][DurableNext]_durableVars

-----------------------------------------------------------------------------
(* Properties *)

RowType ==
    [status : Live \cup Terminal \cup {"absent"},
     source : Sources, pre : {"prepared", "committed"},
     tokenRequired : BOOLEAN, sub : BOOLEAN,
     funding : Nat, extra : Nat, token : Nat,
     delta : Int, completed : SUBSET Effects]

MarkerType == [done : BOOLEAN, amount : Int]

RecordType == [status : {"none", "consumed", "refunded"}, amount : Nat]

ChargeType == [wallet : Int, sub : Int, token : Int]

\* The shape of every durable record.
DurableTypeOK ==
    /\ row \in [Requests -> RowType]
    /\ adjustments \in [Requests -> [Effects -> MarkerType]]
    /\ reservations \in [Requests -> SUBSET [target : Nat, amount : Nat]]
    /\ preRecord \in [Requests -> RecordType]
    /\ userQuota \in Int /\ tokenQuota \in Int /\ subUsed \in Nat
    /\ stale \in SUBSET Requests
    /\ charge \in [Requests -> ChargeType]

\* A settlement is all or nothing: once one of its effects has been applied no
\* refund path (session, worker, abort, rebind) takes the row over, and the row
\* is closed as settled only when both effects have been applied.
SettlementIsCommitted ==
    \A r \in Requests : \A c \in {"funding", "token"} :
        /\ Fenced(r, <<c, "settle">>) => row[r].status \in {"settlement_pending", "settled"}
        /\ row[r].status = "settled" => Fenced(r, <<c, "settle">>)

\* A row whose pre-consume is still "prepared" claims no amount and no marker
\* of it gave anything back, so rebinding it to another source loses nothing.
PreparedIsEmpty ==
    \A r \in Requests : row[r].pre = "prepared" =>
        /\ row[r].funding = 0 /\ row[r].extra = 0 /\ row[r].token = 0
        /\ Booked(r, <<"funding", "refund">>) = 0

\* The wallet ledger: whatever callers, workers and crashes did, the net amount
\* a request took from the wallet is the amount reserved on its row plus the
\* settled delta minus the refund its markers record.  Every balance change is
\* explained by durable state, and each marker's effect happened exactly once.
WalletLedger ==
    \A r \in Requests :
        charge[r].wallet =
            IF row[r].source = "wallet"
            THEN row[r].funding + Booked(r, <<"funding", "settle">>)
                                - Booked(r, <<"funding", "refund">>)
            ELSE 0

\* A terminal row never changes status again, except that an attempt aborted
\* before it reserved anything may be reopened for the fallback source.
TerminalIsFinal ==
    [][\A r \in Requests : row[r].status \in Terminal =>
          row'[r].status = row[r].status \/ Reusable(r)]_durableVars

\* The amounts a settlement or refund works from are frozen once it started:
\* a late session sync cannot rewrite what the markers already fenced.
AmountsFrozen ==
    [][\A r \in Requests : row[r].status \in (Live \cup Terminal) \ {"active"} =>
          \/ /\ row'[r].funding = row[r].funding
             /\ row'[r].extra = row[r].extra
             /\ row'[r].token = row[r].token
          \/ row[r].status = "refund_pending" /\ Unsynced(r)]_durableVars
=============================================================================
