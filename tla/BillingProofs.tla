---------------------------- MODULE BillingProofs ----------------------------
(***************************************************************************)
(* Proofs about billing, for every set of requests and workers, every      *)
(* amount and every order of steps.                                        *)
(*                                                                         *)
(* The durable layer first: the transactions of the billing recovery store *)
(* alone.  Then the sessions and the recovery passes that share it: what   *)
(* each of them knows, the books of each request, that a request is        *)
(* charged once, and the balances that requests share.                     *)
(***************************************************************************)
EXTENDS BillingSession, Sums

(* The durable layer. *)

\* An effect is one of five pairs.
LEMMA EffectCases ==
    ASSUME NEW e \in Effects
    PROVE  /\ e = <<e[1], e[2]>>
           /\ e[2] \in {"settle", "refund"}
           /\ e[1] \in {"funding", "extra", "token"}
           /\ e[2] = "settle" => e[1] \in {"funding", "token"}
  BY DEF Effects

\* The fields of a row have their types.
LEMMA RowFields ==
    ASSUME NEW x \in RowType
    PROVE  /\ x.funding \in Nat /\ x.extra \in Nat /\ x.token \in Nat /\ x.delta \in Int
           /\ x.status \in Live \cup Terminal \cup {"absent"}
           /\ x.source \in Sources /\ x.pre \in {"prepared", "committed"}
           /\ x.completed \in SUBSET Effects
           /\ x.tokenRequired \in BOOLEAN /\ x.sub \in BOOLEAN
  BY DEF RowType

\* The updates of a row that the transactions make keep its type.
LEMMA StatusUpdate ==
    ASSUME NEW x \in RowType, NEW st \in Live \cup Terminal
    PROVE  [x EXCEPT !.status = st] \in RowType
  BY DEF RowType

LEMMA SourceUpdate ==
    ASSUME NEW x \in RowType, NEW src \in Sources
    PROVE  [x EXCEPT !.source = src, !.status = "active"] \in RowType
  BY DEF RowType, Live

LEMMA OpenUpdate ==
    ASSUME NEW x \in RowType, NEW src \in Sources, NEW t \in BOOLEAN
    PROVE  [x EXCEPT !.status = "active", !.source = src, !.tokenRequired = t] \in RowType
  BY DEF RowType, Live

LEMMA NoRowType == NoRow \in RowType
  BY DEF RowType, NoRow, Sources

LEMMA WalletUpdate ==
    ASSUME NEW x \in RowType, NEW f \in Nat, NEW k \in Nat
    PROVE  [x EXCEPT !.funding = f, !.token = k, !.pre = "committed"] \in RowType
  BY DEF RowType

LEMMA AmountsUpdate ==
    ASSUME NEW x \in RowType, NEW t \in BOOLEAN, NEW f \in Nat, NEW n \in Nat, NEW k \in Nat
    PROVE  /\ [x EXCEPT !.sub = t, !.funding = f, !.extra = n, !.token = k,
                        !.pre = "committed"] \in RowType
           /\ [x EXCEPT !.funding = f, !.extra = n, !.token = k] \in RowType
  BY DEF RowType

LEMMA DeltaUpdate ==
    ASSUME NEW x \in RowType, NEW d \in Int
    PROVE  [x EXCEPT !.delta = d, !.status = "settlement_pending"] \in RowType
  BY DEF RowType, Live

LEMMA ReconstructUpdate ==
    ASSUME NEW x \in RowType, NEW f \in Nat, NEW k \in Nat
    PROVE  [x EXCEPT !.status = "refund_pending", !.sub = TRUE, !.funding = f,
                     !.token = k, !.pre = "committed"] \in RowType
  BY DEF RowType, Live

LEMMA CompletedUpdate ==
    ASSUME NEW x \in RowType, NEW es \in SUBSET Effects
    PROVE  [x EXCEPT !.completed = es] \in RowType
  BY DEF RowType

LEMMA ChargeFields ==
    ASSUME NEW x \in ChargeType
    PROVE  x.wallet \in Int /\ x.sub \in Int /\ x.token \in Int
  BY DEF ChargeType

\* The amount of an effect is an integer, and so is what it takes.
LEMMA EffectAmountType ==
    ASSUME DurableTypeOK, NEW r \in Requests, NEW e \in Effects
    PROVE  /\ EffectAmount(r, e) \in Int
           /\ WalletTaken(r, e) \in Int
           /\ TokenTaken(r, e) \in Int
           /\ SubTaken(r, e) \in Int
  <1>0. row[r].delta \in Int /\ row[r].funding \in Int
        /\ row[r].extra \in Int /\ row[r].token \in Int
    BY RowFields DEF DurableTypeOK
  <1>1. EffectAmount(r, e) \in Int
    <2>1. e[2] = "settle" \/ (e[2] = "refund" /\ e[1] \in {"funding", "extra", "token"})
      BY EffectCases
    <2> QED
      BY <1>0, <2>1 DEF EffectAmount
  <1>2. WalletTaken(r, e) \in Int /\ TokenTaken(r, e) \in Int
    BY <1>1 DEF WalletTaken, TokenTaken
  <1>3. SubTaken(r, e) \in Int
    <2>1. preRecord[r].amount \in Int
      BY DEF DurableTypeOK, RecordType
    <2> QED
      BY <1>0, <2>1 DEF SubTaken
  <1> QED
    BY <1>1, <1>2, <1>3

\* Writing one row changes that row only.
LEMMA SetRowFacts ==
    ASSUME DurableTypeOK, NEW r \in Requests, NEW x \in RowType, SetRow(r, x)
    PROVE  /\ row' \in [Requests -> RowType]
           /\ row'[r] = x
           /\ \A q \in Requests \ {r} : row'[q] = row[q]
  BY DEF DurableTypeOK, SetRow

\* A movement of money changes the charges of one request by what it takes.
LEMMA TakeFacts ==
    ASSUME DurableTypeOK, NEW r \in Requests, NEW w \in Int, NEW u \in Int, NEW t \in Int,
           Take(r, w, u, t)
    PROVE  /\ userQuota' \in Int /\ tokenQuota' \in Int /\ subUsed' \in Nat
           /\ charge' \in [Requests -> ChargeType]
           /\ charge'[r].wallet = charge[r].wallet + w
           /\ \A q \in Requests \ {r} : charge'[q] = charge[q]
  <1>0. charge[r] \in ChargeType /\ charge[r].wallet \in Int
        /\ charge[r].sub \in Int /\ charge[r].token \in Int
    BY ChargeFields DEF DurableTypeOK
  <1> DEFINE c == [wallet |-> charge[r].wallet + w, sub |-> charge[r].sub + u,
                   token |-> charge[r].token + t]
  <1>1. c \in ChargeType /\ c.wallet = charge[r].wallet + w
    BY <1>0 DEF ChargeType
  <1>2. charge' = [charge EXCEPT ![r] = c]
    BY DEF Take
  <1>3. userQuota' \in Int /\ tokenQuota' \in Int /\ subUsed' \in Nat
    BY DEF Take, Clamp, DurableTypeOK
  <1> HIDE DEF c
  <1> QED
    BY <1>1, <1>2, <1>3 DEF DurableTypeOK

LEMMA TypeInit == DurableInit => DurableTypeOK
  BY BalancesAreIntegers
     DEF DurableInit, DurableTypeOK, RowType, MarkerType, RecordType, ChargeType,
         NoRow, NoRecord, NoMarker, Live, Terminal, Sources

LEMMA TypeStep == DurableTypeOK /\ [DurableNext]_durableVars => DurableTypeOK'
  <1> SUFFICES ASSUME DurableTypeOK, [DurableNext]_durableVars
               PROVE  DurableTypeOK'
    OBVIOUS
  <1>1. CASE UNCHANGED durableVars
    BY <1>1 DEF durableVars, balances, DurableTypeOK
  <1>r. ASSUME NEW r \in Requests
        PROVE  /\ row[r] \in RowType /\ charge[r] \in ChargeType
               /\ preRecord[r] \in RecordType
               /\ row[r].funding \in Nat /\ row[r].extra \in Nat /\ row[r].token \in Nat
               /\ row[r].completed \in SUBSET Effects /\ preRecord[r].amount \in Nat
    BY RowFields DEF DurableTypeOK, RecordType
  <1>2. ASSUME NEW r \in Requests, Opening(r)
        PROVE  DurableTypeOK'
    <2>1. ASSUME NEW src \in Sources, NEW t \in BOOLEAN, EnsureBillingRecovery(r, src, t)
          PROVE  DurableTypeOK'
      <3> DEFINE x == [NoRow EXCEPT !.status = "active", !.source = src, !.tokenRequired = t]
                 y == [row[r] EXCEPT !.source = src, !.status = "active"]
                 z == IF ~Exists(r) THEN x ELSE IF row[r].source = src THEN row[r] ELSE y
      <3>1. x \in RowType
        BY NoRowType, OpenUpdate
      <3>2. y \in RowType
        BY <1>r, SourceUpdate
      <3>3. row' \in [Requests -> RowType]
        <4>1. SetRow(r, z)
          BY <2>1 DEF EnsureBillingRecovery
        <4> HIDE DEF x, y
        <4>2. z \in RowType
          BY <1>r, <3>1, <3>2
        <4> HIDE DEF z
        <4> QED
          BY <4>1, <4>2, SetRowFacts
      <3> QED
        BY <2>1, <3>3 DEF EnsureBillingRecovery, DurableTypeOK, balances
    <2>2. CASE AbortPrepared(r)
      <3>1. [row[r] EXCEPT !.status = "refunded"] \in RowType
        BY <1>r, StatusUpdate DEF Terminal
      <3>2. row' \in [Requests -> RowType]
        BY <2>2, <3>1, SetRowFacts DEF AbortPrepared
      <3> QED
        BY <2>2, <3>2 DEF AbortPrepared, DurableTypeOK, balances
    <2> QED
      BY <1>2, <2>1, <2>2 DEF Opening
  <1>3. ASSUME NEW r \in Requests, Reserving(r)
        PROVE  DurableTypeOK'
    <2>1. ASSUME NEW q \in Quotas, PreConsumeWallet(r, q)
          PROVE  DurableTypeOK'
      <3> DEFINE t == IF row[r].tokenRequired THEN q ELSE 0
      <3>0. CASE WalletPreConsumed(r, q)
        BY <2>1, <3>0 DEF PreConsumeWallet, durableVars, balances, DurableTypeOK
      <3>1. q \in Nat /\ t \in Nat
        BY QuotasAreNaturals
      <3>2. CASE ~WalletPreConsumed(r, q)
        <4>1. [row[r] EXCEPT !.funding = q, !.token = t, !.pre = "committed"] \in RowType
          BY <1>r, <3>1, WalletUpdate
        <4>2. /\ SetRow(r, [row[r] EXCEPT !.funding = q, !.token = t, !.pre = "committed"])
              /\ Take(r, q, 0, t)
          BY <2>1, <3>2 DEF PreConsumeWallet
        <4>3. row' \in [Requests -> RowType]
          BY <4>1, <4>2, SetRowFacts
        <4>4. /\ userQuota' \in Int /\ tokenQuota' \in Int /\ subUsed' \in Nat
              /\ charge' \in [Requests -> ChargeType]
          BY <3>1, <4>2, TakeFacts
        <4> QED
          BY <2>1, <3>2, <4>3, <4>4 DEF PreConsumeWallet, Touched, DurableTypeOK
      <3> QED
        BY <3>0, <3>2
    <2>2. ASSUME NEW q \in Quotas, ReserveToken(r, q) \/ IncreaseToken(r, q)
          PROVE  DurableTypeOK'
      <3>1. q \in Int /\ -q \in Int
        BY QuotasAreNaturals
      <3>2. Take(r, 0, 0, q) \/ Take(r, 0, 0, -q)
        BY <2>2 DEF ReserveToken, IncreaseToken
      <3>3. /\ userQuota' \in Int /\ tokenQuota' \in Int /\ subUsed' \in Nat
            /\ charge' \in [Requests -> ChargeType]
        BY <3>1, <3>2, TakeFacts
      <3> QED
        BY <2>2, <3>3 DEF ReserveToken, IncreaseToken, DurableTypeOK
    <2>3. ASSUME NEW q \in Quotas, ReserveBillingRecovery(r, q)
          PROVE  DurableTypeOK'
      <3> DEFINE d == ReserveDelta(r, q)
                 t == IF row[r].tokenRequired THEN d ELSE 0
                 f == IF row[r].source = "subscription" THEN 0 ELSE d
                 u == IF row[r].sub THEN d - f ELSE 0
                 x == [row[r] EXCEPT !.funding = row[r].funding + f,
                                     !.extra = row[r].extra + (d - f),
                                     !.token = row[r].token + t]
      <3>0. CASE d = 0
        BY <2>3, <3>0 DEF ReserveBillingRecovery, durableVars, balances, DurableTypeOK
      <3>1. q \in Nat
        BY QuotasAreNaturals
      <3>2. d \in Nat
        BY <1>r, <3>1 DEF ReserveDelta, Reserved
      <3>3. CASE d # 0
        <4>0. /\ SetRow(r, x) /\ Take(r, f, u, t) /\ stale' = stale \ {r}
              /\ reservations' = [reservations EXCEPT ![r] =
                                    @ \cup {[target |-> q, amount |-> d]}]
              /\ UNCHANGED <<adjustments, preRecord>>
          BY <2>3, <3>3 DEF ReserveBillingRecovery, Touched
        <4>1. t \in Nat /\ f \in Nat /\ u \in Nat /\ d - f \in Nat
          BY <3>2
        <4> HIDE DEF d, t, f, u
        <4>2. x \in RowType
          <5>1. /\ row[r].funding + f \in Nat /\ row[r].extra + (d - f) \in Nat
                /\ row[r].token + t \in Nat
            BY <1>r, <4>1
          <5> QED
            BY <1>r, <5>1, AmountsUpdate
        <4> HIDE DEF x
        <4>3. row' \in [Requests -> RowType]
          BY <4>0, <4>2, SetRowFacts
        <4>4. /\ userQuota' \in Int /\ tokenQuota' \in Int /\ subUsed' \in Nat
              /\ charge' \in [Requests -> ChargeType]
          <5>1. f \in Int /\ u \in Int /\ t \in Int
            BY <4>1
          <5> QED
            BY <4>0, <5>1, TakeFacts
        <4>5. [target |-> q, amount |-> d] \in [target : Nat, amount : Nat]
          BY <3>1, <3>2
        <4>6. reservations' \in [Requests -> SUBSET [target : Nat, amount : Nat]]
          BY <4>0, <4>5 DEF DurableTypeOK
        <4> QED
          BY <4>0, <4>3, <4>4, <4>6 DEF DurableTypeOK
      <3> QED
        BY <3>0, <3>3
    <2>4. ASSUME NEW q \in Quotas, PreConsumeSubscription(r, q)
          PROVE  DurableTypeOK'
      <3>0. CASE preRecord[r].status = "consumed"
        BY <2>4, <3>0 DEF PreConsumeSubscription, durableVars, balances, DurableTypeOK
      <3>1. CASE preRecord[r].status # "consumed"
        <4>1. q \in Nat /\ [status |-> "consumed", amount |-> q] \in RecordType
          BY QuotasAreNaturals DEF RecordType
        <4>2. preRecord' \in [Requests -> RecordType]
          BY <2>4, <3>1, <4>1 DEF PreConsumeSubscription, DurableTypeOK
        <4>3. Take(r, 0, q, 0)
          BY <2>4, <3>1 DEF PreConsumeSubscription
        <4>4. /\ userQuota' \in Int /\ tokenQuota' \in Int /\ subUsed' \in Nat
              /\ charge' \in [Requests -> ChargeType]
          BY <4>1, <4>3, TakeFacts
        <4> QED
          BY <2>4, <3>1, <4>2, <4>4 DEF PreConsumeSubscription, DurableTypeOK
      <3> QED
        BY <3>0, <3>1
    <2>5. ASSUME NEW sub \in BOOLEAN, NEW f \in Amounts, NEW x \in Amounts, NEW t \in Amounts,
                 UpdateAmounts(r, sub, f, x, t)
          PROVE  DurableTypeOK'
      <3>1. [row[r] EXCEPT !.sub = sub, !.funding = f, !.extra = x, !.token = t,
                           !.pre = "committed"] \in RowType
        BY <1>r, QuotasAreNaturals, AmountsUpdate
      <3>2. row' \in [Requests -> RowType]
        BY <2>5, <3>1, SetRowFacts DEF UpdateAmounts
      <3> QED
        BY <2>5, <3>2 DEF UpdateAmounts, Touched, balances, DurableTypeOK
    <2> QED
      BY <1>3, <2>1, <2>2, <2>3, <2>4, <2>5 DEF Reserving
  <1>4. ASSUME NEW r \in Requests, Closing(r)
        PROVE  DurableTypeOK'
    <2>1. ASSUME NEW d \in Deltas, UpdateSettlement(r, d)
          PROVE  DurableTypeOK'
      <3>0. CASE row[r].status = "settled"
        BY <2>1, <3>0 DEF UpdateSettlement, durableVars, balances, DurableTypeOK
      <3>1. CASE row[r].status # "settled"
        <4>1. [row[r] EXCEPT !.delta = d, !.status = "settlement_pending"] \in RowType
          BY <1>r, DeltasAreIntegers, DeltaUpdate
        <4>2. row' \in [Requests -> RowType]
          BY <2>1, <3>1, <4>1, SetRowFacts DEF UpdateSettlement
        <4> QED
          BY <2>1, <3>1, <4>2 DEF UpdateSettlement, Touched, balances, DurableTypeOK
      <3> QED
        BY <3>0, <3>1
    <2>2. CASE MarkRefundPending(r)
      <3>0. CASE row[r].status = "refunded"
        BY <2>2, <3>0 DEF MarkRefundPending, durableVars, balances, DurableTypeOK
      <3>1. CASE row[r].status # "refunded"
        <4> DEFINE a == preRecord[r].amount
                   k == IF row[r].tokenRequired THEN a ELSE row[r].token
                   x == [row[r] EXCEPT !.status = "refund_pending", !.sub = TRUE,
                                       !.funding = a, !.token = k, !.pre = "committed"]
                   y == [row[r] EXCEPT !.status = "refund_pending"]
        <4>1. a \in Nat /\ k \in Nat
          BY <1>r
        <4>2. x \in RowType
          BY <1>r, <4>1, ReconstructUpdate
        <4>3. y \in RowType
          BY <1>r, StatusUpdate DEF Live
        <4>4. SetRow(r, IF Unsynced(r) THEN x ELSE y)
          BY <2>2, <3>1 DEF MarkRefundPending
        <4> HIDE DEF x, y
        <4>5. row' \in [Requests -> RowType]
          BY <4>2, <4>3, <4>4, SetRowFacts
        <4> QED
          BY <2>2, <3>1, <4>5 DEF MarkRefundPending, Touched, balances, DurableTypeOK
      <3> QED
        BY <3>0, <3>1
    <2>3. CASE MarkSettled(r) \/ MarkRefunded(r)
      <3>1. /\ [row[r] EXCEPT !.status = "settled"] \in RowType
            /\ [row[r] EXCEPT !.status = "refunded"] \in RowType
        BY <1>r, StatusUpdate DEF Terminal
      <3>2. row' \in [Requests -> RowType]
        BY <2>3, <3>1, SetRowFacts DEF MarkSettled, MarkRefunded
      <3> QED
        BY <2>3, <3>2 DEF MarkSettled, MarkRefunded, balances, DurableTypeOK
    <2>4. ASSUME NEW e \in Effects, ApplyAdjustment(r, e)
          PROVE  DurableTypeOK'
      <3>0. CASE AdjustmentSkipped(r, e)
        BY <2>4, <3>0 DEF ApplyAdjustment, durableVars, balances, DurableTypeOK
      <3>1. CASE ~AdjustmentSkipped(r, e)
        <4> DEFINE m == [done |-> TRUE, amount |-> EffectAmount(r, e)]
                   x == [row[r] EXCEPT !.completed = row[r].completed \cup {e}]
                   p == [preRecord[r] EXCEPT !.status = "refunded"]
        <4>1. /\ Take(r, WalletTaken(r, e), SubTaken(r, e), TokenTaken(r, e))
              /\ preRecord' = [preRecord EXCEPT ![r] = p] \/ preRecord' = preRecord
              /\ adjustments' = [adjustments EXCEPT ![r] = [adjustments[r] EXCEPT ![e] = m]]
              /\ SetRow(r, x) /\ stale' = stale \ {r} /\ reservations' = reservations
          BY <2>4, <3>1 DEF ApplyAdjustment, Touched
        <4>2. /\ userQuota' \in Int /\ tokenQuota' \in Int /\ subUsed' \in Nat
              /\ charge' \in [Requests -> ChargeType]
          BY <4>1, EffectAmountType, TakeFacts
        <4>3. x \in RowType
          BY <1>r, CompletedUpdate
        <4>4. row' \in [Requests -> RowType]
          BY <4>1, <4>3, SetRowFacts
        <4>5. m \in MarkerType
          BY EffectAmountType DEF MarkerType
        <4>6. p \in RecordType
          BY <1>r DEF RecordType
        <4> HIDE DEF m, p, x
        <4>7. adjustments' \in [Requests -> [Effects -> MarkerType]]
          BY <4>1, <4>5 DEF DurableTypeOK
        <4>8. preRecord' \in [Requests -> RecordType]
          BY <4>1, <4>6 DEF DurableTypeOK
        <4> QED
          BY <4>1, <4>2, <4>4, <4>7, <4>8 DEF DurableTypeOK
      <3> QED
        BY <3>0, <3>1
    <2> QED
      BY <1>4, <2>1, <2>2, <2>3, <2>4 DEF Closing
  <1>5. ASSUME NEW r \in Requests, Timing(r)
        PROVE  DurableTypeOK'
    BY <1>5 DEF Timing, TouchBillingRecovery, GrowStale, Touched, DurableTypeOK, balances
  <1> QED
    BY <1>1, <1>2, <1>3, <1>4, <1>5 DEF DurableNext

\* Every record of the durable layer keeps its shape, whoever calls it.
THEOREM DurableTypeCorrect == DurableSpec => []DurableTypeOK
  BY TypeInit, TypeStep, PTL DEF DurableSpec

-----------------------------------------------------------------------------
(* The inductive invariant.  None of the properties is inductive alone: the  *)
(* ledger needs the markers' amounts, which need "prepared rows are empty"   *)
(* (a row can be rebound) and "a settled marker fixes the status" (an active *)
(* row has no settled amount).  It is stated of one request: its row x, its  *)
(* markers m and its net wallet charge w.                                    *)

Markers == [Effects -> MarkerType]

MarkerInv(x, m) ==
    /\ \A e \in Effects : e \in x.completed <=> m[e].done
    /\ \A e \in Effects : ~m[e].done => m[e].amount = 0
    /\ x.status = "absent" => \A e \in Effects : ~m[e].done

StatusInv(x, m) ==
    /\ m[<<"funding", "settle">>].done \/ m[<<"token", "settle">>].done
          => x.status \in {"settlement_pending", "settled"}
    /\ x.status = "settled"
          => m[<<"funding", "settle">>].done /\ m[<<"token", "settle">>].done

PreparedInv(x, m) ==
    /\ x.pre = "prepared" => /\ x.funding = 0 /\ x.extra = 0 /\ x.token = 0
                             /\ m[<<"funding", "refund">>].amount = 0
    /\ x.status = "absent" => x.pre = "prepared"

WalletInv(x, m, w) ==
    w = IF x.source = "wallet"
        THEN x.funding + m[<<"funding", "settle">>].amount
                       - m[<<"funding", "refund">>].amount
        ELSE 0

RequestInv(x, m, w) ==
    MarkerInv(x, m) /\ StatusInv(x, m) /\ PreparedInv(x, m) /\ WalletInv(x, m, w)

\* The inductive invariant of the durable layer.
LedgerInv == \A r \in Requests : RequestInv(row[r], adjustments[r], charge[r].wallet)

LEMMA EffectsAre ==
    /\ <<"funding", "settle">> \in Effects /\ <<"token", "settle">> \in Effects
    /\ <<"funding", "refund">> \in Effects /\ <<"extra", "refund">> \in Effects
    /\ <<"token", "refund">> \in Effects
  BY DEF Effects

\* A row that is not being settled has no settled amount.
LEMMA NothingSettled ==
    ASSUME NEW x \in RowType, NEW m \in Markers, NEW w \in Int, RequestInv(x, m, w),
           x.status \notin {"settlement_pending", "settled"}
    PROVE  m[<<"funding", "settle">>].amount = 0
  BY EffectsAre DEF RequestInv, MarkerInv, StatusInv

\* A prepared row that is not being settled has charged the wallet nothing.
LEMMA PreparedChargedNothing ==
    ASSUME NEW x \in RowType, NEW m \in Markers, NEW w \in Int, RequestInv(x, m, w),
           x.pre = "prepared", x.status \notin {"settlement_pending", "settled"}
    PROVE  w = 0
  BY NothingSettled DEF RequestInv, PreparedInv, WalletInv

LEMMA OpenKeeps ==
    ASSUME NEW x \in RowType, NEW m \in Markers, NEW w \in Int, RequestInv(x, m, w),
           x.status = "absent", NEW src \in Sources, NEW t \in BOOLEAN
    PROVE  RequestInv([NoRow EXCEPT !.status = "active", !.source = src,
                                    !.tokenRequired = t], m, w)
  <1> DEFINE n == [NoRow EXCEPT !.status = "active", !.source = src, !.tokenRequired = t]
  <1>1. /\ n.status = "active" /\ n.source = src /\ n.pre = "prepared" /\ n.funding = 0
        /\ n.extra = 0 /\ n.token = 0 /\ n.completed = {}
    BY DEF NoRow
  <1>2. w = 0 /\ m[<<"funding", "settle">>].amount = 0 /\ m[<<"funding", "refund">>].amount = 0
    BY PreparedChargedNothing, NothingSettled DEF RequestInv, PreparedInv
  <1>3. \A e \in Effects : ~m[e].done /\ m[e].amount = 0
    BY DEF RequestInv, MarkerInv
  <1> HIDE DEF n
  <1>4. MarkerInv(n, m) /\ PreparedInv(n, m)
    BY <1>1, <1>2, <1>3 DEF MarkerInv, PreparedInv
  <1>5. StatusInv(n, m) /\ WalletInv(n, m, w)
    BY <1>1, <1>2, <1>3, EffectsAre DEF StatusInv, WalletInv
  <1> QED
    BY <1>4, <1>5 DEF RequestInv, n

LEMMA RebindKeeps ==
    ASSUME NEW x \in RowType, NEW m \in Markers, NEW w \in Int, RequestInv(x, m, w),
           x.status = "refunded", x.pre = "prepared", NEW src \in Sources
    PROVE  RequestInv([x EXCEPT !.source = src, !.status = "active"], m, w)
  <1>1. w = 0 /\ m[<<"funding", "settle">>].amount = 0
    BY PreparedChargedNothing, NothingSettled
  <1>2. x.funding = 0 /\ m[<<"funding", "refund">>].amount = 0
    BY DEF RequestInv, PreparedInv
  <1> DEFINE n == [x EXCEPT !.source = src, !.status = "active"]
  <1>3. /\ n.status = "active" /\ n.source = src /\ n.pre = x.pre /\ n.funding = x.funding
        /\ n.extra = x.extra /\ n.token = x.token /\ n.completed = x.completed
    BY DEF RowType
  <1> HIDE DEF n
  <1>4. MarkerInv(n, m) /\ PreparedInv(n, m) /\ StatusInv(n, m)
    BY <1>3 DEF RequestInv, MarkerInv, PreparedInv, StatusInv
  <1>5. WalletInv(n, m, w)
    BY <1>1, <1>2, <1>3 DEF WalletInv
  <1> QED
    BY <1>4, <1>5 DEF RequestInv, n

\* A status change that respects the settlement keeps the invariant.
LEMMA StatusKeeps ==
    ASSUME NEW x \in RowType, NEW m \in Markers, NEW w \in Int, RequestInv(x, m, w),
           NEW n \in RowType,
           /\ n.status # "absent" /\ n.source = x.source /\ n.pre = x.pre
           /\ n.funding = x.funding /\ n.extra = x.extra /\ n.token = x.token
           /\ n.completed = x.completed,
           \/ x.status \notin {"settlement_pending", "settled"} /\ n.status # "settled"
           \/ n.status = "settlement_pending"
           \/ /\ n.status = "settled"
              /\ {<<"funding", "settle">>, <<"token", "settle">>} \subseteq x.completed
    PROVE  RequestInv(n, m, w)
  <1>1. MarkerInv(n, m) /\ PreparedInv(n, m) /\ WalletInv(n, m, w)
    BY DEF RequestInv, MarkerInv, PreparedInv, WalletInv
  <1>2. StatusInv(n, m)
    BY EffectsAre DEF RequestInv, MarkerInv, StatusInv
  <1> QED
    BY <1>1, <1>2 DEF RequestInv

\* Committing amounts: the wallet charge moves with the funding of a wallet row.
LEMMA AmountsKeep ==
    ASSUME NEW x \in RowType, NEW m \in Markers, NEW w \in Int, RequestInv(x, m, w),
           NEW n \in RowType, NEW v \in Int,
           x.status # "absent", n.status # "absent",
           n.source = x.source, n.pre = "committed", n.completed = x.completed,
           \/ n.status = x.status
           \/ /\ n.status \notin {"settlement_pending", "settled"}
              /\ x.status \notin {"settlement_pending", "settled"},
           v = IF x.source = "wallet" THEN w + (n.funding - x.funding) ELSE w
    PROVE  RequestInv(n, m, v)
  <1>0. x.funding \in Int /\ n.funding \in Int
        /\ m[<<"funding", "settle">>].amount \in Int /\ m[<<"funding", "refund">>].amount \in Int
    BY RowFields, EffectsAre DEF Markers, MarkerType
  <1>1. MarkerInv(n, m) /\ PreparedInv(n, m) /\ StatusInv(n, m)
    BY DEF RequestInv, MarkerInv, PreparedInv, StatusInv
  <1>2. WalletInv(n, m, v)
    BY <1>0 DEF RequestInv, WalletInv
  <1> QED
    BY <1>1, <1>2 DEF RequestInv

\* Setting a marker for the first time, with its column and its charge.
LEMMA MarkerKeeps ==
    ASSUME NEW x \in RowType, NEW m \in Markers, NEW w \in Int, RequestInv(x, m, w),
           NEW e \in Effects, NEW a \in Int, NEW v \in Int,
           x.status # "absent", ~m[e].done,
           e[2] = "settle" => x.status = "settlement_pending",
           e[2] = "refund" => x.status \notin Terminal,
           e = <<"funding", "refund">> => a = x.funding,
           v = IF e[1] # "funding" \/ x.source # "wallet" THEN w
               ELSE IF e[2] = "settle" THEN w + a ELSE w - a
    PROVE  RequestInv([x EXCEPT !.completed = x.completed \cup {e}],
                      [m EXCEPT ![e] = [done |-> TRUE, amount |-> a]], v)
  <1> DEFINE n == [x EXCEPT !.completed = x.completed \cup {e}]
             k == [m EXCEPT ![e] = [done |-> TRUE, amount |-> a]]
  <1>1. /\ n.status = x.status /\ n.source = x.source /\ n.pre = x.pre
        /\ n.funding = x.funding /\ n.extra = x.extra /\ n.token = x.token
        /\ n.completed = x.completed \cup {e}
    BY DEF RowType
  <1>2. /\ k[e].done /\ k[e].amount = a
        /\ \A o \in Effects \ {e} : k[o] = m[o]
    BY DEF Markers
  <1>3. m[e].amount = 0 /\ x.completed \in SUBSET Effects
    BY RowFields DEF RequestInv, MarkerInv
  <1>4. e = <<e[1], e[2]>> /\ e[2] \in {"settle", "refund"}
    BY EffectCases
  <1>5. x.funding \in Int
        /\ m[<<"funding", "settle">>].amount \in Int /\ m[<<"funding", "refund">>].amount \in Int
    BY RowFields, EffectsAre DEF Markers, MarkerType
  <1> HIDE DEF n, k
  <1>6. MarkerInv(n, k)
    BY <1>1, <1>2 DEF RequestInv, MarkerInv
  <1>7. StatusInv(n, k)
    BY <1>1, <1>2, <1>4, EffectsAre DEF RequestInv, StatusInv, Terminal
  <1>8. PreparedInv(n, k)
    BY <1>1, <1>2, EffectsAre DEF RequestInv, PreparedInv
  <1>9. WalletInv(n, k, v)
    <2>1. CASE e = <<"funding", "settle">>
      BY <2>1, <1>1, <1>2, <1>3, <1>5, EffectsAre DEF RequestInv, WalletInv
    <2>2. CASE e = <<"funding", "refund">>
      BY <2>2, <1>1, <1>2, <1>3, <1>5, EffectsAre DEF RequestInv, WalletInv
    <2>3. CASE e # <<"funding", "settle">> /\ e # <<"funding", "refund">>
      <3>1. e[1] # "funding"
        BY <2>3, <1>4
      <3> QED
        BY <2>3, <3>1, <1>1, <1>2, EffectsAre DEF RequestInv, WalletInv
    <2> QED
      BY <2>1, <2>2, <2>3
  <1> QED
    BY <1>6, <1>7, <1>8, <1>9 DEF RequestInv, n, k

\* A step on one request only has to keep the invariant of that request.
LEMMA LedgerFrame ==
    ASSUME LedgerInv, NEW r \in Requests,
           \A q \in Requests \ {r} : /\ row'[q] = row[q]
                                     /\ adjustments'[q] = adjustments[q]
                                     /\ charge'[q] = charge[q],
           RequestInv(row'[r], adjustments'[r], charge'[r].wallet)
    PROVE  LedgerInv'
  <1>1. ASSUME NEW q \in Requests
        PROVE  RequestInv(row'[q], adjustments'[q], charge'[q].wallet)
    <2>1. RequestInv(row[q], adjustments[q], charge[q].wallet)
      BY DEF LedgerInv
    <2>2. CASE q = r
      BY <2>2
    <2>3. CASE q # r
      <3>1. row'[q] = row[q] /\ adjustments'[q] = adjustments[q] /\ charge'[q] = charge[q]
        BY <2>3
      <3> QED
        BY <2>1, <3>1
    <2> QED
      BY <2>2, <2>3
  <1> QED
    BY <1>1 DEF LedgerInv

LEMMA LedgerUnchanged ==
    ASSUME LedgerInv, UNCHANGED <<row, adjustments, charge>>
    PROVE  LedgerInv'
  BY DEF LedgerInv

\* A transaction that writes the row alone.
LEMMA RowStep ==
    ASSUME DurableTypeOK, LedgerInv, NEW r \in Requests, NEW n \in RowType,
           SetRow(r, n), UNCHANGED <<adjustments, charge>>,
           RequestInv(n, adjustments[r], charge[r].wallet)
    PROVE  LedgerInv'
  <1>1. row'[r] = n /\ \A q \in Requests \ {r} : row'[q] = row[q]
    BY SetRowFacts
  <1> QED
    BY <1>1, LedgerFrame

\* A transaction that writes the row and moves money.
LEMMA MoneyStep ==
    ASSUME DurableTypeOK, LedgerInv, NEW r \in Requests, NEW n \in RowType,
           NEW w \in Int, NEW u \in Int, NEW t \in Int,
           SetRow(r, n), Take(r, w, u, t), UNCHANGED adjustments,
           RequestInv(n, adjustments[r], charge[r].wallet + w)
    PROVE  LedgerInv'
  <1>1. row'[r] = n /\ \A q \in Requests \ {r} : row'[q] = row[q]
    BY SetRowFacts
  <1>2. /\ charge'[r].wallet = charge[r].wallet + w
        /\ \A q \in Requests \ {r} : charge'[q] = charge[q]
    BY TakeFacts
  <1>3. RequestInv(row'[r], adjustments'[r], charge'[r].wallet)
    BY <1>1, <1>2
  <1> QED
    BY <1>1, <1>2, <1>3, LedgerFrame

\* Money moved outside a recovery transaction never touches the wallet.
LEMMA NoWalletStep ==
    ASSUME DurableTypeOK, LedgerInv, NEW r \in Requests, NEW u \in Int, NEW t \in Int,
           Take(r, 0, u, t), UNCHANGED <<row, adjustments>>
    PROVE  LedgerInv'
  <1>1. /\ charge'[r].wallet = charge[r].wallet + 0
        /\ \A q \in Requests \ {r} : charge'[q] = charge[q]
    BY TakeFacts
  <1>2. charge[r].wallet \in Int
    BY ChargeFields DEF DurableTypeOK
  <1>3. charge'[r].wallet = charge[r].wallet
    BY <1>1, <1>2
  <1>4. RequestInv(row'[r], adjustments'[r], charge'[r].wallet)
    BY <1>3 DEF LedgerInv
  <1> QED
    BY <1>1, <1>4, LedgerFrame

LEMMA LedgerInit == DurableInit => LedgerInv
  <1> SUFFICES ASSUME DurableInit, NEW r \in Requests
               PROVE  RequestInv(row[r], adjustments[r], charge[r].wallet)
    BY DEF LedgerInv
  <1>1. /\ row[r] = NoRow /\ adjustments[r] = [e \in Effects |-> NoMarker]
        /\ charge[r].wallet = 0
    BY DEF DurableInit
  <1>2. \A e \in Effects : ~adjustments[r][e].done /\ adjustments[r][e].amount = 0
    BY <1>1 DEF NoMarker
  <1>3. /\ row[r].status = "absent" /\ row[r].pre = "prepared" /\ row[r].completed = {}
        /\ row[r].funding = 0 /\ row[r].extra = 0 /\ row[r].token = 0
    BY <1>1 DEF NoRow
  <1>4. MarkerInv(row[r], adjustments[r])
    BY <1>2, <1>3 DEF MarkerInv
  <1>5. StatusInv(row[r], adjustments[r]) /\ PreparedInv(row[r], adjustments[r])
    BY <1>2, <1>3, EffectsAre DEF StatusInv, PreparedInv
  <1>6. WalletInv(row[r], adjustments[r], charge[r].wallet)
    BY <1>1, <1>2, <1>3, EffectsAre DEF WalletInv
  <1> QED
    BY <1>4, <1>5, <1>6 DEF RequestInv

LEMMA LedgerStep ==
    DurableTypeOK /\ LedgerInv /\ [DurableNext]_durableVars => LedgerInv'
  <1> SUFFICES ASSUME DurableTypeOK, LedgerInv, [DurableNext]_durableVars
               PROVE  LedgerInv'
    OBVIOUS
  <1>1. CASE UNCHANGED durableVars
    BY <1>1, LedgerUnchanged DEF durableVars, balances
  <1>r. ASSUME NEW r \in Requests
        PROVE  /\ row[r] \in RowType /\ adjustments[r] \in Markers
               /\ charge[r].wallet \in Int
               /\ row[r].funding \in Nat /\ row[r].extra \in Nat /\ row[r].token \in Nat
               /\ row[r].completed \in SUBSET Effects
               /\ preRecord[r].amount \in Nat
               /\ RequestInv(row[r], adjustments[r], charge[r].wallet)
    BY RowFields, ChargeFields DEF DurableTypeOK, LedgerInv, Markers, RecordType
  <1>2. ASSUME NEW r \in Requests, Opening(r)
        PROVE  LedgerInv'
    <2>1. ASSUME NEW src \in Sources, NEW t \in BOOLEAN,
                 EnsureBillingRecoveryOk(r, src, t), EnsureBillingRecovery(r, src, t)
          PROVE  LedgerInv'
      <3> DEFINE x == [NoRow EXCEPT !.status = "active", !.source = src, !.tokenRequired = t]
                 y == [row[r] EXCEPT !.source = src, !.status = "active"]
      <3>0. UNCHANGED <<adjustments, charge>>
        BY <2>1 DEF EnsureBillingRecovery, balances
      <3>1. CASE ~Exists(r)
        <4>1. SetRow(r, x)
          BY <2>1, <3>1 DEF EnsureBillingRecovery
        <4>2. x \in RowType
          BY NoRowType, OpenUpdate
        <4>3. RequestInv(x, adjustments[r], charge[r].wallet)
          BY <1>r, <3>1, OpenKeeps DEF Exists
        <4> HIDE DEF x
        <4> QED
          BY <3>0, <4>1, <4>2, <4>3, RowStep
      <3>2. CASE Exists(r) /\ row[r].source = src
        <4>1. SetRow(r, row[r])
          BY <2>1, <3>2 DEF EnsureBillingRecovery
        <4> QED
          BY <1>r, <3>0, <4>1, RowStep
      <3>3. CASE Exists(r) /\ row[r].source # src
        <4>1. SetRow(r, y)
          BY <2>1, <3>3 DEF EnsureBillingRecovery
        <4>2. row[r].status = "refunded" /\ row[r].pre = "prepared"
          BY <2>1, <3>3 DEF EnsureBillingRecoveryOk, Reusable
        <4>3. y \in RowType
          BY <1>r, SourceUpdate
        <4>4. RequestInv(y, adjustments[r], charge[r].wallet)
          BY <1>r, <4>2, RebindKeeps
        <4> HIDE DEF y
        <4> QED
          BY <3>0, <4>1, <4>3, <4>4, RowStep
      <3> QED
        BY <3>1, <3>2, <3>3
    <2>2. ASSUME AbortPreparedOk(r), AbortPrepared(r)
          PROVE  LedgerInv'
      <3> DEFINE n == [row[r] EXCEPT !.status = "refunded"]
      <3>1. SetRow(r, n) /\ UNCHANGED <<adjustments, charge>>
        BY <2>2 DEF AbortPrepared, balances
      <3>2. n \in RowType
        BY <1>r, StatusUpdate DEF Terminal
      <3>3. /\ n.status = "refunded" /\ n.source = row[r].source /\ n.pre = row[r].pre
            /\ n.funding = row[r].funding /\ n.extra = row[r].extra /\ n.token = row[r].token
            /\ n.completed = row[r].completed
        BY <1>r DEF RowType
      <3>4. row[r].status \notin {"settlement_pending", "settled"}
        BY <2>2 DEF AbortPreparedOk
      <3> HIDE DEF n
      <3>5. RequestInv(n, adjustments[r], charge[r].wallet)
        BY <1>r, <3>2, <3>3, <3>4, StatusKeeps
      <3> QED
        BY <3>1, <3>2, <3>5, RowStep
    <2> QED
      BY <1>2, <2>1, <2>2 DEF Opening
  <1>3. ASSUME NEW r \in Requests, Reserving(r)
        PROVE  LedgerInv'
    <2>1. ASSUME NEW q \in Quotas, NEW u \in BOOLEAN,
                 PreConsumeWalletOk(r, q, u), PreConsumeWallet(r, q)
          PROVE  LedgerInv'
      <3>0. CASE WalletPreConsumed(r, q)
        BY <2>1, <3>0, LedgerUnchanged DEF PreConsumeWallet, durableVars, balances
      <3>1. CASE ~WalletPreConsumed(r, q)
        <4> DEFINE t == IF row[r].tokenRequired THEN q ELSE 0
                   n == [row[r] EXCEPT !.funding = q, !.token = t, !.pre = "committed"]
        <4>1. q \in Nat /\ t \in Nat /\ q \in Int /\ t \in Int /\ 0 \in Int
          BY QuotasAreNaturals
        <4>2. SetRow(r, n) /\ Take(r, q, 0, t) /\ UNCHANGED adjustments
          BY <2>1, <3>1 DEF PreConsumeWallet
        <4>3. /\ row[r].pre = "prepared" /\ row[r].status = "active"
              /\ row[r].source = "wallet"
          BY <1>r, <2>1, <3>1, RowFields DEF PreConsumeWalletOk
        <4>4. row[r].funding = 0
          BY <1>r, <4>3 DEF RequestInv, PreparedInv
        <4>5. n \in RowType
          BY <1>r, <4>1, WalletUpdate
        <4>6. /\ n.status = row[r].status /\ n.source = row[r].source
              /\ n.pre = "committed" /\ n.funding = q /\ n.completed = row[r].completed
          BY <1>r DEF RowType
        <4> HIDE DEF n, t
        <4>7. charge[r].wallet + q \in Int
              /\ charge[r].wallet + q = charge[r].wallet + (n.funding - row[r].funding)
          BY <1>r, <4>1, <4>4, <4>6
        <4>8. RequestInv(n, adjustments[r], charge[r].wallet + q)
          BY <1>r, <4>3, <4>5, <4>6, <4>7, AmountsKeep
        <4> QED
          BY <4>1, <4>2, <4>5, <4>8, MoneyStep
      <3> QED
        BY <3>0, <3>1
    <2>2. ASSUME NEW q \in Quotas, ReserveToken(r, q) \/ IncreaseToken(r, q)
          PROVE  LedgerInv'
      <3>1. q \in Int /\ -q \in Int /\ 0 \in Int
        BY QuotasAreNaturals
      <3> QED
        BY <2>2, <3>1, NoWalletStep DEF ReserveToken, IncreaseToken
    <2>3. ASSUME NEW q \in Quotas, NEW unl \in BOOLEAN,
                 ReserveOk(r, q, unl), ReserveBillingRecovery(r, q)
          PROVE  LedgerInv'
      <3> DEFINE d == ReserveDelta(r, q)
                 t == IF row[r].tokenRequired THEN d ELSE 0
                 f == IF row[r].source = "subscription" THEN 0 ELSE d
                 u == IF row[r].sub THEN d - f ELSE 0
                 n == [row[r] EXCEPT !.funding = row[r].funding + f,
                                     !.extra = row[r].extra + (d - f),
                                     !.token = row[r].token + t]
      <3>0. CASE d = 0
        BY <2>3, <3>0, LedgerUnchanged DEF ReserveBillingRecovery, durableVars, balances
      <3>1. CASE d # 0
        <4>1. SetRow(r, n) /\ Take(r, f, u, t) /\ UNCHANGED adjustments
          BY <2>3, <3>1 DEF ReserveBillingRecovery
        <4>2. d \in Nat
          BY <1>r, QuotasAreNaturals DEF ReserveDelta, Reserved
        <4>3. t \in Nat /\ f \in Nat /\ u \in Nat /\ d - f \in Nat
              /\ (row[r].source # "wallet" => f = 0)
          BY <1>r, <4>2, RowFields DEF Sources
        <4>4. row[r].status = "active" /\ row[r].pre = "committed"
          BY <2>3 DEF ReserveOk
        <4> HIDE DEF d, t, f, u
        <4>5. /\ row[r].funding + f \in Nat /\ row[r].extra + (d - f) \in Nat
              /\ row[r].token + t \in Nat /\ f \in Int /\ u \in Int /\ t \in Int
          BY <1>r, <4>3
        <4>6. n \in RowType
          BY <1>r, <4>5, AmountsUpdate
        <4>7. /\ n.status = row[r].status /\ n.source = row[r].source /\ n.pre = row[r].pre
              /\ n.funding = row[r].funding + f /\ n.completed = row[r].completed
          BY <1>r DEF RowType
        <4> HIDE DEF n
        <4>8. charge[r].wallet + f \in Int
              /\ charge[r].wallet + f = IF row[r].source = "wallet"
                                        THEN charge[r].wallet + (n.funding - row[r].funding)
                                        ELSE charge[r].wallet
          BY <1>r, <4>3, <4>5, <4>7
        <4>9. RequestInv(n, adjustments[r], charge[r].wallet + f)
          BY <1>r, <4>4, <4>6, <4>7, <4>8, AmountsKeep
        <4> QED
          BY <4>1, <4>5, <4>6, <4>9, MoneyStep
      <3> QED
        BY <3>0, <3>1
    <2>4. ASSUME NEW q \in Quotas, PreConsumeSubscription(r, q)
          PROVE  LedgerInv'
      <3>0. CASE preRecord[r].status = "consumed"
        BY <2>4, <3>0, LedgerUnchanged DEF PreConsumeSubscription, durableVars, balances
      <3>1. CASE preRecord[r].status # "consumed"
        <4>1. q \in Int /\ 0 \in Int
          BY QuotasAreNaturals
        <4> QED
          BY <2>4, <3>1, <4>1, NoWalletStep DEF PreConsumeSubscription
      <3> QED
        BY <3>0, <3>1
    <2>5. ASSUME NEW sub \in BOOLEAN, NEW f \in Amounts, NEW e \in Amounts, NEW t \in Amounts,
                 UpdateAmountsOk(r), ReportsWalletAmount(r, f), UpdateAmounts(r, sub, f, e, t)
          PROVE  LedgerInv'
      <3> DEFINE n == [row[r] EXCEPT !.sub = sub, !.funding = f, !.extra = e, !.token = t,
                                     !.pre = "committed"]
      <3>1. SetRow(r, n) /\ UNCHANGED <<adjustments, charge>>
        BY <2>5 DEF UpdateAmounts, balances
      <3>2. n \in RowType
        BY <1>r, QuotasAreNaturals, AmountsUpdate
      <3>3. /\ n.status = row[r].status /\ n.source = row[r].source /\ n.pre = "committed"
            /\ n.funding = f /\ n.completed = row[r].completed
        BY <1>r DEF RowType
      <3>4. row[r].status = "active" /\ (row[r].source = "wallet" => f = row[r].funding)
        BY <2>5 DEF UpdateAmountsOk, ReportsWalletAmount
      <3> HIDE DEF n
      <3>5. charge[r].wallet = IF row[r].source = "wallet"
                               THEN charge[r].wallet + (n.funding - row[r].funding)
                               ELSE charge[r].wallet
        BY <1>r, <3>3, <3>4
      <3>6. RequestInv(n, adjustments[r], charge[r].wallet)
        BY <1>r, <3>2, <3>3, <3>4, <3>5, AmountsKeep
      <3> QED
        BY <3>1, <3>2, <3>6, RowStep
    <2> QED
      BY <1>3, <2>1, <2>2, <2>3, <2>4, <2>5 DEF Reserving
  <1>4. ASSUME NEW r \in Requests, Closing(r)
        PROVE  LedgerInv'
    <2>1. ASSUME NEW d \in Deltas, UpdateSettlementOk(r), UpdateSettlement(r, d)
          PROVE  LedgerInv'
      <3> DEFINE n == [row[r] EXCEPT !.delta = d, !.status = "settlement_pending"]
      <3>0. CASE row[r].status = "settled"
        BY <2>1, <3>0, LedgerUnchanged DEF UpdateSettlement, durableVars, balances
      <3>1. CASE row[r].status # "settled"
        <4>1. SetRow(r, n) /\ UNCHANGED <<adjustments, charge>>
          BY <2>1, <3>1 DEF UpdateSettlement, balances
        <4>2. n \in RowType
          BY <1>r, DeltasAreIntegers, DeltaUpdate
        <4>3. /\ n.status = "settlement_pending" /\ n.source = row[r].source
              /\ n.pre = row[r].pre /\ n.funding = row[r].funding /\ n.extra = row[r].extra
              /\ n.token = row[r].token /\ n.completed = row[r].completed
          BY <1>r DEF RowType
        <4> HIDE DEF n
        <4>4. RequestInv(n, adjustments[r], charge[r].wallet)
          BY <1>r, <4>2, <4>3, StatusKeeps
        <4> QED
          BY <4>1, <4>2, <4>4, RowStep
      <3> QED
        BY <3>0, <3>1
    <2>2. ASSUME MarkRefundPendingOk(r), MarkRefundPending(r)
          PROVE  LedgerInv'
      <3>0. CASE row[r].status = "refunded"
        BY <2>2, <3>0, LedgerUnchanged DEF MarkRefundPending, durableVars, balances
      <3>1. CASE row[r].status # "refunded" /\ Unsynced(r)
        <4> DEFINE a == preRecord[r].amount
                   k == IF row[r].tokenRequired THEN a ELSE row[r].token
                   n == [row[r] EXCEPT !.status = "refund_pending", !.sub = TRUE,
                                       !.funding = a, !.token = k, !.pre = "committed"]
        <4>1. SetRow(r, n) /\ UNCHANGED <<adjustments, charge>>
          BY <2>2, <3>1 DEF MarkRefundPending, balances
        <4>2. a \in Nat /\ k \in Nat
          BY <1>r
        <4>3. n \in RowType
          BY <1>r, <4>2, ReconstructUpdate
        <4>4. /\ n.status = "refund_pending" /\ n.source = row[r].source
              /\ n.pre = "committed" /\ n.completed = row[r].completed
          BY <1>r DEF RowType
        <4>5. /\ row[r].status \notin {"settlement_pending", "settled", "absent"}
              /\ row[r].source = "subscription"
          BY <2>2, <3>1 DEF MarkRefundPendingOk, Unsynced, Exists
        <4> HIDE DEF n
        <4>6. RequestInv(n, adjustments[r], charge[r].wallet)
          BY <1>r, <4>3, <4>4, <4>5, AmountsKeep
        <4> QED
          BY <4>1, <4>3, <4>6, RowStep
      <3>2. CASE row[r].status # "refunded" /\ ~Unsynced(r)
        <4> DEFINE n == [row[r] EXCEPT !.status = "refund_pending"]
        <4>1. SetRow(r, n) /\ UNCHANGED <<adjustments, charge>>
          BY <2>2, <3>2 DEF MarkRefundPending, balances
        <4>2. n \in RowType
          BY <1>r, StatusUpdate DEF Live
        <4>3. /\ n.status = "refund_pending" /\ n.source = row[r].source
              /\ n.pre = row[r].pre /\ n.funding = row[r].funding /\ n.extra = row[r].extra
              /\ n.token = row[r].token /\ n.completed = row[r].completed
          BY <1>r DEF RowType
        <4>4. row[r].status \notin {"settlement_pending", "settled"}
          BY <2>2 DEF MarkRefundPendingOk
        <4> HIDE DEF n
        <4>5. RequestInv(n, adjustments[r], charge[r].wallet)
          BY <1>r, <4>2, <4>3, <4>4, StatusKeeps
        <4> QED
          BY <4>1, <4>2, <4>5, RowStep
      <3> QED
        BY <3>0, <3>1, <3>2
    <2>3. ASSUME MarkSettledOk(r), MarkSettled(r)
          PROVE  LedgerInv'
      <3> DEFINE n == [row[r] EXCEPT !.status = "settled"]
      <3>1. SetRow(r, n) /\ UNCHANGED <<adjustments, charge>>
        BY <2>3 DEF MarkSettled, balances
      <3>2. n \in RowType
        BY <1>r, StatusUpdate DEF Terminal
      <3>3. /\ n.status = "settled" /\ n.source = row[r].source
            /\ n.pre = row[r].pre /\ n.funding = row[r].funding /\ n.extra = row[r].extra
            /\ n.token = row[r].token /\ n.completed = row[r].completed
        BY <1>r DEF RowType
      <3>4. {<<"funding", "settle">>, <<"token", "settle">>} \subseteq row[r].completed
        BY <1>r, <2>3, EffectsAre
           DEF MarkSettledOk, SettlementComplete, RequestInv, StatusInv, MarkerInv
      <3> HIDE DEF n
      <3>5. RequestInv(n, adjustments[r], charge[r].wallet)
        BY <1>r, <3>2, <3>3, <3>4, StatusKeeps
      <3> QED
        BY <3>1, <3>2, <3>5, RowStep
    <2>4. ASSUME MarkRefundedOk(r), MarkRefunded(r)
          PROVE  LedgerInv'
      <3> DEFINE n == [row[r] EXCEPT !.status = "refunded"]
      <3>1. SetRow(r, n) /\ UNCHANGED <<adjustments, charge>>
        BY <2>4 DEF MarkRefunded, balances
      <3>2. n \in RowType
        BY <1>r, StatusUpdate DEF Terminal
      <3>3. /\ n.status = "refunded" /\ n.source = row[r].source
            /\ n.pre = row[r].pre /\ n.funding = row[r].funding /\ n.extra = row[r].extra
            /\ n.token = row[r].token /\ n.completed = row[r].completed
        BY <1>r DEF RowType
      <3>4. row[r].status \notin {"settlement_pending", "settled"}
        BY <2>4 DEF MarkRefundedOk
      <3> HIDE DEF n
      <3>5. RequestInv(n, adjustments[r], charge[r].wallet)
        BY <1>r, <3>2, <3>3, <3>4, StatusKeeps
      <3> QED
        BY <3>1, <3>2, <3>5, RowStep
    <2>5. ASSUME NEW e \in Effects, ApplyAdjustmentOk(r, e), ApplyAdjustment(r, e)
          PROVE  LedgerInv'
      <3>0. CASE AdjustmentSkipped(r, e)
        BY <2>5, <3>0, LedgerUnchanged DEF ApplyAdjustment, durableVars, balances
      <3>1. CASE ~AdjustmentSkipped(r, e)
        <4> DEFINE a == EffectAmount(r, e)
                   m == [adjustments[r] EXCEPT ![e] = [done |-> TRUE, amount |-> a]]
                   n == [row[r] EXCEPT !.completed = row[r].completed \cup {e}]
                   w == WalletTaken(r, e)
        <4>1. /\ Take(r, w, SubTaken(r, e), TokenTaken(r, e))
              /\ adjustments' = [adjustments EXCEPT ![r] = m] /\ SetRow(r, n)
          BY <2>5, <3>1 DEF ApplyAdjustment
        <4>2. a \in Int /\ w \in Int /\ SubTaken(r, e) \in Int /\ TokenTaken(r, e) \in Int
          BY EffectAmountType
        <4>3. /\ row[r].status # "absent" /\ ~adjustments[r][e].done
              /\ e[2] = "settle" => row[r].status = "settlement_pending"
              /\ e[2] = "refund" => row[r].status \notin Terminal
          BY <2>5, <3>1 DEF ApplyAdjustmentOk, AdjustmentSkipped, Fenced, Exists
        <4>4. e = <<"funding", "refund">> => a = row[r].funding
          BY DEF EffectAmount
        <4>5. e[2] \in {"settle", "refund"}
          BY EffectCases
        <4>6. charge[r].wallet + w \in Int
              /\ charge[r].wallet + w =
                    IF e[1] # "funding" \/ row[r].source # "wallet" THEN charge[r].wallet
                    ELSE IF e[2] = "settle" THEN charge[r].wallet + a
                    ELSE charge[r].wallet - a
          <5>1. w = IF e[1] # "funding" \/ row[r].source # "wallet" THEN 0
                    ELSE IF e[2] = "settle" THEN a ELSE -a
            BY DEF WalletTaken
          <5> HIDE DEF a, w
          <5> QED
            BY <1>r, <4>2, <5>1
        <4>7. n \in RowType
          BY <1>r, CompletedUpdate
        <4> HIDE DEF a, w
        <4>8. RequestInv(n, m, charge[r].wallet + w)
          BY <1>r, <4>2, <4>3, <4>4, <4>6, MarkerKeeps
        <4> HIDE DEF m, n
        <4>9. row'[r] = n /\ \A q \in Requests \ {r} : row'[q] = row[q]
          BY <4>1, <4>7, SetRowFacts
        <4>10. /\ charge'[r].wallet = charge[r].wallet + w
               /\ \A q \in Requests \ {r} : charge'[q] = charge[q]
          BY <4>1, <4>2, TakeFacts
        <4>11. adjustments'[r] = m /\ \A q \in Requests \ {r} : adjustments'[q] = adjustments[q]
          BY <4>1 DEF DurableTypeOK
        <4>12. RequestInv(row'[r], adjustments'[r], charge'[r].wallet)
          BY <4>8, <4>9, <4>10, <4>11
        <4> QED
          BY <4>9, <4>10, <4>11, <4>12, LedgerFrame
      <3> QED
        BY <3>0, <3>1
    <2> QED
      BY <1>4, <2>1, <2>2, <2>3, <2>4, <2>5 DEF Closing
  <1>5. ASSUME NEW r \in Requests, Timing(r)
        PROVE  LedgerInv'
    BY <1>5, LedgerUnchanged DEF Timing, TouchBillingRecovery, GrowStale, balances
  <1> QED
    BY <1>1, <1>2, <1>3, <1>4, <1>5 DEF DurableNext

LEMMA LedgerInvariant == DurableSpec => []LedgerInv
  <1>1. DurableTypeOK /\ LedgerInv /\ [DurableNext]_durableVars => LedgerInv'
    BY LedgerStep
  <1> QED
    BY <1>1, LedgerInit, DurableTypeCorrect, PTL DEF DurableSpec

\* Every wallet movement is explained by the row and its markers, each applied
\* exactly once, for any number of requests and callers in any order.
THEOREM WalletLedgerHolds == DurableSpec => []WalletLedger
  <1>1. LedgerInv => WalletLedger
    BY DEF LedgerInv, RequestInv, WalletInv, WalletLedger, Booked
  <1> QED
    BY <1>1, LedgerInvariant, PTL

\* After a settlement effect nobody can refund, abort or rebind the row, and a
\* settled row has both settlement effects.
THEOREM SettlementCommitted == DurableSpec => []SettlementIsCommitted
  <1>1. LedgerInv => SettlementIsCommitted
    BY DEF LedgerInv, RequestInv, StatusInv, SettlementIsCommitted, Fenced
  <1> QED
    BY <1>1, LedgerInvariant, PTL

\* A row still in "prepared" is empty, so that rebinding it loses nothing.
THEOREM PreparedEmpty == DurableSpec => []PreparedIsEmpty
  <1>1. LedgerInv => PreparedIsEmpty
    BY DEF LedgerInv, RequestInv, PreparedInv, PreparedIsEmpty, Booked
  <1> QED
    BY <1>1, LedgerInvariant, PTL

\* What a terminal row may become.
LEMMA TerminalStep ==
    ASSUME DurableTypeOK, DurableNext, NEW q \in Requests, row[q].status \in Terminal
    PROVE  row'[q].status = row[q].status \/ Reusable(q)
  <1>t. row \in [Requests -> RowType] /\ row[q] \in RowType
    BY DEF DurableTypeOK
  <1>1. PICK r \in Requests : Opening(r) \/ Reserving(r) \/ Closing(r) \/ Timing(r)
    BY DEF DurableNext
  <1>2. ASSUME NEW x, SetRow(r, x), r # q
        PROVE  row'[q] = row[q]
    BY <1>2, <1>t DEF SetRow
  <1>3. CASE r # q
    <2>1. \/ \E x : SetRow(r, x)
          \/ row' = row
      BY <1>1 DEF Opening, Reserving, Closing, Timing, EnsureBillingRecovery, AbortPrepared,
         PreConsumeWallet, ReserveToken, ReserveBillingRecovery, PreConsumeSubscription,
         IncreaseToken, UpdateAmounts, UpdateSettlement, MarkRefundPending, ApplyAdjustment,
         MarkSettled, MarkRefunded, TouchBillingRecovery, GrowStale, durableVars
    <2> QED
      BY <1>2, <1>3, <2>1
  <1>4. CASE r = q
    <2>1. CASE Opening(q)
      <3>1. ASSUME NEW src \in Sources, NEW t \in BOOLEAN,
                   EnsureBillingRecoveryOk(q, src, t), EnsureBillingRecovery(q, src, t)
            PROVE  row'[q].status = row[q].status \/ Reusable(q)
        <4>1. CASE row[q].source = src
          BY <1>t, <3>1, <4>1 DEF EnsureBillingRecovery, SetRow, Exists, Terminal
        <4>2. CASE row[q].source # src
          BY <3>1, <4>2 DEF EnsureBillingRecoveryOk, Exists, Terminal
        <4> QED
          BY <4>1, <4>2
      <3>2. ASSUME AbortPreparedOk(q), AbortPrepared(q)
            PROVE  row'[q].status = row[q].status
        BY <1>t, <3>2 DEF AbortPreparedOk, AbortPrepared, SetRow, Terminal, RowType
      <3> QED
        BY <2>1, <3>1, <3>2 DEF Opening
    <2>2. CASE Reserving(q)
      <3>1. row' = row
        BY <2>2 DEF Reserving, PreConsumeWalletOk, ReserveToken, ReserveOk,
           PreConsumeSubscription, IncreaseToken, UpdateAmountsOk, durableVars, Terminal
      <3> QED
        BY <3>1
    <2>3. CASE Closing(q)
      <3>1. ASSUME NEW d \in Deltas, UpdateSettlementOk(q), UpdateSettlement(q, d)
            PROVE  row'[q].status = row[q].status
        BY <3>1 DEF UpdateSettlementOk, UpdateSettlement, durableVars, Terminal
      <3>2. ASSUME MarkRefundPendingOk(q), MarkRefundPending(q)
            PROVE  row'[q].status = row[q].status
        BY <3>2 DEF MarkRefundPendingOk, MarkRefundPending, durableVars, Terminal
      <3>3. ASSUME NEW e \in Effects, ApplyAdjustmentOk(q, e), ApplyAdjustment(q, e)
            PROVE  row'[q].status = row[q].status
        BY <1>t, <3>3 DEF ApplyAdjustment, SetRow, durableVars, RowType
      <3>4. ASSUME MarkSettledOk(q), MarkSettled(q)
            PROVE  row'[q].status = row[q].status
        BY <1>t, <3>4 DEF MarkSettledOk, MarkSettled, SetRow, Terminal, RowType
      <3>5. ASSUME MarkRefundedOk(q), MarkRefunded(q)
            PROVE  row'[q].status = row[q].status
        BY <1>t, <3>5 DEF MarkRefundedOk, MarkRefunded, SetRow, Terminal, RowType
      <3> QED
        BY <2>3, <3>1, <3>2, <3>3, <3>4, <3>5 DEF Closing
    <2>4. CASE Timing(q)
      BY <2>4 DEF Timing, TouchBillingRecovery, GrowStale
    <2> QED
      BY <1>1, <1>4, <2>1, <2>2, <2>3, <2>4
  <1> QED
    BY <1>3, <1>4

\* A closed row stays closed, except an empty attempt reopened for a fallback.
THEOREM TerminalFinal == DurableSpec => TerminalIsFinal
  <1>1. DurableTypeOK /\ [DurableNext]_durableVars
           => [\A r \in Requests : row[r].status \in Terminal =>
                 row'[r].status = row[r].status \/ Reusable(r)]_durableVars
    BY TerminalStep
  <1> QED
    BY <1>1, DurableTypeCorrect, PTL DEF DurableSpec, TerminalIsFinal

-----------------------------------------------------------------------------
(* Sessions and recovery passes. *)

Preferences == {<<"wallet">>, <<"subscription">>,
                <<"wallet", "subscription">>, <<"subscription", "wallet">>}

SessionType ==
    [plan : Preferences \cup {<<>>}, quota : Quotas, playground : BOOLEAN, unlimited : BOOLEAN,
     trusted : BOOLEAN, pre : Nat, tok : Nat, extra : Nat, consumed : Nat,
     subId : BOOLEAN, fundingSettled : BOOLEAN, settled : BOOLEAN,
     refunded : BOOLEAN, fundingRefunded : BOOLEAN, extraRefunded : BOOLEAN,
     tokenRefunded : BOOLEAN, needsRecovery : BOOLEAN, refundErr : BOOLEAN,
     fallback : BOOLEAN, heartbeat : BOOLEAN, actual : Nat, attempt : Nat,
     failed : BOOLEAN]

\* A session before its first lasting reservation, settling, and giving back.
Opened == {"wallet_pre", "token_pre", "sub_pre", "token_rollback", "rollback_sync", "record_failure", "sync", "sync_refund"}
Starting == {"wallet_check", "ensure"} \cup Opened
Settling == {"settle_update", "settle_funding", "settle_token", "settle_mark"}
GivingBack == {"refund_funding", "refund_extra", "refund_token", "refund_finish"}
Places == {"new", "live", "refund_mark", "ended", "dead"} \cup Starting \cup Settling \cup GivingBack

WorkerPlaces == {"load", "settle_funding", "settle_token", "settle_mark", "refund_mark"} \cup GivingBack

SessionTypeOK ==
    /\ pc \in [Requests -> Places]
    /\ sess \in [Requests -> SessionType]
    /\ worker \in [Workers -> [pc : WorkerPlaces, req : Requests] \cup {Idle}]
    /\ faults \in Nat

\* What a session has reported is what its row holds: a session is bound to
\* the source of its row, and the wallet was charged together with the row.
BoundInv(x, s, p) ==
    /\ p # "new" => s.plan \in Preferences
    /\ p \in Opened => x.source = Source(s)
    /\ p \in {"token_pre", "sub_pre", "token_rollback", "rollback_sync"} => Source(s) = "subscription" /\ s.tok \in Quotas
    /\ p = "wallet_pre" => Source(s) = "wallet"
    /\ p \in {"wallet_check", "ensure"} => s.tok = 0
    /\ p \in {"wallet_check", "ensure"} \cup (Opened \ {"sync_refund"}) => s.extra = 0
    /\ p = "sync" => s.consumed \in Amounts /\ s.tok \in Amounts /\ (x.source = "wallet" => x.funding = s.consumed)
    /\ p \in Settling => Delta(s) \in Deltas

SessionsBound == \A r \in Requests : BoundInv(row[r], sess[r], pc[r])

\* What a session knows of its row once the row is closed.
ClosedInv(x, s, p) ==
    /\ s.settled => p = "ended" /\ x.status = "settled"
    /\ s.refunded => p = "ended" /\ (~s.refundErr => x.status = "refunded")

SessionsClosed == \A r \in Requests : ClosedInv(row[r], sess[r], pc[r])

-----------------------------------------------------------------------------
(* The books of one request: its row x, its markers m, its pre-consume      *)
(* record k and its charges c.                                              *)

Uncharged(c) == c.wallet = 0 /\ c.sub = 0 /\ c.token = 0
Held(k) == IF k.status = "consumed" THEN k.amount ELSE 0
FundingRefund == <<"funding", "refund">>
ExtraRefund == <<"extra", "refund">>
TokenRefund == <<"token", "refund">>
FundingSettle == <<"funding", "settle">>
TokenSettle == <<"token", "settle">>

\* Each marker records the amount of the row, and a refund marker closes it.
AmountsBooked(x, m) ==
    /\ m[FundingRefund].done => m[FundingRefund].amount = x.funding
    /\ m[ExtraRefund].done => m[ExtraRefund].amount = x.extra
    /\ m[TokenRefund].done => m[TokenRefund].amount = x.token
    /\ m[FundingSettle].done => m[FundingSettle].amount = x.delta
    /\ m[TokenSettle].done => m[TokenSettle].amount = x.delta
    /\ m[FundingRefund].done \/ m[ExtraRefund].done \/ m[TokenRefund].done
          => x.status \in {"refund_pending", "refunded"}

SubBooks(x, m, k, c) ==
    /\ c.sub = IF x.source = "wallet" THEN 0
               ELSE Held(k) + x.extra + m[FundingSettle].amount - m[ExtraRefund].amount
    /\ x.source = "wallet" => k.status = "none" /\ x.extra = 0
    /\ x.extra > 0 => x.sub
    /\ k.status = "consumed" =>
          /\ k.amount > 0 /\ ~m[FundingRefund].done
          /\ x.pre = "committed" => x.funding = k.amount
          /\ x.status # "active" => x.pre = "committed"
    /\ x.source = "subscription" /\ k.status # "consumed" => x.funding = 0 \/ m[FundingRefund].done
    /\ k.status = "refunded" => x.pre = "committed"

TokenBooks(x, m, k, c) ==
    /\ x.pre = "committed" =>
          c.token = IF x.tokenRequired THEN x.token + m[TokenSettle].amount - m[TokenRefund].amount ELSE 0
    /\ x.pre = "prepared" /\ x.source = "wallet" => c.token = 0
    /\ x.pre = "prepared" /\ k.status = "consumed" => c.token = IF x.tokenRequired THEN k.amount ELSE 0

StatusBooks(x, k, c) ==
    /\ x.status = "absent" => Uncharged(c) /\ k.status = "none"
    /\ x.status \in {"settlement_pending", "settled"} => x.pre = "committed" /\ (x.source = "subscription" => x.sub)
    /\ x.status = "refunded" =>
          /\ c.wallet = 0 /\ c.sub = 0 /\ k.status # "consumed"
          /\ x.source = "wallet" \/ x.pre = "committed" => c.token = 0

Books(x, m, k, c) == AmountsBooked(x, m) /\ SubBooks(x, m, k, c) /\ TokenBooks(x, m, k, c) /\ StatusBooks(x, k, c)

-----------------------------------------------------------------------------
(* What a session at place p with fields s knows of these books.            *)

\* The environment of the theorems: only a request upstream is slow enough to
\* lose its row to a recovery pass, and a token or subscription pre-consume that
\* fails has not committed; or every request is paid from the wallet.
Steady == ~StallAnywhere /\ LossyOps \subseteq {"recovery"}
WalletOnly == Plans \subseteq {<<"wallet">>}

\* The row holds what the session reserved.
Matches(x, s) ==
    /\ x.pre = "committed" /\ (x.source = "subscription" => x.sub)
    /\ x.funding + x.extra = s.pre
    /\ x.token = IF x.tokenRequired THEN s.pre ELSE 0

\* The token quota that a session holds without a row that says so.
TokenHeld(s, p) ==
    IF p \in {"sub_pre", "token_rollback", "rollback_sync"} /\ ~s.playground THEN s.tok ELSE 0

Unrecorded(x, k) == x.source = "subscription" /\ x.pre = "prepared" /\ k.status = "none"

KnowsOpen(x, s, p) ==
    /\ p = "new" => x.status = "absent"
    /\ p # "new" /\ x.status # "absent" => x.tokenRequired = ~s.playground
    /\ p \in {"wallet_check", "ensure"} /\ x.status # "absent" => x.source # Source(s) /\ Len(s.plan) = 1
    /\ p \in {"wallet_check", "ensure"} => s.tok = 0 /\ ~s.needsRecovery /\ ~s.subId
    /\ p \notin {"new", "wallet_check", "ensure", "ended", "dead"} => x.status # "absent"
    /\ p = "wallet_pre" => ~s.needsRecovery /\ ~s.subId /\ (x.status = "active" => x.pre = "prepared")
    /\ p = "record_failure" /\ Source(s) = "wallet" => ~s.needsRecovery /\ (s.fallback => x.pre = "prepared")
    /\ p = "sync" /\ x.status = "active" =>
          /\ s.subId <=> Source(s) = "subscription"
          /\ s.pre = s.consumed /\ (~s.playground => s.tok = s.pre)
          /\ Source(s) = "wallet" => x.pre = "committed" /\ (x.tokenRequired => x.token = s.pre) /\ (~x.tokenRequired => x.token = 0)

\* A session that starts is alone with its row.
KnowsAlone(x, m, k, c, s, p) ==
    /\ p \in Starting => \A e \in Effects : ~m[e].done
    /\ p \in Opened => x.status = "active"
    /\ p \in {"wallet_check", "ensure"} =>
          /\ k.status = "none"
          /\ x.status = "refunded" => c.token = 0 /\ x.pre = "prepared"
    /\ p \in {"token_pre", "sub_pre", "token_rollback", "rollback_sync"} =>
          Unrecorded(x, k) /\ c.token = TokenHeld(s, p)
    /\ p = "token_pre" => s.tok = 0 /\ ~s.needsRecovery
    /\ p = "sub_pre" => s.tok = EffectiveQuota(s) /\ ~s.needsRecovery
    /\ p = "token_rollback" => ~s.playground /\ ~s.needsRecovery
    /\ p = "rollback_sync" => ~s.playground /\ s.needsRecovery
    /\ p = "record_failure" => k.status = "none" /\ (~s.needsRecovery /\ Source(s) = "subscription" => x.pre = "prepared" /\ c.token = 0)
    /\ p = "sync" /\ Source(s) = "subscription" => x.pre = "prepared" /\ k.status = "consumed" /\ k.amount = s.consumed

\* With one failing call at most, what is taken back is recorded first.
KnowsTaken(x, k, c, s, p, n) ==
    /\ p # "dead" /\ Unrecorded(x, k) => c.token = TokenHeld(s, p)
    /\ p = "rollback_sync" => n >= 1
    /\ p = "record_failure" /\ s.needsRecovery => x.pre = "committed"

KnowsPriced(x, s, p) ==
    /\ p \in {"live"} \cup Settling /\ x.status = "active" => Matches(x, s)
    /\ x.status \in {"settlement_pending", "settled"} =>
          /\ Matches(x, s) /\ x.delta = s.actual - s.pre
          /\ p \in Settling \cup GivingBack \cup {"refund_mark", "ended", "dead"}
    /\ p \in GivingBack /\ ~s.refundErr => x.status \in {"refund_pending", "refunded"}

Quiet(r) == r \notin stale /\ \A w \in Workers : worker[w].pc = "idle" \/ worker[w].req # r

\* Who gives back has marked the row.
WorkersMarked ==
    \A w \in Workers : worker[w].pc \in GivingBack => row[worker[w].req].status \in {"refund_pending", "refunded"}

RequestHolds(r) ==
    LET x == row[r]
        m == adjustments[r]
        k == preRecord[r]
        c == charge[r]
        s == sess[r]
        p == pc[r]
    IN /\ Books(x, m, k, c)
       /\ KnowsOpen(x, s, p)
       /\ Steady => KnowsAlone(x, m, k, c, s, p) /\ (p \in Starting \cup {"new"} => Quiet(r))
       /\ MaxFaults <= 1 /\ Steady => KnowsTaken(x, k, c, s, p, faults)
       /\ KnowsPriced(x, s, p)
       /\ WalletOnly => x.source = "wallet" /\ (p # "new" => s.plan = <<"wallet">>)

BillingInv == WorkersMarked /\ \A r \in Requests : RequestHolds(r)

-----------------------------------------------------------------------------
(* Session records *)

LEMMA SessionFields ==
    ASSUME NEW s \in SessionType
    PROVE  /\ s.plan \in Preferences \cup {<<>>} /\ s.quota \in Quotas
           /\ s.pre \in Nat /\ s.tok \in Nat /\ s.extra \in Nat /\ s.consumed \in Nat
           /\ s.actual \in Nat /\ s.attempt \in Nat
           /\ s.playground \in BOOLEAN /\ s.unlimited \in BOOLEAN /\ s.trusted \in BOOLEAN
           /\ s.subId \in BOOLEAN /\ s.settled \in BOOLEAN /\ s.refunded \in BOOLEAN
           /\ s.needsRecovery \in BOOLEAN /\ s.refundErr \in BOOLEAN /\ s.fallback \in BOOLEAN
           /\ s.fundingSettled \in BOOLEAN /\ s.fundingRefunded \in BOOLEAN
           /\ s.extraRefunded \in BOOLEAN /\ s.tokenRefunded \in BOOLEAN
           /\ s.heartbeat \in BOOLEAN /\ s.failed \in BOOLEAN
  BY DEF SessionType

\* The fields that the proofs speak of.
Same(t, s) ==
    /\ t.plan = s.plan /\ t.quota = s.quota /\ t.playground = s.playground
    /\ t.pre = s.pre /\ t.tok = s.tok /\ t.extra = s.extra /\ t.consumed = s.consumed
    /\ t.subId = s.subId /\ t.needsRecovery = s.needsRecovery /\ t.fallback = s.fallback
    /\ t.actual = s.actual /\ t.settled = s.settled /\ t.refunded = s.refunded
    /\ t.refundErr = s.refundErr

LEMMA FlagUpdates ==
    ASSUME NEW s \in SessionType
    PROVE  /\ [s EXCEPT !.failed = TRUE] \in SessionType /\ Same([s EXCEPT !.failed = TRUE], s)
           /\ [s EXCEPT !.failed = TRUE, !.heartbeat = FALSE] \in SessionType
           /\ Same([s EXCEPT !.failed = TRUE, !.heartbeat = FALSE], s)
           /\ \A b \in BOOLEAN :
                 /\ [s EXCEPT !.trusted = b] \in SessionType /\ Same([s EXCEPT !.trusted = b], s)
                 /\ [s EXCEPT !.heartbeat = b] \in SessionType
                 /\ Same([s EXCEPT !.heartbeat = b], s)
                 /\ [s EXCEPT !.fundingSettled = b] \in SessionType
                 /\ Same([s EXCEPT !.fundingSettled = b], s)
                 /\ [s EXCEPT !.fundingRefunded = b] \in SessionType
                 /\ Same([s EXCEPT !.fundingRefunded = b], s)
                 /\ [s EXCEPT !.extraRefunded = b] \in SessionType
                 /\ Same([s EXCEPT !.extraRefunded = b], s)
                 /\ [s EXCEPT !.tokenRefunded = b] \in SessionType
                 /\ Same([s EXCEPT !.tokenRefunded = b], s)
  <1>1. /\ [s EXCEPT !.failed = TRUE] \in SessionType /\ Same([s EXCEPT !.failed = TRUE], s)
        /\ [s EXCEPT !.failed = TRUE, !.heartbeat = FALSE] \in SessionType
        /\ Same([s EXCEPT !.failed = TRUE, !.heartbeat = FALSE], s)
    BY DEF SessionType, Same
  <1>2. ASSUME NEW b \in BOOLEAN
        PROVE  /\ [s EXCEPT !.trusted = b] \in SessionType /\ Same([s EXCEPT !.trusted = b], s)
               /\ [s EXCEPT !.heartbeat = b] \in SessionType
               /\ Same([s EXCEPT !.heartbeat = b], s)
               /\ [s EXCEPT !.fundingSettled = b] \in SessionType
               /\ Same([s EXCEPT !.fundingSettled = b], s)
    BY DEF SessionType, Same
  <1>3. ASSUME NEW b \in BOOLEAN
        PROVE  /\ [s EXCEPT !.fundingRefunded = b] \in SessionType
               /\ Same([s EXCEPT !.fundingRefunded = b], s)
               /\ [s EXCEPT !.extraRefunded = b] \in SessionType
               /\ Same([s EXCEPT !.extraRefunded = b], s)
               /\ [s EXCEPT !.tokenRefunded = b] \in SessionType
               /\ Same([s EXCEPT !.tokenRefunded = b], s)
    BY DEF SessionType, Same
  <1> QED
    BY <1>1, <1>2, <1>3

LEMMA AttemptUpdate ==
    ASSUME NEW s \in SessionType
    PROVE  /\ [s EXCEPT !.attempt = s.attempt + 1] \in SessionType
           /\ Same([s EXCEPT !.attempt = s.attempt + 1], s)
  <1>1. s.attempt + 1 \in Nat
    BY DEF SessionType
  <1> QED
    BY <1>1 DEF SessionType, Same

LEMMA NoSessionType == NoSession \in SessionType
  BY QuotasCover DEF NoSession, SessionType

\* The other updates change only what they name.
Keeps(t, s) ==
    /\ t.plan = s.plan /\ t.quota = s.quota /\ t.playground = s.playground
    /\ t.settled = s.settled /\ t.refunded = s.refunded

LEMMA TokenSet ==
    ASSUME NEW s \in SessionType, NEW q \in Nat
    PROVE  LET t == [s EXCEPT !.tok = q] IN
           /\ t \in SessionType /\ Keeps(t, s) /\ t.tok = q /\ t.consumed = s.consumed
           /\ t.pre = s.pre /\ t.extra = s.extra /\ t.subId = s.subId
           /\ t.needsRecovery = s.needsRecovery /\ t.fallback = s.fallback
           /\ t.actual = s.actual /\ t.refundErr = s.refundErr
  BY DEF SessionType, Keeps

LEMMA RecoveryNeeded ==
    ASSUME NEW s \in SessionType
    PROVE  LET t == [s EXCEPT !.needsRecovery = TRUE] IN
           /\ t \in SessionType /\ Keeps(t, s) /\ t.needsRecovery
           /\ t.consumed = s.consumed /\ t.pre = s.pre /\ t.tok = s.tok
           /\ t.extra = s.extra /\ t.subId = s.subId /\ t.fallback = s.fallback
           /\ t.actual = s.actual /\ t.refundErr = s.refundErr
  BY DEF SessionType, Keeps

LEMMA FallbackSet ==
    ASSUME NEW s \in SessionType, NEW b \in BOOLEAN
    PROVE  LET t == [s EXCEPT !.fallback = b] IN
           /\ t \in SessionType /\ Keeps(t, s) /\ t.fallback = b
           /\ t.consumed = s.consumed /\ t.pre = s.pre /\ t.tok = s.tok
           /\ t.extra = s.extra /\ t.subId = s.subId
           /\ t.needsRecovery = s.needsRecovery /\ t.actual = s.actual
           /\ t.refundErr = s.refundErr
  BY DEF SessionType, Keeps

LEMMA RefundErrSet ==
    ASSUME NEW s \in SessionType, NEW b \in BOOLEAN
    PROVE  LET t == [s EXCEPT !.refundErr = b] IN
           /\ t \in SessionType /\ Keeps(t, s) /\ t.refundErr = b
           /\ t.consumed = s.consumed /\ t.pre = s.pre /\ t.tok = s.tok
           /\ t.extra = s.extra /\ t.subId = s.subId
           /\ t.needsRecovery = s.needsRecovery /\ t.fallback = s.fallback
           /\ t.actual = s.actual
  BY DEF SessionType, Keeps

LEMMA ActualSet ==
    ASSUME NEW s \in SessionType, NEW a \in Nat
    PROVE  LET t == [s EXCEPT !.actual = a, !.attempt = 1] IN
           /\ t \in SessionType /\ Keeps(t, s) /\ t.actual = a
           /\ t.consumed = s.consumed /\ t.pre = s.pre /\ t.tok = s.tok
           /\ t.extra = s.extra /\ t.subId = s.subId
           /\ t.needsRecovery = s.needsRecovery /\ t.fallback = s.fallback
           /\ t.refundErr = s.refundErr
  BY DEF SessionType, Keeps

LEMMA ClosingUpdates ==
    ASSUME NEW s \in SessionType
    PROVE  /\ LET t == [s EXCEPT !.settled = TRUE, !.heartbeat = FALSE] IN
              /\ t \in SessionType /\ t.plan = s.plan /\ t.quota = s.quota
              /\ t.playground = s.playground /\ t.settled /\ t.refunded = s.refunded
              /\ t.consumed = s.consumed /\ t.pre = s.pre /\ t.tok = s.tok /\ t.extra = s.extra
              /\ t.subId = s.subId /\ t.needsRecovery = s.needsRecovery
              /\ t.fallback = s.fallback /\ t.actual = s.actual /\ t.refundErr = s.refundErr
           /\ LET t == [s EXCEPT !.refunded = TRUE] IN
              /\ t \in SessionType /\ t.plan = s.plan /\ t.quota = s.quota
              /\ t.playground = s.playground /\ t.settled = s.settled /\ t.refunded
              /\ t.consumed = s.consumed /\ t.pre = s.pre /\ t.tok = s.tok /\ t.extra = s.extra
              /\ t.subId = s.subId /\ t.needsRecovery = s.needsRecovery
              /\ t.fallback = s.fallback /\ t.actual = s.actual /\ t.refundErr = s.refundErr
  BY DEF SessionType, Keeps

LEMMA PreferenceTail ==
    ASSUME NEW p \in Preferences, Len(p) > 1
    PROVE  /\ Tail(p) \in Preferences /\ Len(Tail(p)) = 1
           /\ Head(Tail(p)) # Head(p)
  <1>1. CASE p = <<"wallet", "subscription">>
    <2>1. Tail(p) = <<"subscription">> /\ Head(p) = "wallet"
      BY <1>1
    <2> QED
      BY <2>1 DEF Preferences
  <1>2. CASE p = <<"subscription", "wallet">>
    <2>1. Tail(p) = <<"wallet">> /\ Head(p) = "subscription"
      BY <1>2
    <2> QED
      BY <2>1 DEF Preferences
  <1>3. p # <<"wallet">> /\ p # <<"subscription">>
    OBVIOUS
  <1> QED
    BY <1>1, <1>2, <1>3 DEF Preferences

LEMMA PreferenceHead ==
    ASSUME NEW p \in Preferences
    PROVE  Head(p) \in Sources /\ Len(p) \in {1, 2}
  BY DEF Preferences, Sources

\* The session a source starts from.
LEMMA FreshSession ==
    ASSUME NEW s \in SessionType, NEW p \in Preferences
    PROVE  LET t == [NoSession EXCEPT !.plan = p, !.quota = s.quota,
                         !.playground = s.playground, !.unlimited = s.unlimited] IN
           /\ t \in SessionType
           /\ t.plan = p /\ t.quota = s.quota /\ t.playground = s.playground
           /\ t.pre = 0 /\ t.tok = 0 /\ t.extra = 0 /\ t.consumed = 0
           /\ ~t.subId /\ ~t.needsRecovery /\ ~t.fallback /\ t.actual = 0
           /\ ~t.settled /\ ~t.refunded /\ ~t.refundErr
  <1> DEFINE t == [NoSession EXCEPT !.plan = p, !.quota = s.quota,
                         !.playground = s.playground, !.unlimited = s.unlimited]
  <1>1. s.quota \in Quotas /\ s.playground \in BOOLEAN /\ s.unlimited \in BOOLEAN
    BY SessionFields
  <1>2. t \in SessionType
    BY <1>1, NoSessionType DEF SessionType
  <1>3. /\ t.plan = p /\ t.quota = s.quota /\ t.playground = s.playground
        /\ t.pre = 0 /\ t.tok = 0 /\ t.extra = 0 /\ t.consumed = 0
        /\ t.subId = FALSE /\ t.needsRecovery = FALSE /\ t.fallback = FALSE /\ t.actual = 0
        /\ t.settled = FALSE /\ t.refunded = FALSE /\ t.refundErr = FALSE
    BY DEF NoSession
  <1> HIDE DEF t
  <1>4. /\ ~t.subId /\ ~t.needsRecovery /\ ~t.fallback
        /\ ~t.settled /\ ~t.refunded /\ ~t.refundErr
    BY <1>3
  <1> QED
    BY <1>2, <1>3, <1>4 DEF t

-----------------------------------------------------------------------------
(* Where each step of a session leads, what it calls, and what it remembers *)

Moved(r) ==
    /\ pc' \in [Requests -> Places] /\ sess' \in [Requests -> SessionType]
    /\ \A q \in Requests \ {r} : pc'[q] = pc[q] /\ sess'[q] = sess[q]

LEMMA GotoMoves ==
    ASSUME SessionTypeOK, NEW r \in Requests, NEW p \in Places, NEW t \in SessionType,
           Goto(r, p, t)
    PROVE  Moved(r) /\ pc'[r] = p /\ sess'[r] = t
  BY DEF SessionTypeOK, Goto, Moved

LEMMA PlacesAre ==
    /\ Opened \subseteq Places /\ Starting \subseteq Places /\ Settling \subseteq Places
    /\ GivingBack \subseteq Places
    /\ {"new", "live", "refund_mark", "ended", "dead"} \subseteq Places
    /\ {"wallet_check", "ensure"} \subseteq Starting /\ Opened \subseteq Starting
  BY DEF Places, Opened, Starting, Settling, GivingBack

\* A fresh session for the source in hand.
Started(r, s) ==
    /\ pc'[r] = IF Source(s) = "wallet" THEN "wallet_check" ELSE "ensure"
    /\ sess'[r].plan = s.plan /\ sess'[r].quota = s.quota
    /\ sess'[r].playground = s.playground
    /\ sess'[r].pre = 0 /\ sess'[r].tok = 0 /\ sess'[r].extra = 0 /\ sess'[r].consumed = 0
    /\ ~sess'[r].subId /\ ~sess'[r].needsRecovery /\ ~sess'[r].fallback
    /\ ~sess'[r].settled /\ ~sess'[r].refunded /\ ~sess'[r].refundErr

LEMMA TryMoves ==
    ASSUME SessionTypeOK, NEW r \in Requests, NEW s \in SessionType, s.plan \in Preferences,
           Try(r, s)
    PROVE  Moved(r) /\ Started(r, s)
  <1> DEFINE t == [NoSession EXCEPT !.plan = s.plan, !.quota = s.quota,
                         !.playground = s.playground, !.unlimited = s.unlimited]
             p == IF Source(s) = "wallet" THEN "wallet_check" ELSE "ensure"
  <1>1. /\ t \in SessionType
        /\ t.plan = s.plan /\ t.quota = s.quota /\ t.playground = s.playground
        /\ t.pre = 0 /\ t.tok = 0 /\ t.extra = 0 /\ t.consumed = 0
        /\ ~t.subId /\ ~t.needsRecovery /\ ~t.fallback /\ t.actual = 0
        /\ ~t.settled /\ ~t.refunded /\ ~t.refundErr
    BY FreshSession
  <1>2. Goto(r, p, t)
    BY DEF Try
  <1>3. p \in Places
    BY PlacesAre DEF Starting, Places
  <1> HIDE DEF t
  <1>4. Moved(r) /\ pc'[r] = p /\ sess'[r] = t
    BY <1>1, <1>2, <1>3, GotoMoves
  <1> QED
    BY <1>1, <1>4 DEF Started

\* A preference that is given up for the next source, or for good.
GaveUp(r, s) ==
    \/ /\ s.fallback /\ Len(s.plan) > 1
       /\ \E t \in SessionType :
             /\ t.plan = Tail(s.plan) /\ t.playground = s.playground /\ Started(r, t)
    \/ pc'[r] = "ended" /\ Same(sess'[r], s)

LEMMA GiveUpMoves ==
    ASSUME SessionTypeOK, NEW r \in Requests, NEW s \in SessionType, s.plan \in Preferences,
           GiveUp(r, s)
    PROVE  Moved(r) /\ GaveUp(r, s)
  <1>1. CASE s.fallback /\ Len(s.plan) > 1
    <2> DEFINE t == [s EXCEPT !.plan = Tail(s.plan)]
    <2>1. Try(r, t)
      BY <1>1 DEF GiveUp
    <2>2. Tail(s.plan) \in Preferences
      BY <1>1, PreferenceTail
    <2>3. t \in SessionType /\ t.plan = Tail(s.plan) /\ t.playground = s.playground
      BY <2>2 DEF SessionType
    <2> HIDE DEF t
    <2>4. Moved(r) /\ Started(r, t)
      BY <2>1, <2>2, <2>3, TryMoves
    <2> QED
      BY <1>1, <2>3, <2>4 DEF GaveUp
  <1>2. CASE ~(s.fallback /\ Len(s.plan) > 1)
    <2> DEFINE t == [s EXCEPT !.failed = TRUE]
    <2>1. t \in SessionType /\ Same(t, s) /\ Goto(r, "ended", t)
      BY <1>2, FlagUpdates DEF GiveUp
    <2> HIDE DEF t
    <2>2. Moved(r) /\ pc'[r] = "ended" /\ sess'[r] = t
      BY <2>1, GotoMoves, PlacesAre
    <2> QED
      BY <2>1, <2>2 DEF GaveUp
  <1> QED
    BY <1>1, <1>2

LEMMA FailMoves ==
    ASSUME SessionTypeOK, NEW r \in Requests, NEW s \in SessionType, Fail(r, s)
    PROVE  Moved(r) /\ pc'[r] \in {"refund_mark", "ended"} /\ Same(sess'[r], s)
  <1> DEFINE t == [s EXCEPT !.failed = TRUE, !.heartbeat = FALSE]
             p == IF NeedsRefund(s) THEN "refund_mark" ELSE "ended"
  <1>1. t \in SessionType /\ Same(t, s) /\ Goto(r, p, t)
    BY FlagUpdates DEF Fail
  <1>2. p \in {"refund_mark", "ended"}
    OBVIOUS
  <1> HIDE DEF t, p
  <1> QED
    BY <1>1, <1>2, GotoMoves, PlacesAre

LEMMA SettleErrorMoves ==
    ASSUME SessionTypeOK, NEW r \in Requests, NEW s \in SessionType, SettleError(r, s)
    PROVE  /\ Moved(r) /\ Same(sess'[r], s)
           /\ pc'[r] \in {"settle_update", "refund_mark", "ended"}
  <1>1. CASE s.attempt < SettleAttempts
    <2> DEFINE t == [s EXCEPT !.attempt = s.attempt + 1]
    <2>1. t \in SessionType /\ Same(t, s) /\ Goto(r, "settle_update", t)
      BY <1>1, AttemptUpdate DEF SettleError
    <2> HIDE DEF t
    <2> QED
      BY <2>1, GotoMoves, PlacesAre DEF Settling
  <1>2. CASE ~(s.attempt < SettleAttempts) /\ Fail(r, s)
    BY <1>2, FailMoves
  <1>3. CASE ~(s.attempt < SettleAttempts) /\ Goto(r, "ended", [s EXCEPT !.heartbeat = FALSE])
    <2> DEFINE t == [s EXCEPT !.heartbeat = FALSE]
    <2>1. t \in SessionType /\ Same(t, s) /\ Goto(r, "ended", t)
      BY <1>3, FlagUpdates
    <2> HIDE DEF t
    <2> QED
      BY <2>1, GotoMoves, PlacesAre
  <1> QED
    BY <1>1, <1>2, <1>3 DEF SettleError

LEMMA BeginMoves ==
    ASSUME SessionTypeOK, NEW r \in Requests, Begin(r)
    PROVE  /\ Moved(r) /\ pc[r] = "new" /\ UNCHANGED durableVars
           /\ \E s \in SessionType : s.plan \in Plans /\ Started(r, s)
  <1>1. PICK plan \in Plans, q \in Quotas, pg \in Playground, u \in Unlimited :
           Try(r, [NoSession EXCEPT !.plan = plan, !.quota = q,
                                    !.playground = pg, !.unlimited = u])
    BY DEF Begin
  <1> DEFINE s == [NoSession EXCEPT !.plan = plan, !.quota = q,
                                    !.playground = pg, !.unlimited = u]
  <1>2. plan \in Preferences /\ pg \in BOOLEAN /\ u \in BOOLEAN
    BY SwitchesAreSets DEF Preferences
  <1>3. s \in SessionType /\ s.plan = plan
    BY <1>2, NoSessionType DEF SessionType
  <1>4. Try(r, s)
    BY <1>1
  <1> HIDE DEF s
  <1>5. Moved(r) /\ Started(r, s)
    BY <1>2, <1>3, <1>4, TryMoves
  <1> QED
    BY <1>3, <1>5 DEF Begin

LEMMA WalletCheckMoves ==
    ASSUME SessionTypeOK, NEW r \in Requests, sess[r].plan \in Preferences, WalletCheck(r)
    PROVE  /\ Moved(r) /\ pc[r] = "wallet_check" /\ UNCHANGED durableVars
           /\ \/ \E s \in SessionType : /\ s.plan = sess[r].plan
                                        /\ s.playground = sess[r].playground
                                        /\ s.settled = sess[r].settled
                                        /\ s.refunded = sess[r].refunded
                                        /\ GaveUp(r, s)
              \/ pc'[r] = "ensure" /\ Same(sess'[r], sess[r])
  <1>0. sess[r] \in SessionType
    BY DEF SessionTypeOK
  <1>1. CASE userQuota <= 0 \/ userQuota < sess[r].quota
    <2> DEFINE s == [sess[r] EXCEPT !.fallback = TRUE]
    <2>1. s \in SessionType /\ Keeps(s, sess[r])
      BY <1>0, FallbackSet
    <2>2. GiveUp(r, s)
      BY <1>1 DEF WalletCheck
    <2>3. s.plan \in Preferences
      BY <2>1 DEF Keeps
    <2> HIDE DEF s
    <2>4. Moved(r) /\ GaveUp(r, s)
      BY <2>1, <2>2, <2>3, GiveUpMoves
    <2> QED
      BY <2>1, <2>4 DEF WalletCheck, Keeps
  <1>2. CASE ~(userQuota <= 0 \/ userQuota < sess[r].quota)
    <2>1. PICK t \in BOOLEAN : Goto(r, "ensure", [sess[r] EXCEPT !.trusted = t])
      BY <1>2 DEF WalletCheck
    <2> DEFINE s == [sess[r] EXCEPT !.trusted = t]
    <2>2. s \in SessionType /\ Same(s, sess[r])
      BY <1>0, FlagUpdates
    <2>3. Goto(r, "ensure", s)
      BY <2>1
    <2> HIDE DEF s
    <2>4. Moved(r) /\ pc'[r] = "ensure" /\ sess'[r] = s
      BY <2>2, <2>3, GotoMoves, PlacesAre
    <2> QED
      BY <2>2, <2>4 DEF WalletCheck
  <1> QED
    BY <1>1, <1>2

LEMMA EnsureMoves ==
    ASSUME SessionTypeOK, NEW r \in Requests, sess[r].plan \in Preferences, Ensure(r)
    PROVE  /\ pc[r] = "ensure"
           /\ Transaction("recovery",
                 EnsureBillingRecoveryOk(r, Source(sess[r]), ~sess[r].playground),
                 EnsureBillingRecovery(r, Source(sess[r]), ~sess[r].playground),
                 /\ Moved(r) /\ sess'[r] = sess[r]
                 /\ pc'[r] = IF Source(sess[r]) = "wallet" THEN "wallet_pre" ELSE "token_pre",
                 Moved(r) /\ pc'[r] = "ended" /\ Same(sess'[r], sess[r]))
  <1> DEFINE s == sess[r]
             p == IF Source(s) = "wallet" THEN "wallet_pre" ELSE "token_pre"
             t == [s EXCEPT !.failed = TRUE]
  <1>0. s \in SessionType /\ p \in Places
    BY PlacesAre DEF SessionTypeOK, Opened
  <1>1. Goto(r, p, s) => Moved(r) /\ sess'[r] = s /\ pc'[r] = p
    BY <1>0, GotoMoves
  <1>2. t \in SessionType /\ Same(t, s)
    BY <1>0, FlagUpdates
  <1>3. Goto(r, "ended", t) => Moved(r) /\ pc'[r] = "ended" /\ Same(sess'[r], s)
    BY <1>2, GotoMoves, PlacesAre
  <1> QED
    BY <1>1, <1>3 DEF Ensure, Transaction

\* What is asked of the funding source is a quota.
LEMMA EffectiveQuotaIsQuota ==
    ASSUME NEW s \in SessionType
    PROVE  EffectiveQuota(s) \in Quotas /\ EffectiveQuota(s) \in Nat
           /\ (Source(s) = "subscription" => EffectiveQuota(s) > 0)
  <1>1. s.quota \in Quotas /\ 0 \in Quotas /\ 1 \in Quotas
    BY SessionFields, QuotasCover
  <1>2. EffectiveQuota(s) \in {0, 1, s.quota}
    BY DEF EffectiveQuota
  <1>3. s.quota \in Nat
    BY <1>1, QuotasAreNaturals
  <1>4. Source(s) = "subscription" => EffectiveQuota(s) > 0
    BY <1>3 DEF EffectiveQuota
  <1> QED
    BY <1>1, <1>2, <1>3, <1>4

LEMMA WalletPreMoves ==
    ASSUME SessionTypeOK, NEW r \in Requests, WalletPre(r), NEW q, q = EffectiveQuota(sess[r])
    PROVE  /\ pc[r] = "wallet_pre"
           /\ Transaction("recovery",
                 PreConsumeWalletOk(r, q, sess[r].unlimited), PreConsumeWallet(r, q),
                 /\ Moved(r) /\ pc'[r] = "sync" /\ Keeps(sess'[r], sess[r])
                 /\ sess'[r].consumed = q /\ sess'[r].pre = q
                 /\ sess'[r].tok = IF sess[r].playground THEN 0 ELSE q
                 /\ sess'[r].extra = sess[r].extra /\ sess'[r].subId = sess[r].subId
                 /\ sess'[r].needsRecovery = sess[r].needsRecovery,
                 /\ Moved(r) /\ pc'[r] = "record_failure" /\ Keeps(sess'[r], sess[r])
                 /\ sess'[r].extra = sess[r].extra
                 /\ sess'[r].needsRecovery = sess[r].needsRecovery
                 /\ sess'[r].fallback => WalletInsufficient(r, q, sess[r].unlimited))
  <1> DEFINE s == sess[r]
             b == WalletInsufficient(r, q, s.unlimited)
             k == IF s.playground THEN 0 ELSE q
             t == [s EXCEPT !.consumed = q, !.pre = q, !.tok = k]
             u == [s EXCEPT !.fallback = b]
  <1>0. s \in SessionType /\ q \in Nat
    BY EffectiveQuotaIsQuota DEF SessionTypeOK
  <1>1. b \in BOOLEAN
    BY DEF WalletInsufficient
  <1>2. k \in Nat
    BY <1>0
  <1> HIDE DEF k
  <1>3. /\ t \in SessionType /\ Keeps(t, s)
        /\ t.consumed = q /\ t.pre = q /\ t.tok = k /\ t.extra = s.extra
        /\ t.subId = s.subId /\ t.needsRecovery = s.needsRecovery
    BY <1>0, <1>2 DEF SessionType, Keeps
  <1>4. /\ u \in SessionType /\ Keeps(u, s) /\ u.extra = s.extra
        /\ u.needsRecovery = s.needsRecovery /\ u.fallback = b
    BY <1>0, <1>1, FallbackSet
  <1>5. /\ pc[r] = "wallet_pre"
        /\ Transaction("recovery",
              PreConsumeWalletOk(r, q, s.unlimited), PreConsumeWallet(r, q),
              Goto(r, "sync", t), Goto(r, "record_failure", u))
    BY DEF WalletPre, k
  <1> HIDE DEF t, u
  <1>6. Goto(r, "sync", t) => Moved(r) /\ pc'[r] = "sync" /\ sess'[r] = t
    BY <1>3, GotoMoves, PlacesAre DEF Opened
  <1>7. Goto(r, "record_failure", u) => Moved(r) /\ pc'[r] = "record_failure" /\ sess'[r] = u
    BY <1>4, GotoMoves, PlacesAre DEF Opened
  <1>8. Goto(r, "sync", t) =>
                 /\ Moved(r) /\ pc'[r] = "sync" /\ Keeps(sess'[r], sess[r])
                 /\ sess'[r].consumed = q /\ sess'[r].pre = q
                 /\ sess'[r].tok = k
                 /\ sess'[r].extra = sess[r].extra /\ sess'[r].subId = sess[r].subId
                 /\ sess'[r].needsRecovery = sess[r].needsRecovery
    BY <1>3, <1>6
  <1>9. Goto(r, "record_failure", u) =>
                 /\ Moved(r) /\ pc'[r] = "record_failure" /\ Keeps(sess'[r], sess[r])
                 /\ sess'[r].extra = sess[r].extra
                 /\ sess'[r].needsRecovery = sess[r].needsRecovery
                 /\ sess'[r].fallback => b
    BY <1>4, <1>7
  <1> QED
    BY <1>5, <1>8, <1>9 DEF Transaction, k

LEMMA TokenPreMoves ==
    ASSUME SessionTypeOK, NEW r \in Requests, TokenPre(r), NEW q, q = EffectiveQuota(sess[r])
    PROVE  /\ pc[r] = "token_pre"
           /\ Transaction("token",
                 sess[r].playground \/ ReserveTokenOk(q, sess[r].unlimited),
                 IF sess[r].playground THEN UNCHANGED durableVars ELSE ReserveToken(r, q),
                 /\ Moved(r) /\ pc'[r] = "sub_pre" /\ Keeps(sess'[r], sess[r])
                 /\ sess'[r].tok = q /\ sess'[r].extra = sess[r].extra
                 /\ sess'[r].needsRecovery = sess[r].needsRecovery,
                 Moved(r) /\ pc'[r] = "record_failure" /\ sess'[r] = sess[r])
  <1> DEFINE s == sess[r]
             t == [s EXCEPT !.tok = q]
  <1>0. s \in SessionType /\ q \in Nat
    BY EffectiveQuotaIsQuota DEF SessionTypeOK
  <1>1. /\ t \in SessionType /\ Keeps(t, s) /\ t.tok = q /\ t.extra = s.extra
        /\ t.needsRecovery = s.needsRecovery
    BY <1>0, TokenSet
  <1>2. /\ pc[r] = "token_pre"
        /\ Transaction("token", s.playground \/ ReserveTokenOk(q, s.unlimited),
              IF s.playground THEN UNCHANGED durableVars ELSE ReserveToken(r, q),
              Goto(r, "sub_pre", t), Goto(r, "record_failure", s))
    BY DEF TokenPre
  <1> HIDE DEF t
  <1>3. Goto(r, "sub_pre", t) => Moved(r) /\ pc'[r] = "sub_pre" /\ sess'[r] = t
    BY <1>1, GotoMoves, PlacesAre DEF Opened
  <1>4. Goto(r, "record_failure", s)
           => Moved(r) /\ pc'[r] = "record_failure" /\ sess'[r] = s
    BY <1>0, GotoMoves, PlacesAre DEF Opened
  <1>5. Goto(r, "sub_pre", t) =>
           /\ Moved(r) /\ pc'[r] = "sub_pre" /\ Keeps(sess'[r], sess[r])
           /\ sess'[r].tok = q /\ sess'[r].extra = sess[r].extra
           /\ sess'[r].needsRecovery = sess[r].needsRecovery
    BY <1>1, <1>3
  <1> QED
    BY <1>2, <1>4, <1>5 DEF Transaction

LEMMA SubPreMoves ==
    ASSUME DurableTypeOK, SessionTypeOK, NEW r \in Requests, SubPre(r),
           NEW q, q = EffectiveQuota(sess[r])
    PROVE  /\ pc[r] = "sub_pre"
           /\ Transaction("subscription",
                 PreConsumeSubscriptionOk(r, q), PreConsumeSubscription(r, q),
                 /\ Moved(r) /\ pc'[r] = "sync" /\ Keeps(sess'[r], sess[r])
                 /\ sess'[r].consumed = IF preRecord[r].status = "consumed"
                                        THEN preRecord[r].amount ELSE q
                 /\ sess'[r].pre = q /\ sess'[r].subId
                 /\ sess'[r].tok = sess[r].tok /\ sess'[r].extra = sess[r].extra,
                 /\ Moved(r) /\ Keeps(sess'[r], sess[r])
                 /\ pc'[r] = IF sess[r].tok > 0 /\ ~sess[r].playground
                             THEN "token_rollback" ELSE "record_failure"
                 /\ sess'[r].tok = sess[r].tok /\ sess'[r].extra = sess[r].extra
                 /\ sess'[r].needsRecovery = sess[r].needsRecovery)
  <1> DEFINE s == sess[r]
             a == IF preRecord[r].status = "consumed" THEN preRecord[r].amount ELSE q
             b == /\ ~PreConsumeSubscriptionOk(r, q) /\ preRecord[r].status = "none"
             p == IF s.tok > 0 /\ ~s.playground THEN "token_rollback" ELSE "record_failure"
             t == [s EXCEPT !.pre = q, !.subId = TRUE, !.consumed = a]
             u == [s EXCEPT !.fallback = b]
  <1>0. s \in SessionType /\ q \in Nat
    BY EffectiveQuotaIsQuota DEF SessionTypeOK
  <1>1. a \in Nat
    BY <1>0 DEF DurableTypeOK, RecordType
  <1> HIDE DEF a
  <1>2. b \in BOOLEAN /\ p \in Places
    BY PlacesAre DEF Opened
  <1>3. /\ t \in SessionType /\ Keeps(t, s) /\ t.consumed = a /\ t.pre = q /\ t.subId
        /\ t.tok = s.tok /\ t.extra = s.extra
    BY <1>0, <1>1 DEF SessionType, Keeps
  <1>4. /\ u \in SessionType /\ Keeps(u, s) /\ u.tok = s.tok /\ u.extra = s.extra
        /\ u.needsRecovery = s.needsRecovery
    BY <1>0, <1>2, FallbackSet
  <1>5. /\ pc[r] = "sub_pre"
        /\ Transaction("subscription",
              PreConsumeSubscriptionOk(r, q), PreConsumeSubscription(r, q),
              Goto(r, "sync", t), Goto(r, p, u))
    BY DEF SubPre, a
  <1> HIDE DEF t, u, p, b
  <1>6. Goto(r, "sync", t) => Moved(r) /\ pc'[r] = "sync" /\ sess'[r] = t
    BY <1>3, GotoMoves, PlacesAre DEF Opened
  <1>7. Goto(r, p, u) => Moved(r) /\ pc'[r] = p /\ sess'[r] = u
    BY <1>2, <1>4, GotoMoves
  <1>8. Goto(r, "sync", t) =>
                 /\ Moved(r) /\ pc'[r] = "sync" /\ Keeps(sess'[r], sess[r])
                 /\ sess'[r].consumed = a /\ sess'[r].pre = q /\ sess'[r].subId
                 /\ sess'[r].tok = sess[r].tok /\ sess'[r].extra = sess[r].extra
    BY <1>3, <1>6
  <1>9. Goto(r, p, u) =>
                 /\ Moved(r) /\ Keeps(sess'[r], sess[r]) /\ pc'[r] = p
                 /\ sess'[r].tok = sess[r].tok /\ sess'[r].extra = sess[r].extra
                 /\ sess'[r].needsRecovery = sess[r].needsRecovery
    BY <1>4, <1>7
  <1> QED
    BY <1>5, <1>8, <1>9 DEF Transaction, a, p

LEMMA TokenRollbackMoves ==
    ASSUME SessionTypeOK, NEW r \in Requests, TokenRollback(r)
    PROVE  /\ pc[r] = "token_rollback"
           /\ Transaction("token", TRUE, IncreaseToken(r, sess[r].tok),
                 /\ Moved(r) /\ pc'[r] = "record_failure" /\ Keeps(sess'[r], sess[r])
                 /\ sess'[r].tok = 0 /\ sess'[r].extra = sess[r].extra
                 /\ sess'[r].needsRecovery = sess[r].needsRecovery,
                 /\ Moved(r) /\ pc'[r] = "rollback_sync" /\ Keeps(sess'[r], sess[r])
                 /\ sess'[r].tok = sess[r].tok /\ sess'[r].extra = sess[r].extra
                 /\ sess'[r].needsRecovery)
  <1> DEFINE s == sess[r]
             t == [s EXCEPT !.tok = 0]
             u == [s EXCEPT !.needsRecovery = TRUE]
  <1>0. s \in SessionType
    BY DEF SessionTypeOK
  <1>1. /\ t \in SessionType /\ Keeps(t, s) /\ t.tok = 0 /\ t.extra = s.extra
        /\ t.needsRecovery = s.needsRecovery
    BY <1>0, TokenSet
  <1>2. /\ u \in SessionType /\ Keeps(u, s) /\ u.tok = s.tok /\ u.extra = s.extra
        /\ u.needsRecovery
    BY <1>0, RecoveryNeeded
  <1>3. /\ pc[r] = "token_rollback"
        /\ Transaction("token", TRUE, IncreaseToken(r, s.tok),
              Goto(r, "record_failure", t), Goto(r, "rollback_sync", u))
    BY DEF TokenRollback
  <1> HIDE DEF t, u
  <1>4. Goto(r, "record_failure", t) =>
                 /\ Moved(r) /\ pc'[r] = "record_failure" /\ Keeps(sess'[r], sess[r])
                 /\ sess'[r].tok = 0 /\ sess'[r].extra = sess[r].extra
                 /\ sess'[r].needsRecovery = sess[r].needsRecovery
    BY <1>1, GotoMoves, PlacesAre DEF Opened
  <1>5. Goto(r, "rollback_sync", u) =>
                 /\ Moved(r) /\ pc'[r] = "rollback_sync" /\ Keeps(sess'[r], sess[r])
                 /\ sess'[r].tok = sess[r].tok /\ sess'[r].extra = sess[r].extra
                 /\ sess'[r].needsRecovery
    BY <1>2, GotoMoves, PlacesAre DEF Opened
  <1> QED
    BY <1>3, <1>4, <1>5 DEF Transaction

LEMMA RollbackSyncMoves ==
    ASSUME SessionTypeOK, NEW r \in Requests, RollbackSync(r)
    PROVE  /\ pc[r] = "rollback_sync"
           /\ Moved(r) /\ pc'[r] = "record_failure" /\ sess'[r] = sess[r]
           /\ Transaction("recovery", UpdateAmountsOk(r),
                 UpdateAmounts(r, FALSE, 0, sess[r].extra,
                               IF sess[r].playground THEN 0 ELSE sess[r].tok), TRUE, TRUE)
  <1>0. sess[r] \in SessionType
    BY DEF SessionTypeOK
  <1>1. Goto(r, "record_failure", sess[r])
    BY DEF RollbackSync, Transaction
  <1>2. Moved(r) /\ pc'[r] = "record_failure" /\ sess'[r] = sess[r]
    BY <1>0, <1>1, GotoMoves, PlacesAre DEF Opened
  <1> QED
    BY <1>2 DEF RollbackSync, Transaction

LEMMA RecordFailureMoves ==
    ASSUME SessionTypeOK, NEW r \in Requests, sess[r].plan \in Preferences, RecordFailure(r)
    PROVE  /\ pc[r] = "record_failure" /\ Moved(r) /\ GaveUp(r, sess[r])
           /\ sess[r].needsRecovery =>
                 Transaction("recovery", MarkRefundPendingOk(r), MarkRefundPending(r), TRUE, TRUE)
           /\ ~sess[r].needsRecovery =>
                 Transaction("recovery", AbortPreparedOk(r), AbortPrepared(r), TRUE, TRUE)
  <1>0. sess[r] \in SessionType
    BY DEF SessionTypeOK
  <1>1. GiveUp(r, sess[r])
    BY DEF RecordFailure, Transaction
  <1>2. Moved(r) /\ GaveUp(r, sess[r])
    BY <1>0, <1>1, GiveUpMoves
  <1>3. CASE sess[r].needsRecovery
    BY <1>2, <1>3 DEF RecordFailure, Transaction
  <1>4. CASE ~sess[r].needsRecovery
    BY <1>2, <1>4 DEF RecordFailure, Transaction
  <1> QED
    BY <1>3, <1>4

LEMMA SyncMoves ==
    ASSUME SessionTypeOK, NEW r \in Requests, Sync(r)
    PROVE  /\ pc[r] = "sync" /\ Moved(r) /\ Same(sess'[r], sess[r])
           /\ Transaction("recovery", UpdateAmountsOk(r),
                 UpdateAmounts(r, sess[r].subId, sess[r].consumed, sess[r].extra,
                               IF sess[r].playground THEN 0 ELSE sess[r].tok),
                 pc'[r] = "live", pc'[r] = "sync_refund")
  <1> DEFINE s == sess[r]
             t == [s EXCEPT !.heartbeat = TRUE]
  <1>0. s \in SessionType
    BY DEF SessionTypeOK
  <1>1. t \in SessionType /\ Same(t, s)
    BY <1>0, FlagUpdates
  <1>2. /\ pc[r] = "sync"
        /\ Transaction("recovery", UpdateAmountsOk(r),
                 UpdateAmounts(r, s.subId, s.consumed, s.extra,
                               IF s.playground THEN 0 ELSE s.tok),
                 Goto(r, "live", t), Goto(r, "sync_refund", s))
    BY DEF Sync
  <1> HIDE DEF t
  <1>3. Goto(r, "live", t) => Moved(r) /\ Same(sess'[r], sess[r]) /\ pc'[r] = "live"
    BY <1>1, GotoMoves, PlacesAre
  <1>4. Goto(r, "sync_refund", s) =>
           Moved(r) /\ Same(sess'[r], sess[r]) /\ pc'[r] = "sync_refund"
    BY <1>0, GotoMoves, PlacesAre DEF Opened, Same
  <1> QED
    BY <1>2, <1>3, <1>4 DEF Transaction

LEMMA SyncRefundMoves ==
    ASSUME SessionTypeOK, NEW r \in Requests, SyncRefund(r)
    PROVE  /\ pc[r] = "sync_refund" /\ Moved(r) /\ Same(sess'[r], sess[r])
           /\ pc'[r] \in {"refund_mark", "ended"}
           /\ Transaction("recovery", MarkRefundPendingOk(r), MarkRefundPending(r), TRUE, TRUE)
  <1>0. sess[r] \in SessionType
    BY DEF SessionTypeOK
  <1>1. Fail(r, sess[r])
    BY DEF SyncRefund, Transaction
  <1>2. Moved(r) /\ pc'[r] \in {"refund_mark", "ended"} /\ Same(sess'[r], sess[r])
    BY <1>0, <1>1, FailMoves
  <1> QED
    BY <1>2 DEF SyncRefund, Transaction

LEMMA ReserveDeltaIsNat ==
    ASSUME DurableTypeOK, NEW r \in Requests, NEW q \in Quotas
    PROVE  ReserveDelta(r, q) \in Nat
  <1>1. row[r].funding \in Nat /\ row[r].extra \in Nat /\ q \in Nat
    BY RowFields, QuotasAreNaturals DEF DurableTypeOK
  <1> QED
    BY <1>1 DEF ReserveDelta, Reserved

LEMMA ReserveMoves ==
    ASSUME DurableTypeOK, SessionTypeOK, NEW r \in Requests, Reserve(r)
    PROVE  /\ pc[r] = "live"
           /\ \E target \in Quotas :
              \E d \in Nat :
                 /\ d = ReserveDelta(r, target) /\ target > sess[r].pre
                 /\ Transaction("recovery", ReserveOk(r, target, sess[r].unlimited),
                       ReserveBillingRecovery(r, target),
                       /\ Moved(r) /\ pc'[r] = "live" /\ Keeps(sess'[r], sess[r])
                       /\ sess'[r].pre = sess[r].pre + d,
                       /\ Moved(r) /\ pc'[r] \in {"refund_mark", "ended"}
                       /\ Same(sess'[r], sess[r]))
  <1> DEFINE s == sess[r]
  <1>0. s \in SessionType
    BY DEF SessionTypeOK
  <1>1. PICK target \in Quotas :
           /\ pc[r] = "live" /\ target > s.pre
           /\ Transaction("recovery", ReserveOk(r, target, s.unlimited),
                ReserveBillingRecovery(r, target),
                Goto(r, "live",
                     [s EXCEPT !.pre = @ + ReserveDelta(r, target),
                               !.tok = IF s.playground THEN @ ELSE @ + ReserveDelta(r, target),
                               !.consumed = IF Source(s) = "wallet"
                                            THEN @ + ReserveDelta(r, target) ELSE @,
                               !.extra = IF Source(s) = "wallet" THEN @
                                         ELSE @ + ReserveDelta(r, target)]),
                Fail(r, s))
    BY DEF Reserve
  <1> DEFINE d == ReserveDelta(r, target)
             k == IF s.playground THEN s.tok ELSE s.tok + d
             a == IF Source(s) = "wallet" THEN s.consumed + d ELSE s.consumed
             e == IF Source(s) = "wallet" THEN s.extra ELSE s.extra + d
             n == s.pre + d
             t == [s EXCEPT !.pre = n, !.tok = k, !.consumed = a, !.extra = e]
  <1>2. d \in Nat
    BY ReserveDeltaIsNat
  <1>3. Transaction("recovery", ReserveOk(r, target, s.unlimited),
                    ReserveBillingRecovery(r, target), Goto(r, "live", t), Fail(r, s))
    BY <1>1
  <1> HIDE DEF d
  <1>f. s.pre \in Nat /\ s.tok \in Nat /\ s.consumed \in Nat /\ s.extra \in Nat
    BY <1>0, SessionFields
  <1>4. n \in Nat /\ k \in Nat /\ a \in Nat /\ e \in Nat
    BY <1>f, <1>2
  <1> HIDE DEF k, a, e, n
  <1>5. t \in SessionType /\ Keeps(t, s) /\ t.pre = n
    BY <1>0, <1>4 DEF SessionType, Keeps
  <1> HIDE DEF t
  <1>6. Goto(r, "live", t) =>
           /\ Moved(r) /\ pc'[r] = "live" /\ Keeps(sess'[r], sess[r])
           /\ sess'[r].pre = sess[r].pre + d
    BY <1>5, GotoMoves, PlacesAre DEF n
  <1>7. Fail(r, s) =>
           /\ Moved(r) /\ pc'[r] \in {"refund_mark", "ended"} /\ Same(sess'[r], sess[r])
    BY <1>0, FailMoves
  <1>8. Transaction("recovery", ReserveOk(r, target, sess[r].unlimited),
                       ReserveBillingRecovery(r, target),
                       /\ Moved(r) /\ pc'[r] = "live" /\ Keeps(sess'[r], sess[r])
                       /\ sess'[r].pre = sess[r].pre + d,
                       /\ Moved(r) /\ pc'[r] \in {"refund_mark", "ended"}
                       /\ Same(sess'[r], sess[r]))
    BY <1>3, <1>6, <1>7 DEF Transaction
  <1> QED
    BY <1>1, <1>2, <1>8 DEF d

LEMMA AbandonMoves ==
    ASSUME SessionTypeOK, NEW r \in Requests, Abandon(r)
    PROVE  /\ pc[r] = "live" /\ Moved(r) /\ Same(sess'[r], sess[r])
           /\ pc'[r] \in {"refund_mark", "ended"} /\ UNCHANGED durableVars
  <1>0. sess[r] \in SessionType
    BY DEF SessionTypeOK
  <1> QED
    BY <1>0, FailMoves DEF Abandon

LEMMA StartSettleMoves ==
    ASSUME SessionTypeOK, NEW r \in Requests, StartSettle(r)
    PROVE  /\ pc[r] = "live" /\ Moved(r) /\ pc'[r] = "settle_update"
           /\ Keeps(sess'[r], sess[r]) /\ sess'[r].pre = sess[r].pre
           /\ Delta(sess'[r]) \in Deltas /\ UNCHANGED durableVars
  <1> DEFINE s == sess[r]
  <1>0. s \in SessionType
    BY DEF SessionTypeOK
  <1>1. PICK a \in Actuals : /\ a - s.pre \in Deltas
                             /\ Goto(r, "settle_update", [s EXCEPT !.actual = a, !.attempt = 1])
    BY DEF StartSettle
  <1> DEFINE t == [s EXCEPT !.actual = a, !.attempt = 1]
  <1>2. a \in Nat
    BY BoundsAreNaturals
  <1>3. t \in SessionType /\ Keeps(t, s) /\ t.pre = s.pre /\ t.actual = a
    BY <1>0, <1>2, ActualSet
  <1>4. Goto(r, "settle_update", t)
    BY <1>1
  <1> HIDE DEF t
  <1>5. Moved(r) /\ pc'[r] = "settle_update" /\ sess'[r] = t
    BY <1>3, <1>4, GotoMoves, PlacesAre DEF Settling
  <1> QED
    BY <1>1, <1>3, <1>5 DEF StartSettle, Delta

LEMMA SettleUpdateMoves ==
    ASSUME SessionTypeOK, NEW r \in Requests, SettleUpdate(r)
    PROVE  /\ pc[r] = "settle_update" /\ Moved(r) /\ Same(sess'[r], sess[r])
           /\ Transaction("recovery", UpdateSettlementOk(r),
                 UpdateSettlement(r, Delta(sess[r])),
                 pc'[r] \in {"settle_funding", "settle_token"},
                 pc'[r] \in {"settle_update", "refund_mark", "ended"})
  <1> DEFINE s == sess[r]
             p == IF Delta(s) # 0 /\ s.fundingSettled THEN "settle_token" ELSE "settle_funding"
  <1>0. s \in SessionType
    BY DEF SessionTypeOK
  <1>1. p \in {"settle_funding", "settle_token"}
    OBVIOUS
  <1>2. /\ pc[r] = "settle_update"
        /\ Transaction("recovery", UpdateSettlementOk(r), UpdateSettlement(r, Delta(s)),
                       Goto(r, p, s), SettleError(r, s))
    BY DEF SettleUpdate
  <1> HIDE DEF p
  <1>3. Goto(r, p, s) => /\ Moved(r) /\ Same(sess'[r], sess[r])
                         /\ pc'[r] \in {"settle_funding", "settle_token"}
    BY <1>0, <1>1, GotoMoves, PlacesAre DEF Settling, Same
  <1>4. SettleError(r, s) => /\ Moved(r) /\ Same(sess'[r], sess[r])
                             /\ pc'[r] \in {"settle_update", "refund_mark", "ended"}
    BY <1>0, SettleErrorMoves
  <1> QED
    BY <1>2, <1>3, <1>4 DEF Transaction

LEMMA SettleFundingMoves ==
    ASSUME SessionTypeOK, NEW r \in Requests, SettleFunding(r)
    PROVE  /\ pc[r] = "settle_funding" /\ Moved(r) /\ Same(sess'[r], sess[r])
           /\ Transaction("recovery", ApplyAdjustmentOk(r, FundingSettle),
                 ApplyAdjustment(r, FundingSettle), pc'[r] = "settle_token",
                 pc'[r] \in {"settle_update", "refund_mark", "ended"})
  <1> DEFINE s == sess[r]
             b == s.fundingSettled \/ Delta(s) # 0
             t == [s EXCEPT !.fundingSettled = b]
  <1>0. s \in SessionType /\ b \in BOOLEAN
    BY SessionFields DEF SessionTypeOK
  <1>1. t \in SessionType /\ Same(t, s)
    BY <1>0, FlagUpdates
  <1>2. /\ pc[r] = "settle_funding"
        /\ Transaction("recovery", ApplyAdjustmentOk(r, FundingSettle),
                       ApplyAdjustment(r, FundingSettle),
                       Goto(r, "settle_token", t), SettleError(r, s))
    BY DEF SettleFunding, FundingSettle
  <1> HIDE DEF t
  <1>3. Goto(r, "settle_token", t) =>
           Moved(r) /\ Same(sess'[r], sess[r]) /\ pc'[r] = "settle_token"
    BY <1>1, GotoMoves, PlacesAre DEF Settling
  <1>4. SettleError(r, s) => /\ Moved(r) /\ Same(sess'[r], sess[r])
                             /\ pc'[r] \in {"settle_update", "refund_mark", "ended"}
    BY <1>0, SettleErrorMoves
  <1> QED
    BY <1>2, <1>3, <1>4 DEF Transaction

LEMMA SettleTokenMoves ==
    ASSUME SessionTypeOK, NEW r \in Requests, SettleToken(r)
    PROVE  /\ pc[r] = "settle_token" /\ Moved(r) /\ Same(sess'[r], sess[r])
           /\ pc'[r] \in {"settle_mark", "settle_update", "refund_mark", "ended"}
           /\ Transaction("recovery", ApplyAdjustmentOk(r, TokenSettle),
                 ApplyAdjustment(r, TokenSettle), TRUE, TRUE)
  <1>0. sess[r] \in SessionType
    BY DEF SessionTypeOK
  <1>1. Goto(r, "settle_mark", sess[r]) \/ SettleError(r, sess[r])
    BY DEF SettleToken, Transaction
  <1>2. /\ Moved(r) /\ Same(sess'[r], sess[r])
        /\ pc'[r] \in {"settle_mark", "settle_update", "refund_mark", "ended"}
    <2>1. CASE Goto(r, "settle_mark", sess[r])
      BY <1>0, <2>1, GotoMoves, PlacesAre DEF Settling, Same
    <2>2. CASE SettleError(r, sess[r])
      BY <1>0, <2>2, SettleErrorMoves
    <2> QED
      BY <1>1, <2>1, <2>2
  <1> QED
    BY <1>2 DEF SettleToken, Transaction, TokenSettle

LEMMA SettleMarkMoves ==
    ASSUME SessionTypeOK, NEW r \in Requests, SettleMark(r)
    PROVE  /\ pc[r] = "settle_mark" /\ Moved(r)
           /\ sess'[r].plan = sess[r].plan /\ sess'[r].playground = sess[r].playground
           /\ sess'[r].pre = sess[r].pre /\ sess'[r].actual = sess[r].actual
           /\ sess'[r].refunded = sess[r].refunded /\ sess'[r].refundErr = sess[r].refundErr
           /\ sess'[r].extra = sess[r].extra
           /\ Transaction("recovery", MarkSettledOk(r), MarkSettled(r),
                 pc'[r] = "ended",
                 /\ pc'[r] \in {"settle_update", "refund_mark", "ended"}
                 /\ Same(sess'[r], sess[r]))
  <1> DEFINE s == sess[r]
             t == [s EXCEPT !.settled = TRUE, !.heartbeat = FALSE]
  <1>0. s \in SessionType
    BY DEF SessionTypeOK
  <1>1. /\ t \in SessionType /\ t.plan = s.plan /\ t.playground = s.playground
        /\ t.pre = s.pre /\ t.actual = s.actual /\ t.refunded = s.refunded
        /\ t.refundErr = s.refundErr /\ t.extra = s.extra
    BY <1>0, ClosingUpdates
  <1>2. /\ pc[r] = "settle_mark"
        /\ Transaction("recovery", MarkSettledOk(r), MarkSettled(r),
                       Goto(r, "ended", t), SettleError(r, s))
    BY DEF SettleMark
  <1> HIDE DEF t
  <1>3. Goto(r, "ended", t) =>
           /\ Moved(r) /\ pc'[r] = "ended"
           /\ sess'[r].plan = sess[r].plan /\ sess'[r].playground = sess[r].playground
           /\ sess'[r].pre = sess[r].pre /\ sess'[r].actual = sess[r].actual
           /\ sess'[r].refunded = sess[r].refunded /\ sess'[r].refundErr = sess[r].refundErr
           /\ sess'[r].extra = sess[r].extra
    BY <1>1, GotoMoves, PlacesAre
  <1>4. SettleError(r, s) => /\ Moved(r) /\ Same(sess'[r], sess[r])
                             /\ pc'[r] \in {"settle_update", "refund_mark", "ended"}
    BY <1>0, SettleErrorMoves
  <1>5. Same(sess'[r], sess[r]) =>
           /\ sess'[r].plan = sess[r].plan /\ sess'[r].playground = sess[r].playground
           /\ sess'[r].pre = sess[r].pre /\ sess'[r].actual = sess[r].actual
           /\ sess'[r].refunded = sess[r].refunded /\ sess'[r].refundErr = sess[r].refundErr
           /\ sess'[r].extra = sess[r].extra
    BY DEF Same
  <1> QED
    BY <1>2, <1>3, <1>4, <1>5 DEF Transaction

\* A session that gives back keeps its reservation and remembers errors.
GoesOn(t, s) ==
    /\ Keeps(t, s) /\ t.pre = s.pre /\ t.actual = s.actual

LEMMA RefundErrUpdate ==
    ASSUME NEW s \in SessionType, NEW b \in BOOLEAN
    PROVE  LET t == [s EXCEPT !.refundErr = b] IN
           t \in SessionType /\ GoesOn(t, s) /\ t.refundErr = b
  BY RefundErrSet DEF GoesOn

LEMMA SameGoesOn ==
    ASSUME NEW s, NEW t, Same(t, s)
    PROVE  GoesOn(t, s) /\ t.refundErr = s.refundErr
  BY DEF Same, GoesOn, Keeps

LEMMA RefundMarkMoves ==
    ASSUME SessionTypeOK, NEW r \in Requests, RefundMark(r)
    PROVE  /\ pc[r] = "refund_mark" /\ Moved(r) /\ GoesOn(sess'[r], sess[r])
           /\ pc'[r] = "refund_funding"
           /\ Transaction("recovery", MarkRefundPendingOk(r), MarkRefundPending(r),
                 TRUE, sess'[r].refundErr)
  <1> DEFINE s == sess[r]
             t == [s EXCEPT !.refundErr = FALSE]
             u == [s EXCEPT !.refundErr = TRUE]
  <1>0. s \in SessionType
    BY DEF SessionTypeOK
  <1>1. /\ t \in SessionType /\ GoesOn(t, s)
        /\ u \in SessionType /\ GoesOn(u, s) /\ u.refundErr
    BY <1>0, RefundErrUpdate
  <1>2. /\ pc[r] = "refund_mark"
        /\ Transaction("recovery", MarkRefundPendingOk(r), MarkRefundPending(r),
                       Goto(r, "refund_funding", t), Goto(r, "refund_funding", u))
    BY DEF RefundMark
  <1> HIDE DEF t, u
  <1>3. Goto(r, "refund_funding", t) =>
           Moved(r) /\ GoesOn(sess'[r], sess[r]) /\ pc'[r] = "refund_funding"
    BY <1>1, GotoMoves, PlacesAre DEF GivingBack
  <1>4. Goto(r, "refund_funding", u) =>
           /\ Moved(r) /\ GoesOn(sess'[r], sess[r]) /\ pc'[r] = "refund_funding"
           /\ sess'[r].refundErr
    BY <1>1, GotoMoves, PlacesAre DEF GivingBack
  <1> QED
    BY <1>2, <1>3, <1>4 DEF Transaction

\* One component of a refund: skipped, applied, or failed and remembered.
Refunds(r, e) ==
    \/ UNCHANGED <<durableVars, faults>> /\ sess'[r].refundErr = sess[r].refundErr
    \/ /\ ~sess[r].refundErr
       /\ Transaction("recovery", ApplyAdjustmentOk(r, e), ApplyAdjustment(r, e),
                      TRUE, sess'[r].refundErr)

\* Such a component leaves the session at the next place.
LEMMA ComponentMoves ==
    ASSUME SessionTypeOK, NEW r \in Requests, NEW p \in Places, NEW t \in SessionType,
           Same(t, sess[r])
    PROVE  /\ Goto(r, p, t) => /\ Moved(r) /\ GoesOn(sess'[r], sess[r]) /\ pc'[r] = p
                               /\ sess'[r].refundErr = sess[r].refundErr
           /\ Goto(r, p, [sess[r] EXCEPT !.refundErr = TRUE]) =>
                 /\ Moved(r) /\ GoesOn(sess'[r], sess[r]) /\ pc'[r] = p /\ sess'[r].refundErr
  <1> DEFINE u == [sess[r] EXCEPT !.refundErr = TRUE]
  <1>1. sess[r] \in SessionType
    BY DEF SessionTypeOK
  <1>2. u \in SessionType /\ GoesOn(u, sess[r]) /\ u.refundErr
    BY <1>1, RefundErrUpdate
  <1> HIDE DEF u
  <1>3. Goto(r, p, u) => Moved(r) /\ GoesOn(sess'[r], sess[r]) /\ pc'[r] = p /\ sess'[r].refundErr
    BY <1>2, GotoMoves
  <1>4. Goto(r, p, t) => Moved(r) /\ sess'[r] = t /\ pc'[r] = p
    BY GotoMoves
  <1> QED
    BY <1>3, <1>4, SameGoesOn DEF u

LEMMA RefundFundingMoves ==
    ASSUME SessionTypeOK, NEW r \in Requests, RefundFunding(r)
    PROVE  /\ pc[r] = "refund_funding" /\ Moved(r) /\ GoesOn(sess'[r], sess[r])
           /\ pc'[r] = "refund_extra" /\ Refunds(r, FundingRefund)
  <1> DEFINE s == sess[r]
             t == [s EXCEPT !.fundingRefunded = TRUE]
             u == [s EXCEPT !.refundErr = TRUE]
  <1>0. s \in SessionType /\ s.refundErr \in BOOLEAN /\ Same(s, s)
    BY SessionFields DEF SessionTypeOK, Same
  <1>1. t \in SessionType /\ Same(t, s)
    BY <1>0, FlagUpdates
  <1>2. /\ pc[r] = "refund_funding"
        /\ \/ Goto(r, "refund_extra", s) /\ UNCHANGED <<durableVars, faults>>
           \/ Goto(r, "refund_extra", t) /\ UNCHANGED <<durableVars, faults>>
           \/ /\ ~s.refundErr
              /\ Transaction("recovery", ApplyAdjustmentOk(r, FundingRefund),
                       ApplyAdjustment(r, FundingRefund),
                       Goto(r, "refund_extra", t), Goto(r, "refund_extra", u))
    BY <1>0 DEF RefundFunding, FundingRefund
  <1> HIDE DEF t
  <1>3. "refund_extra" \in Places
    BY PlacesAre DEF GivingBack
  <1>4. /\ Goto(r, "refund_extra", s) =>
              /\ Moved(r) /\ GoesOn(sess'[r], sess[r]) /\ pc'[r] = "refund_extra"
              /\ sess'[r].refundErr = sess[r].refundErr
        /\ Goto(r, "refund_extra", t) =>
              /\ Moved(r) /\ GoesOn(sess'[r], sess[r]) /\ pc'[r] = "refund_extra"
              /\ sess'[r].refundErr = sess[r].refundErr
        /\ Goto(r, "refund_extra", u) =>
              /\ Moved(r) /\ GoesOn(sess'[r], sess[r]) /\ pc'[r] = "refund_extra"
              /\ sess'[r].refundErr
    BY <1>0, <1>1, <1>3, ComponentMoves
  <1> HIDE DEF u
  <1> QED
    BY <1>2, <1>4 DEF Transaction, Refunds

LEMMA RefundExtraMoves ==
    ASSUME SessionTypeOK, NEW r \in Requests, RefundExtra(r)
    PROVE  /\ pc[r] = "refund_extra" /\ Moved(r) /\ GoesOn(sess'[r], sess[r])
           /\ pc'[r] = "refund_token" /\ Refunds(r, ExtraRefund)
  <1> DEFINE s == sess[r]
             t == [s EXCEPT !.extraRefunded = TRUE]
             u == [s EXCEPT !.refundErr = TRUE]
  <1>0. s \in SessionType /\ Same(s, s)
    BY DEF SessionTypeOK, Same
  <1>1. t \in SessionType /\ Same(t, s)
    BY <1>0, FlagUpdates
  <1>2. /\ pc[r] = "refund_extra"
        /\ \/ Goto(r, "refund_token", s) /\ UNCHANGED <<durableVars, faults>>
           \/ /\ ~s.refundErr
              /\ Transaction("recovery", ApplyAdjustmentOk(r, ExtraRefund),
                       ApplyAdjustment(r, ExtraRefund),
                       Goto(r, "refund_token", t), Goto(r, "refund_token", u))
    BY DEF RefundExtra, ExtraRefund
  <1> HIDE DEF t
  <1>3. "refund_token" \in Places
    BY PlacesAre DEF GivingBack
  <1>4. /\ Goto(r, "refund_token", s) =>
              /\ Moved(r) /\ GoesOn(sess'[r], sess[r]) /\ pc'[r] = "refund_token"
              /\ sess'[r].refundErr = sess[r].refundErr
        /\ Goto(r, "refund_token", t) =>
              /\ Moved(r) /\ GoesOn(sess'[r], sess[r]) /\ pc'[r] = "refund_token"
              /\ sess'[r].refundErr = sess[r].refundErr
        /\ Goto(r, "refund_token", u) =>
              /\ Moved(r) /\ GoesOn(sess'[r], sess[r]) /\ pc'[r] = "refund_token"
              /\ sess'[r].refundErr
    BY <1>0, <1>1, <1>3, ComponentMoves
  <1> HIDE DEF u
  <1> QED
    BY <1>2, <1>4 DEF Transaction, Refunds

LEMMA RefundTokenMoves ==
    ASSUME SessionTypeOK, NEW r \in Requests, RefundToken(r)
    PROVE  /\ pc[r] = "refund_token" /\ Moved(r) /\ GoesOn(sess'[r], sess[r])
           /\ pc'[r] = "refund_finish" /\ Refunds(r, TokenRefund)
  <1> DEFINE s == sess[r]
             b == s.tokenRefunded \/ s.playground \/ s.tok <= 0
             t == [s EXCEPT !.tokenRefunded = TRUE]
             v == [s EXCEPT !.tokenRefunded = b]
             u == [s EXCEPT !.refundErr = TRUE]
  <1>0. s \in SessionType /\ b \in BOOLEAN
    BY SessionFields DEF SessionTypeOK
  <1>1. t \in SessionType /\ Same(t, s) /\ v \in SessionType /\ Same(v, s)
    BY <1>0, FlagUpdates
  <1>2. /\ pc[r] = "refund_token"
        /\ \/ Goto(r, "refund_finish", v) /\ UNCHANGED <<durableVars, faults>>
           \/ /\ ~s.refundErr
              /\ Transaction("recovery", ApplyAdjustmentOk(r, TokenRefund),
                       ApplyAdjustment(r, TokenRefund),
                       Goto(r, "refund_finish", t), Goto(r, "refund_finish", u))
    BY DEF RefundToken, TokenRefund
  <1> HIDE DEF t, v
  <1>3. "refund_finish" \in Places
    BY PlacesAre DEF GivingBack
  <1>4. /\ Goto(r, "refund_finish", v) =>
              /\ Moved(r) /\ GoesOn(sess'[r], sess[r]) /\ pc'[r] = "refund_finish"
              /\ sess'[r].refundErr = sess[r].refundErr
        /\ Goto(r, "refund_finish", t) =>
              /\ Moved(r) /\ GoesOn(sess'[r], sess[r]) /\ pc'[r] = "refund_finish"
              /\ sess'[r].refundErr = sess[r].refundErr
        /\ Goto(r, "refund_finish", u) =>
              /\ Moved(r) /\ GoesOn(sess'[r], sess[r]) /\ pc'[r] = "refund_finish"
              /\ sess'[r].refundErr
    BY <1>1, <1>3, ComponentMoves
  <1> HIDE DEF u
  <1> QED
    BY <1>2, <1>4 DEF Transaction, Refunds

LEMMA RefundFinishMoves ==
    ASSUME SessionTypeOK, NEW r \in Requests, RefundFinish(r)
    PROVE  /\ pc[r] = "refund_finish" /\ Moved(r) /\ pc'[r] = "ended"
           /\ sess'[r].plan = sess[r].plan /\ sess'[r].playground = sess[r].playground
           /\ sess'[r].pre = sess[r].pre /\ sess'[r].actual = sess[r].actual
           /\ sess'[r].settled = sess[r].settled
           /\ \/ UNCHANGED <<durableVars, faults>> /\ sess'[r] = sess[r]
              \/ Transaction("recovery", MarkRefundedOk(r), MarkRefunded(r),
                             TRUE, sess'[r].refundErr)
  <1> DEFINE s == sess[r]
             t == [s EXCEPT !.refunded = TRUE]
             u == [t EXCEPT !.refundErr = TRUE]
  <1>0. s \in SessionType
    BY DEF SessionTypeOK
  <1>1. /\ t \in SessionType /\ t.plan = s.plan /\ t.playground = s.playground
        /\ t.pre = s.pre /\ t.actual = s.actual /\ t.settled = s.settled
    BY <1>0, ClosingUpdates
  <1>2. /\ pc[r] = "refund_finish"
        /\ \/ Goto(r, "ended", s) /\ UNCHANGED <<durableVars, faults>>
           \/ Transaction("recovery", MarkRefundedOk(r), MarkRefunded(r),
                          Goto(r, "ended", t), Goto(r, "ended", u))
    BY DEF RefundFinish
  <1> HIDE DEF t
  <1>3. u \in SessionType /\ GoesOn(u, t) /\ u.refundErr
    BY <1>1, RefundErrUpdate
  <1> HIDE DEF u
  <1>4. Goto(r, "ended", s) => Moved(r) /\ pc'[r] = "ended" /\ sess'[r] = s
    BY <1>0, GotoMoves, PlacesAre
  <1>5. Goto(r, "ended", t) => Moved(r) /\ pc'[r] = "ended" /\ sess'[r] = t
    BY <1>1, GotoMoves, PlacesAre
  <1>6. Goto(r, "ended", u) => Moved(r) /\ pc'[r] = "ended" /\ sess'[r] = u
    BY <1>3, GotoMoves, PlacesAre
  <1>7. /\ u.plan = s.plan /\ u.playground = s.playground
        /\ u.pre = s.pre /\ u.actual = s.actual /\ u.settled = s.settled
    BY <1>1, <1>3 DEF GoesOn, Keeps
  <1> QED
    BY <1>1, <1>2, <1>3, <1>4, <1>5, <1>6, <1>7 DEF Transaction

-----------------------------------------------------------------------------
(* Recovery passes *)

WorkerType == [pc : WorkerPlaces, req : Requests] \cup {Idle}

LEMMA WorkerFields ==
    ASSUME SessionTypeOK, NEW w \in Workers
    PROVE  /\ worker[w] \in WorkerType
           /\ worker[w].pc # "idle" => /\ worker[w] \in [pc : WorkerPlaces, req : Requests]
                                       /\ worker[w].req \in Requests
  <1>1. worker[w] \in WorkerType
    BY DEF SessionTypeOK, WorkerType
  <1> QED
    BY <1>1 DEF WorkerType, Idle

\* One pass moves; the others stand still.
WorkerMoved(w) ==
    /\ worker' \in [Workers -> WorkerType]
    /\ \A v \in Workers \ {w} : worker'[v] = worker[v]

\* The pass stops, or goes on with its row at one of the places ps.
Proceeds(w, ps) ==
    /\ WorkerMoved(w)
    /\ \/ worker'[w].pc = "idle"
       \/ worker'[w].pc \in ps /\ worker'[w].req = worker[w].req

LEMMA WorkerGotoMoves ==
    ASSUME SessionTypeOK, NEW w \in Workers, worker[w].pc # "idle", NEW p \in WorkerPlaces
    PROVE  /\ WorkerGoto(w, p) => Proceeds(w, {p})
           /\ WorkerStop(w) => Proceeds(w, {})
  <1>0. worker \in [Workers -> WorkerType] /\ worker[w] \in [pc : WorkerPlaces, req : Requests]
    BY WorkerFields DEF SessionTypeOK, WorkerType
  <1> DEFINE u == [worker[w] EXCEPT !.pc = p]
  <1>1. u \in WorkerType /\ u.pc = p /\ u.req = worker[w].req
    BY <1>0 DEF WorkerType
  <1>2. WorkerGoto(w, p) => worker' = [worker EXCEPT ![w] = u]
    BY DEF WorkerGoto
  <1> HIDE DEF u
  <1>3. WorkerGoto(w, p) => Proceeds(w, {p})
    BY <1>0, <1>1, <1>2 DEF Proceeds, WorkerMoved
  <1>4. Idle \in WorkerType /\ Idle.pc = "idle"
    BY DEF WorkerType, Idle
  <1>5. WorkerStop(w) => Proceeds(w, {})
    BY <1>0, <1>4 DEF WorkerStop, Proceeds, WorkerMoved
  <1> QED
    BY <1>3, <1>5

LEMMA ProceedsMore ==
    ASSUME NEW w \in Workers, NEW S, NEW T, S \subseteq T, Proceeds(w, S)
    PROVE  Proceeds(w, T)
  BY DEF Proceeds

LEMMA PickMoves ==
    ASSUME SessionTypeOK, NEW w \in Workers, Pick(w)
    PROVE  /\ UNCHANGED durableVars /\ WorkerMoved(w)
           /\ \E r \in Requests : Recoverable(r) /\ worker'[w].pc = "load" /\ worker'[w].req = r
  <1>1. PICK r \in Requests :
           Recoverable(r) /\ worker' = [worker EXCEPT ![w] = [pc |-> "load", req |-> r]]
    BY DEF Pick
  <1> DEFINE u == [pc |-> "load", req |-> r]
  <1>2. u \in WorkerType /\ u.pc = "load" /\ u.req = r
    BY DEF WorkerType, WorkerPlaces
  <1>3. worker' = [worker EXCEPT ![w] = u] /\ worker \in [Workers -> WorkerType]
    BY <1>1 DEF SessionTypeOK, WorkerType
  <1> HIDE DEF u
  <1>4. WorkerMoved(w) /\ worker'[w] = u
    BY <1>2, <1>3 DEF WorkerMoved
  <1> QED
    BY <1>1, <1>2, <1>4 DEF Pick

LEMMA WorkerPlacesAre ==
    /\ GivingBack \subseteq WorkerPlaces
    /\ {"load", "settle_funding", "settle_token", "settle_mark", "refund_mark"}
          \subseteq WorkerPlaces
    /\ "idle" \notin WorkerPlaces
  BY DEF WorkerPlaces, GivingBack

LEMMA LoadMoves ==
    ASSUME SessionTypeOK, NEW w \in Workers, Load(w)
    PROVE  /\ worker[w].pc = "load" /\ UNCHANGED durableVars
           /\ Proceeds(w, {"settle_funding", "refund_mark"})
  <1>1. worker[w].pc = "load" /\ UNCHANGED durableVars
    BY DEF Load
  <1>2. WorkerGoto(w, "settle_funding") \/ WorkerGoto(w, "refund_mark") \/ WorkerStop(w)
    BY DEF Load
  <1>3. Proceeds(w, {"settle_funding"}) \/ Proceeds(w, {"refund_mark"}) \/ Proceeds(w, {})
    BY <1>1, <1>2, WorkerGotoMoves, WorkerPlacesAre
  <1> QED
    BY <1>1, <1>3 DEF Proceeds

LEMMA WorkerApplyMoves ==
    ASSUME SessionTypeOK, NEW w \in Workers, NEW from \in WorkerPlaces, NEW e, NEW needed,
           NEW to \in WorkerPlaces, WorkerApply(w, from, e, needed, to)
    PROVE  /\ worker[w].pc = from /\ Proceeds(w, {to})
           /\ \/ UNCHANGED durableVars
              \/ ApplyAdjustmentOk(worker[w].req, e) /\ ApplyAdjustment(worker[w].req, e)
  <1>1. worker[w].pc = from /\ worker[w].pc # "idle"
    BY WorkerPlacesAre DEF WorkerApply
  <1>2. WorkerGoto(w, to) \/ WorkerStop(w)
    BY DEF WorkerApply, Transaction
  <1>3. Proceeds(w, {to}) \/ Proceeds(w, {})
    BY <1>1, <1>2, WorkerGotoMoves
  <1>4. Proceeds(w, {to})
    BY <1>3, ProceedsMore
  <1>5. \/ UNCHANGED durableVars
        \/ ApplyAdjustmentOk(worker[w].req, e) /\ ApplyAdjustment(worker[w].req, e)
    BY DEF WorkerApply, Transaction
  <1> QED
    BY <1>1, <1>4, <1>5

\* What a recovery pass may do to the row in its hands.
LEMMA WorkerSettleMoves ==
    ASSUME SessionTypeOK, NEW w \in Workers, WorkerSettle(w), NEW r, r = worker[w].req
    PROVE  /\ r \in Requests /\ worker[w].pc # "idle" /\ Proceeds(w, {"settle_token", "settle_mark"})
           /\ \/ UNCHANGED durableVars
              \/ \E e \in {FundingSettle, TokenSettle} :
                    ApplyAdjustmentOk(r, e) /\ ApplyAdjustment(r, e)
              \/ MarkSettledOk(r) /\ MarkSettled(r)
  <1>1. CASE WorkerApply(w, "settle_funding", FundingSettle, TRUE, "settle_token")
    <2>1. /\ worker[w].pc = "settle_funding" /\ Proceeds(w, {"settle_token"})
          /\ \/ UNCHANGED durableVars
             \/ ApplyAdjustmentOk(r, FundingSettle) /\ ApplyAdjustment(r, FundingSettle)
      BY <1>1, WorkerApplyMoves, WorkerPlacesAre
    <2> QED
      BY <2>1, WorkerFields, ProceedsMore
  <1>2. CASE WorkerApply(w, "settle_token", TokenSettle, TRUE, "settle_mark")
    <2>1. /\ worker[w].pc = "settle_token" /\ Proceeds(w, {"settle_mark"})
          /\ \/ UNCHANGED durableVars
             \/ ApplyAdjustmentOk(r, TokenSettle) /\ ApplyAdjustment(r, TokenSettle)
      BY <1>2, WorkerApplyMoves, WorkerPlacesAre
    <2> QED
      BY <2>1, WorkerFields, ProceedsMore
  <1>3. CASE /\ worker[w].pc = "settle_mark"
             /\ Transaction("recovery", SettlementComplete(r) /\ MarkSettledOk(r),
                            MarkSettled(r), WorkerStop(w), WorkerStop(w))
    <2>1. /\ WorkerStop(w)
          /\ UNCHANGED durableVars \/ (MarkSettledOk(r) /\ MarkSettled(r))
      BY <1>3 DEF Transaction
    <2>2. Proceeds(w, {})
      BY <1>3, <2>1, WorkerGotoMoves, WorkerPlacesAre
    <2> QED
      BY <1>3, <2>1, <2>2, WorkerFields, ProceedsMore
  <1> QED
    BY <1>1, <1>2, <1>3 DEF WorkerSettle, FundingSettle, TokenSettle

LEMMA WorkerRefundMoves ==
    ASSUME SessionTypeOK, NEW w \in Workers, WorkerRefund(w), NEW r, r = worker[w].req
    PROVE  /\ r \in Requests /\ worker[w].pc # "idle"
           /\ \/ /\ Proceeds(w, {}) /\ UNCHANGED durableVars
              \/ /\ Proceeds(w, {"refund_funding"})
                 /\ MarkRefundPendingOk(r) /\ MarkRefundPending(r)
              \/ /\ worker[w].pc \in GivingBack /\ Proceeds(w, GivingBack)
                 /\ \/ UNCHANGED durableVars
                    \/ \E e \in {FundingRefund, ExtraRefund, TokenRefund} :
                          ApplyAdjustmentOk(r, e) /\ ApplyAdjustment(r, e)
                    \/ MarkRefundedOk(r) /\ MarkRefunded(r)
  <1>0. /\ {"refund_funding", "refund_extra", "refund_token", "refund_finish"} \subseteq GivingBack
        /\ GivingBack \subseteq WorkerPlaces /\ "idle" \notin WorkerPlaces
    BY WorkerPlacesAre DEF GivingBack
  <1>1. CASE /\ worker[w].pc = "refund_mark"
             /\ Transaction("recovery", MarkRefundPendingOk(r), MarkRefundPending(r),
                      WorkerGoto(w, "refund_funding"), WorkerStop(w))
    <2>1. /\ WorkerGoto(w, "refund_funding") => Proceeds(w, {"refund_funding"})
          /\ WorkerStop(w) => Proceeds(w, {})
      BY <1>0, <1>1, WorkerGotoMoves
    <2>2. Proceeds(w, {}) => Proceeds(w, {"refund_funding"})
      BY ProceedsMore
    <2> QED
      BY <1>1, <2>1, <2>2, WorkerFields DEF Transaction
  <1>2. ASSUME NEW from \in GivingBack, NEW to \in GivingBack, NEW needed,
               NEW e \in {FundingRefund, ExtraRefund, TokenRefund},
               WorkerApply(w, from, e, needed, to)
        PROVE  /\ r \in Requests /\ worker[w].pc # "idle"
               /\ worker[w].pc \in GivingBack /\ Proceeds(w, GivingBack)
               /\ \/ UNCHANGED durableVars
                  \/ ApplyAdjustmentOk(r, e) /\ ApplyAdjustment(r, e)
    <2>1. /\ worker[w].pc = from /\ Proceeds(w, {to})
          /\ \/ UNCHANGED durableVars
             \/ ApplyAdjustmentOk(r, e) /\ ApplyAdjustment(r, e)
      BY <1>0, <1>2, WorkerApplyMoves
    <2> QED
      BY <1>0, <2>1, WorkerFields, ProceedsMore
  <1>3. CASE /\ worker[w].pc = "refund_finish"
             /\ Transaction("recovery", RefundComplete(r) /\ MarkRefundedOk(r),
                            MarkRefunded(r), WorkerStop(w), WorkerStop(w))
    <2>1. /\ WorkerStop(w)
          /\ UNCHANGED durableVars \/ (MarkRefundedOk(r) /\ MarkRefunded(r))
      BY <1>3 DEF Transaction
    <2>2. Proceeds(w, {})
      BY <1>3, <2>1, WorkerGotoMoves, WorkerPlacesAre
    <2> QED
      BY <1>0, <1>3, <2>1, <2>2, WorkerFields, ProceedsMore
  <1>4. \/ /\ worker[w].pc = "refund_mark"
           /\ Transaction("recovery", MarkRefundPendingOk(r), MarkRefundPending(r),
                      WorkerGoto(w, "refund_funding"), WorkerStop(w))
        \/ WorkerApply(w, "refund_funding", FundingRefund, TRUE, "refund_extra")
        \/ WorkerApply(w, "refund_extra", ExtraRefund, row[r].extra > 0, "refund_token")
        \/ WorkerApply(w, "refund_token", TokenRefund, row[r].token > 0, "refund_finish")
        \/ /\ worker[w].pc = "refund_finish"
           /\ Transaction("recovery", RefundComplete(r) /\ MarkRefundedOk(r), MarkRefunded(r),
                      WorkerStop(w), WorkerStop(w))
    BY DEF WorkerRefund, FundingRefund, ExtraRefund, TokenRefund
  <1>5. CASE WorkerApply(w, "refund_funding", FundingRefund, TRUE, "refund_extra")
    BY <1>0, <1>2, <1>5
  <1>6. CASE WorkerApply(w, "refund_extra", ExtraRefund, row[r].extra > 0, "refund_token")
    BY <1>0, <1>2, <1>6
  <1>7. CASE WorkerApply(w, "refund_token", TokenRefund, row[r].token > 0, "refund_finish")
    BY <1>0, <1>2, <1>7
  <1> QED
    BY <1>1, <1>3, <1>4, <1>5, <1>6, <1>7

-----------------------------------------------------------------------------
(* What a transaction on one request leaves behind *)

RowIs(y, st, src, pre, tr, sub, f, e, t, d) ==
    /\ y.status = st /\ y.source = src /\ y.pre = pre /\ y.tokenRequired = tr /\ y.sub = sub
    /\ y.funding = f /\ y.extra = e /\ y.token = t /\ y.delta = d

\* Nothing of the other requests changes.
Alone(r) ==
    \A q \in Requests \ {r} : /\ row'[q] = row[q] /\ adjustments'[q] = adjustments[q]
                              /\ preRecord'[q] = preRecord[q] /\ charge'[q] = charge[q]
                              /\ (q \in stale' => q \in stale)

\* The row changes its status and nothing else.
StatusOnly(r, st) ==
    /\ UNCHANGED <<adjustments, preRecord, charge>>
    /\ RowIs(row'[r], st, row[r].source, row[r].pre, row[r].tokenRequired, row[r].sub,
             row[r].funding, row[r].extra, row[r].token, row[r].delta)

LEMMA SetRowAlone ==
    ASSUME DurableTypeOK, NEW r \in Requests, NEW x \in RowType, SetRow(r, x),
           UNCHANGED <<adjustments, preRecord, charge>>, stale' \subseteq stale
    PROVE  Alone(r) /\ row'[r] = x
  BY SetRowFacts DEF Alone

LEMMA EnsureEffect ==
    ASSUME DurableTypeOK, NEW r \in Requests, NEW src \in Sources, NEW tr \in BOOLEAN,
           EnsureBillingRecoveryOk(r, src, tr), EnsureBillingRecovery(r, src, tr)
    PROVE  /\ Alone(r) /\ UNCHANGED <<adjustments, preRecord, charge>> /\ stale' \subseteq stale
           /\ row'[r].source = src
           /\ \/ /\ row[r].status = "absent"
                 /\ RowIs(row'[r], "active", src, "prepared", tr, FALSE, 0, 0, 0, 0)
              \/ /\ Exists(r) /\ row[r].source = src /\ row'[r] = row[r]
                 /\ row[r].tokenRequired = tr
              \/ /\ Reusable(r) /\ row[r].source # src /\ row[r].tokenRequired = tr
                 /\ RowIs(row'[r], "active", src, row[r].pre, row[r].tokenRequired, row[r].sub,
                          row[r].funding, row[r].extra, row[r].token, row[r].delta)
  <1> DEFINE x == [NoRow EXCEPT !.status = "active", !.source = src, !.tokenRequired = tr]
             y == [row[r] EXCEPT !.source = src, !.status = "active"]
  <1>0. row[r] \in RowType
    BY DEF DurableTypeOK
  <1>1. UNCHANGED <<adjustments, preRecord, charge>> /\ stale' \subseteq stale
    BY DEF EnsureBillingRecovery, balances
  <1>2. CASE ~Exists(r)
    <2>1. SetRow(r, x)
      BY <1>2 DEF EnsureBillingRecovery
    <2>2. x \in RowType
      BY NoRowType, OpenUpdate
    <2>3. RowIs(x, "active", src, "prepared", tr, FALSE, 0, 0, 0, 0)
      BY DEF NoRow, RowIs
    <2> HIDE DEF x
    <2>4. Alone(r) /\ row'[r] = x
      BY <1>1, <2>1, <2>2, SetRowAlone
    <2> QED
      BY <1>1, <1>2, <2>3, <2>4 DEF Exists, RowIs
  <1>3. CASE Exists(r) /\ row[r].source = src
    <2>1. SetRow(r, row[r])
      BY <1>3 DEF EnsureBillingRecovery
    <2>2. Alone(r) /\ row'[r] = row[r]
      BY <1>0, <1>1, <2>1, SetRowAlone
    <2> QED
      BY <1>1, <1>3, <2>2 DEF EnsureBillingRecoveryOk
  <1>4. CASE Exists(r) /\ row[r].source # src
    <2>1. SetRow(r, y)
      BY <1>4 DEF EnsureBillingRecovery
    <2>2. y \in RowType
      BY <1>0, SourceUpdate
    <2>3. RowIs(y, "active", src, row[r].pre, row[r].tokenRequired, row[r].sub,
                row[r].funding, row[r].extra, row[r].token, row[r].delta)
      BY <1>0 DEF RowType, RowIs
    <2> HIDE DEF y
    <2>4. Alone(r) /\ row'[r] = y
      BY <1>1, <2>1, <2>2, SetRowAlone
    <2> QED
      BY <1>1, <1>4, <2>3, <2>4 DEF EnsureBillingRecoveryOk, RowIs
  <1> QED
    BY <1>2, <1>3, <1>4

LEMMA StatusEffect ==
    ASSUME DurableTypeOK, NEW r \in Requests, NEW st \in Live \cup Terminal,
           SetRow(r, [row[r] EXCEPT !.status = st]),
           UNCHANGED <<adjustments, preRecord, charge>>, stale' \subseteq stale
    PROVE  Alone(r) /\ StatusOnly(r, st)
  <1> DEFINE x == [row[r] EXCEPT !.status = st]
  <1>0. row[r] \in RowType
    BY DEF DurableTypeOK
  <1>1. x \in RowType
    BY <1>0, StatusUpdate
  <1>2. RowIs(x, st, row[r].source, row[r].pre, row[r].tokenRequired, row[r].sub,
             row[r].funding, row[r].extra, row[r].token, row[r].delta)
    BY <1>0 DEF RowType, RowIs
  <1> HIDE DEF x
  <1>3. Alone(r) /\ row'[r] = x
    BY <1>1, SetRowAlone DEF x
  <1> QED
    BY <1>2, <1>3 DEF StatusOnly

LEMMA MarkEffect ==
    ASSUME DurableTypeOK, NEW r \in Requests
    PROVE  /\ AbortPrepared(r) => Alone(r) /\ StatusOnly(r, "refunded")
           /\ MarkRefunded(r) => Alone(r) /\ StatusOnly(r, "refunded")
           /\ MarkSettled(r) => Alone(r) /\ StatusOnly(r, "settled")
  <1>0. {"refunded", "settled"} \subseteq Live \cup Terminal
    BY DEF Terminal
  <1>1. AbortPrepared(r) => Alone(r) /\ StatusOnly(r, "refunded")
    BY <1>0, StatusEffect DEF AbortPrepared, balances
  <1>2. MarkRefunded(r) => Alone(r) /\ StatusOnly(r, "refunded")
    BY <1>0, StatusEffect DEF MarkRefunded, balances
  <1>3. MarkSettled(r) => Alone(r) /\ StatusOnly(r, "settled")
    BY <1>0, StatusEffect DEF MarkSettled, balances
  <1> QED
    BY <1>1, <1>2, <1>3

LEMMA MarkRefundPendingEffect ==
    ASSUME DurableTypeOK, NEW r \in Requests, MarkRefundPending(r)
    PROVE  /\ Alone(r) /\ UNCHANGED <<adjustments, preRecord, charge>>
           /\ \/ row[r].status = "refunded" /\ row'[r] = row[r]
              \/ row[r].status # "refunded" /\ ~Unsynced(r) /\ StatusOnly(r, "refund_pending")
              \/ /\ row[r].status # "refunded" /\ Unsynced(r)
                 /\ RowIs(row'[r], "refund_pending", row[r].source, "committed",
                          row[r].tokenRequired, TRUE, preRecord[r].amount, row[r].extra,
                          IF row[r].tokenRequired THEN preRecord[r].amount ELSE row[r].token,
                          row[r].delta)
  <1>0. row[r] \in RowType /\ preRecord[r].amount \in Nat /\ row[r].token \in Nat
    BY RowFields DEF DurableTypeOK, RecordType
  <1>1. CASE row[r].status = "refunded"
    BY <1>1 DEF MarkRefundPending, durableVars, balances, Alone
  <1>2. CASE row[r].status # "refunded" /\ ~Unsynced(r)
    <2>1. /\ SetRow(r, [row[r] EXCEPT !.status = "refund_pending"])
          /\ UNCHANGED <<adjustments, preRecord, charge>> /\ stale' \subseteq stale
      BY <1>2 DEF MarkRefundPending, Touched, balances
    <2> QED
      BY <1>2, <2>1, StatusEffect DEF Live
  <1>3. CASE row[r].status # "refunded" /\ Unsynced(r)
    <2> DEFINE a == preRecord[r].amount
               k == IF row[r].tokenRequired THEN a ELSE row[r].token
               n == [row[r] EXCEPT !.status = "refund_pending", !.sub = TRUE,
                                   !.funding = a, !.token = k, !.pre = "committed"]
    <2>1. /\ SetRow(r, n)
          /\ UNCHANGED <<adjustments, preRecord, charge>> /\ stale' \subseteq stale
      BY <1>3 DEF MarkRefundPending, Touched, balances
    <2>2. a \in Nat /\ k \in Nat
      BY <1>0
    <2>3. n \in RowType
      BY <1>0, <2>2, ReconstructUpdate
    <2>4. RowIs(n, "refund_pending", row[r].source, "committed", row[r].tokenRequired, TRUE,
                a, row[r].extra, k, row[r].delta)
      BY <1>0 DEF RowType, RowIs
    <2> HIDE DEF n
    <2>5. Alone(r) /\ row'[r] = n
      BY <2>1, <2>3, SetRowAlone
    <2> QED
      BY <1>3, <2>1, <2>4, <2>5
  <1> QED
    BY <1>1, <1>2, <1>3

\* Money moved: the charges of the request follow what is taken.
Charged(r, w, u, t) ==
    /\ charge'[r].wallet = charge[r].wallet + w /\ charge'[r].sub = charge[r].sub + u
    /\ charge'[r].token = charge[r].token + t

LEMMA TakeCharges ==
    ASSUME DurableTypeOK, NEW r \in Requests, NEW w \in Int, NEW u \in Int, NEW t \in Int,
           Take(r, w, u, t)
    PROVE  Charged(r, w, u, t) /\ \A q \in Requests \ {r} : charge'[q] = charge[q]
  <1> DEFINE c == [wallet |-> charge[r].wallet + w, sub |-> charge[r].sub + u,
                   token |-> charge[r].token + t]
  <1>1. /\ c.wallet = charge[r].wallet + w /\ c.sub = charge[r].sub + u
        /\ c.token = charge[r].token + t
    OBVIOUS
  <1>2. charge' = [charge EXCEPT ![r] = c] /\ charge \in [Requests -> ChargeType]
    BY DEF Take, DurableTypeOK
  <1> HIDE DEF c
  <1>3. charge'[r] = c /\ \A q \in Requests \ {r} : charge'[q] = charge[q]
    BY <1>2
  <1> QED
    BY <1>1, <1>3 DEF Charged

LEMMA UpdateAmountsEffect ==
    ASSUME DurableTypeOK, NEW r \in Requests, NEW sub \in BOOLEAN, NEW f \in Nat, NEW e \in Nat,
           NEW t \in Nat, UpdateAmounts(r, sub, f, e, t)
    PROVE  /\ Alone(r) /\ UNCHANGED <<adjustments, preRecord, charge>>
           /\ RowIs(row'[r], row[r].status, row[r].source, "committed", row[r].tokenRequired, sub,
                    f, e, t, row[r].delta)
  <1> DEFINE n == [row[r] EXCEPT !.sub = sub, !.funding = f, !.extra = e, !.token = t,
                                 !.pre = "committed"]
  <1>0. row[r] \in RowType
    BY DEF DurableTypeOK
  <1>1. /\ SetRow(r, n)
        /\ UNCHANGED <<adjustments, preRecord, charge>> /\ stale' \subseteq stale
    BY DEF UpdateAmounts, Touched, balances
  <1>2. n \in RowType
    BY <1>0, AmountsUpdate
  <1>3. RowIs(n, row[r].status, row[r].source, "committed", row[r].tokenRequired, sub,
              f, e, t, row[r].delta)
    BY <1>0 DEF RowType, RowIs
  <1> HIDE DEF n
  <1>4. Alone(r) /\ row'[r] = n
    BY <1>1, <1>2, SetRowAlone
  <1> QED
    BY <1>1, <1>3, <1>4

LEMMA UpdateSettlementEffect ==
    ASSUME DurableTypeOK, NEW r \in Requests, NEW d \in Int, UpdateSettlement(r, d)
    PROVE  /\ Alone(r) /\ UNCHANGED <<adjustments, preRecord, charge>>
           /\ \/ row[r].status = "settled" /\ row'[r] = row[r]
              \/ /\ row[r].status # "settled"
                 /\ RowIs(row'[r], "settlement_pending", row[r].source, row[r].pre,
                          row[r].tokenRequired, row[r].sub, row[r].funding, row[r].extra,
                          row[r].token, d)
  <1> DEFINE n == [row[r] EXCEPT !.delta = d, !.status = "settlement_pending"]
  <1>0. row[r] \in RowType
    BY DEF DurableTypeOK
  <1>1. CASE row[r].status = "settled"
    BY <1>1 DEF UpdateSettlement, durableVars, balances, Alone
  <1>2. CASE row[r].status # "settled"
    <2>1. /\ SetRow(r, n)
          /\ UNCHANGED <<adjustments, preRecord, charge>> /\ stale' \subseteq stale
      BY <1>2 DEF UpdateSettlement, Touched, balances
    <2>2. n \in RowType
      BY <1>0, DeltaUpdate
    <2>3. RowIs(n, "settlement_pending", row[r].source, row[r].pre, row[r].tokenRequired,
                row[r].sub, row[r].funding, row[r].extra, row[r].token, d)
      BY <1>0 DEF RowType, RowIs
    <2> HIDE DEF n
    <2>4. Alone(r) /\ row'[r] = n
      BY <2>1, <2>2, SetRowAlone
    <2> QED
      BY <1>2, <2>1, <2>3, <2>4
  <1> QED
    BY <1>1, <1>2

LEMMA PreConsumeWalletEffect ==
    ASSUME DurableTypeOK, NEW r \in Requests, NEW q \in Nat, PreConsumeWallet(r, q)
    PROVE  /\ Alone(r) /\ UNCHANGED <<adjustments, preRecord>>
           /\ \/ /\ WalletPreConsumed(r, q) /\ row'[r] = row[r] /\ charge'[r] = charge[r]
              \/ /\ ~WalletPreConsumed(r, q)
                 /\ RowIs(row'[r], row[r].status, row[r].source, "committed",
                          row[r].tokenRequired, row[r].sub, q, row[r].extra,
                          IF row[r].tokenRequired THEN q ELSE 0, row[r].delta)
                 /\ Charged(r, q, 0, IF row[r].tokenRequired THEN q ELSE 0)
  <1> DEFINE t == IF row[r].tokenRequired THEN q ELSE 0
             n == [row[r] EXCEPT !.funding = q, !.token = t, !.pre = "committed"]
  <1>0. row[r] \in RowType /\ t \in Nat
    BY DEF DurableTypeOK
  <1>1. CASE WalletPreConsumed(r, q)
    BY <1>1 DEF PreConsumeWallet, durableVars, balances, Alone
  <1>2. CASE ~WalletPreConsumed(r, q)
    <2>1. /\ SetRow(r, n) /\ Take(r, q, 0, t)
          /\ UNCHANGED <<adjustments, preRecord>> /\ stale' \subseteq stale
      BY <1>2 DEF PreConsumeWallet, Touched
    <2>2. n \in RowType
      BY <1>0, WalletUpdate
    <2>3. RowIs(n, row[r].status, row[r].source, "committed", row[r].tokenRequired, row[r].sub,
                q, row[r].extra, t, row[r].delta)
      BY <1>0 DEF RowType, RowIs
    <2>4. q \in Int /\ 0 \in Int /\ t \in Int
      BY <1>0
    <2> HIDE DEF n, t
    <2>5. row'[r] = n /\ \A z \in Requests \ {r} : row'[z] = row[z]
      BY <2>1, <2>2, SetRowFacts
    <2>6. Charged(r, q, 0, t) /\ \A z \in Requests \ {r} : charge'[z] = charge[z]
      BY <2>1, <2>4, TakeCharges
    <2>7. Alone(r)
      BY <2>1, <2>5, <2>6 DEF Alone
    <2> QED
      BY <1>2, <2>1, <2>3, <2>5, <2>6, <2>7 DEF t
  <1> QED
    BY <1>1, <1>2

LEMMA TokenEffect ==
    ASSUME DurableTypeOK, NEW r \in Requests, NEW q \in Nat
    PROVE  /\ ReserveToken(r, q) => /\ Alone(r) /\ UNCHANGED <<row, adjustments, preRecord, stale>>
                                    /\ Charged(r, 0, 0, q)
           /\ IncreaseToken(r, q) => /\ Alone(r) /\ UNCHANGED <<row, adjustments, preRecord, stale>>
                                     /\ Charged(r, 0, 0, -q)
  <1>1. q \in Int /\ -q \in Int /\ 0 \in Int
    OBVIOUS
  <1>2. ReserveToken(r, q) => /\ Take(r, 0, 0, q) /\ UNCHANGED <<row, adjustments, preRecord, stale>>
    BY DEF ReserveToken
  <1>3. IncreaseToken(r, q) => /\ Take(r, 0, 0, -q) /\ UNCHANGED <<row, adjustments, preRecord, stale>>
    BY DEF IncreaseToken
  <1>4. ASSUME NEW t \in Int, Take(r, 0, 0, t), UNCHANGED <<row, adjustments, preRecord, stale>>
        PROVE  Alone(r) /\ Charged(r, 0, 0, t)
    <2>1. Charged(r, 0, 0, t) /\ \A z \in Requests \ {r} : charge'[z] = charge[z]
      BY <1>4, <1>1, TakeCharges
    <2> QED
      BY <1>4, <2>1 DEF Alone
  <1> QED
    BY <1>1, <1>2, <1>3, <1>4

LEMMA PreConsumeSubscriptionEffect ==
    ASSUME DurableTypeOK, NEW r \in Requests, NEW q \in Nat, PreConsumeSubscription(r, q)
    PROVE  /\ Alone(r) /\ UNCHANGED <<row, adjustments, stale>>
           /\ \/ preRecord[r].status = "consumed" /\ UNCHANGED <<preRecord, charge>>
              \/ /\ preRecord[r].status # "consumed"
                 /\ preRecord'[r].status = "consumed" /\ preRecord'[r].amount = q
                 /\ Charged(r, 0, q, 0)
  <1>1. CASE preRecord[r].status = "consumed"
    BY <1>1 DEF PreConsumeSubscription, durableVars, balances, Alone
  <1>2. CASE preRecord[r].status # "consumed"
    <2> DEFINE k == [status |-> "consumed", amount |-> q]
    <2>1. /\ preRecord' = [preRecord EXCEPT ![r] = k] /\ Take(r, 0, q, 0)
          /\ UNCHANGED <<row, adjustments, stale>>
      BY <1>2 DEF PreConsumeSubscription
    <2>2. k.status = "consumed" /\ k.amount = q
      OBVIOUS
    <2> HIDE DEF k
    <2>3. preRecord'[r] = k /\ \A z \in Requests \ {r} : preRecord'[z] = preRecord[z]
      BY <2>1 DEF DurableTypeOK
    <2>4. q \in Int /\ 0 \in Int
      OBVIOUS
    <2>5. Charged(r, 0, q, 0) /\ \A z \in Requests \ {r} : charge'[z] = charge[z]
      BY <2>1, <2>4, TakeCharges
    <2> QED
      BY <1>2, <2>1, <2>2, <2>3, <2>5 DEF Alone
  <1> QED
    BY <1>1, <1>2

LEMMA ReserveEffect ==
    ASSUME DurableTypeOK, NEW r \in Requests, NEW q \in Quotas, NEW d \in Nat,
           d = ReserveDelta(r, q), ReserveBillingRecovery(r, q)
    PROVE  /\ Alone(r) /\ UNCHANGED <<adjustments, preRecord>>
           /\ \/ d = 0 /\ row'[r] = row[r] /\ charge'[r] = charge[r]
              \/ LET f == IF row[r].source = "subscription" THEN 0 ELSE d
                     t == IF row[r].tokenRequired THEN d ELSE 0
                 IN /\ d > 0
                    /\ RowIs(row'[r], row[r].status, row[r].source, row[r].pre,
                             row[r].tokenRequired, row[r].sub, row[r].funding + f,
                             row[r].extra + (d - f), row[r].token + t, row[r].delta)
                    /\ Charged(r, f, IF row[r].sub THEN d - f ELSE 0, t)
  <1> DEFINE t == IF row[r].tokenRequired THEN d ELSE 0
             f == IF row[r].source = "subscription" THEN 0 ELSE d
             u == IF row[r].sub THEN d - f ELSE 0
             n == [row[r] EXCEPT !.funding = row[r].funding + f,
                                 !.extra = row[r].extra + (d - f),
                                 !.token = row[r].token + t]
  <1>0. row[r] \in RowType /\ row[r].funding \in Nat /\ row[r].extra \in Nat /\ row[r].token \in Nat
    BY RowFields DEF DurableTypeOK
  <1>1. CASE d = 0
    BY <1>1 DEF ReserveBillingRecovery, durableVars, balances, Alone
  <1>2. CASE d # 0
    <2>1. /\ SetRow(r, n) /\ Take(r, f, u, t)
          /\ UNCHANGED <<adjustments, preRecord>> /\ stale' \subseteq stale
      BY <1>2 DEF ReserveBillingRecovery, Touched
    <2>2. f \in Nat /\ t \in Nat /\ d - f \in Nat /\ u \in Nat
      OBVIOUS
    <2> HIDE DEF f, t, u
    <2>3. /\ row[r].funding + f \in Nat /\ row[r].extra + (d - f) \in Nat
          /\ row[r].token + t \in Nat
      BY <1>0, <2>2
    <2>4. n \in RowType
      BY <1>0, <2>3, AmountsUpdate
    <2>5. RowIs(n, row[r].status, row[r].source, row[r].pre, row[r].tokenRequired, row[r].sub,
                row[r].funding + f, row[r].extra + (d - f), row[r].token + t, row[r].delta)
      BY <1>0 DEF RowType, RowIs
    <2> HIDE DEF n
    <2>6. row'[r] = n /\ \A z \in Requests \ {r} : row'[z] = row[z]
      BY <2>1, <2>4, SetRowFacts
    <2>7. f \in Int /\ u \in Int /\ t \in Int
      BY <2>2
    <2>8. Charged(r, f, u, t) /\ \A z \in Requests \ {r} : charge'[z] = charge[z]
      BY <2>1, <2>7, TakeCharges
    <2>9. Alone(r)
      BY <2>1, <2>6, <2>8 DEF Alone
    <2>10. RowIs(row'[r], row[r].status, row[r].source, row[r].pre, row[r].tokenRequired,
                 row[r].sub, row[r].funding + f, row[r].extra + (d - f), row[r].token + t,
                 row[r].delta)
      BY <2>5, <2>6
    <2>11. d > 0
      BY <1>2
    <2> QED
      BY <2>1, <2>8, <2>9, <2>10, <2>11 DEF f, t, u
  <1> QED
    BY <1>1, <1>2

\* An effect that is applied: its marker, its column, its money.
Applied(r, e) ==
    /\ adjustments'[r][e].done /\ adjustments'[r][e].amount = EffectAmount(r, e)
    /\ \A o \in Effects \ {e} : adjustments'[r][o] = adjustments[r][o]
    /\ RowIs(row'[r], row[r].status, row[r].source, row[r].pre, row[r].tokenRequired,
             row[r].sub, row[r].funding, row[r].extra, row[r].token, row[r].delta)
    /\ Charged(r, WalletTaken(r, e), SubTaken(r, e), TokenTaken(r, e))
    /\ preRecord'[r].amount = preRecord[r].amount
    /\ preRecord'[r].status = IF RefundsRecord(r, e) THEN "refunded" ELSE preRecord[r].status

LEMMA ApplyEffect ==
    ASSUME DurableTypeOK, NEW r \in Requests, NEW e \in Effects, ApplyAdjustment(r, e)
    PROVE  /\ Alone(r)
           /\ \/ /\ AdjustmentSkipped(r, e) /\ row'[r] = row[r] /\ adjustments'[r] = adjustments[r]
                 /\ preRecord'[r] = preRecord[r] /\ charge'[r] = charge[r]
              \/ ~AdjustmentSkipped(r, e) /\ Applied(r, e)
  <1>0. /\ row[r] \in RowType /\ row[r].completed \in SUBSET Effects
        /\ adjustments \in [Requests -> [Effects -> MarkerType]]
        /\ preRecord \in [Requests -> RecordType] /\ preRecord[r] \in RecordType
    BY RowFields DEF DurableTypeOK
  <1>1. CASE AdjustmentSkipped(r, e)
    BY <1>1 DEF ApplyAdjustment, durableVars, balances, Alone
  <1>2. CASE ~AdjustmentSkipped(r, e)
    <2> DEFINE a == EffectAmount(r, e)
               g == [done |-> TRUE, amount |-> a]
               m == [adjustments[r] EXCEPT ![e] = g]
               n == [row[r] EXCEPT !.completed = row[r].completed \cup {e}]
               k == [preRecord[r] EXCEPT !.status = "refunded"]
    <2>1. /\ Take(r, WalletTaken(r, e), SubTaken(r, e), TokenTaken(r, e))
          /\ preRecord' = IF RefundsRecord(r, e) THEN [preRecord EXCEPT ![r] = k] ELSE preRecord
          /\ adjustments' = [adjustments EXCEPT ![r] = m]
          /\ SetRow(r, n) /\ stale' \subseteq stale
      BY <1>2 DEF ApplyAdjustment, Touched
    <2>2. n \in RowType
      BY <1>0, CompletedUpdate
    <2>3. RowIs(n, row[r].status, row[r].source, row[r].pre, row[r].tokenRequired,
                row[r].sub, row[r].funding, row[r].extra, row[r].token, row[r].delta)
      BY <1>0 DEF RowType, RowIs
    <2>4. k.status = "refunded" /\ k.amount = preRecord[r].amount
      BY <1>0 DEF RecordType
    <2>5. g.done /\ g.amount = a
      OBVIOUS
    <2> HIDE DEF n, k, g
    <2>6. m[e] = g /\ \A o \in Effects \ {e} : m[o] = adjustments[r][o]
      BY <1>0
    <2> HIDE DEF m
    <2>7. adjustments'[r] = m /\ \A q \in Requests \ {r} : adjustments'[q] = adjustments[q]
      BY <1>0, <2>1
    <2>8. row'[r] = n /\ \A q \in Requests \ {r} : row'[q] = row[q]
      BY <2>1, <2>2, SetRowFacts
    <2>9. /\ Charged(r, WalletTaken(r, e), SubTaken(r, e), TokenTaken(r, e))
          /\ \A q \in Requests \ {r} : charge'[q] = charge[q]
      BY <2>1, EffectAmountType, TakeCharges
    <2>10. /\ preRecord'[r].amount = preRecord[r].amount
           /\ preRecord'[r].status = IF RefundsRecord(r, e) THEN "refunded" ELSE preRecord[r].status
           /\ \A q \in Requests \ {r} : preRecord'[q] = preRecord[q]
      <3>1. CASE RefundsRecord(r, e)
        <4>1. preRecord' = [preRecord EXCEPT ![r] = k]
          BY <2>1, <3>1
        <4>2. preRecord'[r] = k /\ \A q \in Requests \ {r} : preRecord'[q] = preRecord[q]
          BY <1>0, <4>1
        <4> QED
          BY <2>4, <3>1, <4>2
      <3>2. CASE ~RefundsRecord(r, e)
        BY <2>1, <3>2
      <3> QED
        BY <3>1, <3>2
    <2>11. Alone(r)
      BY <2>1, <2>7, <2>8, <2>9, <2>10 DEF Alone
    <2>12. /\ adjustments'[r][e].done /\ adjustments'[r][e].amount = EffectAmount(r, e)
           /\ \A o \in Effects \ {e} : adjustments'[r][o] = adjustments[r][o]
      BY <2>5, <2>6, <2>7
    <2>13. RowIs(row'[r], row[r].status, row[r].source, row[r].pre, row[r].tokenRequired,
             row[r].sub, row[r].funding, row[r].extra, row[r].token, row[r].delta)
      BY <2>3, <2>8
    <2> QED
      BY <1>2, <2>9, <2>10, <2>11, <2>12, <2>13 DEF Applied
  <1> QED
    BY <1>1, <1>2

-----------------------------------------------------------------------------
(* The sessions and passes call the durable layer as DurableNext allows.     *)

RecordsBound == \A r \in Requests : preRecord[r].amount \in Quotas

SessionInv == DurableTypeOK /\ SessionTypeOK /\ RecordsBound /\ SessionsBound /\ SessionsClosed

LEMMA DurableCalls ==
    ASSUME NEW r \in Requests
    PROVE  /\ \A src \in Sources, t \in BOOLEAN :
                 EnsureBillingRecoveryOk(r, src, t) /\ EnsureBillingRecovery(r, src, t)
                    => DurableNext
           /\ AbortPreparedOk(r) /\ AbortPrepared(r) => DurableNext
           /\ MarkRefundPendingOk(r) /\ MarkRefundPending(r) => DurableNext
           /\ MarkSettledOk(r) /\ MarkSettled(r) => DurableNext
           /\ MarkRefundedOk(r) /\ MarkRefunded(r) => DurableNext
           /\ \A e \in Effects : ApplyAdjustmentOk(r, e) /\ ApplyAdjustment(r, e) => DurableNext
           /\ \A d \in Deltas : UpdateSettlementOk(r) /\ UpdateSettlement(r, d) => DurableNext
  BY DEF DurableNext, Opening, Closing

LEMMA ReservingCalls ==
    ASSUME NEW r \in Requests
    PROVE  /\ \A q \in Quotas, u \in BOOLEAN :
                 /\ PreConsumeWalletOk(r, q, u) /\ PreConsumeWallet(r, q) => DurableNext
                 /\ ReserveTokenOk(q, u) /\ ReserveToken(r, q) => DurableNext
                 /\ ReserveOk(r, q, u) /\ ReserveBillingRecovery(r, q) => DurableNext
           /\ \A q \in Quotas :
                 /\ PreConsumeSubscriptionOk(r, q) /\ PreConsumeSubscription(r, q) => DurableNext
                 /\ IncreaseToken(r, q) => DurableNext
           /\ \A sub \in BOOLEAN, f, x, t \in Amounts :
                 UpdateAmountsOk(r) /\ ReportsWalletAmount(r, f) /\ UpdateAmounts(r, sub, f, x, t)
                    => DurableNext
  BY DEF DurableNext, Reserving

\* What a step of the session of r has to establish.
StepKeeps(r) ==
    /\ [DurableNext]_durableVars /\ Moved(r) /\ Alone(r) /\ preRecord'[r].amount \in Quotas
    /\ BoundInv(row'[r], sess'[r], pc'[r]) /\ ClosedInv(row'[r], sess'[r], pc'[r])

LEMMA NoEffect ==
    ASSUME UNCHANGED durableVars, NEW r \in Requests
    PROVE  /\ Alone(r) /\ [DurableNext]_durableVars
           /\ UNCHANGED <<row, adjustments, preRecord, charge, stale>>
  BY DEF Alone, durableVars, balances

LEMMA SessionHere ==
    ASSUME SessionInv, NEW r \in Requests
    PROVE  /\ sess[r] \in SessionType /\ row[r] \in RowType /\ preRecord[r].amount \in Quotas
           /\ pc[r] # "new" => /\ sess[r].plan \in Preferences /\ Source(sess[r]) \in Sources
           /\ BoundInv(row[r], sess[r], pc[r])
           /\ pc[r] # "ended" => ~sess[r].settled /\ ~sess[r].refunded
           /\ sess[r].playground \in BOOLEAN /\ sess[r].unlimited \in BOOLEAN
           /\ sess[r].subId \in BOOLEAN
           /\ sess[r].tok \in Nat /\ sess[r].extra \in Nat /\ sess[r].consumed \in Nat
  <1>1. /\ sess[r] \in SessionType /\ row[r] \in RowType /\ preRecord[r].amount \in Quotas
        /\ BoundInv(row[r], sess[r], pc[r]) /\ ClosedInv(row[r], sess[r], pc[r])
    BY DEF SessionInv, DurableTypeOK, SessionTypeOK, RecordsBound, SessionsBound, SessionsClosed
  <1>2. pc[r] # "new" => sess[r].plan \in Preferences
    BY <1>1 DEF BoundInv
  <1>3. pc[r] # "ended" => ~sess[r].settled /\ ~sess[r].refunded
    BY <1>1 DEF ClosedInv
  <1>4. pc[r] # "new" => Source(sess[r]) \in Sources
    BY <1>2, PreferenceHead DEF Source
  <1> QED
    BY <1>1, <1>2, <1>3, <1>4, SessionFields

\* A fresh session is bound to nothing yet.
LEMMA StartedBound ==
    ASSUME NEW r, NEW s, Started(r, s), s.plan \in Preferences
    PROVE  BoundInv(row'[r], sess'[r], pc'[r]) /\ ClosedInv(row'[r], sess'[r], pc'[r])
  BY DEF Started, BoundInv, ClosedInv, Opened, Settling

\* A session that is over is bound to nothing any more.
LEMMA OverBound ==
    ASSUME NEW r, pc'[r] \in {"refund_mark", "refund_funding", "refund_extra", "refund_token",
                              "refund_finish", "ended", "live", "dead"},
           sess'[r].plan \in Preferences
    PROVE  BoundInv(row'[r], sess'[r], pc'[r])
  BY DEF BoundInv, Opened, Settling

LEMMA OpenClosed ==
    ASSUME NEW r, ~sess'[r].settled, ~sess'[r].refunded
    PROVE  ClosedInv(row'[r], sess'[r], pc'[r])
  BY DEF ClosedInv

LEMMA GaveUpBound ==
    ASSUME NEW r, NEW s \in SessionType, s.plan \in Preferences, ~s.settled, ~s.refunded,
           GaveUp(r, s)
    PROVE  BoundInv(row'[r], sess'[r], pc'[r]) /\ ClosedInv(row'[r], sess'[r], pc'[r])
  <1>1. CASE pc'[r] = "ended" /\ Same(sess'[r], s)
    <2>1. sess'[r].plan \in Preferences /\ ~sess'[r].settled /\ ~sess'[r].refunded
      BY <1>1 DEF Same
    <2> QED
      BY <1>1, <2>1, OverBound, OpenClosed
  <1>2. CASE /\ s.fallback /\ Len(s.plan) > 1
             /\ \E t \in SessionType :
                   /\ t.plan = Tail(s.plan) /\ t.playground = s.playground /\ Started(r, t)
    <2>1. PICK t \in SessionType : t.plan = Tail(s.plan) /\ Started(r, t)
      BY <1>2
    <2>2. t.plan \in Preferences
      BY <1>2, <2>1, PreferenceTail
    <2> QED
      BY <2>1, <2>2, StartedBound
  <1> QED
    BY <1>1, <1>2 DEF GaveUp

LEMMA BeginKeeps ==
    ASSUME SessionInv, NEW r \in Requests, Begin(r)
    PROVE  StepKeeps(r)
  <1>1. SessionTypeOK
    BY DEF SessionInv
  <1>2. /\ Moved(r) /\ UNCHANGED durableVars
        /\ \E s \in SessionType : s.plan \in Plans /\ Started(r, s)
    BY <1>1, BeginMoves
  <1>3. BoundInv(row'[r], sess'[r], pc'[r]) /\ ClosedInv(row'[r], sess'[r], pc'[r])
    BY <1>2, StartedBound, SwitchesAreSets DEF Preferences
  <1> QED
    BY <1>2, <1>3, NoEffect, SessionHere DEF StepKeeps

LEMMA WalletCheckKeeps ==
    ASSUME SessionInv, NEW r \in Requests, WalletCheck(r)
    PROVE  StepKeeps(r)
  <1>1. /\ SessionTypeOK /\ pc[r] = "wallet_check" /\ sess[r].plan \in Preferences
        /\ ~sess[r].settled /\ ~sess[r].refunded
    BY SessionHere DEF SessionInv, WalletCheck
  <1>2. /\ Moved(r) /\ UNCHANGED durableVars
        /\ \/ \E s \in SessionType : /\ s.plan = sess[r].plan
                                     /\ s.settled = sess[r].settled
                                     /\ s.refunded = sess[r].refunded
                                     /\ GaveUp(r, s)
           \/ pc'[r] = "ensure" /\ Same(sess'[r], sess[r])
    BY <1>1, WalletCheckMoves
  <1>3. BoundInv(row'[r], sess'[r], pc'[r]) /\ ClosedInv(row'[r], sess'[r], pc'[r])
    <2>1. CASE pc'[r] = "ensure" /\ Same(sess'[r], sess[r])
      <3>1. sess[r].extra = 0 /\ sess[r].tok = 0
        BY <1>1, SessionHere DEF BoundInv
      <3>2. BoundInv(row'[r], sess'[r], pc'[r])
        BY <1>1, <2>1, <3>1 DEF BoundInv, Same, Opened, Settling
      <3>3. ClosedInv(row'[r], sess'[r], pc'[r])
        BY <1>1, <2>1 DEF ClosedInv, Same
      <3> QED
        BY <3>2, <3>3
    <2>2. CASE \E s \in SessionType : /\ s.plan = sess[r].plan
                                      /\ s.settled = sess[r].settled
                                      /\ s.refunded = sess[r].refunded
                                      /\ GaveUp(r, s)
      <3>1. PICK s \in SessionType : /\ s.plan = sess[r].plan
                                      /\ s.settled = sess[r].settled
                                      /\ s.refunded = sess[r].refunded
                                      /\ GaveUp(r, s)
        BY <2>2
      <3> QED
        BY <1>1, <3>1, GaveUpBound
    <2> QED
      BY <1>2, <2>1, <2>2
  <1> QED
    BY <1>2, <1>3, NoEffect, SessionHere DEF StepKeeps

LEMMA EnsureKeeps ==
    ASSUME SessionInv, NEW r \in Requests, Ensure(r)
    PROVE  StepKeeps(r)
  <1> DEFINE src == Source(sess[r])
             tr == ~sess[r].playground
             ok == EnsureBillingRecoveryOk(r, src, tr)
             effect == EnsureBillingRecovery(r, src, tr)
             nil == /\ Moved(r) /\ sess'[r] = sess[r]
                    /\ pc'[r] = IF src = "wallet" THEN "wallet_pre" ELSE "token_pre"
             err == Moved(r) /\ pc'[r] = "ended" /\ Same(sess'[r], sess[r])
  <1>1. /\ SessionTypeOK /\ DurableTypeOK /\ pc[r] = "ensure" /\ sess[r].plan \in Preferences
        /\ ~sess[r].settled /\ ~sess[r].refunded /\ src \in Sources /\ tr \in BOOLEAN
        /\ preRecord[r].amount \in Quotas /\ sess[r].extra = 0 /\ sess[r].tok = 0
    BY SessionHere DEF SessionInv, Ensure, BoundInv
  <1>2. Transaction("recovery", ok, effect, nil, err)
    BY <1>1, EnsureMoves
  <1>3. err => BoundInv(row'[r], sess'[r], pc'[r]) /\ ClosedInv(row'[r], sess'[r], pc'[r])
    BY <1>1, OverBound, OpenClosed DEF Same
  <1>4. ok /\ effect => /\ Alone(r) /\ preRecord' = preRecord /\ row'[r].source = src
                        /\ [DurableNext]_durableVars
    BY <1>1, EnsureEffect, DurableCalls
  <1>5. UNCHANGED durableVars => Alone(r) /\ preRecord' = preRecord /\ [DurableNext]_durableVars
    BY NoEffect
  <1>6. nil /\ row'[r].source = src =>
           BoundInv(row'[r], sess'[r], pc'[r]) /\ ClosedInv(row'[r], sess'[r], pc'[r])
    <2> HIDE DEF ok, effect
    <2>0. SUFFICES ASSUME nil, row'[r].source = src
                   PROVE  BoundInv(row'[r], sess'[r], pc'[r]) /\ ClosedInv(row'[r], sess'[r], pc'[r])
      OBVIOUS
    <2>1. CASE src = "wallet"
      BY <2>0, <2>1, <1>1 DEF BoundInv, ClosedInv, Opened, Settling
    <2>2. CASE src = "subscription"
      <3>1. sess[r].tok \in Quotas
        BY <1>1, QuotasCover
      <3> QED
        BY <2>0, <2>2, <3>1, <1>1 DEF BoundInv, ClosedInv, Opened, Settling
    <2> QED
      BY <1>1, <2>1, <2>2 DEF Sources
  <1>7. nil => Moved(r)
    OBVIOUS
  <1>8. err => Moved(r)
    OBVIOUS
  <1> HIDE DEF ok, effect, nil, err
  <1> QED
    BY <1>1, <1>2, <1>3, <1>4, <1>5, <1>6, <1>7, <1>8 DEF Transaction, StepKeeps

LEMMA WalletPreKeeps ==
    ASSUME SessionInv, NEW r \in Requests, WalletPre(r)
    PROVE  StepKeeps(r)
  <1>0. PICK q : q = EffectiveQuota(sess[r])
    OBVIOUS
  <1> DEFINE ok == PreConsumeWalletOk(r, q, sess[r].unlimited)
             effect == PreConsumeWallet(r, q)
             nil == /\ Moved(r) /\ pc'[r] = "sync" /\ Keeps(sess'[r], sess[r])
                    /\ sess'[r].consumed = q /\ sess'[r].pre = q
                    /\ sess'[r].tok = IF sess[r].playground THEN 0 ELSE q
                    /\ sess'[r].extra = sess[r].extra
             err == /\ Moved(r) /\ pc'[r] = "record_failure" /\ Keeps(sess'[r], sess[r])
                    /\ sess'[r].extra = sess[r].extra
  <1>1. /\ SessionTypeOK /\ DurableTypeOK /\ pc[r] = "wallet_pre" /\ sess[r].plan \in Preferences
        /\ ~sess[r].settled /\ ~sess[r].refunded /\ sess[r].unlimited \in BOOLEAN
        /\ preRecord[r].amount \in Quotas /\ sess[r] \in SessionType /\ row[r] \in RowType
    BY SessionHere DEF SessionInv, WalletPre
  <1>2. Source(sess[r]) = "wallet" /\ row[r].source = "wallet" /\ sess[r].extra = 0
    BY <1>1, SessionHere DEF BoundInv, Opened
  <1>3. q \in Quotas /\ q \in Nat /\ q \in Amounts /\ 0 \in Amounts
    BY <1>0, <1>1, EffectiveQuotaIsQuota, QuotasCover
  <1>4. Transaction("recovery", ok, effect, nil, err)
    BY <1>0, <1>1, WalletPreMoves DEF Transaction
  <1>5. ok /\ effect => /\ Alone(r) /\ preRecord' = preRecord /\ [DurableNext]_durableVars
                        /\ row'[r].source = "wallet" /\ row'[r].funding = q
    <2>1. ok /\ effect => [DurableNext]_durableVars
      BY <1>1, <1>3, ReservingCalls
    <2>2. effect => /\ Alone(r) /\ preRecord' = preRecord
                    /\ row'[r].source = "wallet" /\ row'[r].funding = q
      BY <1>1, <1>2, <1>3, PreConsumeWalletEffect DEF WalletPreConsumed, RowIs
    <2> QED
      BY <2>1, <2>2
  <1>6. UNCHANGED durableVars => /\ Alone(r) /\ preRecord' = preRecord
                                 /\ [DurableNext]_durableVars /\ row'[r].source = "wallet"
    BY <1>2, NoEffect
  <1>7. nil /\ row'[r].source = "wallet" /\ row'[r].funding = q =>
           BoundInv(row'[r], sess'[r], pc'[r]) /\ ClosedInv(row'[r], sess'[r], pc'[r])
    <2> HIDE DEF ok, effect, err
    <2>0. SUFFICES ASSUME nil, row'[r].source = "wallet", row'[r].funding = q
                   PROVE  BoundInv(row'[r], sess'[r], pc'[r]) /\ ClosedInv(row'[r], sess'[r], pc'[r])
      OBVIOUS
    <2>1. sess'[r].plan = sess[r].plan /\ ~sess'[r].settled /\ ~sess'[r].refunded
      BY <1>1, <2>0 DEF Keeps
    <2>2. sess'[r].tok \in Amounts
      BY <1>3, <2>0
    <2> QED
      BY <1>1, <1>2, <1>3, <2>0, <2>1, <2>2 DEF BoundInv, ClosedInv, Opened, Settling, Source
  <1>8. err /\ row'[r].source = "wallet" =>
           BoundInv(row'[r], sess'[r], pc'[r]) /\ ClosedInv(row'[r], sess'[r], pc'[r])
    BY <1>1, <1>2 DEF BoundInv, ClosedInv, Opened, Settling, Source, Keeps
  <1>9. nil => Moved(r)
    OBVIOUS
  <1>10. err => Moved(r)
    OBVIOUS
  <1> HIDE DEF ok, effect, nil, err
  <1> QED
    BY <1>1, <1>4, <1>5, <1>6, <1>7, <1>8, <1>9, <1>10 DEF Transaction, StepKeeps

LEMMA TokenPreKeeps ==
    ASSUME SessionInv, NEW r \in Requests, TokenPre(r)
    PROVE  StepKeeps(r)
  <1>0. PICK q : q = EffectiveQuota(sess[r])
    OBVIOUS
  <1> DEFINE ok == sess[r].playground \/ ReserveTokenOk(q, sess[r].unlimited)
             effect == IF sess[r].playground THEN UNCHANGED durableVars ELSE ReserveToken(r, q)
             nil == /\ Moved(r) /\ pc'[r] = "sub_pre" /\ Keeps(sess'[r], sess[r])
                    /\ sess'[r].tok = q /\ sess'[r].extra = sess[r].extra
             err == Moved(r) /\ pc'[r] = "record_failure" /\ sess'[r] = sess[r]
  <1>1. /\ SessionTypeOK /\ DurableTypeOK /\ pc[r] = "token_pre" /\ sess[r].plan \in Preferences
        /\ ~sess[r].settled /\ ~sess[r].refunded /\ sess[r].unlimited \in BOOLEAN
        /\ preRecord[r].amount \in Quotas /\ sess[r] \in SessionType
    BY SessionHere DEF SessionInv, TokenPre
  <1>2. /\ Source(sess[r]) = "subscription" /\ row[r].source = "subscription"
        /\ sess[r].extra = 0
    BY <1>1, SessionHere DEF BoundInv, Opened
  <1>3. q \in Quotas /\ q \in Nat
    BY <1>0, <1>1, EffectiveQuotaIsQuota
  <1>4. Transaction("token", ok, effect, nil, err)
    BY <1>0, <1>1, TokenPreMoves DEF Transaction
  <1>5. ok /\ effect => /\ Alone(r) /\ UNCHANGED <<row, preRecord>> /\ [DurableNext]_durableVars
    <2>1. CASE sess[r].playground
      BY <2>1, NoEffect
    <2>2. CASE ~sess[r].playground
      BY <1>1, <1>3, <2>2, TokenEffect, ReservingCalls
    <2> QED
      BY <2>1, <2>2
  <1>6. UNCHANGED durableVars => /\ Alone(r) /\ UNCHANGED <<row, preRecord>>
                                 /\ [DurableNext]_durableVars
    BY NoEffect
  <1>7. nil /\ row' = row =>
           BoundInv(row'[r], sess'[r], pc'[r]) /\ ClosedInv(row'[r], sess'[r], pc'[r])
    BY <1>1, <1>2, <1>3 DEF BoundInv, ClosedInv, Opened, Settling, Source, Keeps
  <1>8. err /\ row' = row =>
           BoundInv(row'[r], sess'[r], pc'[r]) /\ ClosedInv(row'[r], sess'[r], pc'[r])
    BY <1>1, <1>2 DEF BoundInv, ClosedInv, Opened, Settling
  <1>9. nil => Moved(r)
    OBVIOUS
  <1>10. err => Moved(r)
    OBVIOUS
  <1> HIDE DEF ok, effect, nil, err
  <1> QED
    BY <1>1, <1>4, <1>5, <1>6, <1>7, <1>8, <1>9, <1>10 DEF Transaction, StepKeeps

LEMMA SubPreKeeps ==
    ASSUME SessionInv, NEW r \in Requests, SubPre(r)
    PROVE  StepKeeps(r)
  <1>0. PICK q : q = EffectiveQuota(sess[r])
    OBVIOUS
  <1> DEFINE ok == PreConsumeSubscriptionOk(r, q)
             effect == PreConsumeSubscription(r, q)
             nil == /\ Moved(r) /\ pc'[r] = "sync" /\ Keeps(sess'[r], sess[r])
                    /\ sess'[r].consumed = IF preRecord[r].status = "consumed"
                                           THEN preRecord[r].amount ELSE q
                    /\ sess'[r].tok = sess[r].tok /\ sess'[r].extra = sess[r].extra
             err == /\ Moved(r) /\ Keeps(sess'[r], sess[r])
                    /\ pc'[r] \in {"token_rollback", "record_failure"}
                    /\ sess'[r].tok = sess[r].tok /\ sess'[r].extra = sess[r].extra
  <1>1. /\ SessionTypeOK /\ DurableTypeOK /\ pc[r] = "sub_pre" /\ sess[r].plan \in Preferences
        /\ ~sess[r].settled /\ ~sess[r].refunded
        /\ preRecord[r].amount \in Quotas /\ sess[r] \in SessionType
    BY SessionHere DEF SessionInv, SubPre
  <1>2. /\ Source(sess[r]) = "subscription" /\ row[r].source = "subscription"
        /\ sess[r].extra = 0 /\ sess[r].tok \in Quotas
    BY <1>1, SessionHere DEF BoundInv, Opened
  <1>3. q \in Quotas /\ q \in Nat
    BY <1>0, <1>1, EffectiveQuotaIsQuota
  <1>4. Transaction("subscription", ok, effect, nil, err)
    BY <1>0, <1>1, SubPreMoves DEF Transaction
  <1>5. ok /\ effect => /\ Alone(r) /\ row' = row /\ preRecord'[r].amount \in Quotas
                        /\ [DurableNext]_durableVars
    <2>1. ok /\ effect => [DurableNext]_durableVars
      BY <1>3, ReservingCalls
    <2>2. effect => /\ Alone(r) /\ row' = row /\ preRecord'[r].amount \in Quotas
      BY <1>1, <1>3, PreConsumeSubscriptionEffect
    <2> QED
      BY <2>1, <2>2
  <1>6. UNCHANGED durableVars => /\ Alone(r) /\ UNCHANGED <<row, preRecord>>
                                 /\ [DurableNext]_durableVars
    BY NoEffect
  <1>7. nil /\ row' = row =>
           BoundInv(row'[r], sess'[r], pc'[r]) /\ ClosedInv(row'[r], sess'[r], pc'[r])
    <2>1. Quotas \subseteq Amounts
      BY QuotasCover
    <2> QED
      BY <1>1, <1>2, <1>3, <2>1 DEF BoundInv, ClosedInv, Opened, Settling, Source, Keeps
  <1>8. err /\ row' = row =>
           BoundInv(row'[r], sess'[r], pc'[r]) /\ ClosedInv(row'[r], sess'[r], pc'[r])
    BY <1>1, <1>2 DEF BoundInv, ClosedInv, Opened, Settling, Source, Keeps
  <1>9. nil => Moved(r)
    OBVIOUS
  <1>10. err => Moved(r)
    OBVIOUS
  <1> HIDE DEF ok, effect, nil, err
  <1> QED
    BY <1>1, <1>4, <1>5, <1>6, <1>7, <1>8, <1>9, <1>10 DEF Transaction, StepKeeps

LEMMA TokenRollbackKeeps ==
    ASSUME SessionInv, NEW r \in Requests, TokenRollback(r)
    PROVE  StepKeeps(r)
  <1> DEFINE effect == IncreaseToken(r, sess[r].tok)
             nil == /\ Moved(r) /\ pc'[r] = "record_failure" /\ Keeps(sess'[r], sess[r])
                    /\ sess'[r].extra = sess[r].extra
             err == /\ Moved(r) /\ pc'[r] = "rollback_sync" /\ Keeps(sess'[r], sess[r])
                    /\ sess'[r].tok = sess[r].tok /\ sess'[r].extra = sess[r].extra
  <1>1. /\ SessionTypeOK /\ DurableTypeOK /\ pc[r] = "token_rollback"
        /\ sess[r].plan \in Preferences /\ ~sess[r].settled /\ ~sess[r].refunded
        /\ preRecord[r].amount \in Quotas /\ sess[r].tok \in Nat
    BY SessionHere DEF SessionInv, TokenRollback
  <1>2. /\ Source(sess[r]) = "subscription" /\ row[r].source = "subscription"
        /\ sess[r].extra = 0 /\ sess[r].tok \in Quotas
    BY <1>1, SessionHere DEF BoundInv, Opened
  <1>3. Transaction("token", TRUE, effect, nil, err)
    BY <1>1, TokenRollbackMoves DEF Transaction
  <1>4. effect => /\ Alone(r) /\ UNCHANGED <<row, preRecord>> /\ [DurableNext]_durableVars
    BY <1>1, <1>2, TokenEffect, ReservingCalls
  <1>5. UNCHANGED durableVars => /\ Alone(r) /\ UNCHANGED <<row, preRecord>>
                                 /\ [DurableNext]_durableVars
    BY NoEffect
  <1>6. nil /\ row' = row =>
           BoundInv(row'[r], sess'[r], pc'[r]) /\ ClosedInv(row'[r], sess'[r], pc'[r])
    BY <1>1, <1>2 DEF BoundInv, ClosedInv, Opened, Settling, Source, Keeps
  <1>7. err /\ row' = row =>
           BoundInv(row'[r], sess'[r], pc'[r]) /\ ClosedInv(row'[r], sess'[r], pc'[r])
    BY <1>1, <1>2 DEF BoundInv, ClosedInv, Opened, Settling, Source, Keeps
  <1>8. nil => Moved(r)
    OBVIOUS
  <1>9. err => Moved(r)
    OBVIOUS
  <1> HIDE DEF effect, nil, err
  <1> QED
    BY <1>1, <1>3, <1>4, <1>5, <1>6, <1>7, <1>8, <1>9 DEF Transaction, StepKeeps

LEMMA RollbackSyncKeeps ==
    ASSUME SessionInv, NEW r \in Requests, RollbackSync(r)
    PROVE  StepKeeps(r)
  <1> DEFINE t == IF sess[r].playground THEN 0 ELSE sess[r].tok
  <1>1. /\ SessionTypeOK /\ DurableTypeOK /\ pc[r] = "rollback_sync"
        /\ sess[r].plan \in Preferences /\ ~sess[r].settled /\ ~sess[r].refunded
        /\ preRecord[r].amount \in Quotas
    BY SessionHere DEF SessionInv, RollbackSync
  <1>2. /\ Source(sess[r]) = "subscription" /\ row[r].source = "subscription"
        /\ sess[r].extra = 0 /\ sess[r].tok \in Quotas
    BY <1>1, SessionHere DEF BoundInv, Opened
  <1>3. /\ Moved(r) /\ pc'[r] = "record_failure" /\ sess'[r] = sess[r]
        /\ Transaction("recovery", UpdateAmountsOk(r),
                       UpdateAmounts(r, FALSE, 0, sess[r].extra, t), TRUE, TRUE)
    BY <1>1, RollbackSyncMoves
  <1>4. t \in Amounts /\ 0 \in Amounts /\ t \in Nat
    BY <1>2, QuotasCover, QuotasAreNaturals
  <1> HIDE DEF t
  <1>5. \/ UpdateAmountsOk(r) /\ UpdateAmounts(r, FALSE, 0, 0, t)
        \/ UNCHANGED durableVars
    BY <1>2, <1>3 DEF Transaction
  <1>6. /\ Alone(r) /\ preRecord' = preRecord /\ row'[r].source = row[r].source
        /\ [DurableNext]_durableVars
    <2>1. CASE UpdateAmountsOk(r) /\ UpdateAmounts(r, FALSE, 0, 0, t)
      <3>1. ReportsWalletAmount(r, 0)
        BY <1>2 DEF ReportsWalletAmount
      <3>2. DurableNext
        BY <1>4, <2>1, <3>1, ReservingCalls
      <3>3. Alone(r) /\ preRecord' = preRecord /\ row'[r].source = row[r].source
        BY <1>1, <1>4, <2>1, UpdateAmountsEffect DEF RowIs
      <3> QED
        BY <3>2, <3>3
    <2>2. CASE UNCHANGED durableVars
      BY <2>2, NoEffect
    <2> QED
      BY <1>5, <2>1, <2>2
  <1>7. BoundInv(row'[r], sess'[r], pc'[r]) /\ ClosedInv(row'[r], sess'[r], pc'[r])
    BY <1>1, <1>2, <1>3, <1>6 DEF BoundInv, ClosedInv, Opened, Settling
  <1> QED
    BY <1>1, <1>3, <1>6, <1>7 DEF StepKeeps

LEMMA RecordFailureKeeps ==
    ASSUME SessionInv, NEW r \in Requests, RecordFailure(r)
    PROVE  StepKeeps(r)
  <1>1. /\ SessionTypeOK /\ DurableTypeOK /\ pc[r] = "record_failure"
        /\ sess[r].plan \in Preferences /\ ~sess[r].settled /\ ~sess[r].refunded
        /\ preRecord[r].amount \in Quotas /\ sess[r] \in SessionType
    BY SessionHere DEF SessionInv, RecordFailure
  <1>2. /\ Moved(r) /\ GaveUp(r, sess[r])
        /\ \/ MarkRefundPendingOk(r) /\ MarkRefundPending(r)
           \/ AbortPreparedOk(r) /\ AbortPrepared(r)
           \/ UNCHANGED durableVars
    BY <1>1, RecordFailureMoves DEF Transaction
  <1>3. BoundInv(row'[r], sess'[r], pc'[r]) /\ ClosedInv(row'[r], sess'[r], pc'[r])
    BY <1>1, <1>2, GaveUpBound
  <1>4. Alone(r) /\ preRecord' = preRecord /\ [DurableNext]_durableVars
    BY <1>1, <1>2, NoEffect, MarkEffect, MarkRefundPendingEffect, DurableCalls DEF StatusOnly
  <1> QED
    BY <1>1, <1>2, <1>3, <1>4 DEF StepKeeps

LEMMA SyncKeeps ==
    ASSUME SessionInv, NEW r \in Requests, Sync(r)
    PROVE  StepKeeps(r)
  <1> DEFINE t == IF sess[r].playground THEN 0 ELSE sess[r].tok
  <1>1. /\ SessionTypeOK /\ DurableTypeOK /\ pc[r] = "sync"
        /\ sess[r].plan \in Preferences /\ ~sess[r].settled /\ ~sess[r].refunded
        /\ preRecord[r].amount \in Quotas /\ sess[r].subId \in BOOLEAN
    BY SessionHere DEF SessionInv, Sync
  <1>2. /\ row[r].source = Source(sess[r]) /\ sess[r].extra = 0
        /\ sess[r].consumed \in Amounts /\ sess[r].tok \in Amounts
        /\ row[r].source = "wallet" => row[r].funding = sess[r].consumed
    BY <1>1, SessionHere DEF BoundInv, Opened
  <1>3. /\ Moved(r) /\ Same(sess'[r], sess[r])
        /\ Transaction("recovery", UpdateAmountsOk(r),
                 UpdateAmounts(r, sess[r].subId, sess[r].consumed, sess[r].extra, t),
                 pc'[r] = "live", pc'[r] = "sync_refund")
    BY <1>1, SyncMoves
  <1>4. 0 \in Amounts /\ t \in Amounts /\ t \in Nat /\ sess[r].consumed \in Nat
    BY <1>2, QuotasCover, QuotasAreNaturals
  <1> HIDE DEF t
  <1>5. /\ pc'[r] \in {"live", "sync_refund"}
        /\ \/ UpdateAmountsOk(r) /\ UpdateAmounts(r, sess[r].subId, sess[r].consumed, 0, t)
           \/ UNCHANGED durableVars
    BY <1>2, <1>3 DEF Transaction
  <1>6. /\ Alone(r) /\ preRecord' = preRecord /\ row'[r].source = row[r].source
        /\ [DurableNext]_durableVars
    <2>1. CASE UpdateAmountsOk(r) /\ UpdateAmounts(r, sess[r].subId, sess[r].consumed, 0, t)
      <3>1. ReportsWalletAmount(r, sess[r].consumed)
        BY <1>2 DEF ReportsWalletAmount
      <3>2. DurableNext
        BY <1>1, <1>2, <1>4, <2>1, <3>1, ReservingCalls
      <3>3. Alone(r) /\ preRecord' = preRecord /\ row'[r].source = row[r].source
        BY <1>1, <1>4, <2>1, UpdateAmountsEffect DEF RowIs
      <3> QED
        BY <3>2, <3>3
    <2>2. CASE UNCHANGED durableVars
      BY <2>2, NoEffect
    <2> QED
      BY <1>5, <2>1, <2>2
  <1>7. /\ sess'[r].plan = sess[r].plan /\ ~sess'[r].settled /\ ~sess'[r].refunded
    BY <1>1, <1>3 DEF Same
  <1>8. BoundInv(row'[r], sess'[r], pc'[r])
    BY <1>1, <1>2, <1>5, <1>6, <1>7 DEF BoundInv, Opened, Settling, Source
  <1> QED
    BY <1>1, <1>3, <1>6, <1>7, <1>8, OpenClosed DEF StepKeeps

\* After its reservation a session that goes on is bound by its delta only.
LEMMA LaterKeeps ==
    ASSUME NEW r \in Requests, Moved(r), Alone(r), [DurableNext]_durableVars,
           preRecord'[r].amount \in Quotas, sess'[r].plan \in Preferences,
           ~sess'[r].settled, ~sess'[r].refunded,
           pc'[r] \notin {"wallet_check", "ensure"} \cup Opened,
           pc'[r] \in Settling => Delta(sess'[r]) \in Deltas
    PROVE  StepKeeps(r)
  <1>1. BoundInv(row'[r], sess'[r], pc'[r])
    BY DEF BoundInv, Opened
  <1> QED
    BY <1>1, OpenClosed DEF StepKeeps

\* The calls that leave the session's reservation alone.
LEMMA ClosingCall ==
    ASSUME DurableTypeOK, RecordsBound, NEW r \in Requests,
           \/ MarkRefundPendingOk(r) /\ MarkRefundPending(r)
           \/ MarkSettledOk(r) /\ MarkSettled(r)
           \/ MarkRefundedOk(r) /\ MarkRefunded(r)
           \/ \E e \in Effects : ApplyAdjustmentOk(r, e) /\ ApplyAdjustment(r, e)
           \/ UNCHANGED durableVars
    PROVE  /\ Alone(r) /\ [DurableNext]_durableVars /\ preRecord'[r].amount \in Quotas
           /\ row'[r].source = row[r].source
           /\ row[r].source = "wallet" => row'[r].funding = row[r].funding
           /\ row[r].status \in Terminal => row'[r].status = row[r].status
  <1>0. preRecord[r].amount \in Quotas
    BY DEF RecordsBound
  <1>1. CASE MarkRefundPendingOk(r) /\ MarkRefundPending(r)
    BY <1>0, <1>1, MarkRefundPendingEffect, DurableCalls
       DEF StatusOnly, RowIs, MarkRefundPendingOk, Terminal, Unsynced
  <1>2. CASE MarkSettledOk(r) /\ MarkSettled(r)
    BY <1>0, <1>2, MarkEffect, DurableCalls DEF StatusOnly, RowIs, MarkSettledOk, Terminal
  <1>3. CASE MarkRefundedOk(r) /\ MarkRefunded(r)
    BY <1>0, <1>3, MarkEffect, DurableCalls DEF StatusOnly, RowIs, MarkRefundedOk, Terminal
  <1>4. ASSUME NEW e \in Effects, ApplyAdjustmentOk(r, e), ApplyAdjustment(r, e)
        PROVE  /\ Alone(r) /\ [DurableNext]_durableVars /\ preRecord'[r].amount \in Quotas
               /\ row'[r].source = row[r].source
               /\ row[r].source = "wallet" => row'[r].funding = row[r].funding
               /\ row[r].status \in Terminal => row'[r].status = row[r].status
    <2>1. [DurableNext]_durableVars
      BY <1>4, DurableCalls
    <2> QED
      BY <1>0, <1>4, <2>1, ApplyEffect DEF Applied, RowIs
  <1>5. CASE UNCHANGED durableVars
    BY <1>0, <1>5, NoEffect
  <1> QED
    BY <1>1, <1>2, <1>3, <1>4, <1>5

LEMMA SyncRefundKeeps ==
    ASSUME SessionInv, NEW r \in Requests, SyncRefund(r)
    PROVE  StepKeeps(r)
  <1>1. /\ SessionTypeOK /\ DurableTypeOK /\ RecordsBound /\ pc[r] = "sync_refund"
        /\ sess[r].plan \in Preferences /\ ~sess[r].settled /\ ~sess[r].refunded
    BY SessionHere DEF SessionInv, SyncRefund
  <1>2. /\ Moved(r) /\ Same(sess'[r], sess[r]) /\ pc'[r] \in {"refund_mark", "ended"}
        /\ (MarkRefundPendingOk(r) /\ MarkRefundPending(r)) \/ UNCHANGED durableVars
    BY <1>1, SyncRefundMoves DEF Transaction
  <1>3. Alone(r) /\ [DurableNext]_durableVars /\ preRecord'[r].amount \in Quotas
    BY <1>1, <1>2, ClosingCall
  <1>4. /\ sess'[r].plan \in Preferences /\ ~sess'[r].settled /\ ~sess'[r].refunded
        /\ pc'[r] \notin {"wallet_check", "ensure"} \cup Opened /\ pc'[r] \notin Settling
    BY <1>1, <1>2 DEF Same, Opened, Settling
  <1> QED
    BY <1>2, <1>3, <1>4, LaterKeeps

LEMMA ReserveKeeps ==
    ASSUME SessionInv, NEW r \in Requests, Reserve(r)
    PROVE  StepKeeps(r)
  <1>1. /\ SessionTypeOK /\ DurableTypeOK /\ RecordsBound /\ pc[r] = "live"
        /\ sess[r].plan \in Preferences /\ ~sess[r].settled /\ ~sess[r].refunded
        /\ sess[r].unlimited \in BOOLEAN /\ preRecord[r].amount \in Quotas
    BY SessionHere DEF SessionInv, Reserve
  <1>2. PICK target \in Quotas, d \in Nat :
           /\ d = ReserveDelta(r, target)
           /\ Transaction("recovery", ReserveOk(r, target, sess[r].unlimited),
                       ReserveBillingRecovery(r, target),
                       /\ Moved(r) /\ pc'[r] = "live" /\ Keeps(sess'[r], sess[r])
                       /\ sess'[r].pre = sess[r].pre + d,
                       /\ Moved(r) /\ pc'[r] \in {"refund_mark", "ended"}
                       /\ Same(sess'[r], sess[r]))
    BY <1>1, ReserveMoves
  <1>3. /\ Moved(r) /\ pc'[r] \in {"live", "refund_mark", "ended"}
        /\ Keeps(sess'[r], sess[r]) \/ Same(sess'[r], sess[r])
        /\ \/ ReserveOk(r, target, sess[r].unlimited) /\ ReserveBillingRecovery(r, target)
           \/ UNCHANGED durableVars
    BY <1>2 DEF Transaction
  <1>4. Alone(r) /\ [DurableNext]_durableVars /\ preRecord'[r].amount \in Quotas
    <2>1. CASE UNCHANGED durableVars
      BY <1>1, <2>1, NoEffect
    <2>2. CASE ReserveOk(r, target, sess[r].unlimited) /\ ReserveBillingRecovery(r, target)
      <3>1. DurableNext
        BY <1>1, <2>2, ReservingCalls
      <3>2. Alone(r) /\ preRecord' = preRecord
        BY <1>1, <1>2, <2>2, ReserveEffect
      <3> QED
        BY <1>1, <3>1, <3>2
    <2> QED
      BY <1>3, <2>1, <2>2
  <1>5. /\ sess'[r].plan \in Preferences /\ ~sess'[r].settled /\ ~sess'[r].refunded
        /\ pc'[r] \notin {"wallet_check", "ensure"} \cup Opened /\ pc'[r] \notin Settling
    BY <1>1, <1>3 DEF Same, Keeps, Opened, Settling
  <1> QED
    BY <1>3, <1>4, <1>5, LaterKeeps

LEMMA AbandonKeeps ==
    ASSUME SessionInv, NEW r \in Requests, Abandon(r)
    PROVE  StepKeeps(r)
  <1>1. /\ SessionTypeOK /\ DurableTypeOK /\ RecordsBound /\ pc[r] = "live"
        /\ sess[r].plan \in Preferences /\ ~sess[r].settled /\ ~sess[r].refunded
    BY SessionHere DEF SessionInv, Abandon
  <1>2. /\ Moved(r) /\ Same(sess'[r], sess[r]) /\ pc'[r] \in {"refund_mark", "ended"}
        /\ UNCHANGED durableVars
    BY <1>1, AbandonMoves
  <1>3. Alone(r) /\ [DurableNext]_durableVars /\ preRecord'[r].amount \in Quotas
    BY <1>1, <1>2, ClosingCall
  <1>4. /\ sess'[r].plan \in Preferences /\ ~sess'[r].settled /\ ~sess'[r].refunded
        /\ pc'[r] \notin {"wallet_check", "ensure"} \cup Opened /\ pc'[r] \notin Settling
    BY <1>1, <1>2 DEF Same, Opened, Settling
  <1> QED
    BY <1>2, <1>3, <1>4, LaterKeeps

LEMMA StartSettleKeeps ==
    ASSUME SessionInv, NEW r \in Requests, StartSettle(r)
    PROVE  StepKeeps(r)
  <1>1. /\ SessionTypeOK /\ DurableTypeOK /\ RecordsBound /\ pc[r] = "live"
        /\ sess[r].plan \in Preferences /\ ~sess[r].settled /\ ~sess[r].refunded
    BY SessionHere DEF SessionInv, StartSettle
  <1>2. /\ Moved(r) /\ Keeps(sess'[r], sess[r]) /\ pc'[r] = "settle_update"
        /\ Delta(sess'[r]) \in Deltas /\ UNCHANGED durableVars
    BY <1>1, StartSettleMoves
  <1>3. Alone(r) /\ [DurableNext]_durableVars /\ preRecord'[r].amount \in Quotas
    BY <1>1, <1>2, ClosingCall
  <1>4. /\ sess'[r].plan \in Preferences /\ ~sess'[r].settled /\ ~sess'[r].refunded
        /\ pc'[r] \notin {"wallet_check", "ensure"} \cup Opened
    BY <1>1, <1>2 DEF Keeps, Opened
  <1> QED
    BY <1>2, <1>3, <1>4, LaterKeeps

LEMMA SettlingKeeps ==
    ASSUME SessionInv, NEW r \in Requests,
           SettleUpdate(r) \/ SettleFunding(r) \/ SettleToken(r)
    PROVE  StepKeeps(r)
  <1>1. /\ SessionTypeOK /\ DurableTypeOK /\ RecordsBound /\ pc[r] \in Settling
        /\ sess[r].plan \in Preferences /\ ~sess[r].settled /\ ~sess[r].refunded
        /\ preRecord[r].amount \in Quotas /\ BoundInv(row[r], sess[r], pc[r])
    BY SessionHere DEF SessionInv, SettleUpdate, SettleFunding, SettleToken, Settling
  <1>2. Delta(sess[r]) \in Deltas
    BY <1>1 DEF BoundInv
  <1>3. /\ FundingSettle \in Effects /\ TokenSettle \in Effects
    BY EffectsAre DEF FundingSettle, TokenSettle
  <1>4. /\ Moved(r) /\ Same(sess'[r], sess[r])
        /\ pc'[r] \in Settling \cup {"refund_mark", "ended"}
        /\ \/ UNCHANGED durableVars
           \/ UpdateSettlementOk(r) /\ UpdateSettlement(r, Delta(sess[r]))
           \/ \E e \in Effects : ApplyAdjustmentOk(r, e) /\ ApplyAdjustment(r, e)
    <2>1. CASE SettleUpdate(r)
      BY <1>1, <2>1, SettleUpdateMoves DEF Transaction, Settling
    <2>2. CASE SettleFunding(r)
      BY <1>1, <1>3, <2>2, SettleFundingMoves DEF Transaction, Settling
    <2>3. CASE SettleToken(r)
      BY <1>1, <1>3, <2>3, SettleTokenMoves DEF Transaction, Settling
    <2> QED
      BY <2>1, <2>2, <2>3
  <1>5. Alone(r) /\ [DurableNext]_durableVars /\ preRecord'[r].amount \in Quotas
    <2>1. CASE UpdateSettlementOk(r) /\ UpdateSettlement(r, Delta(sess[r]))
      <3>1. DurableNext
        BY <1>2, <2>1, DurableCalls
      <3>2. Delta(sess[r]) \in Int
        BY <1>2, DeltasAreIntegers
      <3>3. Alone(r) /\ preRecord' = preRecord
        BY <1>1, <2>1, <3>2, UpdateSettlementEffect
      <3> QED
        BY <1>1, <3>1, <3>3
    <2>2. CASE \/ UNCHANGED durableVars
               \/ \E e \in Effects : ApplyAdjustmentOk(r, e) /\ ApplyAdjustment(r, e)
      BY <1>1, <2>2, ClosingCall
    <2> QED
      BY <1>4, <2>1, <2>2
  <1>6. /\ sess'[r].plan \in Preferences /\ ~sess'[r].settled /\ ~sess'[r].refunded
        /\ pc'[r] \notin {"wallet_check", "ensure"} \cup Opened
        /\ Delta(sess'[r]) \in Deltas
    BY <1>1, <1>2, <1>4 DEF Same, Opened, Settling, Delta
  <1> QED
    BY <1>4, <1>5, <1>6, LaterKeeps

LEMMA SettleMarkKeeps ==
    ASSUME SessionInv, NEW r \in Requests, SettleMark(r)
    PROVE  StepKeeps(r)
  <1>1. /\ SessionTypeOK /\ DurableTypeOK /\ RecordsBound /\ pc[r] = "settle_mark"
        /\ sess[r].plan \in Preferences /\ ~sess[r].settled /\ ~sess[r].refunded
        /\ BoundInv(row[r], sess[r], pc[r])
    BY SessionHere DEF SessionInv, SettleMark
  <1>2. Delta(sess[r]) \in Deltas
    BY <1>1 DEF BoundInv, Settling
  <1>3. /\ Moved(r)
        /\ sess'[r].plan = sess[r].plan /\ sess'[r].refunded = sess[r].refunded
        /\ \/ MarkSettledOk(r) /\ MarkSettled(r) /\ pc'[r] = "ended"
           \/ /\ (MarkSettledOk(r) /\ MarkSettled(r)) \/ UNCHANGED durableVars
              /\ pc'[r] \in {"settle_update", "refund_mark", "ended"}
              /\ Same(sess'[r], sess[r])
    BY <1>1, SettleMarkMoves DEF Transaction
  <1>4. Alone(r) /\ [DurableNext]_durableVars /\ preRecord'[r].amount \in Quotas
    BY <1>1, <1>3, ClosingCall
  <1>5. CASE MarkSettledOk(r) /\ MarkSettled(r) /\ pc'[r] = "ended"
    <2>1. row'[r].status = "settled"
      BY <1>1, <1>5, MarkEffect DEF StatusOnly, RowIs
    <2>2. BoundInv(row'[r], sess'[r], pc'[r])
      BY <1>1, <1>3, <1>5, OverBound
    <2>3. ClosedInv(row'[r], sess'[r], pc'[r])
      BY <1>1, <1>3, <1>5, <2>1 DEF ClosedInv
    <2> QED
      BY <1>3, <1>4, <2>2, <2>3 DEF StepKeeps
  <1>6. CASE /\ pc'[r] \in {"settle_update", "refund_mark", "ended"}
             /\ Same(sess'[r], sess[r])
    <2>1. /\ sess'[r].plan \in Preferences /\ ~sess'[r].settled /\ ~sess'[r].refunded
          /\ pc'[r] \notin {"wallet_check", "ensure"} \cup Opened
          /\ Delta(sess'[r]) \in Deltas
      BY <1>1, <1>2, <1>6 DEF Same, Opened, Delta
    <2> QED
      BY <1>3, <1>4, <2>1, LaterKeeps
  <1> QED
    BY <1>3, <1>5, <1>6

LEMMA RefundingKeeps ==
    ASSUME SessionInv, NEW r \in Requests,
           RefundMark(r) \/ RefundFunding(r) \/ RefundExtra(r) \/ RefundToken(r)
    PROVE  StepKeeps(r)
  <1>1. /\ SessionTypeOK /\ DurableTypeOK /\ RecordsBound
        /\ sess[r].plan \in Preferences /\ ~sess[r].settled /\ ~sess[r].refunded
    BY SessionHere DEF SessionInv, RefundMark, RefundFunding, RefundExtra, RefundToken
  <1>2. /\ FundingRefund \in Effects /\ ExtraRefund \in Effects /\ TokenRefund \in Effects
    BY EffectsAre DEF FundingRefund, ExtraRefund, TokenRefund
  <1>3. /\ Moved(r) /\ GoesOn(sess'[r], sess[r]) /\ pc'[r] \in GivingBack
        /\ \/ MarkRefundPendingOk(r) /\ MarkRefundPending(r)
           \/ \E e \in Effects : ApplyAdjustmentOk(r, e) /\ ApplyAdjustment(r, e)
           \/ UNCHANGED durableVars
    <2>1. CASE RefundMark(r)
      BY <1>1, <2>1, RefundMarkMoves DEF Transaction, GivingBack
    <2>2. CASE RefundFunding(r)
      BY <1>1, <1>2, <2>2, RefundFundingMoves DEF Transaction, GivingBack, Refunds
    <2>3. CASE RefundExtra(r)
      BY <1>1, <1>2, <2>3, RefundExtraMoves DEF Transaction, GivingBack, Refunds
    <2>4. CASE RefundToken(r)
      BY <1>1, <1>2, <2>4, RefundTokenMoves DEF Transaction, GivingBack, Refunds
    <2> QED
      BY <2>1, <2>2, <2>3, <2>4
  <1>4. Alone(r) /\ [DurableNext]_durableVars /\ preRecord'[r].amount \in Quotas
    BY <1>1, <1>3, ClosingCall
  <1>5. /\ sess'[r].plan \in Preferences /\ ~sess'[r].settled /\ ~sess'[r].refunded
        /\ pc'[r] \notin {"wallet_check", "ensure"} \cup Opened /\ pc'[r] \notin Settling
    BY <1>1, <1>3 DEF GoesOn, Keeps, Opened, Settling, GivingBack
  <1> QED
    BY <1>3, <1>4, <1>5, LaterKeeps

LEMMA RefundFinishKeeps ==
    ASSUME SessionInv, NEW r \in Requests, RefundFinish(r)
    PROVE  StepKeeps(r)
  <1>1. /\ SessionTypeOK /\ DurableTypeOK /\ RecordsBound /\ pc[r] = "refund_finish"
        /\ sess[r].plan \in Preferences /\ ~sess[r].settled /\ ~sess[r].refunded
    BY SessionHere DEF SessionInv, RefundFinish
  <1>2. /\ Moved(r) /\ pc'[r] = "ended"
        /\ sess'[r].plan = sess[r].plan /\ sess'[r].settled = sess[r].settled
        /\ \/ UNCHANGED durableVars /\ sess'[r] = sess[r]
           \/ UNCHANGED durableVars /\ sess'[r].refundErr
           \/ MarkRefundedOk(r) /\ MarkRefunded(r)
    BY <1>1, RefundFinishMoves DEF Transaction
  <1>3. Alone(r) /\ [DurableNext]_durableVars /\ preRecord'[r].amount \in Quotas
    BY <1>1, <1>2, ClosingCall
  <1>4. BoundInv(row'[r], sess'[r], pc'[r])
    BY <1>1, <1>2, OverBound
  <1>5. MarkRefunded(r) => row'[r].status = "refunded"
    BY <1>1, MarkEffect DEF StatusOnly, RowIs
  <1>6. ClosedInv(row'[r], sess'[r], pc'[r])
    BY <1>1, <1>2, <1>5 DEF ClosedInv
  <1> QED
    BY <1>2, <1>3, <1>4, <1>6 DEF StepKeeps

\* Every step of a session keeps what binds it, and calls the durable layer.
LEMMA SessionStepKeeps ==
    ASSUME SessionInv, NEW r \in Requests, SessionStep(r)
    PROVE  StepKeeps(r) /\ UNCHANGED <<worker, stalls>>
  BY BeginKeeps, WalletCheckKeeps, EnsureKeeps, WalletPreKeeps, TokenPreKeeps, SubPreKeeps,
     TokenRollbackKeeps, RollbackSyncKeeps, RecordFailureKeeps, SyncKeeps, SyncRefundKeeps,
     ReserveKeeps, AbandonKeeps, StartSettleKeeps, SettlingKeeps, SettleMarkKeeps,
     RefundingKeeps, RefundFinishKeeps
     DEF SessionStep

\* A step counts at most one fault.
FaultStep == faults' = faults \/ Fault

LEMMA SessionFaults ==
    ASSUME NEW r \in Requests, SessionStep(r)
    PROVE  FaultStep
  <1>1. CASE Begin(r) \/ WalletCheck(r) \/ Abandon(r) \/ StartSettle(r)
    BY <1>1 DEF Begin, WalletCheck, Abandon, StartSettle, FaultStep
  <1>2. CASE Ensure(r) \/ WalletPre(r) \/ TokenPre(r) \/ SubPre(r)
    BY <1>2 DEF Ensure, WalletPre, TokenPre, SubPre, Transaction, FaultStep
  <1>3. CASE TokenRollback(r) \/ RollbackSync(r) \/ RecordFailure(r) \/ Sync(r) \/ SyncRefund(r)
    BY <1>3 DEF TokenRollback, RollbackSync, RecordFailure, Sync, SyncRefund, Transaction,
                FaultStep
  <1>4. CASE Reserve(r) \/ SettleUpdate(r) \/ SettleFunding(r) \/ SettleToken(r)
             \/ SettleMark(r)
    BY <1>4 DEF Reserve, SettleUpdate, SettleFunding, SettleToken, SettleMark, Transaction,
                FaultStep
  <1>5. CASE RefundMark(r) \/ RefundFunding(r) \/ RefundExtra(r) \/ RefundToken(r)
             \/ RefundFinish(r)
    BY <1>5 DEF RefundMark, RefundFunding, RefundExtra, RefundToken, RefundFinish, Transaction,
                FaultStep
  <1> QED
    BY <1>1, <1>2, <1>3, <1>4, <1>5 DEF SessionStep

LEMMA WorkerFaults ==
    ASSUME NEW w \in Workers, WorkerStep(w)
    PROVE  FaultStep
  <1>1. CASE Pick(w) \/ Load(w)
    BY <1>1 DEF Pick, Load, FaultStep
  <1>2. CASE WorkerSettle(w) \/ WorkerRefund(w)
    BY <1>2 DEF WorkerSettle, WorkerRefund, WorkerApply, Transaction, FaultStep
  <1> QED
    BY <1>1, <1>2 DEF WorkerStep

LEMMA FaultsCounted ==
    ASSUME SessionTypeOK, FaultStep
    PROVE  faults' \in Nat /\ faults' >= faults
  BY DEF SessionTypeOK, FaultStep, Fault

\* What a recovery pass does: it picks a row that is stale, or goes on.
LEMMA WorkerStepMoves ==
    ASSUME SessionTypeOK, NEW w \in Workers, WorkerStep(w)
    PROVE  /\ WorkerMoved(w)
           /\ \/ /\ UNCHANGED durableVars /\ worker'[w].pc = "load"
                 /\ Recoverable(worker'[w].req)
              \/ LET r == worker[w].req IN
                 /\ r \in Requests /\ worker[w].pc # "idle"
                 /\ worker'[w].pc = "idle" \/ worker'[w].req = r
                 /\ \/ UNCHANGED durableVars
                    \/ MarkRefundPendingOk(r) /\ MarkRefundPending(r)
                    \/ MarkSettledOk(r) /\ MarkSettled(r)
                    \/ MarkRefundedOk(r) /\ MarkRefunded(r)
                    \/ \E e \in Effects : ApplyAdjustmentOk(r, e) /\ ApplyAdjustment(r, e)
  <1>0. /\ {FundingSettle, TokenSettle} \subseteq Effects
        /\ {FundingRefund, ExtraRefund, TokenRefund} \subseteq Effects
    BY EffectsAre DEF FundingSettle, TokenSettle, FundingRefund, ExtraRefund, TokenRefund
  <1>1. CASE Pick(w)
    BY <1>1, PickMoves
  <1>2. CASE Load(w)
    <2>1. worker[w].req \in Requests /\ worker[w].pc # "idle"
      BY <1>2, LoadMoves, WorkerFields
    <2> QED
      BY <1>2, <2>1, LoadMoves DEF Proceeds
  <1>3. CASE WorkerSettle(w)
    <2>1. PICK r : r = worker[w].req
      OBVIOUS
    <2>2. /\ r \in Requests /\ worker[w].pc # "idle" /\ Proceeds(w, {"settle_token", "settle_mark"})
          /\ \/ UNCHANGED durableVars
             \/ \E e \in {FundingSettle, TokenSettle} :
                    ApplyAdjustmentOk(r, e) /\ ApplyAdjustment(r, e)
             \/ MarkSettledOk(r) /\ MarkSettled(r)
      BY <1>3, <2>1, WorkerSettleMoves
    <2> QED
      BY <1>0, <2>1, <2>2 DEF Proceeds
  <1>4. CASE WorkerRefund(w)
    <2>1. PICK r : r = worker[w].req
      OBVIOUS
    <2>2. /\ r \in Requests /\ worker[w].pc # "idle"
          /\ \/ /\ Proceeds(w, {}) /\ UNCHANGED durableVars
             \/ /\ Proceeds(w, {"refund_funding"})
                /\ MarkRefundPendingOk(r) /\ MarkRefundPending(r)
             \/ /\ worker[w].pc \in GivingBack /\ Proceeds(w, GivingBack)
                /\ \/ UNCHANGED durableVars
                   \/ \E e \in {FundingRefund, ExtraRefund, TokenRefund} :
                         ApplyAdjustmentOk(r, e) /\ ApplyAdjustment(r, e)
                   \/ MarkRefundedOk(r) /\ MarkRefunded(r)
      BY <1>4, <2>1, WorkerRefundMoves
    <2> QED
      BY <1>0, <2>1, <2>2 DEF Proceeds
  <1> QED
    BY <1>1, <1>2, <1>3, <1>4 DEF WorkerStep

\* A step that touches one request keeps what binds the other sessions.
LEMMA SessionFrame ==
    ASSUME SessionInv, NEW r \in Requests, Alone(r),
           \A q \in Requests \ {r} : pc'[q] = pc[q] /\ sess'[q] = sess[q],
           preRecord'[r].amount \in Quotas,
           BoundInv(row'[r], sess'[r], pc'[r]), ClosedInv(row'[r], sess'[r], pc'[r])
    PROVE  RecordsBound' /\ SessionsBound' /\ SessionsClosed'
  <1>1. ASSUME NEW q \in Requests
        PROVE  /\ preRecord'[q].amount \in Quotas /\ BoundInv(row'[q], sess'[q], pc'[q])
               /\ ClosedInv(row'[q], sess'[q], pc'[q])
    <2>1. CASE q = r
      BY <2>1
    <2>2. CASE q # r
      <3>1. /\ row'[q] = row[q] /\ preRecord'[q] = preRecord[q] /\ pc'[q] = pc[q]
            /\ sess'[q] = sess[q]
        BY <2>2 DEF Alone
      <3>2. /\ preRecord[q].amount \in Quotas /\ BoundInv(row[q], sess[q], pc[q])
            /\ ClosedInv(row[q], sess[q], pc[q])
        BY DEF SessionInv, RecordsBound, SessionsBound, SessionsClosed
      <3> QED
        BY <3>1, <3>2
    <2> QED
      BY <2>1, <2>2
  <1> QED
    BY <1>1 DEF RecordsBound, SessionsBound, SessionsClosed

LEMMA SessionFrozen ==
    ASSUME SessionInv, UNCHANGED <<row, preRecord, pc, sess>>
    PROVE  RecordsBound' /\ SessionsBound' /\ SessionsClosed'
  BY DEF SessionInv, RecordsBound, SessionsBound, SessionsClosed

LEMMA SessionInvInit == Init => SessionInv
  <1> SUFFICES ASSUME Init PROVE SessionInv
    OBVIOUS
  <1>1. DurableTypeOK
    BY TypeInit DEF Init
  <1>2. /\ pc = [r \in Requests |-> "new"] /\ sess = [r \in Requests |-> NoSession]
        /\ worker = [w \in Workers |-> Idle] /\ faults = 0
    BY DEF Init
  <1>3. SessionTypeOK
    BY <1>2, NoSessionType, PlacesAre DEF SessionTypeOK
  <1>4. RecordsBound
    BY QuotasCover DEF RecordsBound, Init, DurableInit, NoRecord
  <1>5. ~NoSession.settled /\ ~NoSession.refunded
    BY DEF NoSession
  <1>6. SessionsBound
    BY <1>2 DEF SessionsBound, BoundInv, Opened, Settling
  <1>7. SessionsClosed
    BY <1>2, <1>5 DEF SessionsClosed, ClosedInv
  <1> QED
    BY <1>1, <1>3, <1>4, <1>6, <1>7 DEF SessionInv

LEMMA SessionInvStep ==
    SessionInv /\ [Next]_vars => SessionInv' /\ [DurableNext]_durableVars
  <1> SUFFICES ASSUME SessionInv, [Next]_vars
               PROVE  SessionInv' /\ [DurableNext]_durableVars
    OBVIOUS
  <1>0. DurableTypeOK /\ SessionTypeOK /\ RecordsBound
    BY DEF SessionInv
  <1>1. ASSUME [DurableNext]_durableVars
        PROVE  DurableTypeOK'
    BY <1>0, <1>1, TypeStep
  <1>2. ASSUME NEW r \in Requests, SessionStep(r)
        PROVE  SessionInv' /\ [DurableNext]_durableVars
    <2>1. StepKeeps(r) /\ UNCHANGED worker
      BY <1>2, SessionStepKeeps
    <2>2. faults' \in Nat
      BY <1>0, <1>2, SessionFaults, FaultsCounted
    <2>3. SessionTypeOK'
      BY <1>0, <2>1, <2>2 DEF SessionTypeOK, StepKeeps, Moved
    <2>4. RecordsBound' /\ SessionsBound' /\ SessionsClosed'
      BY <2>1, SessionFrame DEF StepKeeps, Moved
    <2> QED
      BY <1>1, <2>1, <2>3, <2>4 DEF StepKeeps, SessionInv
  <1>3. ASSUME NEW r \in Requests, Crash(r)
        PROVE  SessionInv' /\ [DurableNext]_durableVars
    <2> DEFINE t == [sess[r] EXCEPT !.heartbeat = FALSE]
    <2>1. sess[r] \in SessionType /\ pc[r] \notin {"new", "ended", "dead"}
      BY <1>3, SessionHere DEF Crash, Running
    <2>2. t \in SessionType /\ Same(t, sess[r]) /\ Goto(r, "dead", t)
      BY <1>3, <2>1, FlagUpdates DEF Crash
    <2> HIDE DEF t
    <2>3. Moved(r) /\ pc'[r] = "dead" /\ sess'[r] = t
      BY <1>0, <2>2, GotoMoves, PlacesAre
    <2>4. UNCHANGED durableVars /\ UNCHANGED <<worker, faults>>
      BY <1>3 DEF Crash
    <2>5. /\ Alone(r) /\ [DurableNext]_durableVars /\ preRecord' = preRecord
      BY <2>4, NoEffect
    <2>6. /\ sess'[r].plan \in Preferences /\ ~sess'[r].settled /\ ~sess'[r].refunded
      BY <2>1, <2>2, <2>3, SessionHere DEF Same
    <2>7. BoundInv(row'[r], sess'[r], pc'[r]) /\ ClosedInv(row'[r], sess'[r], pc'[r])
      BY <2>3, <2>6, OverBound, OpenClosed
    <2>8. preRecord'[r].amount \in Quotas
      BY <1>0, <2>5 DEF RecordsBound
    <2>9. SessionTypeOK'
      BY <1>0, <2>3, <2>4 DEF SessionTypeOK, Moved
    <2>10. RecordsBound' /\ SessionsBound' /\ SessionsClosed'
      BY <2>3, <2>5, <2>7, <2>8, SessionFrame DEF Moved
    <2> QED
      BY <1>1, <2>5, <2>9, <2>10 DEF SessionInv
  <1>4. ASSUME NEW r \in Requests, Heartbeat(r) \/ Age(r)
        PROVE  SessionInv' /\ [DurableNext]_durableVars
    <2>1. /\ UNCHANGED <<row, preRecord, pc, sess, worker, faults>>
          /\ DurableNext
      BY <1>4 DEF Heartbeat, Age, TouchBillingRecovery, GrowStale, DurableNext, Timing
    <2>2. SessionTypeOK'
      BY <1>0, <2>1 DEF SessionTypeOK
    <2> QED
      BY <1>1, <2>1, <2>2, SessionFrozen DEF SessionInv
  <1>5. ASSUME NEW w \in Workers, WorkerStep(w)
        PROVE  SessionInv' /\ [DurableNext]_durableVars
    <2>1. UNCHANGED <<pc, sess>> /\ WorkerMoved(w)
      BY <1>0, <1>5, WorkerStepMoves DEF WorkerStep
    <2>2. faults' \in Nat
      BY <1>0, <1>5, WorkerFaults, FaultsCounted
    <2>3. SessionTypeOK'
      BY <1>0, <2>1, <2>2 DEF SessionTypeOK, WorkerMoved, WorkerType
    <2>4. \/ UNCHANGED durableVars
          \/ \E r \in Requests :
                \/ MarkRefundPendingOk(r) /\ MarkRefundPending(r)
                \/ MarkSettledOk(r) /\ MarkSettled(r)
                \/ MarkRefundedOk(r) /\ MarkRefunded(r)
                \/ \E e \in Effects : ApplyAdjustmentOk(r, e) /\ ApplyAdjustment(r, e)
      BY <1>0, <1>5, WorkerStepMoves
    <2>5. CASE UNCHANGED durableVars
      <3>1. UNCHANGED <<row, preRecord>> /\ [DurableNext]_durableVars
        BY <2>5 DEF durableVars
      <3> QED
        BY <1>1, <2>1, <2>3, <3>1, SessionFrozen DEF SessionInv
    <2>6. ASSUME NEW r \in Requests,
                \/ MarkRefundPendingOk(r) /\ MarkRefundPending(r)
                \/ MarkSettledOk(r) /\ MarkSettled(r)
                \/ MarkRefundedOk(r) /\ MarkRefunded(r)
                \/ \E e \in Effects : ApplyAdjustmentOk(r, e) /\ ApplyAdjustment(r, e)
          PROVE  SessionInv' /\ [DurableNext]_durableVars
      <3>1. /\ Alone(r) /\ [DurableNext]_durableVars /\ preRecord'[r].amount \in Quotas
            /\ row'[r].source = row[r].source
            /\ row[r].source = "wallet" => row'[r].funding = row[r].funding
            /\ row[r].status \in Terminal => row'[r].status = row[r].status
        BY <1>0, <2>6, ClosingCall
      <3>2. BoundInv(row[r], sess[r], pc[r]) /\ ClosedInv(row[r], sess[r], pc[r])
        BY DEF SessionInv, SessionsBound, SessionsClosed
      <3>3. BoundInv(row'[r], sess'[r], pc'[r])
        BY <2>1, <3>1, <3>2 DEF BoundInv
      <3>4. ClosedInv(row'[r], sess'[r], pc'[r])
        BY <2>1, <3>1, <3>2 DEF ClosedInv, Terminal
      <3>5. RecordsBound' /\ SessionsBound' /\ SessionsClosed'
        BY <2>1, <3>1, <3>3, <3>4, SessionFrame
      <3> QED
        BY <1>1, <2>3, <3>1, <3>5 DEF SessionInv
    <2> QED
      BY <2>4, <2>5, <2>6
  <1>6. ASSUME UNCHANGED vars
        PROVE  SessionInv' /\ [DurableNext]_durableVars
    <2>1. /\ UNCHANGED durableVars /\ UNCHANGED <<pc, sess, worker, faults>>
          /\ UNCHANGED <<row, preRecord>>
      BY <1>6 DEF vars, durableVars
    <2>2. SessionTypeOK'
      BY <1>0, <2>1 DEF SessionTypeOK
    <2> QED
      BY <1>1, <2>1, <2>2, SessionFrozen DEF SessionInv
  <1> QED
    BY <1>2, <1>3, <1>4, <1>5, <1>6 DEF Next, Finished

\* Sessions and recovery passes keep their shape, stay bound to their row's source and
\* price, and never believe more than the row says, for every set of requests,
\* workers, faults, stalls and crashes.
THEOREM SessionsTyped == Spec => []SessionInv
  <1>1. SessionInv /\ [Next]_vars => SessionInv'
    BY SessionInvStep
  <1> QED
    BY <1>1, SessionInvInit, PTL DEF Spec

\* The program implements the durable layer: whatever the sessions and the recovery
\* passes do, and however calls fail, every change of the database is one call
\* of DurableNext with arguments it allows; so what is proved of DurableSpec
\* holds of the program.
THEOREM SessionsUseDurable == Spec => DurableSpec
  <1>1. Init => DurableInit
    BY DEF Init
  <1>2. SessionInv /\ [Next]_vars => [DurableNext]_durableVars
    BY SessionInvStep
  <1> QED
    BY <1>1, <1>2, SessionsTyped, PTL DEF Spec, DurableSpec

\* A session that ended as settled has a settled row, and one that ended as refunded
\* without an error a refunded row, whatever passes and crashes did since.
THEOREM SessionTellsTruth == Spec => []SessionMatchesRow
  <1>1. SessionInv => SessionMatchesRow
    BY DEF SessionInv, SessionsClosed, ClosedInv, SessionMatchesRow
  <1> QED
    BY <1>1, SessionsTyped, PTL

-----------------------------------------------------------------------------
(* Each transaction keeps the books of its request.                         *)

LEMMA EffectNames ==
    /\ FundingRefund \in Effects /\ ExtraRefund \in Effects /\ TokenRefund \in Effects
    /\ FundingSettle \in Effects /\ TokenSettle \in Effects
    /\ FundingRefund # ExtraRefund /\ FundingRefund # TokenRefund /\ ExtraRefund # TokenRefund
    /\ FundingSettle # TokenSettle
    /\ FundingRefund # FundingSettle /\ FundingRefund # TokenSettle
    /\ ExtraRefund # FundingSettle /\ ExtraRefund # TokenSettle
    /\ TokenRefund # FundingSettle /\ TokenRefund # TokenSettle
  BY EffectsAre DEF FundingRefund, ExtraRefund, TokenRefund, FundingSettle, TokenSettle

\* The types of the books of one request.
BookTypes(x, m, k, c) ==
    /\ x.status \in {"absent", "active", "settlement_pending", "refund_pending", "settled", "refunded"}
    /\ x.source \in {"wallet", "subscription"} /\ x.pre \in {"prepared", "committed"}
    /\ x.tokenRequired \in BOOLEAN /\ x.sub \in BOOLEAN
    /\ x.funding \in Nat /\ x.extra \in Nat /\ x.token \in Nat /\ x.delta \in Int
    /\ \A e \in Effects : m[e].done \in BOOLEAN /\ m[e].amount \in Int
    /\ k.status \in {"none", "consumed", "refunded"} /\ k.amount \in Nat
    /\ c.wallet \in Int /\ c.sub \in Int /\ c.token \in Int

\* What the durable layer alone knows of them.
LedgerKnows(x, m, c) ==
    /\ \A e \in Effects : ~m[e].done => m[e].amount = 0
    /\ x.status \notin {"settlement_pending", "settled"} => ~m[FundingSettle].done /\ ~m[TokenSettle].done
    /\ x.status = "settled" => m[FundingSettle].done /\ m[TokenSettle].done
    /\ x.pre = "prepared" => /\ x.funding = 0 /\ x.extra = 0 /\ x.token = 0
                             /\ m[FundingRefund].amount = 0
    /\ x.status = "absent" => x.pre = "prepared" /\ \A e \in Effects : ~m[e].done
    /\ c.wallet = IF x.source = "wallet"
                  THEN x.funding + m[FundingSettle].amount - m[FundingRefund].amount ELSE 0

LEMMA BookFacts ==
    ASSUME DurableTypeOK, LedgerInv, NEW r \in Requests
    PROVE  /\ BookTypes(row[r], adjustments[r], preRecord[r], charge[r])
           /\ LedgerKnows(row[r], adjustments[r], charge[r])
  <1>1. /\ row[r] \in RowType /\ adjustments[r] \in [Effects -> MarkerType]
        /\ preRecord[r] \in RecordType /\ charge[r] \in ChargeType
    BY DEF DurableTypeOK
  <1>2. RequestInv(row[r], adjustments[r], charge[r].wallet)
    BY DEF LedgerInv
  <1>3. BookTypes(row[r], adjustments[r], preRecord[r], charge[r])
    BY <1>1, RowFields, ChargeFields
       DEF BookTypes, RowType, MarkerType, RecordType, Live, Terminal, Sources
  <1>4. LedgerKnows(row[r], adjustments[r], charge[r])
    BY <1>1, <1>2 DEF LedgerKnows, RequestInv, MarkerInv, StatusInv, PreparedInv, WalletInv,
       FundingRefund, ExtraRefund, TokenRefund, FundingSettle, TokenSettle
  <1> QED
    BY <1>3, <1>4

BooksHold(r) == Books(row[r], adjustments[r], preRecord[r], charge[r])

\* Everything the transactions below may rely on.
BooksOpen(r) ==
    /\ BookTypes(row[r], adjustments[r], preRecord[r], charge[r])
    /\ LedgerKnows(row[r], adjustments[r], charge[r]) /\ BooksHold(r)

LEMMA SameBooks ==
    ASSUME NEW r \in Requests, BooksHold(r), row'[r] = row[r], adjustments'[r] = adjustments[r],
           preRecord'[r] = preRecord[r], charge'[r] = charge[r]
    PROVE  BooksHold(r)'
  BY DEF BooksHold

LEMMA EnsureBooks ==
    ASSUME NEW r \in Requests, BooksOpen(r), NEW src \in Sources, NEW tr,
           UNCHANGED <<adjustments, preRecord, charge>>,
           \/ /\ row[r].status = "absent"
              /\ RowIs(row'[r], "active", src, "prepared", tr, FALSE, 0, 0, 0, 0)
           \/ /\ row[r].status = "refunded" /\ row[r].pre = "prepared" /\ preRecord[r].status = "none"
              /\ charge[r].token = 0 /\ \A e \in Effects : ~adjustments[r][e].done
              /\ RowIs(row'[r], "active", src, row[r].pre, row[r].tokenRequired, row[r].sub,
                       row[r].funding, row[r].extra, row[r].token, row[r].delta)
    PROVE  BooksHold(r)'
  <1> USE EffectNames DEF BooksOpen, BookTypes, LedgerKnows, RowIs, BooksHold, Books
  <1>1. AmountsBooked(row'[r], adjustments'[r])
    BY DEF AmountsBooked
  <1>2. SubBooks(row'[r], adjustments'[r], preRecord'[r], charge'[r])
    <2>1. /\ charge[r].sub = 0 /\ preRecord[r].status = "none" /\ \A e \in Effects : adjustments[r][e].amount = 0
      BY DEF StatusBooks, Uncharged
    <2>2. row'[r].extra = 0 /\ row'[r].funding = 0
      OBVIOUS
    <2>3. Held(preRecord'[r]) = 0
      BY <2>1 DEF Held
    <2>4. adjustments'[r][FundingSettle].amount = 0 /\ adjustments'[r][ExtraRefund].amount = 0
      BY <2>1
    <2>5. charge'[r].sub = 0 /\ preRecord'[r].status = "none"
      BY <2>1
    <2>6. Held(preRecord'[r]) + row'[r].extra + adjustments'[r][FundingSettle].amount - adjustments'[r][ExtraRefund].amount = 0
      BY <2>2, <2>3, <2>4
    <2> HIDE DEF BooksOpen, BookTypes, LedgerKnows, RowIs, BooksHold, Books
    <2> QED
      BY <2>2, <2>5, <2>6 DEF SubBooks
  <1>3. TokenBooks(row'[r], adjustments'[r], preRecord'[r], charge'[r])
    BY DEF TokenBooks, StatusBooks, Uncharged
  <1>4. StatusBooks(row'[r], preRecord'[r], charge'[r])
    BY DEF StatusBooks
  <1> QED
    BY <1>1, <1>2, <1>3, <1>4

LEMMA AbortBooks ==
    ASSUME NEW r \in Requests, BooksOpen(r), AbortPreparedOk(r), StatusOnly(r, "refunded"),
           row[r].source = "wallet" \/ preRecord[r].status # "consumed"
    PROVE  BooksHold(r)'
  <1> USE EffectNames DEF BooksOpen, BookTypes, LedgerKnows, RowIs, StatusOnly, BooksHold, Books, AbortPreparedOk
  <1>1. AmountsBooked(row'[r], adjustments'[r])
    BY DEF AmountsBooked
  <1>2. SubBooks(row'[r], adjustments'[r], preRecord'[r], charge'[r])
    BY DEF SubBooks, Held
  <1>3. TokenBooks(row'[r], adjustments'[r], preRecord'[r], charge'[r])
    BY DEF TokenBooks
  <1>4. StatusBooks(row'[r], preRecord'[r], charge'[r])
    <2>1. CASE row[r].status = "refunded"
      BY <2>1 DEF StatusBooks
    <2>2. CASE row[r].status = "active"
      <3>1. /\ adjustments[r][FundingRefund].amount = 0 /\ adjustments[r][ExtraRefund].amount = 0
            /\ adjustments[r][TokenRefund].amount = 0 /\ adjustments[r][FundingSettle].amount = 0
            /\ adjustments[r][TokenSettle].amount = 0
        BY <2>2 DEF AmountsBooked
      <3>2. charge[r].wallet = 0
        BY <2>2, <3>1
      <3>3. charge[r].sub = 0
        <4>1. row[r].source # "wallet" => Held(preRecord[r]) = 0
          BY DEF Held
        <4>2. row[r].extra = 0
          BY <2>2
        <4>3. adjustments[r][FundingSettle].amount = 0 /\ adjustments[r][ExtraRefund].amount = 0
          BY <3>1
        <4> QED
          BY <4>1, <4>2, <4>3 DEF SubBooks
      <3> QED
        BY <2>2, <3>1, <3>2, <3>3 DEF StatusBooks, TokenBooks, SubBooks
    <2> QED
      BY <2>1, <2>2
  <1> QED
    BY <1>1, <1>2, <1>3, <1>4

LEMMA WalletBooks ==
    ASSUME NEW r \in Requests, BooksOpen(r), NEW q \in Nat, row[r].status = "active", row[r].source = "wallet",
           row[r].pre = "prepared", UNCHANGED <<adjustments, preRecord>>,
           RowIs(row'[r], row[r].status, row[r].source, "committed",
                 row[r].tokenRequired, row[r].sub, q, row[r].extra,
                 IF row[r].tokenRequired THEN q ELSE 0, row[r].delta),
           Charged(r, q, 0, IF row[r].tokenRequired THEN q ELSE 0)
    PROVE  BooksHold(r)'
  <1> USE EffectNames DEF BooksOpen, BookTypes, LedgerKnows, RowIs, Charged, BooksHold, Books
  <1>1. AmountsBooked(row'[r], adjustments'[r])
    BY DEF AmountsBooked
  <1>2. SubBooks(row'[r], adjustments'[r], preRecord'[r], charge'[r])
    BY DEF SubBooks, Held
  <1>3. TokenBooks(row'[r], adjustments'[r], preRecord'[r], charge'[r])
    <2>1. adjustments[r][TokenRefund].amount = 0 /\ adjustments[r][TokenSettle].amount = 0
      BY DEF AmountsBooked
    <2>2. preRecord[r].status = "none" /\ charge[r].token = 0
      BY DEF SubBooks, TokenBooks
    <2> QED
      BY <2>1, <2>2 DEF TokenBooks
  <1>4. StatusBooks(row'[r], preRecord'[r], charge'[r])
    BY DEF StatusBooks
  <1> QED
    BY <1>1, <1>2, <1>3, <1>4

\* Token quota taken or given back before any row says so.
LEMMA TokenMoveBooks ==
    ASSUME NEW r \in Requests, BooksOpen(r), NEW t \in Int, row[r].status = "active",
           Unrecorded(row[r], preRecord[r]), UNCHANGED <<row, adjustments, preRecord>>,
           Charged(r, 0, 0, t)
    PROVE  BooksHold(r)'
  <1> USE EffectNames DEF BooksOpen, BookTypes, LedgerKnows, Charged, BooksHold, Books, Unrecorded
  <1>1. AmountsBooked(row'[r], adjustments'[r])
    BY DEF AmountsBooked
  <1>2. SubBooks(row'[r], adjustments'[r], preRecord'[r], charge'[r])
    BY DEF SubBooks, Held
  <1>3. TokenBooks(row'[r], adjustments'[r], preRecord'[r], charge'[r])
    BY DEF TokenBooks
  <1>4. StatusBooks(row'[r], preRecord'[r], charge'[r])
    BY DEF StatusBooks
  <1> QED
    BY <1>1, <1>2, <1>3, <1>4

LEMMA SubscriptionBooks ==
    ASSUME NEW r \in Requests, BooksOpen(r), NEW q \in Nat, q > 0, row[r].status = "active",
           Unrecorded(row[r], preRecord[r]), UNCHANGED <<row, adjustments>>,
           charge[r].token = (IF row[r].tokenRequired THEN q ELSE 0),
           preRecord'[r].status = "consumed", preRecord'[r].amount = q,
           ~adjustments[r][FundingRefund].done, Charged(r, 0, q, 0)
    PROVE  BooksHold(r)'
  <1> USE EffectNames DEF BooksOpen, BookTypes, LedgerKnows, Charged, BooksHold, Books, Unrecorded
  <1>1. AmountsBooked(row'[r], adjustments'[r])
    BY DEF AmountsBooked
  <1>2. SubBooks(row'[r], adjustments'[r], preRecord'[r], charge'[r])
    BY DEF SubBooks, Held
  <1>3. TokenBooks(row'[r], adjustments'[r], preRecord'[r], charge'[r])
    BY DEF TokenBooks
  <1>4. StatusBooks(row'[r], preRecord'[r], charge'[r])
    BY DEF StatusBooks
  <1> QED
    BY <1>1, <1>2, <1>3, <1>4

\* An active row has no marker.
LEMMA ActiveUnmarked ==
    ASSUME NEW r \in Requests, BooksOpen(r), row[r].status = "active"
    PROVE  /\ adjustments[r][FundingRefund].amount = 0 /\ adjustments[r][ExtraRefund].amount = 0
           /\ adjustments[r][TokenRefund].amount = 0 /\ adjustments[r][FundingSettle].amount = 0
           /\ adjustments[r][TokenSettle].amount = 0
           /\ ~adjustments[r][FundingRefund].done /\ ~adjustments[r][ExtraRefund].done
           /\ ~adjustments[r][TokenRefund].done /\ ~adjustments[r][FundingSettle].done
           /\ ~adjustments[r][TokenSettle].done
  BY EffectNames DEF BooksOpen, BookTypes, LedgerKnows, BooksHold, Books, AmountsBooked

\* Reported amounts: those that were charged.
LEMMA AmountsBooks ==
    ASSUME NEW r \in Requests, BooksOpen(r), NEW sub \in BOOLEAN, NEW f \in Nat, NEW t \in Nat,
           row[r].status = "active", row[r].extra = 0, UNCHANGED <<adjustments, preRecord, charge>>,
           RowIs(row'[r], row[r].status, row[r].source, "committed", row[r].tokenRequired, sub,
                 f, 0, t, row[r].delta),
           row[r].source = "subscription" => f = Held(preRecord[r]),
           charge[r].token = (IF row[r].tokenRequired THEN t ELSE 0)
    PROVE  BooksHold(r)'
  <1>0. row[r].source = "subscription" \/ row[r].source = "wallet"
    BY DEF BooksOpen, BookTypes
  <1>k. preRecord[r].status = "consumed" => row[r].source = "subscription" /\ f = preRecord[r].amount
    BY <1>0 DEF Held, BooksOpen, BooksHold, Books, SubBooks
  <1>n. preRecord[r].status # "consumed" /\ row[r].source = "subscription" => f = 0
    BY DEF Held
  <1> USE EffectNames, ActiveUnmarked DEF BooksOpen, BookTypes, LedgerKnows, RowIs, BooksHold, Books
  <1>1. AmountsBooked(row'[r], adjustments'[r])
    BY DEF AmountsBooked
  <1>2. SubBooks(row'[r], adjustments'[r], preRecord'[r], charge'[r])
    BY <1>k, <1>n DEF SubBooks
  <1>3. TokenBooks(row'[r], adjustments'[r], preRecord'[r], charge'[r])
    BY DEF TokenBooks
  <1>4. StatusBooks(row'[r], preRecord'[r], charge'[r])
    BY DEF StatusBooks
  <1> QED
    BY <1>1, <1>2, <1>3, <1>4

LEMMA ReserveBooks ==
    ASSUME NEW r \in Requests, BooksOpen(r), NEW d \in Nat, NEW f \in Nat, NEW t \in Nat,
           row[r].status = "active", row[r].pre = "committed",
           row[r].source = "subscription" => row[r].sub,
           UNCHANGED <<adjustments, preRecord>>,
           f = (IF row[r].source = "subscription" THEN 0 ELSE d),
           t = (IF row[r].tokenRequired THEN d ELSE 0),
           RowIs(row'[r], row[r].status, row[r].source, row[r].pre,
                 row[r].tokenRequired, row[r].sub, row[r].funding + f,
                 row[r].extra + (d - f), row[r].token + t, row[r].delta),
           Charged(r, f, IF row[r].sub THEN d - f ELSE 0, t)
    PROVE  BooksHold(r)'
  <1> USE EffectNames, ActiveUnmarked DEF BooksOpen, BookTypes, LedgerKnows, RowIs, Charged, BooksHold, Books
  <1>1. AmountsBooked(row'[r], adjustments'[r])
    BY DEF AmountsBooked
  <1>2. SubBooks(row'[r], adjustments'[r], preRecord'[r], charge'[r])
    <2>0. Held(preRecord[r]) \in Int
      BY DEF Held
    <2>1. CASE row[r].source = "wallet"
      BY <2>1 DEF SubBooks
    <2>2. CASE row[r].source = "subscription"
      BY <2>0, <2>2 DEF SubBooks
    <2> QED
      BY <2>1, <2>2
  <1>3. TokenBooks(row'[r], adjustments'[r], preRecord'[r], charge'[r])
    BY DEF TokenBooks
  <1>4. StatusBooks(row'[r], preRecord'[r], charge'[r])
    BY DEF StatusBooks
  <1> QED
    BY <1>1, <1>2, <1>3, <1>4

\* The price is written before the settlement, and written again as it was.
LEMMA PriceBooks ==
    ASSUME NEW r \in Requests, BooksOpen(r), NEW d \in Int,
           \/ row[r].status = "active" /\ row[r].pre = "committed" /\ (row[r].source = "subscription" => row[r].sub)
           \/ row[r].status = "settlement_pending" /\ d = row[r].delta,
           UNCHANGED <<adjustments, preRecord, charge>>,
           RowIs(row'[r], "settlement_pending", row[r].source, row[r].pre, row[r].tokenRequired,
                 row[r].sub, row[r].funding, row[r].extra, row[r].token, d)
    PROVE  BooksHold(r)'
  <1> USE EffectNames, ActiveUnmarked DEF BooksOpen, BookTypes, LedgerKnows, RowIs, BooksHold, Books
  <1>1. AmountsBooked(row'[r], adjustments'[r])
    BY DEF AmountsBooked
  <1>2. SubBooks(row'[r], adjustments'[r], preRecord'[r], charge'[r])
    BY DEF SubBooks, StatusBooks
  <1>3. TokenBooks(row'[r], adjustments'[r], preRecord'[r], charge'[r])
    BY DEF TokenBooks
  <1>4. StatusBooks(row'[r], preRecord'[r], charge'[r])
    BY DEF StatusBooks
  <1> QED
    BY <1>1, <1>2, <1>3, <1>4

\* Giving back begins; a subscription pre-consume nobody recorded is found again.
LEMMA MarkBooks ==
    ASSUME NEW r \in Requests, BooksOpen(r), row[r].status \in {"active", "refund_pending"},
           UNCHANGED <<adjustments, preRecord, charge>>,
           \/ ~Unsynced(r) /\ StatusOnly(r, "refund_pending")
           \/ /\ Unsynced(r)
              /\ RowIs(row'[r], "refund_pending", row[r].source, "committed",
                       row[r].tokenRequired, TRUE, preRecord[r].amount, row[r].extra,
                       IF row[r].tokenRequired THEN preRecord[r].amount ELSE row[r].token,
                       row[r].delta)
    PROVE  BooksHold(r)'
  <1> USE EffectNames DEF BooksOpen, BookTypes, LedgerKnows, BooksHold, Books
  <1>1. CASE ~Unsynced(r) /\ StatusOnly(r, "refund_pending")
    <2> USE <1>1 DEF StatusOnly, RowIs
    <2>1. AmountsBooked(row'[r], adjustments'[r])
      BY DEF AmountsBooked
    <2>2. SubBooks(row'[r], adjustments'[r], preRecord'[r], charge'[r])
      BY DEF SubBooks, Unsynced
    <2>3. TokenBooks(row'[r], adjustments'[r], preRecord'[r], charge'[r])
      BY DEF TokenBooks
    <2>4. StatusBooks(row'[r], preRecord'[r], charge'[r])
      BY DEF StatusBooks
    <2> QED
      BY <2>1, <2>2, <2>3, <2>4
  <1>2. CASE /\ Unsynced(r)
             /\ RowIs(row'[r], "refund_pending", row[r].source, "committed",
                      row[r].tokenRequired, TRUE, preRecord[r].amount, row[r].extra,
                      IF row[r].tokenRequired THEN preRecord[r].amount ELSE row[r].token,
                      row[r].delta)
    <2>0. row[r].status = "active"
      BY <1>2 DEF Unsynced, SubBooks
    <2> USE <1>2, <2>0, ActiveUnmarked DEF RowIs, Unsynced
    <2>1. AmountsBooked(row'[r], adjustments'[r])
      BY DEF AmountsBooked
    <2>2. SubBooks(row'[r], adjustments'[r], preRecord'[r], charge'[r])
      BY DEF SubBooks
    <2>3. TokenBooks(row'[r], adjustments'[r], preRecord'[r], charge'[r])
      BY DEF TokenBooks
    <2>4. StatusBooks(row'[r], preRecord'[r], charge'[r])
      BY DEF StatusBooks
    <2> QED
      BY <2>1, <2>2, <2>3, <2>4
  <1> QED
    BY <1>1, <1>2

\* A refund of a row that is being given back.
LEMMA RefundBooks ==
    ASSUME NEW r \in Requests, BooksOpen(r), NEW e \in {FundingRefund, ExtraRefund, TokenRefund},
           row[r].status = "refund_pending", ~AdjustmentSkipped(r, e), Applied(r, e)
    PROVE  BooksHold(r)'
  <1> USE EffectNames DEF BooksOpen, BookTypes, LedgerKnows, BooksHold, Books, RowIs, Charged, Applied
  <1>0. ~adjustments[r][e].done /\ e \in Effects /\ adjustments[r][e].amount = 0
    BY DEF AdjustmentSkipped, Fenced
  <1>h. Held(preRecord[r]) \in Int
    BY DEF Held
  <1>1. CASE e = FundingRefund
    <2>1. /\ EffectAmount(r, e) = row[r].funding /\ TokenTaken(r, e) = 0
          /\ RefundsRecord(r, e) <=> /\ row[r].source = "subscription" /\ row[r].funding # 0
                                     /\ preRecord[r].status = "consumed"
          /\ SubTaken(r, e) = IF RefundsRecord(r, e) THEN -preRecord[r].amount ELSE 0
      BY <1>1 DEF EffectAmount, TokenTaken, RefundsRecord, SubTaken, FundingRefund
    <2>2. AmountsBooked(row'[r], adjustments'[r])
      BY <1>1, <2>1 DEF AmountsBooked
    <2>3. SubTaken(r, e) = -Held(preRecord[r]) /\ Held(preRecord'[r]) = 0
      BY <1>1, <2>1 DEF Held, SubBooks
    <2>4. SubBooks(row'[r], adjustments'[r], preRecord'[r], charge'[r])
      <3>1. charge'[r].sub = IF row[r].source = "wallet" THEN 0
                             ELSE row[r].extra + adjustments[r][FundingSettle].amount - adjustments[r][ExtraRefund].amount
        BY <1>1, <1>h, <2>3 DEF SubBooks, Held
      <3>2. preRecord'[r].status # "consumed"
        BY <1>1, <2>1 DEF SubBooks
      <3> QED
        BY <1>1, <2>1, <2>3, <3>1, <3>2 DEF SubBooks
    <2>5. TokenBooks(row'[r], adjustments'[r], preRecord'[r], charge'[r])
      BY <1>1, <2>1 DEF TokenBooks, SubBooks
    <2>6. StatusBooks(row'[r], preRecord'[r], charge'[r])
      BY DEF StatusBooks
    <2> QED
      BY <2>2, <2>4, <2>5, <2>6
  <1>2. CASE e = ExtraRefund
    <2>1. /\ EffectAmount(r, e) = row[r].extra /\ TokenTaken(r, e) = 0 /\ ~RefundsRecord(r, e)
          /\ SubTaken(r, e) = IF row[r].sub THEN -row[r].extra ELSE 0
      BY <1>2 DEF EffectAmount, TokenTaken, RefundsRecord, SubTaken, ExtraRefund
    <2>2. SubTaken(r, e) = -row[r].extra
      BY <2>1 DEF SubBooks
    <2>3. AmountsBooked(row'[r], adjustments'[r])
      BY <1>2, <2>1 DEF AmountsBooked
    <2>4. SubBooks(row'[r], adjustments'[r], preRecord'[r], charge'[r])
      <3>1. preRecord'[r].status = preRecord[r].status /\ Held(preRecord'[r]) = Held(preRecord[r])
        BY <2>1 DEF Held
      <3>2. /\ adjustments'[r][ExtraRefund].amount = row[r].extra /\ adjustments[r][ExtraRefund].amount = 0
            /\ adjustments'[r][FundingSettle] = adjustments[r][FundingSettle]
            /\ adjustments'[r][FundingRefund] = adjustments[r][FundingRefund]
        BY <1>0, <1>2, <2>1
      <3>3. charge'[r].sub = charge[r].sub - row[r].extra
        BY <2>2
      <3>4. CASE row[r].source = "wallet"
        BY <3>1, <3>2, <3>3, <3>4 DEF SubBooks
      <3>5. CASE row[r].source = "subscription"
        BY <3>1, <3>2, <3>3, <3>5, <1>h DEF SubBooks
      <3> QED
        BY <3>4, <3>5
    <2>5. TokenBooks(row'[r], adjustments'[r], preRecord'[r], charge'[r])
      BY <1>2, <2>1 DEF TokenBooks
    <2>6. StatusBooks(row'[r], preRecord'[r], charge'[r])
      BY DEF StatusBooks
    <2> QED
      BY <2>3, <2>4, <2>5, <2>6
  <1>3. CASE e = TokenRefund
    <2>1. /\ EffectAmount(r, e) = row[r].token /\ SubTaken(r, e) = 0 /\ ~RefundsRecord(r, e)
          /\ TokenTaken(r, e) = IF row[r].tokenRequired THEN -row[r].token ELSE 0
      BY <1>3 DEF EffectAmount, TokenTaken, RefundsRecord, SubTaken, TokenRefund
    <2>3. AmountsBooked(row'[r], adjustments'[r])
      BY <1>3, <2>1 DEF AmountsBooked
    <2>4. SubBooks(row'[r], adjustments'[r], preRecord'[r], charge'[r])
      <3>1. preRecord'[r].status = preRecord[r].status /\ Held(preRecord'[r]) = Held(preRecord[r])
        BY <2>1 DEF Held
      <3> QED
        BY <1>3, <1>h, <2>1, <3>1 DEF SubBooks
    <2>5. TokenBooks(row'[r], adjustments'[r], preRecord'[r], charge'[r])
      <3>1. /\ adjustments'[r][TokenRefund].amount = row[r].token /\ adjustments[r][TokenRefund].amount = 0
            /\ adjustments'[r][TokenSettle] = adjustments[r][TokenSettle]
        BY <1>0, <1>3, <2>1
      <3>2. charge'[r].token = charge[r].token + TokenTaken(r, e)
        OBVIOUS
      <3>3. row[r].pre = "prepared" => charge'[r].token = charge[r].token
        BY <2>1, <3>2
      <3>4. CASE row[r].pre = "prepared"
        BY <2>1, <3>3, <3>4 DEF TokenBooks
      <3>5. CASE row[r].pre = "committed" /\ row[r].tokenRequired
        <4>1. charge[r].token = row[r].token + adjustments[r][TokenSettle].amount - 0
          BY <3>1, <3>5 DEF TokenBooks
        <4>2. charge'[r].token = charge[r].token - row[r].token
          BY <2>1, <3>2, <3>5
        <4> QED
          BY <3>1, <3>5, <4>1, <4>2 DEF TokenBooks
      <3>6. CASE row[r].pre = "committed" /\ ~row[r].tokenRequired
        BY <2>1, <3>2, <3>6 DEF TokenBooks
      <3> QED
        BY <3>4, <3>5, <3>6
    <2>6. StatusBooks(row'[r], preRecord'[r], charge'[r])
      BY DEF StatusBooks
    <2> QED
      BY <2>3, <2>4, <2>5, <2>6
  <1> QED
    BY <1>1, <1>2, <1>3

\* A settlement effect of a row whose price is written.
LEMMA SettleBooks ==
    ASSUME NEW r \in Requests, BooksOpen(r), NEW e \in {FundingSettle, TokenSettle},
           row[r].status = "settlement_pending", ~AdjustmentSkipped(r, e), Applied(r, e)
    PROVE  BooksHold(r)'
  <1> USE EffectNames DEF BooksOpen, BookTypes, LedgerKnows, BooksHold, Books, RowIs, Charged, Applied
  <1>0. ~adjustments[r][e].done /\ e \in Effects /\ adjustments[r][e].amount = 0
    BY DEF AdjustmentSkipped, Fenced
  <1>h. Held(preRecord[r]) \in Int
    BY DEF Held
  <1>s. row[r].pre = "committed" /\ (row[r].source = "subscription" => row[r].sub)
    BY DEF StatusBooks
  <1>1. CASE e = FundingSettle
    <2>1. /\ EffectAmount(r, e) = row[r].delta /\ TokenTaken(r, e) = 0 /\ ~RefundsRecord(r, e)
          /\ SubTaken(r, e) = IF row[r].source = "subscription" /\ row[r].sub THEN row[r].delta ELSE 0
      BY <1>1 DEF EffectAmount, TokenTaken, RefundsRecord, SubTaken, FundingSettle
    <2>2. AmountsBooked(row'[r], adjustments'[r])
      BY <1>1, <2>1 DEF AmountsBooked
    <2>4. SubBooks(row'[r], adjustments'[r], preRecord'[r], charge'[r])
      <3>1. preRecord'[r].status = preRecord[r].status /\ Held(preRecord'[r]) = Held(preRecord[r])
        BY <2>1 DEF Held
      <3>2. /\ adjustments'[r][FundingSettle].amount = row[r].delta /\ adjustments[r][FundingSettle].amount = 0
            /\ adjustments'[r][ExtraRefund] = adjustments[r][ExtraRefund]
            /\ adjustments'[r][FundingRefund] = adjustments[r][FundingRefund]
        BY <1>0, <1>1, <2>1
      <3>3. charge'[r].sub = IF row[r].source = "wallet" THEN charge[r].sub ELSE charge[r].sub + row[r].delta
        BY <1>s, <2>1
      <3>4. CASE row[r].source = "wallet"
        BY <3>1, <3>2, <3>3, <3>4 DEF SubBooks
      <3>5. CASE row[r].source = "subscription"
        BY <3>1, <3>2, <3>3, <3>5, <1>h DEF SubBooks
      <3> QED
        BY <3>4, <3>5
    <2>5. TokenBooks(row'[r], adjustments'[r], preRecord'[r], charge'[r])
      BY <1>1, <2>1 DEF TokenBooks
    <2>6. StatusBooks(row'[r], preRecord'[r], charge'[r])
      BY DEF StatusBooks
    <2> QED
      BY <2>2, <2>4, <2>5, <2>6
  <1>2. CASE e = TokenSettle
    <2>1. /\ EffectAmount(r, e) = row[r].delta /\ SubTaken(r, e) = 0 /\ ~RefundsRecord(r, e)
          /\ TokenTaken(r, e) = IF row[r].tokenRequired THEN row[r].delta ELSE 0
      BY <1>2 DEF EffectAmount, TokenTaken, RefundsRecord, SubTaken, TokenSettle
    <2>2. AmountsBooked(row'[r], adjustments'[r])
      BY <1>2, <2>1 DEF AmountsBooked
    <2>4. SubBooks(row'[r], adjustments'[r], preRecord'[r], charge'[r])
      <3>1. preRecord'[r].status = preRecord[r].status /\ Held(preRecord'[r]) = Held(preRecord[r])
        BY <2>1 DEF Held
      <3> QED
        BY <1>2, <1>h, <2>1, <3>1 DEF SubBooks
    <2>5. TokenBooks(row'[r], adjustments'[r], preRecord'[r], charge'[r])
      BY <1>0, <1>2, <1>s, <2>1 DEF TokenBooks
    <2>6. StatusBooks(row'[r], preRecord'[r], charge'[r])
      BY DEF StatusBooks
    <2> QED
      BY <2>2, <2>4, <2>5, <2>6
  <1> QED
    BY <1>1, <1>2

LEMMA SettledBooks ==
    ASSUME NEW r \in Requests, BooksOpen(r), row[r].status \in {"settlement_pending", "settled"},
           StatusOnly(r, "settled")
    PROVE  BooksHold(r)'
  <1> USE EffectNames DEF BooksOpen, BookTypes, LedgerKnows, BooksHold, Books, RowIs, StatusOnly
  <1>1. AmountsBooked(row'[r], adjustments'[r])
    BY DEF AmountsBooked
  <1>2. SubBooks(row'[r], adjustments'[r], preRecord'[r], charge'[r])
    BY DEF SubBooks, StatusBooks
  <1>3. TokenBooks(row'[r], adjustments'[r], preRecord'[r], charge'[r])
    BY DEF TokenBooks
  <1>4. StatusBooks(row'[r], preRecord'[r], charge'[r])
    BY DEF StatusBooks
  <1> QED
    BY <1>1, <1>2, <1>3, <1>4

\* A row that was given back completely holds nothing any more.
LEMMA RefundedBooks ==
    ASSUME NEW r \in Requests, BooksOpen(r), StatusOnly(r, "refunded"),
           \/ row[r].status = "refunded"
           \/ /\ row[r].status = "refund_pending" /\ adjustments[r][FundingRefund].done
              /\ row[r].extra > 0 => adjustments[r][ExtraRefund].done
              /\ row[r].token > 0 => adjustments[r][TokenRefund].done
    PROVE  BooksHold(r)'
  <1> USE EffectNames DEF BooksOpen, BookTypes, LedgerKnows, BooksHold, Books, RowIs, StatusOnly
  <1>1. AmountsBooked(row'[r], adjustments'[r])
    BY DEF AmountsBooked
  <1>2. SubBooks(row'[r], adjustments'[r], preRecord'[r], charge'[r])
    BY DEF SubBooks
  <1>3. TokenBooks(row'[r], adjustments'[r], preRecord'[r], charge'[r])
    BY DEF TokenBooks
  <1>4. StatusBooks(row'[r], preRecord'[r], charge'[r])
    <2>1. CASE row[r].status = "refunded"
      BY <2>1 DEF StatusBooks
    <2>2. CASE row[r].status # "refunded"
      <3>1. /\ adjustments[r][FundingRefund].amount = row[r].funding
            /\ adjustments[r][ExtraRefund].amount = row[r].extra
            /\ adjustments[r][TokenRefund].amount = row[r].token
            /\ adjustments[r][FundingSettle].amount = 0 /\ adjustments[r][TokenSettle].amount = 0
        BY <2>2 DEF AmountsBooked
      <3>2. preRecord[r].status # "consumed"
        BY <2>2 DEF SubBooks
      <3>3. Held(preRecord[r]) = 0
        BY <3>2 DEF Held
      <3>4. charge[r].sub = 0
        BY <3>1, <3>3 DEF SubBooks
      <3>5. charge[r].wallet = 0
        BY <3>1
      <3>6. row[r].source = "wallet" \/ row[r].pre = "committed" => charge[r].token = 0
        BY <3>1 DEF TokenBooks
      <3> QED
        BY <2>2, <3>2, <3>4, <3>5, <3>6 DEF StatusBooks
    <2> QED
      BY <2>1, <2>2
  <1> QED
    BY <1>1, <1>2, <1>3, <1>4

-----------------------------------------------------------------------------
(* What the step of a session or a pass leaves of what sessions know.       *)

Ready == SessionInv /\ LedgerInv /\ BillingInv

Marked == {"refund_pending", "refunded"}

\* What a step of the session of r has to establish of the books.
Kept(r) ==
    /\ BooksHold(r)'
    /\ KnowsOpen(row'[r], sess'[r], pc'[r])
    /\ Steady => /\ KnowsAlone(row'[r], adjustments'[r], preRecord'[r], charge'[r], sess'[r], pc'[r])
                 /\ pc'[r] \in Starting \cup {"new"} => pc[r] \in Starting \cup {"new"} /\ r \notin stale'
    /\ MaxFaults <= 1 /\ Steady => KnowsTaken(row'[r], preRecord'[r], charge'[r], sess'[r], pc'[r], faults')
    /\ KnowsPriced(row'[r], sess'[r], pc'[r])
    /\ WalletOnly => row'[r].source = "wallet" /\ (pc'[r] # "new" => sess'[r].plan = <<"wallet">>)
    /\ row[r].status \in Marked => row'[r].status \in Marked \/ Quiet(r)

LEMMA Here ==
    ASSUME Ready, NEW r \in Requests
    PROVE  /\ BooksOpen(r) /\ KnowsOpen(row[r], sess[r], pc[r]) /\ KnowsPriced(row[r], sess[r], pc[r])
           /\ Steady => /\ KnowsAlone(row[r], adjustments[r], preRecord[r], charge[r], sess[r], pc[r])
                        /\ pc[r] \in Starting \cup {"new"} => Quiet(r)
           /\ MaxFaults <= 1 /\ Steady => KnowsTaken(row[r], preRecord[r], charge[r], sess[r], pc[r], faults)
           /\ WalletOnly => row[r].source = "wallet" /\ (pc[r] # "new" => sess[r].plan = <<"wallet">>)
           /\ DurableTypeOK /\ SessionTypeOK
  <1>1. RequestHolds(r) /\ DurableTypeOK /\ LedgerInv /\ SessionTypeOK
    BY DEF Ready, BillingInv, SessionInv
  <1>2. BooksOpen(r)
    BY <1>1, BookFacts DEF BooksOpen, RequestHolds, BooksHold
  <1> QED
    BY <1>1, <1>2 DEF RequestHolds

\* A transaction of a session that is past its start, or of a pass.
LateEffect(r) ==
    /\ BooksHold(r)'
    /\ row'[r].tokenRequired = row[r].tokenRequired /\ row'[r].source = row[r].source
    /\ row'[r].status = "absent" <=> row[r].status = "absent"
    /\ Unrecorded(row'[r], preRecord'[r]) => Unrecorded(row[r], preRecord[r]) /\ charge'[r].token = charge[r].token
    /\ row[r].status \in Marked => row'[r].status \in Marked

LateMove(r) ==
    /\ pc'[r] \notin Starting \cup {"new"} /\ pc[r] # "new"
    /\ sess'[r].plan = sess[r].plan /\ sess'[r].playground = sess[r].playground
    /\ row[r].status = "absent" => pc'[r] \in {"ended", "dead"}
    /\ (TokenHeld(sess[r], pc[r]) = 0 /\ pc[r] # "dead") \/ pc'[r] = "dead"

LEMMA LateKept ==
    ASSUME Ready, NEW r \in Requests, LateEffect(r), LateMove(r), KnowsPriced(row'[r], sess'[r], pc'[r])
    PROVE  Kept(r)
  <1>0. pc'[r] \notin {"wallet_check", "ensure", "wallet_pre", "token_pre", "sub_pre", "token_rollback", "rollback_sync", "record_failure", "sync", "sync_refund", "new"}
    BY DEF LateMove, Starting, Opened
  <1>1. KnowsOpen(row'[r], sess'[r], pc'[r])
    BY <1>0, Here DEF KnowsOpen, LateMove, LateEffect
  <1>2. Steady => KnowsAlone(row'[r], adjustments'[r], preRecord'[r], charge'[r], sess'[r], pc'[r])
    BY <1>0 DEF KnowsAlone, Starting, Opened
  <1>3. MaxFaults <= 1 /\ Steady => KnowsTaken(row'[r], preRecord'[r], charge'[r], sess'[r], pc'[r], faults')
    <2>1. TokenHeld(sess'[r], pc'[r]) = 0
      BY <1>0 DEF TokenHeld
    <2>2. MaxFaults <= 1 /\ Steady /\ pc'[r] # "dead" /\ Unrecorded(row[r], preRecord[r]) => charge[r].token = 0
      BY Here DEF KnowsTaken, LateMove
    <2> QED
      BY <1>0, <2>1, <2>2 DEF KnowsTaken, LateEffect
  <1>4. WalletOnly => row'[r].source = "wallet" /\ (pc'[r] # "new" => sess'[r].plan = <<"wallet">>)
    BY Here DEF LateEffect, LateMove
  <1> QED
    BY <1>1, <1>2, <1>3, <1>4 DEF Kept, LateEffect, LateMove

SamePrice(r) ==
    RowIs(row'[r], row'[r].status, row[r].source, row[r].pre, row[r].tokenRequired, row[r].sub,
          row[r].funding, row[r].extra, row[r].token, row[r].delta)

\* A transaction that prices nothing.
PriceKept(r) ==
    /\ SamePrice(r) \/ (row[r].source = "subscription" /\ row'[r].status \in Marked)
    /\ \/ row'[r].status = row[r].status \/ row'[r].status \in Marked
       \/ {row[r].status, row'[r].status} \subseteq {"settlement_pending", "settled"}

LEMMA SameLate ==
    ASSUME NEW r \in Requests, BooksHold(r), row'[r] = row[r], adjustments'[r] = adjustments[r],
           preRecord'[r] = preRecord[r], charge'[r] = charge[r]
    PROVE  LateEffect(r) /\ PriceKept(r) /\ SamePrice(r)
  <1>1. BooksHold(r)'
    BY SameBooks
  <1> QED
    BY <1>1 DEF LateEffect, PriceKept, SamePrice, RowIs

LEMMA MarkLate ==
    ASSUME Ready, NEW r \in Requests, MarkRefundPendingOk(r), MarkRefundPending(r)
    PROVE  LateEffect(r) /\ PriceKept(r) /\ row'[r].status \in Marked
  <1>1. /\ UNCHANGED <<adjustments, preRecord, charge>>
        /\ \/ row[r].status = "refunded" /\ row'[r] = row[r]
           \/ row[r].status # "refunded" /\ ~Unsynced(r) /\ StatusOnly(r, "refund_pending")
           \/ /\ row[r].status # "refunded" /\ Unsynced(r)
              /\ RowIs(row'[r], "refund_pending", row[r].source, "committed",
                       row[r].tokenRequired, TRUE, preRecord[r].amount, row[r].extra,
                       IF row[r].tokenRequired THEN preRecord[r].amount ELSE row[r].token,
                       row[r].delta)
    BY Here, MarkRefundPendingEffect
  <1>2. row[r].status \in {"active", "refund_pending", "refunded"}
    BY DEF MarkRefundPendingOk
  <1>3. BooksOpen(r)
    BY Here
  <1>4. CASE row[r].status = "refunded" /\ row'[r] = row[r]
    BY <1>1, <1>3, <1>4, SameLate DEF BooksOpen, Marked
  <1>5. CASE row[r].status # "refunded" /\ ~Unsynced(r) /\ StatusOnly(r, "refund_pending")
    <2>1. BooksHold(r)'
      BY <1>1, <1>2, <1>3, <1>5, MarkBooks
    <2> QED
      BY <1>2, <1>5, <2>1 DEF LateEffect, PriceKept, SamePrice, RowIs, StatusOnly, Marked, Unrecorded
  <1>6. CASE /\ row[r].status # "refunded" /\ Unsynced(r)
             /\ RowIs(row'[r], "refund_pending", row[r].source, "committed",
                      row[r].tokenRequired, TRUE, preRecord[r].amount, row[r].extra,
                      IF row[r].tokenRequired THEN preRecord[r].amount ELSE row[r].token,
                      row[r].delta)
    <2>1. BooksHold(r)'
      BY <1>1, <1>2, <1>3, <1>6, MarkBooks
    <2> QED
      BY <1>2, <1>6, <2>1 DEF LateEffect, PriceKept, RowIs, Marked, Unrecorded, Unsynced
  <1> QED
    BY <1>1, <1>4, <1>5, <1>6

\* A settlement effect, or a refund of a row that is marked.
LEMMA ApplyLate ==
    ASSUME Ready, NEW r \in Requests, NEW e \in Effects, ApplyAdjustmentOk(r, e), ApplyAdjustment(r, e),
           e \in {FundingSettle, TokenSettle} \/ row[r].status \in Marked
    PROVE  LateEffect(r) /\ PriceKept(r) /\ row'[r].status = row[r].status
  <1>1. BooksOpen(r)
    BY Here
  <1>2. \/ /\ AdjustmentSkipped(r, e) /\ row'[r] = row[r] /\ adjustments'[r] = adjustments[r]
           /\ preRecord'[r] = preRecord[r] /\ charge'[r] = charge[r]
        \/ ~AdjustmentSkipped(r, e) /\ Applied(r, e)
    BY Here, ApplyEffect
  <1>3. CASE row'[r] = row[r] /\ adjustments'[r] = adjustments[r] /\ preRecord'[r] = preRecord[r] /\ charge'[r] = charge[r]
    BY <1>1, <1>3, SameLate DEF BooksOpen
  <1>4. CASE ~AdjustmentSkipped(r, e) /\ Applied(r, e)
    <2>1. CASE e \in {FundingSettle, TokenSettle}
      <3>1. row[r].status = "settlement_pending"
        BY <1>4, <2>1 DEF ApplyAdjustmentOk, FundingSettle, TokenSettle
      <3>2. BooksHold(r)' /\ row[r].pre = "committed"
        BY <1>1, <1>4, <2>1, <3>1, SettleBooks DEF BooksOpen, BooksHold, Books, StatusBooks
      <3> QED
        BY <1>4, <3>1, <3>2 DEF LateEffect, PriceKept, SamePrice, RowIs, Applied, Marked, Unrecorded
    <2>2. CASE e \notin {FundingSettle, TokenSettle}
      <3>1. e \in {FundingRefund, ExtraRefund, TokenRefund} /\ e[2] = "refund"
        BY <2>2 DEF Effects, FundingSettle, TokenSettle, FundingRefund, ExtraRefund, TokenRefund
      <3>2. row[r].status = "refund_pending"
        BY <1>4, <2>2, <3>1 DEF AdjustmentSkipped, Marked, Terminal
      <3>3. BooksHold(r)'
        BY <1>1, <1>4, <3>1, <3>2, RefundBooks
      <3>4. Unrecorded(row'[r], preRecord'[r]) => Unrecorded(row[r], preRecord[r])
        BY <1>4 DEF Applied, RowIs, Unrecorded
      <3>5. row[r].pre = "prepared" => charge'[r].token = charge[r].token
        <4>1. SUFFICES ASSUME row[r].pre = "prepared" PROVE charge'[r].token = charge[r].token
          OBVIOUS
        <4>2. row[r].token = 0 /\ charge[r].token \in Int
          BY <1>1, <4>1 DEF BooksOpen, LedgerKnows, BookTypes
        <4>3. TokenTaken(r, e) = 0 \/ TokenTaken(r, e) = -row[r].token
          BY <3>1 DEF TokenTaken, EffectAmount, FundingRefund, ExtraRefund, TokenRefund
        <4> QED
          BY <1>4, <4>2, <4>3 DEF Applied, Charged
      <3> QED
        BY <1>4, <3>2, <3>3, <3>4, <3>5 DEF LateEffect, PriceKept, SamePrice, RowIs, Applied, Marked, Unrecorded
    <2> QED
      BY <2>1, <2>2
  <1> QED
    BY <1>2, <1>3, <1>4

LEMMA SettledLate ==
    ASSUME Ready, NEW r \in Requests, MarkSettledOk(r), MarkSettled(r)
    PROVE  LateEffect(r) /\ PriceKept(r) /\ row'[r].status = "settled"
  <1>1. BooksOpen(r) /\ StatusOnly(r, "settled")
    BY Here, MarkEffect
  <1>2. row[r].status \in {"settlement_pending", "settled"}
    BY DEF MarkSettledOk
  <1>3. BooksHold(r)'
    BY <1>1, <1>2, SettledBooks
  <1> QED
    BY <1>1, <1>2, <1>3 DEF LateEffect, PriceKept, SamePrice, RowIs, StatusOnly, Marked, Unrecorded

LEMMA RefundedLate ==
    ASSUME Ready, NEW r \in Requests, MarkRefundedOk(r), MarkRefunded(r)
    PROVE  LateEffect(r) /\ PriceKept(r) /\ row'[r].status = "refunded"
  <1>1. BooksOpen(r) /\ StatusOnly(r, "refunded")
    BY Here, MarkEffect
  <1>2. \A e \in Effects : e \in row[r].completed <=> adjustments[r][e].done
    BY DEF Ready, LedgerInv, RequestInv, MarkerInv
  <1>3. \/ row[r].status = "refunded"
        \/ /\ row[r].status = "refund_pending" /\ adjustments[r][FundingRefund].done
           /\ row[r].extra > 0 => adjustments[r][ExtraRefund].done
           /\ row[r].token > 0 => adjustments[r][TokenRefund].done
    BY <1>2, EffectNames DEF MarkRefundedOk, RefundComplete, FundingRefund, ExtraRefund, TokenRefund
  <1>4. BooksHold(r)'
    BY <1>1, <1>3, RefundedBooks
  <1> QED
    BY <1>1, <1>3, <1>4 DEF LateEffect, PriceKept, SamePrice, RowIs, StatusOnly, Marked, Unrecorded

LEMMA PricedStays ==
    ASSUME NEW r \in Requests, KnowsPriced(row[r], sess[r], pc[r]), PriceKept(r),
           sess'[r].pre = sess[r].pre, sess'[r].actual = sess[r].actual,
           pc'[r] \in {"live"} \cup Settling => pc[r] \in {"live"} \cup Settling,
           pc[r] \in Settling \cup GivingBack \cup {"refund_mark", "ended", "dead"}
              => pc'[r] \in Settling \cup GivingBack \cup {"refund_mark", "ended", "dead"},
           pc'[r] \in GivingBack /\ ~sess'[r].refundErr => row'[r].status \in Marked
    PROVE  KnowsPriced(row'[r], sess'[r], pc'[r])
  <1>1. row'[r].status \in {"active", "settlement_pending", "settled"} => SamePrice(r)
    BY DEF PriceKept, Marked
  <1>2. SamePrice(r) /\ Matches(row[r], sess[r]) => Matches(row'[r], sess'[r])
    BY DEF SamePrice, RowIs, Matches
  <1>3. row'[r].status = "active" => row[r].status = "active"
    BY DEF PriceKept, Marked
  <1>4. row'[r].status \in {"settlement_pending", "settled"} => row[r].status \in {"settlement_pending", "settled"}
    BY DEF PriceKept, Marked
  <1>5. SamePrice(r) => row'[r].delta = row[r].delta
    BY DEF SamePrice, RowIs
  <1> QED
    BY <1>1, <1>2, <1>3, <1>4, <1>5 DEF KnowsPriced, Marked

LEMMA UnchangedLate ==
    ASSUME Ready, NEW r \in Requests, UNCHANGED durableVars
    PROVE  LateEffect(r) /\ PriceKept(r) /\ SamePrice(r) /\ row' = row
  <1>1. UNCHANGED <<row, adjustments, preRecord, charge>>
    BY DEF durableVars, balances
  <1> QED
    BY <1>1, SameLate, Here DEF BooksOpen

\* A session that is past its start, or gives up, stays there.
LEMMA LateStays ==
    ASSUME Ready, NEW r \in Requests, NEW t, t = sess'[r],
           pc[r] \in {"live", "refund_mark", "sync_refund", "record_failure"} \cup Settling \cup GivingBack,
           pc'[r] \in {"live", "refund_mark", "ended", "dead"} \cup Settling \cup GivingBack,
           t.plan = sess[r].plan, t.playground = sess[r].playground
    PROVE  LateMove(r)
  <1>1. row[r].status # "absent"
    BY Here DEF KnowsOpen, Settling, GivingBack
  <1>2. TokenHeld(sess[r], pc[r]) = 0
    BY DEF TokenHeld, Settling, GivingBack
  <1> QED
    BY <1>1, <1>2 DEF LateMove, Starting, Opened, Settling, GivingBack

LEMMA AbandonKept ==
    ASSUME Ready, NEW r \in Requests, Abandon(r)
    PROVE  Kept(r)
  <1>1. /\ pc[r] = "live" /\ Same(sess'[r], sess[r]) /\ pc'[r] \in {"refund_mark", "ended"}
        /\ UNCHANGED durableVars
    BY Here, AbandonMoves
  <1>2. LateMove(r)
    BY <1>1, LateStays DEF Same
  <1>3. KnowsPriced(row'[r], sess'[r], pc'[r])
    BY <1>1, UnchangedLate, Here, PricedStays DEF Same, Settling, GivingBack
  <1> QED
    BY <1>1, <1>2, <1>3, UnchangedLate, LateKept

LEMMA StartSettleKept ==
    ASSUME Ready, NEW r \in Requests, StartSettle(r)
    PROVE  Kept(r)
  <1>1. /\ pc[r] = "live" /\ pc'[r] = "settle_update" /\ UNCHANGED durableVars
        /\ Keeps(sess'[r], sess[r]) /\ sess'[r].pre = sess[r].pre
    BY Here, StartSettleMoves
  <1>2. LateMove(r)
    BY <1>1, LateStays DEF Keeps, Settling
  <1>3. row[r].status \notin {"settlement_pending", "settled"} /\ (row[r].status = "active" => Matches(row[r], sess[r]))
    BY <1>1, Here DEF KnowsPriced, Settling, GivingBack
  <1>4. row' = row
    BY <1>1, UnchangedLate
  <1>5. KnowsPriced(row'[r], sess'[r], pc'[r])
    BY <1>1, <1>3, <1>4 DEF KnowsPriced, Matches, Settling, GivingBack
  <1> QED
    BY <1>1, <1>2, <1>5, UnchangedLate, LateKept

\* What is written as the price is the price of the reservation.
LEMMA PriceLate ==
    ASSUME Ready, NEW r \in Requests, NEW d \in Int, d = Delta(sess[r]), pc[r] \in Settling,
           UpdateSettlementOk(r), UpdateSettlement(r, d)
    PROVE  /\ LateEffect(r) /\ row'[r].status \in {"settlement_pending", "settled"}
           /\ Matches(row'[r], sess[r]) /\ row'[r].delta = d
  <1>1. /\ UNCHANGED <<adjustments, preRecord, charge>>
        /\ \/ row[r].status = "settled" /\ row'[r] = row[r]
           \/ /\ row[r].status # "settled"
              /\ RowIs(row'[r], "settlement_pending", row[r].source, row[r].pre,
                       row[r].tokenRequired, row[r].sub, row[r].funding, row[r].extra,
                       row[r].token, d)
    BY Here, UpdateSettlementEffect
  <1>2. row[r].status \in {"active", "settlement_pending", "settled"}
    BY DEF UpdateSettlementOk
  <1>3. /\ Matches(row[r], sess[r])
        /\ row[r].status \in {"settlement_pending", "settled"} => row[r].delta = d
    BY <1>2, Here DEF KnowsPriced, Delta
  <1>4. CASE row[r].status = "settled" /\ row'[r] = row[r]
    BY <1>1, <1>3, <1>4, Here, SameLate DEF BooksOpen
  <1>5. CASE /\ row[r].status # "settled"
             /\ RowIs(row'[r], "settlement_pending", row[r].source, row[r].pre,
                      row[r].tokenRequired, row[r].sub, row[r].funding, row[r].extra,
                      row[r].token, d)
    <2>1. BooksHold(r)'
      BY <1>1, <1>2, <1>3, <1>5, Here, PriceBooks DEF Matches
    <2>2. LateEffect(r)
      BY <1>1, <1>2, <1>5, <2>1 DEF LateEffect, RowIs, Marked, Unrecorded
    <2> QED
      BY <1>3, <1>5, <2>2 DEF RowIs, Matches
  <1> QED
    BY <1>1, <1>4, <1>5

LEMMA SettleUpdateKept ==
    ASSUME Ready, NEW r \in Requests, SettleUpdate(r)
    PROVE  Kept(r)
  <1>1. /\ pc[r] = "settle_update" /\ Same(sess'[r], sess[r])
        /\ Transaction("recovery", UpdateSettlementOk(r), UpdateSettlement(r, Delta(sess[r])),
              pc'[r] \in {"settle_funding", "settle_token"},
              pc'[r] \in {"settle_update", "refund_mark", "ended"})
    BY Here, SettleUpdateMoves
  <1>2. pc'[r] \in Settling \cup {"refund_mark", "ended"}
    BY <1>1 DEF Transaction, Settling
  <1>3. LateMove(r)
    BY <1>1, <1>2, LateStays DEF Same, Settling
  <1>4. UNCHANGED durableVars \/ (UpdateSettlementOk(r) /\ UpdateSettlement(r, Delta(sess[r])))
    BY <1>1 DEF Transaction
  <1>5. CASE UNCHANGED durableVars
    <2>1. KnowsPriced(row'[r], sess'[r], pc'[r])
      BY <1>1, <1>2, <1>5, UnchangedLate, Here, PricedStays DEF Same, Settling, GivingBack
    <2> QED
      BY <1>3, <1>5, <2>1, UnchangedLate, LateKept
  <1>6. CASE UpdateSettlementOk(r) /\ UpdateSettlement(r, Delta(sess[r]))
    <2>1. PICK d : d = Delta(sess[r])
      OBVIOUS
    <2>2. d \in Int
      BY <2>1, Here, SessionFields DEF Delta, SessionTypeOK
    <2>3. UpdateSettlement(r, d)
      BY <1>6, <2>1
    <2>4. /\ LateEffect(r) /\ row'[r].status \in {"settlement_pending", "settled"}
          /\ Matches(row'[r], sess[r]) /\ row'[r].delta = d
      BY <1>1, <1>6, <2>1, <2>2, <2>3, PriceLate DEF Settling
    <2>5. KnowsPriced(row'[r], sess'[r], pc'[r])
      BY <1>1, <1>2, <2>1, <2>4 DEF KnowsPriced, Matches, Same, Delta, Settling, GivingBack
    <2> QED
      BY <1>3, <2>4, <2>5, LateKept
  <1> QED
    BY <1>4, <1>5, <1>6

\* A settlement effect, or the final mark, by a session that settles.
LEMMA SettlingKept ==
    ASSUME Ready, NEW r \in Requests, SettleFunding(r) \/ SettleToken(r) \/ SettleMark(r)
    PROVE  Kept(r)
  <1>1. /\ pc[r] \in Settling /\ pc'[r] \in Settling \cup {"refund_mark", "ended"}
        /\ sess'[r].plan = sess[r].plan /\ sess'[r].playground = sess[r].playground
        /\ sess'[r].pre = sess[r].pre /\ sess'[r].actual = sess[r].actual
        /\ \/ UNCHANGED durableVars
           \/ ApplyAdjustmentOk(r, FundingSettle) /\ ApplyAdjustment(r, FundingSettle)
           \/ ApplyAdjustmentOk(r, TokenSettle) /\ ApplyAdjustment(r, TokenSettle)
           \/ MarkSettledOk(r) /\ MarkSettled(r)
    <2>1. CASE SettleFunding(r)
      BY <2>1, Here, SettleFundingMoves DEF Transaction, Same, Settling
    <2>2. CASE SettleToken(r)
      BY <2>2, Here, SettleTokenMoves DEF Transaction, Same, Settling
    <2>3. CASE SettleMark(r)
      BY <2>3, Here, SettleMarkMoves DEF Transaction, Settling
    <2> QED
      BY <2>1, <2>2, <2>3
  <1>2. LateMove(r)
    BY <1>1, LateStays
  <1>3. LateEffect(r) /\ PriceKept(r)
    BY <1>1, UnchangedLate, ApplyLate, SettledLate, EffectNames
  <1>4. KnowsPriced(row'[r], sess'[r], pc'[r])
    BY <1>1, <1>3, Here, PricedStays DEF Settling, GivingBack
  <1> QED
    BY <1>2, <1>3, <1>4, LateKept

LEMMA SyncRefundKept ==
    ASSUME Ready, NEW r \in Requests, SyncRefund(r)
    PROVE  Kept(r)
  <1>1. /\ pc[r] = "sync_refund" /\ Same(sess'[r], sess[r]) /\ pc'[r] \in {"refund_mark", "ended"}
        /\ Transaction("recovery", MarkRefundPendingOk(r), MarkRefundPending(r), TRUE, TRUE)
    BY Here, SyncRefundMoves
  <1>2. LateMove(r)
    BY <1>1, LateStays DEF Same
  <1>3. LateEffect(r) /\ PriceKept(r)
    BY <1>1, UnchangedLate, MarkLate DEF Transaction
  <1>4. KnowsPriced(row'[r], sess'[r], pc'[r])
    BY <1>1, <1>3, Here, PricedStays DEF Same, Settling, GivingBack
  <1> QED
    BY <1>2, <1>3, <1>4, LateKept

LEMMA RefundMarkKept ==
    ASSUME Ready, NEW r \in Requests, RefundMark(r)
    PROVE  Kept(r)
  <1>1. /\ pc[r] = "refund_mark" /\ GoesOn(sess'[r], sess[r]) /\ pc'[r] = "refund_funding"
        /\ Transaction("recovery", MarkRefundPendingOk(r), MarkRefundPending(r),
              TRUE, sess'[r].refundErr)
    BY Here, RefundMarkMoves
  <1>2. LateMove(r)
    BY <1>1, LateStays DEF GoesOn, Keeps, GivingBack
  <1>3. /\ LateEffect(r) /\ PriceKept(r)
        /\ ~sess'[r].refundErr => row'[r].status \in Marked
    BY <1>1, UnchangedLate, MarkLate DEF Transaction
  <1>4. KnowsPriced(row'[r], sess'[r], pc'[r])
    BY <1>1, <1>3, Here, PricedStays DEF GoesOn, Settling, GivingBack
  <1> QED
    BY <1>2, <1>3, <1>4, LateKept

LEMMA RefundingKept ==
    ASSUME Ready, NEW r \in Requests, RefundFunding(r) \/ RefundExtra(r) \/ RefundToken(r)
    PROVE  Kept(r)
  <1>1. /\ pc[r] \in GivingBack /\ pc'[r] \in GivingBack /\ GoesOn(sess'[r], sess[r])
        /\ Refunds(r, FundingRefund) \/ Refunds(r, ExtraRefund) \/ Refunds(r, TokenRefund)
    BY Here, RefundFundingMoves, RefundExtraMoves, RefundTokenMoves DEF GivingBack
  <1>2. LateMove(r)
    BY <1>1, LateStays DEF GoesOn, Keeps
  <1>3. ~sess[r].refundErr => row[r].status \in Marked
    BY <1>1, Here DEF KnowsPriced, Marked
  <1>4. ASSUME NEW e \in Effects, Refunds(r, e)
        PROVE  /\ LateEffect(r) /\ PriceKept(r)
               /\ ~sess'[r].refundErr => row'[r].status \in Marked
    <2>1. CASE UNCHANGED <<durableVars, faults>> /\ sess'[r].refundErr = sess[r].refundErr
      BY <1>3, <2>1, UnchangedLate
    <2>2. CASE /\ ~sess[r].refundErr
               /\ Transaction("recovery", ApplyAdjustmentOk(r, e), ApplyAdjustment(r, e),
                              TRUE, sess'[r].refundErr)
      BY <1>3, <2>2, UnchangedLate, ApplyLate DEF Transaction
    <2> QED
      BY <1>4, <2>1, <2>2 DEF Refunds
  <1>5. /\ LateEffect(r) /\ PriceKept(r)
        /\ ~sess'[r].refundErr => row'[r].status \in Marked
    BY <1>1, <1>4, EffectNames
  <1>6. KnowsPriced(row'[r], sess'[r], pc'[r])
    BY <1>1, <1>5, Here, PricedStays DEF GoesOn, Settling, GivingBack
  <1> QED
    BY <1>2, <1>5, <1>6, LateKept

LEMMA RefundFinishKept ==
    ASSUME Ready, NEW r \in Requests, RefundFinish(r)
    PROVE  Kept(r)
  <1>1. /\ pc[r] = "refund_finish" /\ pc'[r] = "ended"
        /\ sess'[r].plan = sess[r].plan /\ sess'[r].playground = sess[r].playground
        /\ sess'[r].pre = sess[r].pre /\ sess'[r].actual = sess[r].actual
        /\ UNCHANGED durableVars \/ (MarkRefundedOk(r) /\ MarkRefunded(r))
    BY Here, RefundFinishMoves DEF Transaction
  <1>2. LateMove(r)
    BY <1>1, LateStays DEF GivingBack
  <1>3. LateEffect(r) /\ PriceKept(r)
    BY <1>1, UnchangedLate, RefundedLate
  <1>4. KnowsPriced(row'[r], sess'[r], pc'[r])
    BY <1>1, <1>3, Here, PricedStays DEF Settling, GivingBack
  <1> QED
    BY <1>2, <1>3, <1>4, LateKept

LEMMA CrashKept ==
    ASSUME Ready, NEW r \in Requests, Crash(r)
    PROVE  Kept(r)
  <1>1. /\ pc[r] \notin {"new", "ended", "dead"} /\ UNCHANGED durableVars
        /\ Goto(r, "dead", [sess[r] EXCEPT !.heartbeat = FALSE])
    BY DEF Crash, Running
  <1>2. pc'[r] = "dead" /\ Same(sess'[r], sess[r])
    <2> DEFINE t == [sess[r] EXCEPT !.heartbeat = FALSE]
    <2>1. sess[r] \in SessionType /\ SessionTypeOK
      BY Here DEF SessionTypeOK
    <2>2. t \in SessionType /\ Same(t, sess[r]) /\ Goto(r, "dead", t)
      BY <1>1, <2>1, FlagUpdates
    <2> HIDE DEF t
    <2>3. pc'[r] = "dead" /\ sess'[r] = t
      BY <2>1, <2>2, GotoMoves, PlacesAre
    <2> QED
      BY <2>2, <2>3
  <1>3. LateMove(r)
    BY <1>1, <1>2 DEF LateMove, Same, Starting, Opened
  <1>4. KnowsPriced(row'[r], sess'[r], pc'[r])
    BY <1>1, <1>2, UnchangedLate, Here, PricedStays DEF Same, Settling, GivingBack
  <1> QED
    BY <1>1, <1>3, <1>4, UnchangedLate, LateKept

\* A further reserve is taken together with its row.
LEMMA ReserveLate ==
    ASSUME Ready, NEW r \in Requests, NEW q \in Quotas, NEW d \in Nat, d = ReserveDelta(r, q),
           NEW u, ReserveOk(r, q, u), ReserveBillingRecovery(r, q), pc[r] = "live", sess[r].pre \in Nat
    PROVE  /\ LateEffect(r) /\ row'[r].status = "active"
           /\ \A t : t.pre = sess[r].pre + d => Matches(row'[r], t)
  <1> DEFINE f == IF row[r].source = "subscription" THEN 0 ELSE d
             t == IF row[r].tokenRequired THEN d ELSE 0
  <1>1. row[r].status = "active" /\ row[r].pre = "committed"
    BY DEF ReserveOk
  <1>2. Matches(row[r], sess[r]) /\ BooksOpen(r)
    BY <1>1, Here DEF KnowsPriced
  <1>3. /\ UNCHANGED <<adjustments, preRecord>>
        /\ \/ d = 0 /\ row'[r] = row[r] /\ charge'[r] = charge[r]
           \/ /\ RowIs(row'[r], row[r].status, row[r].source, row[r].pre,
                       row[r].tokenRequired, row[r].sub, row[r].funding + f,
                       row[r].extra + (d - f), row[r].token + t, row[r].delta)
              /\ Charged(r, f, IF row[r].sub THEN d - f ELSE 0, t)
    BY Here, ReserveEffect
  <1>4. CASE d = 0 /\ row'[r] = row[r] /\ charge'[r] = charge[r]
    BY <1>1, <1>2, <1>3, <1>4, SameLate DEF BooksOpen, Matches
  <1>5. CASE /\ RowIs(row'[r], row[r].status, row[r].source, row[r].pre,
                      row[r].tokenRequired, row[r].sub, row[r].funding + f,
                      row[r].extra + (d - f), row[r].token + t, row[r].delta)
             /\ Charged(r, f, IF row[r].sub THEN d - f ELSE 0, t)
    <2>1. f \in Nat /\ t \in Nat
      OBVIOUS
    <2>2. BooksHold(r)'
      BY <1>1, <1>2, <1>3, <1>5, <2>1, ReserveBooks DEF Matches
    <2>3. LateEffect(r) /\ row'[r].status = "active"
      BY <1>1, <1>5, <2>2 DEF LateEffect, RowIs, Marked, Unrecorded
    <2>4. ASSUME NEW z, z.pre = sess[r].pre + d
          PROVE  Matches(row'[r], z)
      <3>1. row[r].funding \in Nat /\ row[r].extra \in Nat /\ row[r].token \in Nat /\ row[r].tokenRequired \in BOOLEAN
        BY <1>2 DEF BooksOpen, BookTypes
      <3> QED
        BY <1>2, <1>5, <2>1, <2>4, <3>1 DEF Matches, RowIs
    <2> QED
      BY <2>3, <2>4
  <1> QED
    BY <1>3, <1>4, <1>5

LEMMA ReserveKept ==
    ASSUME Ready, NEW r \in Requests, Reserve(r)
    PROVE  Kept(r)
  <1>1. PICK q \in Quotas, d \in Nat :
           /\ d = ReserveDelta(r, q)
           /\ Transaction("recovery", ReserveOk(r, q, sess[r].unlimited),
                 ReserveBillingRecovery(r, q),
                 /\ Moved(r) /\ pc'[r] = "live" /\ Keeps(sess'[r], sess[r])
                 /\ sess'[r].pre = sess[r].pre + d,
                 /\ Moved(r) /\ pc'[r] \in {"refund_mark", "ended"}
                 /\ Same(sess'[r], sess[r]))
    BY Here, ReserveMoves
  <1>2. pc[r] = "live" /\ sess[r].pre \in Nat
    BY Here, ReserveMoves, SessionFields DEF SessionTypeOK
  <1>3. ReserveOk(r, q, sess[r].unlimited) /\ ReserveBillingRecovery(r, q) =>
           /\ LateEffect(r) /\ row'[r].status = "active"
           /\ \A t : t.pre = sess[r].pre + d => Matches(row'[r], t)
    <2>1. PICK u : u = sess[r].unlimited
      OBVIOUS
    <2> QED
      BY <1>1, <1>2, <2>1, ReserveLate
  <1>4. /\ pc'[r] \in {"live", "refund_mark", "ended"} /\ sess'[r].plan = sess[r].plan
        /\ sess'[r].playground = sess[r].playground
    BY <1>1 DEF Transaction, Keeps, Same
  <1>5. LateMove(r)
    BY <1>2, <1>4, LateStays
  <1>6. \/ UNCHANGED durableVars /\ pc'[r] # "live" /\ Same(sess'[r], sess[r])
        \/ /\ ReserveOk(r, q, sess[r].unlimited) /\ ReserveBillingRecovery(r, q)
           /\ pc'[r] = "live" => sess'[r].pre = sess[r].pre + d
    BY <1>1 DEF Transaction
  <1>7. CASE UNCHANGED durableVars /\ pc'[r] # "live" /\ Same(sess'[r], sess[r])
    <2>1. KnowsPriced(row'[r], sess'[r], pc'[r])
      BY <1>2, <1>4, <1>7, UnchangedLate, Here, PricedStays DEF Same, Settling, GivingBack
    <2> QED
      BY <1>5, <1>7, <2>1, UnchangedLate, LateKept
  <1>8. CASE /\ ReserveOk(r, q, sess[r].unlimited) /\ ReserveBillingRecovery(r, q)
             /\ pc'[r] = "live" => sess'[r].pre = sess[r].pre + d
    <2>1. KnowsPriced(row'[r], sess'[r], pc'[r])
      BY <1>3, <1>4, <1>8 DEF KnowsPriced, Settling, GivingBack
    <2> QED
      BY <1>3, <1>5, <1>8, <2>1, LateKept
  <1> QED
    BY <1>6, <1>7, <1>8

LEMMA LongPreference ==
    ASSUME NEW p \in Preferences, Len(p) > 1
    PROVE  Len(p) # 1 /\ Len(<<"wallet">>) = 1
  BY DEF Preferences

LEMMA StaleShrinks ==
    ASSUME NEW r, NEW q,
           \/ UNCHANGED durableVars
           \/ \E src, tr : EnsureBillingRecovery(r, src, tr)
           \/ AbortPrepared(r) \/ MarkRefundPending(r) \/ PreConsumeWallet(r, q)
           \/ PreConsumeSubscription(r, q) \/ ReserveToken(r, q) \/ IncreaseToken(r, q)
           \/ \E sub, f, x, t : UpdateAmounts(r, sub, f, x, t)
    PROVE  stale' \subseteq stale
  BY DEF EnsureBillingRecovery, AbortPrepared, MarkRefundPending, PreConsumeWallet,
         PreConsumeSubscription, ReserveToken, IncreaseToken, UpdateAmounts, Touched, durableVars

\* A session that starts has a row that nobody settles.
LEMMA StartingOpen ==
    ASSUME Ready, NEW r \in Requests, pc[r] \in Starting \cup {"new"}
    PROVE  /\ row[r].status \notin {"settlement_pending", "settled"}
           /\ Steady => Quiet(r) /\ r \notin stale
  <1>1. row[r].status \notin {"settlement_pending", "settled"}
    BY Here DEF KnowsPriced, Starting, Opened, Settling, GivingBack
  <1> QED
    BY <1>1, Here DEF Quiet

LEMMA OpenPriced ==
    ASSUME NEW r, row'[r].status \notin {"settlement_pending", "settled"},
           pc'[r] \notin {"live"} \cup Settling \cup GivingBack
    PROVE  KnowsPriced(row'[r], sess'[r], pc'[r])
  BY DEF KnowsPriced

\* A fresh session and the row, if any, that the source before it left behind.
LEMMA StartedKept ==
    ASSUME Ready, NEW r \in Requests, NEW s, Started(r, s), pc[r] \in Starting \cup {"new"},
           BooksHold(r)', row'[r].status \notin {"settlement_pending", "settled"},
           row'[r].status # "absent" => /\ row'[r].tokenRequired = ~s.playground
                                        /\ row'[r].source # Source(s) /\ Len(s.plan) = 1,
           Steady => /\ \A e \in Effects : ~adjustments'[r][e].done
                     /\ preRecord'[r].status = "none"
                     /\ row'[r].status = "refunded" => charge'[r].token = 0 /\ row'[r].pre = "prepared"
                     /\ stale' \subseteq stale,
           MaxFaults <= 1 /\ Steady /\ Unrecorded(row'[r], preRecord'[r]) => charge'[r].token = 0,
           WalletOnly => row'[r].source = "wallet" /\ s.plan = <<"wallet">>,
           row[r].status \in Marked => row'[r].status \in Marked
    PROVE  Kept(r)
  <1>1. pc'[r] \in {"wallet_check", "ensure"}
    BY DEF Started
  <1>2. Source(sess'[r]) = Source(s)
    BY DEF Started, Source
  <1>3. KnowsOpen(row'[r], sess'[r], pc'[r])
    BY <1>1, <1>2 DEF KnowsOpen, Started
  <1>4. Steady => /\ KnowsAlone(row'[r], adjustments'[r], preRecord'[r], charge'[r], sess'[r], pc'[r])
                  /\ pc'[r] \in Starting \cup {"new"} => pc[r] \in Starting \cup {"new"} /\ r \notin stale'
    BY <1>1, StartingOpen DEF KnowsAlone, Opened
  <1>5. MaxFaults <= 1 /\ Steady => KnowsTaken(row'[r], preRecord'[r], charge'[r], sess'[r], pc'[r], faults')
    BY <1>1 DEF KnowsTaken, TokenHeld
  <1>6. KnowsPriced(row'[r], sess'[r], pc'[r])
    BY <1>1, OpenPriced DEF Settling, GivingBack
  <1>7. WalletOnly => row'[r].source = "wallet" /\ (pc'[r] # "new" => sess'[r].plan = <<"wallet">>)
    BY DEF Started
  <1> QED
    BY <1>3, <1>4, <1>5, <1>6, <1>7 DEF Kept

LEMMA BeginKept ==
    ASSUME Ready, NEW r \in Requests, Begin(r)
    PROVE  Kept(r)
  <1>1. PICK s \in SessionType : pc[r] = "new" /\ UNCHANGED durableVars /\ s.plan \in Plans /\ Started(r, s)
    BY Here, BeginMoves
  <1>2. UNCHANGED <<row, adjustments, preRecord, charge, stale>> /\ BooksHold(r)'
    BY <1>1, NoEffect, UnchangedLate DEF LateEffect
  <1>3. row[r].status = "absent"
    BY <1>1, Here DEF KnowsOpen
  <1>4. /\ \A e \in Effects : ~adjustments[r][e].done
        /\ preRecord[r].status = "none" /\ charge[r].token = 0
    BY <1>3, Here DEF BooksOpen, LedgerKnows, BooksHold, Books, StatusBooks, Uncharged
  <1>5. WalletOnly => row[r].source = "wallet" /\ s.plan = <<"wallet">>
    BY <1>1, Here DEF WalletOnly
  <1> QED
    BY <1>1, <1>2, <1>3, <1>4, <1>5, StartedKept

LEMMA WalletCheckKept ==
    ASSUME Ready, NEW r \in Requests, WalletCheck(r)
    PROVE  Kept(r)
  <1>1. /\ pc[r] = "wallet_check" /\ sess[r].plan \in Preferences /\ pc[r] \in Starting \cup {"new"}
    BY SessionHere DEF WalletCheck, Ready, Starting
  <1>2. /\ UNCHANGED durableVars
        /\ \/ \E s \in SessionType : /\ s.plan = sess[r].plan /\ s.playground = sess[r].playground
                                     /\ GaveUp(r, s)
           \/ pc'[r] = "ensure" /\ Same(sess'[r], sess[r])
    BY <1>1, Here, WalletCheckMoves
  <1>3. UNCHANGED <<row, adjustments, preRecord, charge, stale>> /\ BooksHold(r)' /\ LateEffect(r)
    BY <1>2, NoEffect, UnchangedLate DEF LateEffect
  <1>4. /\ row[r].status \notin {"settlement_pending", "settled"}
        /\ Steady => Quiet(r) /\ r \notin stale
    BY <1>1, StartingOpen
  <1>5. CASE pc'[r] = "ensure" /\ Same(sess'[r], sess[r])
    <2>1. KnowsOpen(row'[r], sess'[r], pc'[r])
      BY <1>1, <1>3, <1>5, Here DEF KnowsOpen, Same, Source
    <2>2. Steady => /\ KnowsAlone(row'[r], adjustments'[r], preRecord'[r], charge'[r], sess'[r], pc'[r])
                    /\ pc'[r] \in Starting \cup {"new"} => pc[r] \in Starting \cup {"new"} /\ r \notin stale'
      BY <1>1, <1>3, <1>4, <1>5, Here DEF KnowsAlone, Opened, Starting
    <2>3. MaxFaults <= 1 /\ Steady => KnowsTaken(row'[r], preRecord'[r], charge'[r], sess'[r], pc'[r], faults')
      BY <1>1, <1>3, <1>5, Here DEF KnowsTaken, TokenHeld
    <2>4. KnowsPriced(row'[r], sess'[r], pc'[r])
      BY <1>3, <1>4, <1>5, OpenPriced DEF Settling, GivingBack
    <2> QED
      BY <1>1, <1>3, <1>5, <2>1, <2>2, <2>3, <2>4, Here DEF Kept, Same
  <1>6. ASSUME NEW s \in SessionType, s.plan = sess[r].plan, s.playground = sess[r].playground, GaveUp(r, s)
        PROVE  Kept(r)
    <2>1. CASE pc'[r] = "ended" /\ Same(sess'[r], s)
      <3>1. LateMove(r)
        BY <1>1, <1>6, <2>1 DEF LateMove, Same, TokenHeld, Starting, Opened
      <3>2. KnowsPriced(row'[r], sess'[r], pc'[r])
        BY <1>3, <1>4, <2>1, OpenPriced DEF Settling, GivingBack
      <3> QED
        BY <1>3, <3>1, <3>2, LateKept
    <2>2. CASE /\ s.fallback /\ Len(s.plan) > 1
               /\ \E t \in SessionType :
                     /\ t.plan = Tail(s.plan) /\ t.playground = s.playground /\ Started(r, t)
      <3>1. PICK t \in SessionType : t.plan = Tail(s.plan) /\ t.playground = s.playground /\ Started(r, t)
        BY <2>2
      <3>n. Len(sess[r].plan) # 1 /\ Len(<<"wallet">>) = 1
        BY <1>1, <1>6, <2>2, LongPreference
      <3>2. row[r].status = "absent"
        BY <1>1, <3>n, Here DEF KnowsOpen
      <3>3. ~WalletOnly
        BY <1>1, <3>n, Here
      <3>4. /\ \A e \in Effects : ~adjustments[r][e].done
            /\ preRecord[r].status = "none" /\ charge[r].token = 0
        BY <3>2, Here DEF BooksOpen, LedgerKnows, BooksHold, Books, StatusBooks, Uncharged
      <3> QED
        BY <1>1, <1>3, <3>1, <3>2, <3>3, <3>4, StartedKept
    <2> QED
      BY <1>6, <2>1, <2>2 DEF GaveUp
  <1> QED
    BY <1>2, <1>5, <1>6

Environment == Steady \/ WalletOnly

\* Opening the row, or taking over one that an aborted attempt left behind.
LEMMA EnsureRow ==
    ASSUME Ready, Environment, NEW r \in Requests, pc[r] = "ensure", NEW src \in Sources, NEW tr \in BOOLEAN,
           src = Source(sess[r]), tr = ~sess[r].playground,
           EnsureBillingRecoveryOk(r, src, tr), EnsureBillingRecovery(r, src, tr)
    PROVE  /\ BooksHold(r)' /\ row'[r].status = "active" /\ row'[r].source = src
           /\ row'[r].pre = "prepared" /\ row'[r].tokenRequired = tr
           /\ UNCHANGED <<adjustments, preRecord, charge>> /\ stale' \subseteq stale
           /\ preRecord[r].status = "none" /\ charge[r].token = 0
           /\ row[r].status # "absent" => Steady
  <1>1. BooksOpen(r)
    BY Here
  <1>2. row[r].status # "absent" => row[r].source # src
    BY Here DEF KnowsOpen
  <1>3. /\ UNCHANGED <<adjustments, preRecord, charge>> /\ stale' \subseteq stale /\ row'[r].source = src
        /\ \/ /\ row[r].status = "absent"
              /\ RowIs(row'[r], "active", src, "prepared", tr, FALSE, 0, 0, 0, 0)
           \/ /\ Reusable(r) /\ row[r].source # src /\ row[r].tokenRequired = tr
              /\ RowIs(row'[r], "active", src, row[r].pre, row[r].tokenRequired, row[r].sub,
                       row[r].funding, row[r].extra, row[r].token, row[r].delta)
    BY <1>2, Here, EnsureEffect DEF Exists
  <1>4. CASE /\ row[r].status = "absent"
             /\ RowIs(row'[r], "active", src, "prepared", tr, FALSE, 0, 0, 0, 0)
    <2>1. preRecord[r].status = "none" /\ charge[r].token = 0
      BY <1>1, <1>4 DEF BooksOpen, BooksHold, Books, StatusBooks, Uncharged
    <2>2. BooksHold(r)'
      BY <1>1, <1>3, <1>4, EnsureBooks
    <2> QED
      BY <1>3, <1>4, <2>1, <2>2 DEF RowIs
  <1>5. CASE /\ Reusable(r) /\ row[r].source # src /\ row[r].tokenRequired = tr
             /\ RowIs(row'[r], "active", src, row[r].pre, row[r].tokenRequired, row[r].sub,
                      row[r].funding, row[r].extra, row[r].token, row[r].delta)
    <2>1. row[r].status = "refunded" /\ row[r].pre = "prepared"
      BY <1>5 DEF Reusable
    <2>2. ~WalletOnly
      <3>1. Head(<<"wallet">>) = "wallet"
        OBVIOUS
      <3> QED
        BY <1>5, <3>1, Here DEF Source
    <2>3. Steady
      BY <2>2 DEF Environment
    <2>4. /\ preRecord[r].status = "none" /\ charge[r].token = 0
          /\ \A e \in Effects : ~adjustments[r][e].done
      BY <2>1, <2>3, Here DEF KnowsAlone, Starting
    <2>5. BooksHold(r)'
      BY <1>1, <1>3, <1>5, <2>1, <2>4, EnsureBooks
    <2> QED
      BY <1>3, <1>5, <2>1, <2>3, <2>4, <2>5 DEF RowIs
  <1> QED
    BY <1>3, <1>4, <1>5

LEMMA EnsureKept ==
    ASSUME Ready, Environment, NEW r \in Requests, Ensure(r)
    PROVE  Kept(r)
  <1>0. PICK src, tr : src = Source(sess[r]) /\ tr = ~sess[r].playground
    OBVIOUS
  <1>1. /\ pc[r] = "ensure" /\ sess[r].plan \in Preferences /\ src \in Sources /\ tr \in BOOLEAN
        /\ sess[r].tok = 0 /\ ~sess[r].needsRecovery /\ ~sess[r].subId /\ pc[r] \in Starting \cup {"new"}
    BY <1>0, SessionHere, Here DEF Ready, Ensure, KnowsOpen, Starting
  <1> DEFINE ok == EnsureBillingRecoveryOk(r, src, tr)
             effect == EnsureBillingRecovery(r, src, tr)
             nil == sess'[r] = sess[r] /\ pc'[r] = IF src = "wallet" THEN "wallet_pre" ELSE "token_pre"
             err == pc'[r] = "ended" /\ Same(sess'[r], sess[r])
             opened == /\ BooksHold(r)' /\ row'[r].status = "active" /\ row'[r].source = src
                       /\ row'[r].pre = "prepared" /\ row'[r].tokenRequired = tr
                       /\ UNCHANGED <<adjustments, preRecord, charge>> /\ stale' \subseteq stale
                       /\ preRecord[r].status = "none" /\ charge[r].token = 0
                       /\ row[r].status # "absent" => Steady
  <1>2. Transaction("recovery", ok, effect, nil, err)
    BY <1>0, <1>1, Here, EnsureMoves DEF Transaction
  <1>3. ok /\ effect => opened
    BY <1>0, <1>1, EnsureRow
  <1> HIDE DEF ok, effect
  <1>4. (opened /\ nil) \/ (opened /\ err) \/ (UNCHANGED durableVars /\ err)
    BY <1>2, <1>3 DEF Transaction
  <1>5. CASE UNCHANGED durableVars /\ err
    <2>1. LateMove(r)
      BY <1>1, <1>5 DEF LateMove, Same, TokenHeld, Starting, Opened
    <2>2. row' = row /\ row[r].status \notin {"settlement_pending", "settled"}
      BY <1>1, <1>5, UnchangedLate, StartingOpen
    <2>3. KnowsPriced(row'[r], sess'[r], pc'[r])
      BY <1>5, <2>2, OpenPriced DEF Settling, GivingBack
    <2> QED
      BY <1>5, <2>1, <2>3, UnchangedLate, LateKept
  <1>6. CASE opened /\ (nil \/ err)
    <2>0. /\ row[r].status \in Marked => Quiet(r)
          /\ Steady => r \notin stale /\ \A e \in Effects : ~adjustments[r][e].done
      BY <1>1, <1>6, StartingOpen, Here DEF KnowsAlone, Marked, Starting
    <2>1. sess'[r].plan = sess[r].plan /\ sess'[r].playground = sess[r].playground
      BY <1>6 DEF Same
    <2>2. KnowsPriced(row'[r], sess'[r], pc'[r])
      BY <1>6, OpenPriced DEF Settling, GivingBack
    <2>3. KnowsOpen(row'[r], sess'[r], pc'[r])
      BY <1>0, <1>1, <1>6, <2>1 DEF KnowsOpen
    <2>4. Steady => /\ KnowsAlone(row'[r], adjustments'[r], preRecord'[r], charge'[r], sess'[r], pc'[r])
                    /\ pc'[r] \in Starting \cup {"new"} => pc[r] \in Starting \cup {"new"} /\ r \notin stale'
      <3>1. CASE err
        BY <1>6, <3>1 DEF KnowsAlone, Starting, Opened
      <3>2. CASE nil
        <4>1. TokenHeld(sess'[r], pc'[r]) = 0
          BY <3>2 DEF TokenHeld
        <4>2. pc'[r] = "wallet_pre" \/ (pc'[r] = "token_pre" /\ src = "subscription")
          BY <1>1, <3>2 DEF Sources
        <4>3. Steady => KnowsAlone(row'[r], adjustments'[r], preRecord'[r], charge'[r], sess'[r], pc'[r])
          BY <1>1, <1>6, <2>0, <3>2, <4>1, <4>2 DEF KnowsAlone, Unrecorded, Opened
        <4> QED
          BY <1>1, <1>6, <2>0, <4>3
      <3> QED
        BY <1>6, <3>1, <3>2
    <2>5. MaxFaults <= 1 /\ Steady => KnowsTaken(row'[r], preRecord'[r], charge'[r], sess'[r], pc'[r], faults')
      BY <1>6 DEF KnowsTaken, TokenHeld
    <2>6. WalletOnly => row'[r].source = "wallet" /\ (pc'[r] # "new" => sess'[r].plan = <<"wallet">>)
      <3>1. Head(<<"wallet">>) = "wallet"
        OBVIOUS
      <3> QED
        BY <1>0, <1>1, <1>6, <2>1, <3>1, Here DEF Source
    <2> QED
      BY <1>6, <2>0, <2>2, <2>3, <2>4, <2>5, <2>6 DEF Kept
  <1> QED
    BY <1>4, <1>5, <1>6

\* A step of a session that has its row and no answer yet.
LEMMA OpenKept ==
    ASSUME Ready, NEW r \in Requests, pc[r] \in Opened, pc'[r] \in Opened, BooksHold(r)',
           KnowsOpen(row'[r], sess'[r], pc'[r]),
           Steady => KnowsAlone(row'[r], adjustments'[r], preRecord'[r], charge'[r], sess'[r], pc'[r]),
           MaxFaults <= 1 /\ Steady => KnowsTaken(row'[r], preRecord'[r], charge'[r], sess'[r], pc'[r], faults'),
           row'[r].status = row[r].status, row'[r].source = row[r].source, stale' \subseteq stale,
           sess'[r].plan = sess[r].plan
    PROVE  Kept(r)
  <1>1. pc[r] \in Starting /\ pc[r] # "new" /\ pc'[r] \notin {"live"} \cup Settling \cup GivingBack
    BY DEF Opened, Starting, Settling, GivingBack
  <1>2. row[r].status \notin {"settlement_pending", "settled"} /\ (Steady => r \notin stale)
    BY <1>1, StartingOpen
  <1>3. KnowsPriced(row'[r], sess'[r], pc'[r])
    BY <1>1, <1>2, OpenPriced
  <1> QED
    BY <1>1, <1>2, <1>3, Here DEF Kept

LEMMA WalletPreKept ==
    ASSUME Ready, NEW r \in Requests, WalletPre(r)
    PROVE  Kept(r)
  <1>0. PICK q : q = EffectiveQuota(sess[r])
    OBVIOUS
  <1>1. /\ pc[r] = "wallet_pre" /\ sess[r] \in SessionType /\ Source(sess[r]) = "wallet"
        /\ row[r].source = "wallet" /\ sess[r].extra = 0 /\ pc[r] \in Opened
    BY SessionHere DEF WalletPre, Ready, BoundInv, Opened
  <1>2. q \in Nat
    BY <1>0, <1>1, EffectiveQuotaIsQuota
  <1>3. /\ ~sess[r].needsRecovery /\ ~sess[r].subId /\ row[r].status # "absent"
        /\ row[r].status = "active" => row[r].pre = "prepared"
        /\ row[r].tokenRequired = ~sess[r].playground
    BY <1>1, Here DEF KnowsOpen
  <1>4. /\ BooksOpen(r) /\ preRecord[r].status = "none" /\ userQuota \in Int
        /\ Steady => row[r].status = "active" /\ \A e \in Effects : ~adjustments[r][e].done
    BY <1>1, Here, PlacesAre DEF KnowsAlone, BooksOpen, BooksHold, Books, SubBooks, DurableTypeOK
  <1> DEFINE ok == PreConsumeWalletOk(r, q, sess[r].unlimited)
             effect == PreConsumeWallet(r, q)
             nil == /\ pc'[r] = "sync" /\ Keeps(sess'[r], sess[r])
                    /\ sess'[r].consumed = q /\ sess'[r].pre = q
                    /\ sess'[r].tok = IF sess[r].playground THEN 0 ELSE q
                    /\ ~sess'[r].subId
             err == /\ pc'[r] = "record_failure" /\ Keeps(sess'[r], sess[r])
                    /\ ~sess'[r].needsRecovery
                    /\ sess'[r].fallback => WalletInsufficient(r, q, sess[r].unlimited)
             took == /\ BooksHold(r)' /\ row'[r].status = "active" /\ row[r].status = "active"
                     /\ row'[r].source = "wallet" /\ row'[r].pre = "committed"
                     /\ row'[r].tokenRequired = row[r].tokenRequired
                     /\ row'[r].token = (IF row[r].tokenRequired THEN q ELSE 0)
                     /\ UNCHANGED <<adjustments, preRecord>> /\ stale' \subseteq stale
                     /\ ~WalletInsufficient(r, q, sess[r].unlimited)
  <1>5. Transaction("recovery", ok, effect, nil, err)
    BY <1>0, <1>3, Here, WalletPreMoves DEF Transaction
  <1>6. ok /\ effect => took
    <2>0. SUFFICES ASSUME ok, effect PROVE took
      OBVIOUS
    <2>1. row[r].status = "active" /\ row[r].pre = "prepared" /\ ~WalletPreConsumed(r, q)
      BY <1>3, <2>0 DEF PreConsumeWalletOk, WalletPreConsumed
    <2>2. /\ UNCHANGED <<adjustments, preRecord>>
          /\ RowIs(row'[r], row[r].status, row[r].source, "committed",
                   row[r].tokenRequired, row[r].sub, q, row[r].extra,
                   IF row[r].tokenRequired THEN q ELSE 0, row[r].delta)
          /\ Charged(r, q, 0, IF row[r].tokenRequired THEN q ELSE 0)
      BY <1>2, <2>0, <2>1, Here, PreConsumeWalletEffect
    <2>3. BooksHold(r)'
      BY <1>1, <1>2, <1>4, <2>1, <2>2, WalletBooks
    <2>4. stale' \subseteq stale
      BY <2>0, StaleShrinks
    <2>5. ~WalletInsufficient(r, q, sess[r].unlimited)
      BY <1>2, <1>4, <2>0, <2>1 DEF WalletInsufficient, PreConsumeWalletOk
    <2> QED
      BY <1>1, <2>1, <2>2, <2>3, <2>4, <2>5 DEF RowIs
  <1> HIDE DEF ok, effect
  <1>7. (took /\ nil) \/ (took /\ err) \/ (UNCHANGED durableVars /\ err)
    BY <1>5, <1>6 DEF Transaction
  <1>8. CASE took /\ nil
    <2>1. KnowsOpen(row'[r], sess'[r], pc'[r])
      BY <1>1, <1>2, <1>3, <1>8 DEF KnowsOpen, Keeps, Source
    <2>2. Steady => KnowsAlone(row'[r], adjustments'[r], preRecord'[r], charge'[r], sess'[r], pc'[r])
      BY <1>1, <1>4, <1>8 DEF KnowsAlone, Keeps, Source
    <2>3. MaxFaults <= 1 /\ Steady => KnowsTaken(row'[r], preRecord'[r], charge'[r], sess'[r], pc'[r], faults')
      BY <1>8 DEF KnowsTaken, Unrecorded
    <2> QED
      BY <1>1, <1>8, <2>1, <2>2, <2>3, OpenKept DEF Keeps, Opened
  <1>9. CASE took /\ err
    <2>1. KnowsOpen(row'[r], sess'[r], pc'[r])
      BY <1>1, <1>2, <1>3, <1>9 DEF KnowsOpen, Keeps, Source
    <2>2. Steady => KnowsAlone(row'[r], adjustments'[r], preRecord'[r], charge'[r], sess'[r], pc'[r])
      BY <1>1, <1>4, <1>9 DEF KnowsAlone, Keeps, Source
    <2>3. MaxFaults <= 1 /\ Steady => KnowsTaken(row'[r], preRecord'[r], charge'[r], sess'[r], pc'[r], faults')
      BY <1>9 DEF KnowsTaken, Unrecorded
    <2> QED
      BY <1>1, <1>9, <2>1, <2>2, <2>3, OpenKept DEF Keeps, Opened
  <1>10. CASE UNCHANGED durableVars /\ err
    <2>0. UNCHANGED <<row, adjustments, preRecord, charge, stale>> /\ BooksHold(r)'
      BY <1>10, NoEffect, UnchangedLate DEF LateEffect
    <2>1. KnowsOpen(row'[r], sess'[r], pc'[r])
      BY <1>1, <1>2, <1>3, <1>10, <2>0 DEF KnowsOpen, Keeps, Source, WalletInsufficient
    <2>2. Steady => KnowsAlone(row'[r], adjustments'[r], preRecord'[r], charge'[r], sess'[r], pc'[r])
      BY <1>1, <1>4, <1>10, <2>0 DEF KnowsAlone, Keeps, Source
    <2>3. MaxFaults <= 1 /\ Steady => KnowsTaken(row'[r], preRecord'[r], charge'[r], sess'[r], pc'[r], faults')
      BY <1>1, <1>10, <2>0 DEF KnowsTaken, Unrecorded
    <2> QED
      BY <1>1, <1>10, <2>0, <2>1, <2>2, <2>3, OpenKept DEF Keeps, Opened
  <1> QED
    BY <1>7, <1>8, <1>9, <1>10

\* A session that pays from a subscription before it has a record.
LEMMA UnrecordedHere ==
    ASSUME Ready, Environment, NEW r \in Requests,
           pc[r] \in {"token_pre", "sub_pre", "token_rollback", "rollback_sync"}
    PROVE  /\ Steady /\ "token" \notin LossyOps /\ "subscription" \notin LossyOps
           /\ Source(sess[r]) = "subscription" /\ row[r].source = "subscription"
           /\ row[r].status = "active" /\ row[r].pre = "prepared" /\ preRecord[r].status = "none"
           /\ charge[r].token = TokenHeld(sess[r], pc[r]) /\ row[r].tokenRequired = ~sess[r].playground
           /\ \A e \in Effects : ~adjustments[r][e].done
           /\ BooksOpen(r) /\ sess[r] \in SessionType /\ sess[r].tok \in Nat /\ sess[r].extra = 0
           /\ pc[r] \in Opened /\ faults \in Nat /\ charge[r].token \in Int
  <1>1. /\ Source(sess[r]) = "subscription" /\ row[r].source = "subscription" /\ sess[r] \in SessionType
        /\ sess[r].tok \in Nat /\ sess[r].extra = 0 /\ pc[r] \in Opened
    BY SessionHere DEF Ready, BoundInv, Opened
  <1>2. Steady
    BY <1>1, Here DEF Environment
  <1>3. "token" \notin LossyOps /\ "subscription" \notin LossyOps
    BY <1>2, SwitchesAreSets DEF Steady
  <1>4. /\ Unrecorded(row[r], preRecord[r]) /\ charge[r].token = TokenHeld(sess[r], pc[r])
        /\ row[r].status = "active" /\ \A e \in Effects : ~adjustments[r][e].done
    BY <1>1, <1>2, Here DEF KnowsAlone, Starting
  <1>5. BooksOpen(r) /\ row[r].tokenRequired = ~sess[r].playground
    BY <1>4, Here DEF KnowsOpen
  <1> QED
    BY <1>1, <1>2, <1>3, <1>4, <1>5, Here DEF Unrecorded, BooksOpen, BookTypes, SessionTypeOK

LEMMA TokenPreKept ==
    ASSUME Ready, Environment, NEW r \in Requests, TokenPre(r)
    PROVE  Kept(r)
  <1>0. PICK q : q = EffectiveQuota(sess[r])
    OBVIOUS
  <1>1. pc[r] = "token_pre"
    BY DEF TokenPre
  <1>2. /\ "token" \notin LossyOps
        /\ Source(sess[r]) = "subscription" /\ row[r].source = "subscription"
        /\ row[r].status = "active" /\ row[r].pre = "prepared" /\ preRecord[r].status = "none"
        /\ row[r].tokenRequired = ~sess[r].playground
        /\ \A e \in Effects : ~adjustments[r][e].done
        /\ BooksOpen(r) /\ sess[r] \in SessionType
        /\ pc[r] \in Opened /\ Steady
    BY <1>1, UnrecordedHere
  <1>3. q \in Nat /\ charge[r].token = 0 /\ sess[r].tok = 0 /\ ~sess[r].needsRecovery
    BY <1>0, <1>1, <1>2, UnrecordedHere, EffectiveQuotaIsQuota, Here DEF KnowsAlone, TokenHeld
  <1> DEFINE ok == sess[r].playground \/ ReserveTokenOk(q, sess[r].unlimited)
             effect == IF sess[r].playground THEN UNCHANGED durableVars ELSE ReserveToken(r, q)
             nil == /\ pc'[r] = "sub_pre" /\ Keeps(sess'[r], sess[r])
                    /\ sess'[r].tok = q /\ ~sess'[r].needsRecovery
             err == pc'[r] = "record_failure" /\ sess'[r] = sess[r]
             took == /\ BooksHold(r)' /\ UNCHANGED <<row, adjustments, preRecord, stale>>
                     /\ charge'[r].token = IF sess[r].playground THEN 0 ELSE q
  <1>4. Transaction("token", ok, effect, nil, err)
    BY <1>0, <1>3, Here, TokenPreMoves DEF Transaction
  <1>5. ok /\ effect => took
    <2>1. CASE sess[r].playground
      BY <1>3, <2>1, NoEffect, UnchangedLate DEF LateEffect
    <2>2. CASE ~sess[r].playground
      <3>1. effect => /\ UNCHANGED <<row, adjustments, preRecord, stale>> /\ Charged(r, 0, 0, q)
        BY <1>3, <2>2, Here, TokenEffect
      <3>2. Charged(r, 0, 0, q) => charge'[r].token = q
        BY <1>3 DEF Charged
      <3>3. UNCHANGED <<row, adjustments, preRecord, stale>> /\ Charged(r, 0, 0, q) => BooksHold(r)'
        BY <1>2, <1>3, TokenMoveBooks DEF Unrecorded
      <3> QED
        BY <2>2, <3>1, <3>2, <3>3
    <2> QED
      BY <2>1, <2>2
  <1> HIDE DEF ok, effect
  <1>6. (took /\ nil) \/ (UNCHANGED durableVars /\ err)
    BY <1>2, <1>4, <1>5 DEF Transaction
  <1>7. CASE took /\ nil
    <2>0. /\ sess'[r].plan = sess[r].plan /\ sess'[r].playground = sess[r].playground
          /\ Source(sess'[r]) = "subscription" /\ TokenHeld(sess'[r], pc'[r]) = charge'[r].token
          /\ sess'[r].tok = EffectiveQuota(sess'[r])
      BY <1>0, <1>2, <1>7 DEF Keeps, Source, TokenHeld, EffectiveQuota
    <2>1. KnowsOpen(row'[r], sess'[r], pc'[r])
      BY <1>2, <1>7, <2>0 DEF KnowsOpen
    <2>2. Steady => KnowsAlone(row'[r], adjustments'[r], preRecord'[r], charge'[r], sess'[r], pc'[r])
      BY <1>2, <1>7, <2>0 DEF KnowsAlone, Unrecorded
    <2>3. MaxFaults <= 1 /\ Steady => KnowsTaken(row'[r], preRecord'[r], charge'[r], sess'[r], pc'[r], faults')
      BY <1>7, <2>0 DEF KnowsTaken
    <2> QED
      BY <1>2, <1>7, <2>0, <2>1, <2>2, <2>3, OpenKept DEF Opened
  <1>8. CASE UNCHANGED durableVars /\ err
    <2>0. UNCHANGED <<row, adjustments, preRecord, charge, stale>> /\ BooksHold(r)'
      BY <1>8, NoEffect, UnchangedLate DEF LateEffect
    <2>1. KnowsOpen(row'[r], sess'[r], pc'[r])
      BY <1>2, <1>8, <2>0 DEF KnowsOpen
    <2>2. Steady => KnowsAlone(row'[r], adjustments'[r], preRecord'[r], charge'[r], sess'[r], pc'[r])
      BY <1>2, <1>3, <1>8, <2>0 DEF KnowsAlone
    <2>3. MaxFaults <= 1 /\ Steady => KnowsTaken(row'[r], preRecord'[r], charge'[r], sess'[r], pc'[r], faults')
      BY <1>3, <1>8, <2>0 DEF KnowsTaken, TokenHeld
    <2> QED
      BY <1>2, <1>8, <2>0, <2>1, <2>2, <2>3, OpenKept DEF Opened
  <1> QED
    BY <1>6, <1>7, <1>8

LEMMA SubPreKept ==
    ASSUME Ready, Environment, NEW r \in Requests, SubPre(r)
    PROVE  Kept(r)
  <1>0. PICK q : q = EffectiveQuota(sess[r])
    OBVIOUS
  <1>1. pc[r] = "sub_pre"
    BY DEF SubPre
  <1>2. /\ "subscription" \notin LossyOps
        /\ Source(sess[r]) = "subscription" /\ row[r].source = "subscription"
        /\ row[r].status = "active" /\ row[r].pre = "prepared" /\ preRecord[r].status = "none"
        /\ row[r].tokenRequired = ~sess[r].playground
        /\ \A e \in Effects : ~adjustments[r][e].done
        /\ BooksOpen(r) /\ sess[r] \in SessionType
        /\ pc[r] \in Opened /\ Steady
    BY <1>1, UnrecordedHere
  <1>3. /\ q \in Nat /\ q > 0 /\ sess[r].tok = q /\ ~sess[r].needsRecovery
        /\ charge[r].token = IF sess[r].playground THEN 0 ELSE q
    BY <1>0, <1>1, <1>2, UnrecordedHere, EffectiveQuotaIsQuota, Here DEF KnowsAlone, TokenHeld
  <1> DEFINE ok == PreConsumeSubscriptionOk(r, q)
             effect == PreConsumeSubscription(r, q)
             nil == /\ pc'[r] = "sync" /\ Keeps(sess'[r], sess[r])
                    /\ sess'[r].consumed = q /\ sess'[r].pre = q /\ sess'[r].subId
                    /\ sess'[r].tok = q
             err == /\ Keeps(sess'[r], sess[r])
                    /\ pc'[r] = IF ~sess[r].playground THEN "token_rollback" ELSE "record_failure"
                    /\ sess'[r].tok = q /\ ~sess'[r].needsRecovery
             took == /\ BooksHold(r)' /\ UNCHANGED <<row, adjustments, stale>>
                     /\ preRecord'[r].status = "consumed" /\ preRecord'[r].amount = q
  <1>4. Transaction("subscription", ok, effect, nil, err)
    BY <1>0, <1>2, <1>3, Here, SubPreMoves DEF Transaction
  <1>5. ok /\ effect => took
    <2>0. SUFFICES ASSUME ok, effect PROVE took
      OBVIOUS
    <2>1. /\ UNCHANGED <<row, adjustments, stale>>
          /\ preRecord'[r].status = "consumed" /\ preRecord'[r].amount = q /\ Charged(r, 0, q, 0)
      BY <1>2, <1>3, <2>0, Here, PreConsumeSubscriptionEffect
    <2>2. /\ ~adjustments[r][FundingRefund].done /\ Unrecorded(row[r], preRecord[r])
          /\ charge[r].token = IF row[r].tokenRequired THEN q ELSE 0
      BY <1>2, <1>3, EffectNames DEF Unrecorded
    <2>3. row[r].status = "active" /\ BooksOpen(r) /\ q \in Nat /\ q > 0
      BY <1>2, <1>3
    <2>4. BooksHold(r)'
      BY <2>1, <2>2, <2>3, SubscriptionBooks
    <2> QED
      BY <2>1, <2>4
  <1> HIDE DEF ok, effect
  <1>6. (took /\ nil) \/ (UNCHANGED durableVars /\ err)
    BY <1>2, <1>4, <1>5 DEF Transaction
  <1>7. CASE took /\ nil
    <2>0. /\ sess'[r].plan = sess[r].plan /\ sess'[r].playground = sess[r].playground
          /\ Source(sess'[r]) = "subscription"
      BY <1>2, <1>7 DEF Keeps, Source
    <2>1. KnowsOpen(row'[r], sess'[r], pc'[r])
      BY <1>2, <1>3, <1>7, <2>0 DEF KnowsOpen
    <2>2. Steady => KnowsAlone(row'[r], adjustments'[r], preRecord'[r], charge'[r], sess'[r], pc'[r])
      BY <1>2, <1>7, <2>0 DEF KnowsAlone
    <2>3. MaxFaults <= 1 /\ Steady => KnowsTaken(row'[r], preRecord'[r], charge'[r], sess'[r], pc'[r], faults')
      BY <1>7, <2>0 DEF KnowsTaken, Unrecorded
    <2> QED
      BY <1>2, <1>7, <2>0, <2>1, <2>2, <2>3, OpenKept DEF Opened
  <1>8. CASE UNCHANGED durableVars /\ err
    <2>0. UNCHANGED <<row, adjustments, preRecord, charge, stale>> /\ BooksHold(r)'
      BY <1>8, NoEffect, UnchangedLate DEF LateEffect
    <2>p. /\ sess'[r].plan = sess[r].plan /\ sess'[r].playground = sess[r].playground
          /\ Source(sess'[r]) = "subscription" /\ TokenHeld(sess'[r], pc'[r]) = charge'[r].token
      BY <1>2, <1>3, <1>8, <2>0 DEF Keeps, Source, TokenHeld
    <2>1. KnowsOpen(row'[r], sess'[r], pc'[r])
      BY <1>2, <1>8, <2>0, <2>p DEF KnowsOpen
    <2>2. Steady => KnowsAlone(row'[r], adjustments'[r], preRecord'[r], charge'[r], sess'[r], pc'[r])
      BY <1>2, <1>3, <1>8, <2>0, <2>p DEF KnowsAlone, Unrecorded
    <2>3. MaxFaults <= 1 /\ Steady => KnowsTaken(row'[r], preRecord'[r], charge'[r], sess'[r], pc'[r], faults')
      BY <1>3, <1>8, <2>0, <2>p DEF KnowsTaken
    <2> QED
      BY <1>2, <1>8, <2>0, <2>p, <2>1, <2>2, <2>3, OpenKept DEF Opened
  <1> QED
    BY <1>6, <1>7, <1>8

LEMMA TokenRollbackKept ==
    ASSUME Ready, Environment, NEW r \in Requests, TokenRollback(r)
    PROVE  Kept(r)
  <1>0. PICK q : q = sess[r].tok
    OBVIOUS
  <1>1. pc[r] = "token_rollback"
    BY DEF TokenRollback
  <1>2. /\ "token" \notin LossyOps
        /\ Source(sess[r]) = "subscription" /\ row[r].source = "subscription"
        /\ row[r].status = "active" /\ row[r].pre = "prepared" /\ preRecord[r].status = "none"
        /\ row[r].tokenRequired = ~sess[r].playground
        /\ \A e \in Effects : ~adjustments[r][e].done
        /\ BooksOpen(r) /\ faults \in Nat
        /\ pc[r] \in Opened /\ Steady
    BY <1>1, UnrecordedHere
  <1>3. /\ q \in Nat /\ charge[r].token = q /\ ~sess[r].needsRecovery /\ ~sess[r].playground
    BY <1>0, <1>1, <1>2, UnrecordedHere, Here DEF KnowsAlone, TokenHeld
  <1> DEFINE effect == IncreaseToken(r, q)
             nil == /\ pc'[r] = "record_failure" /\ Keeps(sess'[r], sess[r])
                    /\ sess'[r].tok = 0 /\ ~sess'[r].needsRecovery
             err == /\ pc'[r] = "rollback_sync" /\ Keeps(sess'[r], sess[r])
                    /\ sess'[r].tok = q /\ sess'[r].needsRecovery
             took == /\ BooksHold(r)' /\ UNCHANGED <<row, adjustments, preRecord, stale>>
                     /\ charge'[r].token = 0
  <1>4. Transaction("token", TRUE, effect, nil, err)
    BY <1>0, <1>3, Here, TokenRollbackMoves DEF Transaction
  <1>5. effect => took
    <2>0. SUFFICES ASSUME effect PROVE took
      OBVIOUS
    <2>1. UNCHANGED <<row, adjustments, preRecord, stale>> /\ Charged(r, 0, 0, -q)
      BY <1>3, <2>0, Here, TokenEffect
    <2>2. charge'[r].token = 0
      BY <1>3, <2>1 DEF Charged
    <2>3. -q \in Int
      BY <1>3
    <2>4. BooksHold(r)'
      BY <1>2, <2>1, <2>3, TokenMoveBooks DEF Unrecorded
    <2> QED
      BY <2>1, <2>2, <2>4
  <1> HIDE DEF effect
  <1>6. (took /\ nil) \/ (UNCHANGED durableVars /\ err /\ Fault)
    BY <1>2, <1>4, <1>5 DEF Transaction
  <1>7. CASE took /\ nil
    <2>0. /\ sess'[r].plan = sess[r].plan /\ sess'[r].playground = sess[r].playground
          /\ Source(sess'[r]) = "subscription"
      BY <1>2, <1>7 DEF Keeps, Source
    <2>1. KnowsOpen(row'[r], sess'[r], pc'[r])
      BY <1>2, <1>7, <2>0 DEF KnowsOpen
    <2>2. Steady => KnowsAlone(row'[r], adjustments'[r], preRecord'[r], charge'[r], sess'[r], pc'[r])
      BY <1>2, <1>7, <2>0 DEF KnowsAlone
    <2>3. MaxFaults <= 1 /\ Steady => KnowsTaken(row'[r], preRecord'[r], charge'[r], sess'[r], pc'[r], faults')
      BY <1>7, <2>0 DEF KnowsTaken, TokenHeld
    <2> QED
      BY <1>2, <1>7, <2>0, <2>1, <2>2, <2>3, OpenKept DEF Opened
  <1>8. CASE UNCHANGED durableVars /\ err /\ Fault
    <2>0. UNCHANGED <<row, adjustments, preRecord, charge, stale>> /\ BooksHold(r)'
      BY <1>8, NoEffect, UnchangedLate DEF LateEffect
    <2>p. /\ sess'[r].plan = sess[r].plan /\ sess'[r].playground = sess[r].playground
          /\ Source(sess'[r]) = "subscription" /\ TokenHeld(sess'[r], pc'[r]) = charge'[r].token
      BY <1>2, <1>3, <1>8, <2>0 DEF Keeps, Source, TokenHeld
    <2>1. KnowsOpen(row'[r], sess'[r], pc'[r])
      BY <1>2, <1>8, <2>0, <2>p DEF KnowsOpen
    <2>2. Steady => KnowsAlone(row'[r], adjustments'[r], preRecord'[r], charge'[r], sess'[r], pc'[r])
      BY <1>2, <1>3, <1>8, <2>0, <2>p DEF KnowsAlone, Unrecorded
    <2>f. faults' >= 1
      BY <1>2, <1>8 DEF Fault
    <2>3. MaxFaults <= 1 /\ Steady => KnowsTaken(row'[r], preRecord'[r], charge'[r], sess'[r], pc'[r], faults')
      BY <1>8, <2>0, <2>p, <2>f DEF KnowsTaken
    <2> QED
      BY <1>2, <1>8, <2>0, <2>p, <2>1, <2>2, <2>3, OpenKept DEF Opened
  <1> QED
    BY <1>6, <1>7, <1>8

LEMMA RollbackSyncKept ==
    ASSUME Ready, Environment, NEW r \in Requests, RollbackSync(r)
    PROVE  Kept(r)
  <1>0. PICK q : q = sess[r].tok
    OBVIOUS
  <1>1. pc[r] = "rollback_sync"
    BY DEF RollbackSync
  <1>2. /\ Source(sess[r]) = "subscription" /\ row[r].source = "subscription"
        /\ row[r].status = "active" /\ row[r].pre = "prepared" /\ preRecord[r].status = "none"
        /\ row[r].tokenRequired = ~sess[r].playground
        /\ \A e \in Effects : ~adjustments[r][e].done
        /\ BooksOpen(r) /\ faults \in Nat /\ sess[r].extra = 0
        /\ pc[r] \in Opened /\ Steady
    BY <1>1, UnrecordedHere
  <1>3. /\ q \in Nat /\ charge[r].token = q /\ sess[r].needsRecovery /\ ~sess[r].playground
        /\ MaxFaults <= 1 => faults >= 1
    BY <1>0, <1>1, <1>2, UnrecordedHere, Here DEF KnowsAlone, KnowsTaken, TokenHeld
  <1>4. /\ pc'[r] = "record_failure" /\ sess'[r] = sess[r]
        /\ Transaction("recovery", UpdateAmountsOk(r), UpdateAmounts(r, FALSE, 0, 0, q), TRUE, TRUE)
    BY <1>0, <1>2, <1>3, Here, RollbackSyncMoves
  <1>5. UpdateAmounts(r, FALSE, 0, 0, q) \/ (UNCHANGED durableVars /\ Fault)
    BY <1>2, <1>4 DEF Transaction, UpdateAmountsOk, Exists
  <1>6. CASE UpdateAmounts(r, FALSE, 0, 0, q)
    <2>1. /\ UNCHANGED <<adjustments, preRecord, charge>>
          /\ RowIs(row'[r], row[r].status, row[r].source, "committed", row[r].tokenRequired, FALSE,
                   0, 0, q, row[r].delta)
      BY <1>3, <1>6, Here, UpdateAmountsEffect
    <2>2. stale' \subseteq stale
      BY <1>6, StaleShrinks
    <2>3. /\ row[r].extra = 0 /\ Held(preRecord[r]) = 0
          /\ charge[r].token = IF row[r].tokenRequired THEN q ELSE 0
      BY <1>2, <1>3 DEF Held, BooksOpen, LedgerKnows
    <2>4. BooksHold(r)'
      BY <1>2, <1>3, <2>1, <2>3, AmountsBooks
    <2>5. row'[r].status = "active" /\ row'[r].source = "subscription" /\ row'[r].pre = "committed"
          /\ row'[r].tokenRequired = row[r].tokenRequired
      BY <1>2, <2>1 DEF RowIs
    <2>6. KnowsOpen(row'[r], sess'[r], pc'[r])
      BY <1>2, <1>4, <2>5 DEF KnowsOpen
    <2>7. Steady => KnowsAlone(row'[r], adjustments'[r], preRecord'[r], charge'[r], sess'[r], pc'[r])
      BY <1>2, <1>3, <1>4, <2>1, <2>5 DEF KnowsAlone
    <2>8. MaxFaults <= 1 /\ Steady => KnowsTaken(row'[r], preRecord'[r], charge'[r], sess'[r], pc'[r], faults')
      BY <1>4, <2>5 DEF KnowsTaken, Unrecorded
    <2> QED
      BY <1>2, <1>4, <2>2, <2>4, <2>5, <2>6, <2>7, <2>8, OpenKept DEF Opened
  <1>7. CASE UNCHANGED durableVars /\ Fault
    <2>0. UNCHANGED <<row, adjustments, preRecord, charge, stale>> /\ BooksHold(r)'
      BY <1>7, NoEffect, UnchangedLate DEF LateEffect
    <2>1. KnowsOpen(row'[r], sess'[r], pc'[r])
      BY <1>2, <1>4, <2>0 DEF KnowsOpen
    <2>2. Steady => KnowsAlone(row'[r], adjustments'[r], preRecord'[r], charge'[r], sess'[r], pc'[r])
      BY <1>2, <1>3, <1>4, <2>0 DEF KnowsAlone
    <2>3. ~(MaxFaults <= 1)
      BY <1>2, <1>3, <1>7, BoundsAreNaturals DEF Fault
    <2> QED
      BY <1>2, <1>4, <2>0, <2>1, <2>2, <2>3, OpenKept DEF Opened
  <1> QED
    BY <1>5, <1>6, <1>7

LEMMA AbortLate ==
    ASSUME Ready, Environment, NEW r \in Requests, pc[r] = "record_failure", AbortPreparedOk(r), AbortPrepared(r)
    PROVE  LateEffect(r) /\ PriceKept(r) /\ StatusOnly(r, "refunded")
  <1>1. StatusOnly(r, "refunded") /\ BooksOpen(r)
    BY Here, MarkEffect
  <1>2. row[r].source = "wallet" \/ preRecord[r].status # "consumed"
    BY Here DEF KnowsAlone, Environment
  <1>3. BooksHold(r)'
    BY <1>1, <1>2, AbortBooks
  <1>4. row[r].status # "absent"
    BY DEF AbortPreparedOk, Exists
  <1> QED
    BY <1>1, <1>3, <1>4 DEF LateEffect, PriceKept, SamePrice, RowIs, StatusOnly, Marked, Unrecorded

LEMMA RecordFailureKept ==
    ASSUME Ready, Environment, NEW r \in Requests, RecordFailure(r)
    PROVE  Kept(r)
  <1>1. /\ pc[r] = "record_failure" /\ sess[r].plan \in Preferences /\ pc[r] \in Starting \cup {"new"}
        /\ row[r].source = Source(sess[r])
    BY SessionHere DEF RecordFailure, Ready, Starting, Opened, BoundInv
  <1> DEFINE mark == sess[r].needsRecovery /\ MarkRefundPendingOk(r) /\ MarkRefundPending(r)
             abort == ~sess[r].needsRecovery /\ AbortPreparedOk(r) /\ AbortPrepared(r)
             none == UNCHANGED durableVars
  <1>2. GaveUp(r, sess[r]) /\ (mark \/ abort \/ none)
    BY <1>1, Here, RecordFailureMoves DEF Transaction
  <1>3. LateEffect(r) /\ PriceKept(r)
    BY <1>1, <1>2, MarkLate, AbortLate, UnchangedLate
  <1>4. CASE pc'[r] = "ended" /\ Same(sess'[r], sess[r])
    <2>1. LateMove(r)
      BY <1>1, <1>4, LateStays DEF Same
    <2>2. KnowsPriced(row'[r], sess'[r], pc'[r])
      BY <1>1, <1>3, <1>4, Here, PricedStays DEF Same, Settling, GivingBack
    <2> QED
      BY <1>3, <2>1, <2>2, LateKept
  <1>5. CASE /\ sess[r].fallback /\ Len(sess[r].plan) > 1
             /\ \E t \in SessionType :
                   /\ t.plan = Tail(sess[r].plan) /\ t.playground = sess[r].playground /\ Started(r, t)
    <2>1. PICK t \in SessionType : t.plan = Tail(sess[r].plan) /\ t.playground = sess[r].playground /\ Started(r, t)
      BY <1>5
    <2>2. Len(sess[r].plan) # 1 /\ Len(<<"wallet">>) = 1
      BY <1>1, <1>5, LongPreference
    <2>3. ~WalletOnly
      BY <1>1, <2>2, Here
    <2>4. Steady
      BY <2>3 DEF Environment
    <2>5. Len(t.plan) = 1 /\ Source(t) # Source(sess[r])
      BY <1>1, <1>5, <2>1, PreferenceTail DEF Source
    <2>6. /\ row[r].status = "active" /\ preRecord[r].status = "none" /\ \A e \in Effects : ~adjustments[r][e].done
          /\ ~sess[r].needsRecovery /\ Source(sess[r]) = "subscription" => row[r].pre = "prepared" /\ charge[r].token = 0
      BY <1>1, <2>4, Here DEF KnowsAlone, Starting, Opened
    <2>7. /\ row[r].tokenRequired = ~sess[r].playground
          /\ Source(sess[r]) = "wallet" => ~sess[r].needsRecovery /\ row[r].pre = "prepared"
      BY <1>1, <1>5, <2>6, Here DEF KnowsOpen
    <2>8. Source(sess[r]) = "wallet" => charge[r].token = 0
      BY <1>1, <2>7, Here DEF BooksOpen, BooksHold, Books, TokenBooks
    <2>9. Source(sess[r]) \in {"wallet", "subscription"}
      BY <1>1, PreferenceHead DEF Source, Sources
    <2>10. UNCHANGED <<adjustments, preRecord, charge>> /\ stale' \subseteq stale
      <3>1. CASE mark
        BY <3>1, Here, MarkRefundPendingEffect, StaleShrinks
      <3>2. CASE abort
        BY <1>1, <3>2, AbortLate, StaleShrinks DEF StatusOnly
      <3>3. CASE none
        BY <3>3, NoEffect
      <3> QED
        BY <1>2, <3>1, <3>2, <3>3
    <2>11. row'[r].status = "refunded" => charge[r].token = 0 /\ row'[r].pre = "prepared"
      <3>1. CASE mark
        <4>1. row'[r].status = "refund_pending"
          BY <2>6, <3>1, Here, MarkRefundPendingEffect DEF StatusOnly, RowIs
        <4> QED
          BY <4>1
      <3>2. CASE abort
        <4>1. row'[r].pre = row[r].pre
          BY <1>1, <3>2, AbortLate DEF StatusOnly, RowIs
        <4> QED
          BY <2>6, <2>7, <2>8, <2>9, <3>2, <4>1
      <3>3. CASE none
        BY <2>6, <3>3, NoEffect
      <3> QED
        BY <1>2, <3>1, <3>2, <3>3
    <2>12. MaxFaults <= 1 /\ Steady /\ Unrecorded(row'[r], preRecord'[r]) => charge'[r].token = 0
      BY <1>1, <1>3, Here DEF LateEffect, KnowsTaken, TokenHeld
    <2>13. row'[r].status \notin {"settlement_pending", "settled"}
      BY <1>3, <2>6 DEF PriceKept, Marked
    <2>14. /\ BooksHold(r)' /\ row'[r].tokenRequired = ~t.playground /\ row'[r].source # Source(t)
           /\ row[r].status \in Marked => row'[r].status \in Marked
      BY <1>1, <1>3, <2>1, <2>5, <2>7 DEF LateEffect
    <2> HIDE DEF mark, abort, none
    <2> QED
      BY <1>1, <2>1, <2>3, <2>5, <2>6, <2>10, <2>11, <2>12, <2>13, <2>14, StartedKept
  <1> QED
    BY <1>2, <1>4, <1>5 DEF GaveUp

LEMMA SyncKept ==
    ASSUME Ready, Environment, NEW r \in Requests, Sync(r)
    PROVE  Kept(r)
  <1>0. PICK sub, f, t : sub = sess[r].subId /\ f = sess[r].consumed /\ t = IF sess[r].playground THEN 0 ELSE sess[r].tok
    OBVIOUS
  <1>1. /\ pc[r] = "sync" /\ pc[r] \in Opened /\ row[r].source = Source(sess[r]) /\ sess[r].extra = 0
        /\ sub \in BOOLEAN /\ f \in Nat /\ t \in Nat /\ Source(sess[r]) \in Sources
        /\ row[r].source = "wallet" => row[r].funding = f
    BY <1>0, SessionHere DEF Sync, Ready, Opened, BoundInv
  <1>2. /\ Same(sess'[r], sess[r])
        /\ Transaction("recovery", UpdateAmountsOk(r), UpdateAmounts(r, sub, f, 0, t),
                       pc'[r] = "live", pc'[r] = "sync_refund")
    BY <1>0, <1>1, Here, SyncMoves
  <1>3. /\ row[r].status # "absent" /\ row[r].tokenRequired = ~sess[r].playground
        /\ row[r].status = "active" =>
              /\ sub <=> Source(sess[r]) = "subscription"
              /\ sess[r].pre = f /\ (~sess[r].playground => t = f) /\ (sess[r].playground => t = 0)
              /\ Source(sess[r]) = "wallet" => row[r].pre = "committed" /\ row[r].token = t
    BY <1>0, <1>1, Here DEF KnowsOpen
  <1>4. /\ BooksOpen(r) /\ (Steady => row[r].status = "active" /\ \A e \in Effects : ~adjustments[r][e].done)
        /\ row[r].source = "subscription" =>
              Steady /\ row[r].pre = "prepared" /\ preRecord[r].status = "consumed" /\ preRecord[r].amount = f
    BY <1>0, <1>1, Here, PlacesAre DEF KnowsAlone, Environment
  <1> DEFINE told == /\ LateEffect(r) /\ row'[r].status = "active" /\ Matches(row'[r], sess[r])
                     /\ row[r].status = "active" /\ UNCHANGED <<adjustments, preRecord, charge>>
                     /\ stale' \subseteq stale /\ row'[r].pre = "committed"
  <1>5. UpdateAmountsOk(r) /\ UpdateAmounts(r, sub, f, 0, t) => told
    <2>0. SUFFICES ASSUME UpdateAmountsOk(r), UpdateAmounts(r, sub, f, 0, t) PROVE told
      OBVIOUS
    <2>1. /\ UNCHANGED <<adjustments, preRecord, charge>>
          /\ RowIs(row'[r], row[r].status, row[r].source, "committed", row[r].tokenRequired, sub,
                   f, 0, t, row[r].delta)
      BY <1>1, <2>0, Here, UpdateAmountsEffect
    <2>2. row[r].status = "active"
      BY <2>0 DEF UpdateAmountsOk
    <2>3. stale' \subseteq stale
      BY <2>0, StaleShrinks
    <2>4. row[r].extra = 0
      BY <1>1, <1>4 DEF BooksOpen, LedgerKnows, BooksHold, Books, SubBooks, Sources
    <2>5. row[r].source = "subscription" => f = Held(preRecord[r])
      BY <1>4 DEF Held
    <2>6. charge[r].token = IF row[r].tokenRequired THEN t ELSE 0
      <3>1. CASE row[r].source = "subscription"
        BY <1>3, <1>4, <2>2, <3>1 DEF BooksOpen, BooksHold, Books, TokenBooks
      <3>2. CASE row[r].source = "wallet"
        <4>1. adjustments[r][TokenRefund].amount = 0 /\ adjustments[r][TokenSettle].amount = 0
          BY <1>4, <2>2, ActiveUnmarked
        <4>2. row[r].pre = "committed" /\ row[r].token = t
          BY <1>1, <1>3, <2>2, <3>2
        <4> QED
          BY <1>1, <1>4, <4>1, <4>2 DEF BooksOpen, BooksHold, Books, TokenBooks
      <3> QED
        BY <1>1, <3>1, <3>2 DEF Sources
    <2>7. BooksHold(r)'
      BY <1>1, <1>4, <2>1, <2>2, <2>4, <2>5, <2>6, AmountsBooks
    <2>8. LateEffect(r)
      BY <1>3, <2>1, <2>2, <2>7 DEF LateEffect, RowIs, Marked, Unrecorded
    <2>9. Matches(row'[r], sess[r])
      <3>1. /\ row'[r].pre = "committed" /\ (row'[r].source = "subscription" => row'[r].sub)
            /\ row'[r].funding = f /\ row'[r].extra = 0 /\ f \in Nat /\ sess[r].pre = f
        BY <1>1, <1>3, <2>1, <2>2 DEF RowIs
      <3>2. row'[r].token = IF row'[r].tokenRequired THEN sess[r].pre ELSE 0
        BY <1>3, <2>1, <2>2 DEF RowIs
      <3> QED
        BY <3>1, <3>2 DEF Matches
    <2> QED
      BY <2>1, <2>2, <2>3, <2>8, <2>9 DEF RowIs
  <1>6. \/ told /\ pc'[r] = "live"
        \/ told /\ pc'[r] = "sync_refund"
        \/ UNCHANGED durableVars /\ pc'[r] = "sync_refund"
    <2> HIDE DEF told
    <2> QED
      BY <1>2, <1>5 DEF Transaction
  <1>7. CASE told /\ pc'[r] = "live"
    <2>1. LateMove(r)
      BY <1>1, <1>2, <1>3, <1>7 DEF LateMove, Same, TokenHeld, Starting, Opened
    <2>2. KnowsPriced(row'[r], sess'[r], pc'[r])
      BY <1>2, <1>7 DEF KnowsPriced, Matches, Same, GivingBack, Settling
    <2> QED
      BY <1>7, <2>1, <2>2, LateKept
  <1>8. CASE told /\ pc'[r] = "sync_refund"
    <2>1. KnowsOpen(row'[r], sess'[r], pc'[r])
      BY <1>2, <1>3, <1>8 DEF KnowsOpen, Same, LateEffect
    <2>2. Steady => KnowsAlone(row'[r], adjustments'[r], preRecord'[r], charge'[r], sess'[r], pc'[r])
      BY <1>4, <1>8 DEF KnowsAlone
    <2>3. MaxFaults <= 1 /\ Steady => KnowsTaken(row'[r], preRecord'[r], charge'[r], sess'[r], pc'[r], faults')
      BY <1>8 DEF KnowsTaken, Unrecorded
    <2>4. row'[r].source = row[r].source /\ BooksHold(r)' /\ sess'[r].plan = sess[r].plan
      BY <1>2, <1>8 DEF LateEffect, Same
    <2> QED
      BY <1>1, <1>8, <2>1, <2>2, <2>3, <2>4, OpenKept DEF Opened
  <1>9. CASE UNCHANGED durableVars /\ pc'[r] = "sync_refund"
    <2>0. UNCHANGED <<row, adjustments, preRecord, charge, stale>> /\ BooksHold(r)'
      BY <1>9, NoEffect, UnchangedLate DEF LateEffect
    <2>1. KnowsOpen(row'[r], sess'[r], pc'[r])
      BY <1>2, <1>3, <1>9, <2>0 DEF KnowsOpen, Same
    <2>2. Steady => KnowsAlone(row'[r], adjustments'[r], preRecord'[r], charge'[r], sess'[r], pc'[r])
      BY <1>4, <1>9, <2>0 DEF KnowsAlone
    <2>3. MaxFaults <= 1 /\ Steady => KnowsTaken(row'[r], preRecord'[r], charge'[r], sess'[r], pc'[r], faults')
      BY <1>4, <1>9, <2>0 DEF KnowsTaken, Unrecorded
    <2>4. sess'[r].plan = sess[r].plan
      BY <1>2 DEF Same
    <2> QED
      BY <1>1, <1>9, <2>0, <2>1, <2>2, <2>3, <2>4, OpenKept DEF Opened
  <1> QED
    BY <1>6, <1>7, <1>8, <1>9

-----------------------------------------------------------------------------
(* The invariant of the whole program.                                      *)

LEMMA SessionStepKept ==
    ASSUME Ready, Environment, NEW r \in Requests, SessionStep(r)
    PROVE  Kept(r)
  BY BeginKept, WalletCheckKept, EnsureKept, WalletPreKept, TokenPreKept, SubPreKept,
     TokenRollbackKept, RollbackSyncKept, RecordFailureKept, SyncKept, SyncRefundKept,
     ReserveKept, AbandonKept, StartSettleKept, SettleUpdateKept, SettlingKept,
     RefundMarkKept, RefundingKept, RefundFinishKept
     DEF SessionStep

\* The books and the session of a request that a step does not touch.
LEMMA OtherHolds ==
    ASSUME Ready, NEW q \in Requests, row'[q] = row[q], adjustments'[q] = adjustments[q],
           preRecord'[q] = preRecord[q], charge'[q] = charge[q], pc'[q] = pc[q], sess'[q] = sess[q],
           faults' \in Nat, faults' >= faults,
           Steady /\ pc[q] \in Starting \cup {"new"} /\ Quiet(q) => Quiet(q)'
    PROVE  RequestHolds(q)'
  <1>1. RequestHolds(q) /\ faults \in Nat
    BY Here DEF Ready, BillingInv, SessionTypeOK
  <1>2. MaxFaults <= 1 /\ Steady => KnowsTaken(row'[q], preRecord'[q], charge'[q], sess'[q], pc'[q], faults')
    BY <1>1, Here DEF KnowsTaken
  <1>3. Steady /\ pc[q] \in Starting \cup {"new"} => Quiet(q)'
    BY Here
  <1> QED
    BY <1>1, <1>2, <1>3 DEF RequestHolds

LEMMA KeptHolds ==
    ASSUME Ready, NEW r \in Requests, Kept(r), Moved(r), Alone(r), UNCHANGED worker,
           faults' \in Nat, faults' >= faults
    PROVE  BillingInv'
  <1>1. RequestHolds(r)'
    <2>1. Steady /\ pc'[r] \in Starting \cup {"new"} => Quiet(r)'
      BY Here DEF Kept, Quiet
    <2> QED
      BY <2>1 DEF Kept, RequestHolds, BooksHold
  <1>2. ASSUME NEW q \in Requests, q # r PROVE RequestHolds(q)'
    <2>1. /\ row'[q] = row[q] /\ adjustments'[q] = adjustments[q] /\ preRecord'[q] = preRecord[q]
          /\ charge'[q] = charge[q] /\ pc'[q] = pc[q] /\ sess'[q] = sess[q] /\ (q \in stale' => q \in stale)
      BY <1>2 DEF Alone, Moved
    <2>2. Quiet(q) => Quiet(q)'
      BY <2>1 DEF Quiet
    <2> QED
      BY <2>1, <2>2, OtherHolds
  <1>3. WorkersMarked'
    <2>1. SUFFICES ASSUME NEW w \in Workers, worker[w].pc \in GivingBack
                   PROVE  row'[worker[w].req].status \in Marked
      BY DEF WorkersMarked, Marked
    <2>2. worker[w].pc # "idle" /\ worker[w].req \in Requests
      BY <2>1, Here, WorkerFields DEF GivingBack
    <2>3. row[worker[w].req].status \in Marked
      BY <2>1 DEF Ready, BillingInv, WorkersMarked, Marked
    <2>4. CASE worker[w].req = r
      BY <2>2, <2>3, <2>4 DEF Kept, Quiet
    <2>5. CASE worker[w].req # r
      BY <2>2, <2>3, <2>5 DEF Alone
    <2> QED
      BY <2>4, <2>5
  <1> QED
    BY <1>1, <1>2, <1>3 DEF BillingInv

\* A pass that works on a row leaves what its session knows of it.
LEMMA PassHolds ==
    ASSUME Ready, NEW r \in Requests, LateEffect(r), PriceKept(r), ~Quiet(r),
           pc'[r] = pc[r], sess'[r] = sess[r]
    PROVE  RequestHolds(r)'
  <1>1. row[r].source = "wallet" => SamePrice(r)
    BY DEF PriceKept
  <1>2. row'[r].status = "active" => SamePrice(r) /\ row[r].status = "active"
    BY DEF PriceKept, Marked
  <1>3. pc[r] \in Opened => row[r].source = Source(sess[r])
    BY SessionHere DEF Ready, BoundInv
  <1>4. KnowsOpen(row'[r], sess'[r], pc'[r])
    <2>1. pc[r] = "record_failure" \/ pc[r] = "wallet_pre" \/ pc[r] = "sync" => row[r].source = Source(sess[r])
      BY <1>3 DEF Opened
    <2>2. KnowsOpen(row[r], sess[r], pc[r])
      BY Here
    <2>3. /\ row'[r].tokenRequired = row[r].tokenRequired /\ row'[r].source = row[r].source
          /\ row'[r].status = "absent" <=> row[r].status = "absent"
      BY DEF LateEffect
    <2>4. SamePrice(r) => row'[r].pre = row[r].pre /\ row'[r].token = row[r].token
      BY DEF SamePrice, RowIs
    <2> QED
      BY <1>1, <1>2, <2>1, <2>2, <2>3, <2>4 DEF KnowsOpen
  <1>5. Steady => pc[r] \notin Starting \cup {"new"}
    BY Here
  <1>6. Steady => KnowsAlone(row'[r], adjustments'[r], preRecord'[r], charge'[r], sess'[r], pc'[r])
    BY <1>5 DEF KnowsAlone, Starting, Opened
  <1>7. MaxFaults <= 1 /\ Steady => KnowsTaken(row'[r], preRecord'[r], charge'[r], sess'[r], pc'[r], faults')
    BY <1>5, Here DEF KnowsTaken, LateEffect, Starting, Opened
  <1>8. KnowsPriced(row'[r], sess'[r], pc'[r])
    <2>1. pc[r] \in GivingBack /\ ~sess[r].refundErr => row'[r].status \in Marked
      BY Here DEF KnowsPriced, LateEffect, Marked
    <2> QED
      BY <2>1, Here, PricedStays
  <1>9. WalletOnly => row'[r].source = "wallet" /\ (pc'[r] # "new" => sess'[r].plan = <<"wallet">>)
    BY Here DEF LateEffect
  <1> QED
    BY <1>4, <1>5, <1>6, <1>7, <1>8, <1>9 DEF RequestHolds, LateEffect, BooksHold

LEMMA PassStep ==
    ASSUME Ready, NEW w \in Workers, NEW r \in Requests, r = worker[w].req, worker[w].pc # "idle",
           WorkerMoved(w), worker'[w].pc = "idle" \/ worker'[w].req = r,
           worker'[w].pc \in GivingBack => row'[r].status \in Marked,
           Alone(r), LateEffect(r), PriceKept(r), UNCHANGED <<pc, sess>>,
           faults' \in Nat, faults' >= faults
    PROVE  BillingInv'
  <1>1. RequestHolds(r)'
    <2>1. ~Quiet(r)
      BY DEF Quiet
    <2> QED
      BY <2>1, PassHolds
  <1>2. ASSUME NEW q \in Requests, q # r PROVE RequestHolds(q)'
    <2>1. /\ row'[q] = row[q] /\ adjustments'[q] = adjustments[q] /\ preRecord'[q] = preRecord[q]
          /\ charge'[q] = charge[q] /\ pc'[q] = pc[q] /\ sess'[q] = sess[q] /\ (q \in stale' => q \in stale)
      BY <1>2 DEF Alone
    <2>2. Quiet(q) => Quiet(q)'
      BY <1>2, <2>1 DEF Quiet, WorkerMoved
    <2> QED
      BY <2>1, <2>2, OtherHolds
  <1>3. WorkersMarked'
    <2>1. SUFFICES ASSUME NEW v \in Workers, worker'[v].pc \in GivingBack
                   PROVE  row'[worker'[v].req].status \in Marked
      BY DEF WorkersMarked, Marked
    <2>2. CASE v = w
      BY <2>1, <2>2 DEF GivingBack
    <2>3. CASE v # w
      <3>1. worker'[v] = worker[v]
        BY <2>3 DEF WorkerMoved
      <3>2. worker[v].req \in Requests /\ row[worker[v].req].status \in Marked
        BY <2>1, <3>1, Here, WorkerFields DEF GivingBack, Ready, BillingInv, WorkersMarked, Marked
      <3>3. CASE worker[v].req = r
        BY <3>1, <3>2, <3>3 DEF LateEffect
      <3>4. CASE worker[v].req # r
        BY <3>1, <3>2, <3>4 DEF Alone
      <3> QED
        BY <3>3, <3>4
    <2> QED
      BY <2>2, <2>3
  <1> QED
    BY <1>1, <1>2, <1>3 DEF BillingInv

LEMMA PickStep ==
    ASSUME Ready, NEW w \in Workers, Pick(w), UNCHANGED <<pc, sess>>, faults' \in Nat, faults' >= faults
    PROVE  BillingInv'
  <1>1. /\ UNCHANGED durableVars /\ WorkerMoved(w)
        /\ \E r \in Requests : Recoverable(r) /\ worker'[w].pc = "load" /\ worker'[w].req = r
    BY PickMoves DEF Ready, SessionInv
  <1>2. PICK r \in Requests : Recoverable(r) /\ worker'[w].pc = "load" /\ worker'[w].req = r
    BY <1>1
  <1>3. UNCHANGED <<row, adjustments, preRecord, charge, stale>>
    BY <1>1 DEF durableVars, balances
  <1>4. ASSUME NEW q \in Requests PROVE RequestHolds(q)'
    <2>1. Quiet(q) => q # r
      BY <1>2 DEF Quiet, Recoverable
    <2>2. Quiet(q) => Quiet(q)'
      BY <1>1, <1>2, <1>3, <2>1 DEF Quiet, WorkerMoved
    <2> QED
      BY <1>3, <2>2, OtherHolds
  <1>5. WorkersMarked'
    <2>1. SUFFICES ASSUME NEW v \in Workers, worker'[v].pc \in GivingBack
                   PROVE  row'[worker'[v].req].status \in Marked
      BY DEF WorkersMarked, Marked
    <2>2. v # w
      BY <1>2, <2>1 DEF GivingBack
    <2>3. worker'[v] = worker[v]
      BY <1>1, <2>2 DEF WorkerMoved
    <2> QED
      BY <1>3, <2>1, <2>3 DEF Ready, BillingInv, WorkersMarked, Marked
  <1> QED
    BY <1>4, <1>5 DEF BillingInv

LEMMA WorkerStepHolds ==
    ASSUME Ready, NEW w \in Workers, WorkerStep(w)
    PROVE  BillingInv'
  <1>0. /\ DurableTypeOK /\ SessionTypeOK /\ UNCHANGED <<pc, sess>> /\ faults' \in Nat /\ faults' >= faults
    BY Here, WorkerFaults, FaultsCounted DEF WorkerStep, Ready, SessionInv
  <1>1. PICK r : r = worker[w].req
    OBVIOUS
  <1>e. /\ FundingSettle \in Effects /\ TokenSettle \in Effects /\ FundingRefund \in Effects
        /\ ExtraRefund \in Effects /\ TokenRefund \in Effects
    BY EffectNames
  <1>2. CASE Pick(w)
    BY <1>0, <1>2, PickStep
  <1>3. CASE Load(w)
    <2>1. worker[w].pc # "idle" /\ UNCHANGED durableVars /\ Proceeds(w, {"settle_funding", "refund_mark"})
      BY <1>0, <1>3, LoadMoves
    <2>2. r \in Requests
      BY <1>0, <1>1, <2>1, WorkerFields
    <2>3. Alone(r) /\ LateEffect(r) /\ PriceKept(r)
      BY <2>1, <2>2, NoEffect, UnchangedLate
    <2> QED
      BY <1>0, <1>1, <2>1, <2>2, <2>3, PassStep DEF Proceeds, GivingBack
  <1>4. CASE WorkerSettle(w)
    <2>1. /\ r \in Requests /\ worker[w].pc # "idle" /\ Proceeds(w, {"settle_token", "settle_mark"})
          /\ \/ UNCHANGED durableVars
             \/ \E e \in {FundingSettle, TokenSettle} :
                    ApplyAdjustmentOk(r, e) /\ ApplyAdjustment(r, e)
             \/ MarkSettledOk(r) /\ MarkSettled(r)
      BY <1>0, <1>1, <1>4, WorkerSettleMoves
    <2>2. Alone(r)
      BY <1>0, <1>e, <2>1, NoEffect, ApplyEffect, MarkEffect
    <2>3. LateEffect(r) /\ PriceKept(r)
      BY <1>e, <2>1, UnchangedLate, ApplyLate, SettledLate
    <2> QED
      BY <1>0, <1>1, <2>1, <2>2, <2>3, PassStep DEF Proceeds, GivingBack
  <1>5. CASE WorkerRefund(w)
    <2>1. /\ r \in Requests /\ worker[w].pc # "idle"
          /\ \/ /\ Proceeds(w, {}) /\ UNCHANGED durableVars
             \/ /\ Proceeds(w, {"refund_funding"})
                /\ MarkRefundPendingOk(r) /\ MarkRefundPending(r)
             \/ /\ worker[w].pc \in GivingBack /\ Proceeds(w, GivingBack)
                /\ \/ UNCHANGED durableVars
                   \/ \E e \in {FundingRefund, ExtraRefund, TokenRefund} :
                         ApplyAdjustmentOk(r, e) /\ ApplyAdjustment(r, e)
                   \/ MarkRefundedOk(r) /\ MarkRefunded(r)
      BY <1>0, <1>1, <1>5, WorkerRefundMoves
    <2>2. CASE Proceeds(w, {}) /\ UNCHANGED durableVars
      <3>1. Alone(r) /\ LateEffect(r) /\ PriceKept(r)
        BY <2>1, <2>2, NoEffect, UnchangedLate
      <3> QED
        BY <1>0, <1>1, <2>1, <2>2, <3>1, PassStep DEF Proceeds, GivingBack
    <2>3. CASE Proceeds(w, {"refund_funding"}) /\ MarkRefundPendingOk(r) /\ MarkRefundPending(r)
      <3>1. Alone(r) /\ LateEffect(r) /\ PriceKept(r) /\ row'[r].status \in Marked
        BY <1>0, <2>1, <2>3, MarkRefundPendingEffect, MarkLate
      <3> QED
        BY <1>0, <1>1, <2>1, <2>3, <3>1, PassStep DEF Proceeds
    <2>4. CASE /\ worker[w].pc \in GivingBack /\ Proceeds(w, GivingBack)
               /\ \/ UNCHANGED durableVars
                  \/ \E e \in {FundingRefund, ExtraRefund, TokenRefund} :
                        ApplyAdjustmentOk(r, e) /\ ApplyAdjustment(r, e)
                  \/ MarkRefundedOk(r) /\ MarkRefunded(r)
      <3>1. row[r].status \in Marked
        BY <1>1, <2>4 DEF Ready, BillingInv, WorkersMarked, Marked
      <3>2. Alone(r)
        BY <1>0, <1>e, <2>1, <2>4, NoEffect, ApplyEffect, MarkEffect
      <3>3. LateEffect(r) /\ PriceKept(r)
        BY <1>e, <2>1, <2>4, <3>1, UnchangedLate, ApplyLate, RefundedLate
      <3> QED
        BY <1>0, <1>1, <2>1, <2>4, <3>1, <3>2, <3>3, PassStep DEF Proceeds, LateEffect
    <2> QED
      BY <2>1, <2>2, <2>3, <2>4
  <1> QED
    BY <1>2, <1>3, <1>4, <1>5 DEF WorkerStep

\* A row that a heartbeat freshens, or that no one has written for long.
LEMMA AgeStep ==
    ASSUME Ready, NEW r \in Requests, Heartbeat(r) \/ Age(r)
    PROVE  BillingInv'
  <1>1. UNCHANGED <<row, adjustments, preRecord, charge, pc, sess, worker, faults>>
    BY DEF Heartbeat, Age, TouchBillingRecovery, GrowStale, balances
  <1>2. faults \in Nat
    BY Here DEF SessionTypeOK
  <1>3. \/ stale' \subseteq stale
        \/ /\ stale' = stale \cup {r} /\ row[r].status \in Live
           /\ Running(r) => StallAnywhere \/ pc[r] = "live"
    BY DEF Heartbeat, Age, TouchBillingRecovery, Touched, GrowStale
  <1>4. Steady /\ stale' = stale \cup {r} /\ row[r].status \in Live /\ (Running(r) => StallAnywhere \/ pc[r] = "live")
           => pc[r] \notin Starting \cup {"new"}
    BY Here DEF Steady, Running, Starting, Opened, KnowsOpen, Live
  <1>5. ASSUME NEW q \in Requests PROVE RequestHolds(q)'
    <2>1. Steady /\ pc[q] \in Starting \cup {"new"} /\ Quiet(q) => Quiet(q)'
      BY <1>1, <1>3, <1>4 DEF Quiet
    <2> QED
      BY <1>1, <1>2, <2>1, OtherHolds
  <1> QED
    BY <1>1, <1>5 DEF Ready, BillingInv, WorkersMarked

LEMMA BillingStep ==
    ASSUME Environment, Ready, [Next]_vars
    PROVE  Ready'
  <1>1. SessionInv' /\ [DurableNext]_durableVars
    BY SessionInvStep DEF Ready
  <1>2. LedgerInv'
    BY <1>1, LedgerStep DEF Ready, SessionInv
  <1>3. ASSUME NEW r \in Requests, SessionStep(r)
        PROVE  BillingInv'
    <2>1. Kept(r) /\ Moved(r) /\ Alone(r) /\ UNCHANGED worker
      BY <1>3, SessionStepKept, SessionStepKeeps DEF StepKeeps, Ready
    <2>2. faults' \in Nat /\ faults' >= faults
      BY <1>3, SessionFaults, FaultsCounted DEF Ready, SessionInv
    <2> QED
      BY <2>1, <2>2, KeptHolds
  <1>4. ASSUME NEW r \in Requests, Crash(r)
        PROVE  BillingInv'
    <2>1. Kept(r) /\ UNCHANGED durableVars /\ UNCHANGED <<worker, faults>>
      BY <1>4, CrashKept DEF Crash
    <2>2. pc' \in [Requests -> Places] /\ sess' \in [Requests -> SessionType]
      BY <1>1 DEF SessionInv, SessionTypeOK
    <2>3. Moved(r)
      <3>1. \A q \in Requests \ {r} : pc'[q] = pc[q] /\ sess'[q] = sess[q]
        BY <1>4 DEF Crash, Goto, Ready, SessionInv, SessionTypeOK
      <3> QED
        BY <2>2, <3>1 DEF Moved
    <2>4. faults' \in Nat /\ faults' >= faults
      BY <2>1, Here DEF SessionTypeOK
    <2> QED
      BY <2>1, <2>3, <2>4, NoEffect, KeptHolds
  <1>5. ASSUME NEW r \in Requests, Heartbeat(r) \/ Age(r)
        PROVE  BillingInv'
    BY <1>5, AgeStep
  <1>6. ASSUME NEW w \in Workers, WorkerStep(w)
        PROVE  BillingInv'
    BY <1>6, WorkerStepHolds
  <1>7. ASSUME UNCHANGED vars
        PROVE  BillingInv'
    <2>1. UNCHANGED <<row, adjustments, preRecord, charge, stale, pc, sess, worker, faults>>
      BY <1>7 DEF vars, durableVars, balances
    <2>2. faults' \in Nat /\ faults' >= faults
      BY <2>1 DEF Ready, SessionInv, SessionTypeOK
    <2>3. ASSUME NEW q \in Requests PROVE RequestHolds(q)'
      BY <2>1, <2>2, OtherHolds DEF Quiet
    <2> QED
      BY <2>1, <2>3 DEF Ready, BillingInv, WorkersMarked
  <1>8. BillingInv'
    BY <1>3, <1>4, <1>5, <1>6, <1>7 DEF Next, Finished
  <1> QED
    BY <1>1, <1>2, <1>8 DEF Ready

LEMMA BillingInit == Init => Ready
  <1> SUFFICES ASSUME Init PROVE Ready
    OBVIOUS
  <1>1. SessionInv /\ LedgerInv
    BY SessionInvInit, LedgerInit DEF Init
  <1>2. WorkersMarked
    BY DEF WorkersMarked, Init, Idle, GivingBack
  <1>3. ASSUME NEW r \in Requests PROVE RequestHolds(r)
    <2>1. /\ row[r] = NoRow /\ charge[r] = [wallet |-> 0, sub |-> 0, token |-> 0]
          /\ preRecord[r] = NoRecord /\ pc[r] = "new" /\ stale = {}
          /\ \A e \in Effects : ~adjustments[r][e].done /\ adjustments[r][e].amount = 0
      BY DEF Init, DurableInit, NoMarker
    <2>2. /\ row[r].status = "absent" /\ row[r].source = "wallet" /\ row[r].pre = "prepared"
          /\ row[r].extra = 0 /\ preRecord[r].status = "none" /\ row[r].funding = 0
      BY <2>1 DEF NoRow, NoRecord
    <2>3. Books(row[r], adjustments[r], preRecord[r], charge[r])
      BY <2>1, <2>2, EffectNames
         DEF Books, AmountsBooked, SubBooks, TokenBooks, StatusBooks, Uncharged
    <2>4. KnowsOpen(row[r], sess[r], pc[r])
      BY <2>1, <2>2 DEF KnowsOpen
    <2>5. KnowsAlone(row[r], adjustments[r], preRecord[r], charge[r], sess[r], pc[r]) /\ Quiet(r)
      BY <2>1 DEF KnowsAlone, Starting, Opened, Quiet, Init, Idle
    <2>6. KnowsTaken(row[r], preRecord[r], charge[r], sess[r], pc[r], faults)
      BY <2>1, <2>2 DEF KnowsTaken, Unrecorded
    <2>7. KnowsPriced(row[r], sess[r], pc[r])
      BY <2>1, <2>2 DEF KnowsPriced, Settling, GivingBack
    <2> QED
      BY <2>1, <2>2, <2>3, <2>4, <2>5, <2>6, <2>7 DEF RequestHolds
  <1> QED
    BY <1>1, <1>2, <1>3 DEF Ready, BillingInv

\* The inductive invariant of the program, in an environment of the theorems.
LEMMA BillingInvariant ==
    ASSUME Environment
    PROVE  Spec => []Ready
  <1>1. Ready /\ [Next]_vars => Ready'
    BY BillingStep
  <1> QED
    BY <1>1, BillingInit, PTL DEF Spec

LEMMA SettledCharge ==
    ASSUME Ready
    PROVE  SettledPaysActual
  <1> SUFFICES ASSUME NEW r \in Requests, row[r].status = "settled"
               PROVE  /\ charge[r].wallet + charge[r].sub = sess[r].actual
                      /\ charge[r].token = IF row[r].tokenRequired THEN sess[r].actual ELSE 0
    BY DEF SettledPaysActual
  <1>1. /\ BookTypes(row[r], adjustments[r], preRecord[r], charge[r])
        /\ LedgerKnows(row[r], adjustments[r], charge[r]) /\ BooksHold(r)
        /\ sess[r].actual \in Nat /\ sess[r].pre \in Nat
    BY Here, SessionFields DEF BooksOpen, SessionTypeOK
  <1>2. Matches(row[r], sess[r]) /\ row[r].delta = sess[r].actual - sess[r].pre
    BY Here DEF KnowsPriced
  <1>3. /\ adjustments[r][FundingSettle].amount = row[r].delta
        /\ adjustments[r][TokenSettle].amount = row[r].delta
        /\ ~adjustments[r][FundingRefund].done
        /\ adjustments[r][FundingRefund].amount = 0 /\ adjustments[r][ExtraRefund].amount = 0
        /\ adjustments[r][TokenRefund].amount = 0
    BY <1>1, EffectNames DEF LedgerKnows, BooksHold, Books, AmountsBooked
  <1>4. row[r].source = "subscription" => Held(preRecord[r]) = row[r].funding
    BY <1>1, <1>2, <1>3 DEF Held, BooksHold, Books, SubBooks, Matches
  <1>5. charge[r].wallet + charge[r].sub = row[r].funding + row[r].extra + row[r].delta
    <2>1. CASE row[r].source = "wallet"
      <3>1. charge[r].wallet = row[r].funding + row[r].delta - 0 /\ charge[r].sub = 0 /\ row[r].extra = 0
        BY <1>1, <1>3, <2>1 DEF LedgerKnows, BooksHold, Books, SubBooks
      <3> QED
        BY <1>1, <3>1 DEF BookTypes
    <2>2. CASE row[r].source = "subscription"
      <3>1. charge[r].wallet = 0 /\ charge[r].sub = row[r].funding + row[r].extra + row[r].delta - 0
        BY <1>1, <1>3, <1>4, <2>2 DEF LedgerKnows, BooksHold, Books, SubBooks
      <3> QED
        BY <1>1, <3>1 DEF BookTypes
    <2> QED
      BY <1>1, <2>1, <2>2 DEF BookTypes
  <1>6. charge[r].token = IF row[r].tokenRequired THEN row[r].token + row[r].delta - 0 ELSE 0
    BY <1>1, <1>2, <1>3 DEF BooksHold, Books, TokenBooks, Matches
  <1>7. /\ row[r].funding + row[r].extra = sess[r].pre
        /\ row[r].token = IF row[r].tokenRequired THEN sess[r].pre ELSE 0
    BY <1>2 DEF Matches
  <1> QED
    BY <1>1, <1>2, <1>5, <1>6, <1>7 DEF BookTypes

LEMMA RefundedCharge ==
    ASSUME Ready
    PROVE  RefundedPaysNothing
  BY Here DEF RefundedPaysNothing, BooksOpen, BooksHold, Books, StatusBooks

LEMMA AbortedCharge ==
    ASSUME Ready, WalletOnly \/ (Steady /\ MaxFaults <= 1)
    PROVE  AbortedTookNothing
  <1> SUFFICES ASSUME NEW r \in Requests, Reusable(r), pc[r] # "dead"
               PROVE  charge[r] = [wallet |-> 0, sub |-> 0, token |-> 0]
    BY DEF AbortedTookNothing
  <1>1. row[r].status = "refunded" /\ row[r].pre = "prepared"
    BY DEF Reusable
  <1>2. /\ BookTypes(row[r], adjustments[r], preRecord[r], charge[r]) /\ BooksHold(r)
        /\ charge[r] \in ChargeType
    BY Here DEF BooksOpen, DurableTypeOK
  <1>3. charge[r].wallet = 0 /\ charge[r].sub = 0 /\ (row[r].source = "wallet" => charge[r].token = 0)
    BY <1>1, <1>2 DEF BooksHold, Books, StatusBooks
  <1>4. charge[r].token = 0
    <2>1. CASE row[r].source = "wallet"
      BY <1>3, <2>1
    <2>2. CASE row[r].source = "subscription"
      <3>1. Steady /\ MaxFaults <= 1
        BY <2>2, Here
      <3>2. Unrecorded(row[r], preRecord[r])
        BY <1>1, <1>2, <2>2 DEF Unrecorded, BookTypes, BooksHold, Books, SubBooks, StatusBooks
      <3>3. pc[r] \notin Opened
        BY <1>1, <3>1, Here DEF KnowsAlone
      <3> QED
        BY <3>1, <3>2, <3>3, Here DEF KnowsTaken, TokenHeld, Opened
    <2> QED
      BY <1>2, <2>1, <2>2 DEF BookTypes
  <1> QED
    BY <1>2, <1>3, <1>4 DEF ChargeType

\* However Settle, its retries, crashes and recovery passes share the work, a settled row
\* was charged its actual quota and a refunded one nothing from its source, for
\* every set of requests and workers and any number of failing calls, when only
\* the request upstream is slow enough to lose its row and a token or subscription
\* pre-consume that fails has not committed, or when all pay from the wallet.
THEOREM ClosedRowsAreExact ==
    ASSUME Environment
    PROVE  Spec => [](SettledPaysActual /\ RefundedPaysNothing)
  <1>1. Ready => SettledPaysActual /\ RefundedPaysNothing
    BY SettledCharge, RefundedCharge
  <1> QED
    BY <1>1, BillingInvariant, PTL

\* With one failing call at most, or from the wallet with any number, every row that has
\* ended says what its request was charged, and a row that was aborted took not
\* even token quota, so that a fallback source may take it over.
THEOREM OutcomeIsCharge ==
    ASSUME WalletOnly \/ (Steady /\ MaxFaults <= 1)
    PROVE  Spec => []OutcomeMatchesCharge
  <1>1. Environment
    BY DEF Environment
  <1>2. Ready => OutcomeMatchesCharge
    BY SettledCharge, RefundedCharge, AbortedCharge DEF OutcomeMatchesCharge
  <1>3. Spec => []Ready
    BY <1>1, BillingInvariant
  <1> QED
    BY <1>2, <1>3, PTL

\* What the durable layer promises holds of the program: every wallet movement is
\* explained by the row and its markers, a settlement that has begun excludes a
\* refund, a row in "prepared" is empty and an ended row stays as it ended.
THEOREM SessionsKeepLedger ==
    Spec => [](WalletLedger /\ SettlementIsCommitted /\ PreparedIsEmpty) /\ TerminalIsFinal
  BY SessionsUseDurable, WalletLedgerHolds, SettlementCommitted, PreparedEmpty, TerminalFinal, PTL

-----------------------------------------------------------------------------
(* The program implements RequestCharge.  What closes or reopens a row moves *)
(* no money, and what a settled row says is its request's price, so that the *)
(* books before and after a step tell which step of RequestCharge it is.     *)

Closes(r) ==
    /\ row[r].status = "settled" => row'[r].status = "settled" /\ SamePrice(r)
    /\ row[r].status # "settled" /\ row'[r].status = "settled"
          => row[r].status = "settlement_pending" /\ SamePrice(r) /\ charge'[r] = charge[r]
    /\ row[r].status # row'[r].status /\ "refunded" \in {row[r].status, row'[r].status}
          => charge'[r] = charge[r]

LEMMA CallCloses ==
    ASSUME DurableTypeOK, NEW r \in Requests, Opening(r) \/ Reserving(r) \/ Closing(r) \/ Timing(r)
    PROVE  Alone(r) /\ Closes(r)
  <1>s. row'[r] = row[r] => Closes(r)
    BY DEF Closes, SamePrice, RowIs
  <1>1. CASE Opening(r)
    <2>1. ASSUME NEW src \in Sources, NEW t \in BOOLEAN,
                 EnsureBillingRecoveryOk(r, src, t), EnsureBillingRecovery(r, src, t)
          PROVE  Alone(r) /\ Closes(r)
      <3>1. /\ Alone(r) /\ UNCHANGED charge
            /\ \/ row'[r] = row[r]
               \/ row[r].status \in {"absent", "refunded"} /\ row'[r].status = "active"
        <4>1. /\ Alone(r) /\ UNCHANGED <<adjustments, preRecord, charge>> /\ stale' \subseteq stale
              /\ row'[r].source = src
              /\ \/ /\ row[r].status = "absent"
                    /\ RowIs(row'[r], "active", src, "prepared", t, FALSE, 0, 0, 0, 0)
                 \/ /\ Exists(r) /\ row[r].source = src /\ row'[r] = row[r]
                    /\ row[r].tokenRequired = t
                 \/ /\ Reusable(r) /\ row[r].source # src /\ row[r].tokenRequired = t
                    /\ RowIs(row'[r], "active", src, row[r].pre, row[r].tokenRequired, row[r].sub,
                             row[r].funding, row[r].extra, row[r].token, row[r].delta)
          BY <2>1, EnsureEffect, Zenon
        <4> QED
          BY <4>1 DEF RowIs, Reusable
      <3> QED
        BY <1>s, <3>1 DEF Closes
    <2>2. ASSUME AbortPreparedOk(r), AbortPrepared(r)
          PROVE  Alone(r) /\ Closes(r)
      <3>1. Alone(r) /\ UNCHANGED charge /\ row'[r].status = "refunded" /\ row[r].status # "settled"
        BY <2>2, MarkEffect DEF StatusOnly, RowIs, AbortPreparedOk
      <3> QED
        BY <3>1 DEF Closes
    <2> QED
      BY <1>1, <2>1, <2>2 DEF Opening
  <1>2. CASE Reserving(r)
    <2>1. ASSUME NEW q \in Quotas, NEW u \in BOOLEAN, PreConsumeWalletOk(r, q, u), PreConsumeWallet(r, q)
          PROVE  Alone(r) /\ Closes(r)
      <3>1. Alone(r) /\ row'[r].status = row[r].status /\ row[r].status = "active"
        BY <2>1, PreConsumeWalletEffect, QuotasAreNaturals DEF RowIs, PreConsumeWalletOk
      <3> QED
        BY <3>1 DEF Closes
    <2>2. ASSUME NEW q \in Quotas, ReserveToken(r, q) \/ IncreaseToken(r, q)
                                   \/ PreConsumeSubscription(r, q)
          PROVE  Alone(r) /\ Closes(r)
      BY <1>s, <2>2, TokenEffect, PreConsumeSubscriptionEffect, QuotasAreNaturals
    <2>3. ASSUME NEW q \in Quotas, NEW u \in BOOLEAN, ReserveOk(r, q, u), ReserveBillingRecovery(r, q)
          PROVE  Alone(r) /\ Closes(r)
      <3>1. PICK d \in Nat : d = ReserveDelta(r, q)
        BY ReserveDeltaIsNat
      <3>2. Alone(r) /\ row'[r].status = row[r].status /\ row[r].status = "active"
        BY <2>3, <3>1, ReserveEffect DEF RowIs, ReserveOk
      <3> QED
        BY <3>2 DEF Closes
    <2>4. ASSUME NEW sub \in BOOLEAN, NEW f \in Amounts, NEW x \in Amounts, NEW t \in Amounts,
                 UpdateAmountsOk(r), UpdateAmounts(r, sub, f, x, t)
          PROVE  Alone(r) /\ Closes(r)
      <3>1. Alone(r) /\ row'[r].status = row[r].status /\ row[r].status = "active"
        BY <2>4, UpdateAmountsEffect, QuotasAreNaturals DEF RowIs, UpdateAmountsOk
      <3> QED
        BY <3>1 DEF Closes
    <2> QED
      BY <1>2, <2>1, <2>2, <2>3, <2>4 DEF Reserving
  <1>3. CASE Closing(r)
    <2>1. ASSUME NEW d \in Deltas, UpdateSettlementOk(r), UpdateSettlement(r, d)
          PROVE  Alone(r) /\ Closes(r)
      <3>1. /\ Alone(r)
            /\ \/ row'[r] = row[r]
               \/ row[r].status \in {"active", "settlement_pending"} /\ row'[r].status = "settlement_pending"
        BY <2>1, UpdateSettlementEffect, DeltasAreIntegers DEF RowIs, UpdateSettlementOk
      <3> QED
        BY <1>s, <3>1 DEF Closes
    <2>2. ASSUME MarkRefundPendingOk(r), MarkRefundPending(r)
          PROVE  Alone(r) /\ Closes(r)
      <3>1. /\ Alone(r) /\ UNCHANGED charge
            /\ \/ row'[r] = row[r]
               \/ row[r].status \in {"active", "refund_pending"} /\ row'[r].status = "refund_pending"
        BY <2>2, MarkRefundPendingEffect DEF RowIs, StatusOnly, MarkRefundPendingOk
      <3> QED
        BY <1>s, <3>1 DEF Closes
    <2>3. ASSUME NEW e \in Effects, ApplyAdjustmentOk(r, e), ApplyAdjustment(r, e)
          PROVE  Alone(r) /\ Closes(r)
      <3>1. Alone(r) /\ (row'[r] = row[r] \/ (SamePrice(r) /\ row'[r].status = row[r].status))
        BY <2>3, ApplyEffect DEF Applied, RowIs, SamePrice
      <3> QED
        BY <1>s, <3>1 DEF Closes
    <2>4. ASSUME MarkSettledOk(r), MarkSettled(r)
          PROVE  Alone(r) /\ Closes(r)
      <3>1. /\ Alone(r) /\ UNCHANGED charge /\ SamePrice(r) /\ row'[r].status = "settled"
            /\ row[r].status \in {"settlement_pending", "settled"}
        BY <2>4, MarkEffect DEF StatusOnly, RowIs, SamePrice, MarkSettledOk
      <3> QED
        BY <3>1 DEF Closes
    <2>5. ASSUME MarkRefundedOk(r), MarkRefunded(r)
          PROVE  Alone(r) /\ Closes(r)
      <3>1. Alone(r) /\ UNCHANGED charge /\ row'[r].status = "refunded" /\ row[r].status # "settled"
        BY <2>5, MarkEffect DEF StatusOnly, RowIs, MarkRefundedOk
      <3> QED
        BY <3>1 DEF Closes
    <2> QED
      BY <1>3, <2>1, <2>2, <2>3, <2>4, <2>5 DEF Closing
  <1>4. CASE Timing(r)
    BY <1>s, <1>4 DEF Timing, TouchBillingRecovery, Touched, GrowStale, balances, Alone
  <1> QED
    BY <1>1, <1>2, <1>3, <1>4

\* A request whose net charge a terminal row gives exactly.
Unleaked(r) == row[r].source = "wallet" \/ (Steady /\ MaxFaults <= 1 /\ pc[r] # "dead")

\* The price of a request is what its priced row says.
Exact(r) ==
    /\ row[r].status \in {"settlement_pending", "settled"}
          => sess[r].actual = row[r].delta + (row[r].funding + row[r].extra)
    /\ row[r].status = "settled" =>
          /\ charge[r].wallet + charge[r].sub = sess[r].actual
          /\ charge[r].token = IF row[r].tokenRequired THEN sess[r].actual ELSE 0
    /\ row[r].status = "refunded" /\ Unleaked(r) =>
          charge[r].wallet + charge[r].sub = 0 /\ charge[r].token = 0

LEMMA BooksExact ==
    ASSUME Ready, NEW r \in Requests
    PROVE  Exact(r)
  <1>1. /\ BookTypes(row[r], adjustments[r], preRecord[r], charge[r]) /\ BooksHold(r)
    BY Here DEF BooksOpen
  <1>2. ASSUME row[r].status \in {"settlement_pending", "settled"}
        PROVE  sess[r].actual = row[r].delta + (row[r].funding + row[r].extra)
    <2>1. row[r].delta = sess[r].actual - sess[r].pre /\ row[r].funding + row[r].extra = sess[r].pre
      BY <1>2, Here DEF KnowsPriced, Matches
    <2>2. sess[r].actual \in Nat /\ sess[r].pre \in Nat
      BY Here, SessionFields DEF SessionTypeOK
    <2> QED
      BY <2>1, <2>2
  <1>3. ASSUME row[r].status = "refunded", Unleaked(r)
        PROVE  charge[r].wallet + charge[r].sub = 0 /\ charge[r].token = 0
    <2>1. /\ charge[r].wallet = 0 /\ charge[r].sub = 0
          /\ row[r].source = "wallet" \/ row[r].pre = "committed" => charge[r].token = 0
      BY <1>1, <1>3 DEF BooksHold, Books, StatusBooks
    <2>2. CASE row[r].source = "wallet" \/ row[r].pre = "committed"
      BY <2>1, <2>2
    <2>3. CASE row[r].source = "subscription" /\ row[r].pre = "prepared"
      <3>1. Unrecorded(row[r], preRecord[r])
        BY <1>1, <1>3, <2>3 DEF Unrecorded, BookTypes, BooksHold, Books, SubBooks, StatusBooks
      <3>2. pc[r] \notin Opened
        BY <1>3, <2>3, Here DEF KnowsAlone, Unleaked
      <3>3. charge[r].token = 0
        BY <1>3, <2>3, <3>1, <3>2, Here DEF KnowsTaken, TokenHeld, Opened, Unleaked
      <3> QED
        BY <2>1, <3>3
    <2> QED
      BY <1>1, <2>2, <2>3 DEF BookTypes
  <1> QED
    BY <1>2, <1>3, SettledCharge DEF Exact, SettledPaysActual

AllExact == \A r \in Requests : Exact(r)

LEMMA ReadyExact == Ready => AllExact
  BY BooksExact DEF AllExact

LEMMA ReadyExactNext == Ready' => AllExact'
  BY ReadyExact, PTL

\* What RequestCharge sees of one request.
LEMMA Seen ==
    ASSUME NEW r \in Requests
    PROVE  /\ RC!Step(r) <=>
              LET o == IF row[r].status \in Terminal THEN row[r].status ELSE "open"
                  p == IF row'[r].status \in Terminal THEN row'[r].status ELSE "open"
                  n == [funding |-> charge[r].wallet + charge[r].sub, token |-> charge[r].token]
                  m == [funding |-> charge'[r].wallet + charge'[r].sub, token |-> charge'[r].token]
                  c == [funding |-> sess[r].actual, token |-> IF row[r].tokenRequired THEN sess[r].actual ELSE 0]
                  d == [funding |-> sess'[r].actual, token |-> IF row'[r].tokenRequired THEN sess'[r].actual ELSE 0]
                  z == [funding |-> 0, token |-> 0]
              IN \/ o = "open" /\ p = "open"
                 \/ o = "open" /\ p = "settled" /\ n = c /\ m = n /\ d = c
                 \/ o = "open" /\ p = "refunded" /\ n = z /\ m = z
                 \/ o = "refunded" /\ p = "open" /\ n = z /\ m = z
                 \/ o # "open" /\ p = o /\ m = n /\ (o = "settled" => d = c)
  BY DEF RC!Step, RC!Work, RC!Settle, RC!Refund, RC!Reopen, RC!Closed, RC!Nothing

LEMMA Charges ==
    ASSUME Ready, Ready', NEW r \in Requests, Unleaked(r), Unleaked(r)', Closes(r)
    PROVE  RC!Step(r)
  <1>t. /\ row[r].status \in Live \cup Terminal \cup {"absent"} /\ row'[r].status \in Live \cup Terminal \cup {"absent"}
        /\ charge[r] \in ChargeType /\ charge'[r] \in ChargeType
    BY RowFields DEF Ready, SessionInv, DurableTypeOK, RowType
  <1>e. Exact(r) /\ Exact(r)'
    BY ReadyExact, ReadyExactNext DEF AllExact
  <1>1. CASE row[r].status \notin Terminal /\ row'[r].status \notin Terminal
    BY <1>1, Seen
  <1>2. CASE row[r].status = "settled"
    <2>1. row'[r].status = "settled" /\ SamePrice(r)
      BY <1>2 DEF Closes
    <2>2. sess'[r].actual = sess[r].actual /\ row'[r].tokenRequired = row[r].tokenRequired
      BY <1>2, <2>1, <1>e DEF Exact, SamePrice, RowIs
    <2>3. /\ charge'[r].wallet + charge'[r].sub = charge[r].wallet + charge[r].sub
          /\ charge'[r].token = charge[r].token
      BY <1>2, <2>1, <2>2, <1>e DEF Exact
    <2> QED
      BY <1>2, <2>1, <2>2, <2>3, Seen DEF Terminal
  <1>3. CASE row[r].status # "settled" /\ row'[r].status = "settled"
    <2>1. row[r].status = "settlement_pending" /\ SamePrice(r) /\ charge'[r] = charge[r]
      BY <1>3 DEF Closes
    <2>2. sess'[r].actual = sess[r].actual /\ row'[r].tokenRequired = row[r].tokenRequired
      BY <1>3, <2>1, <1>e DEF Exact, SamePrice, RowIs
    <2>3. /\ charge'[r].wallet + charge'[r].sub = sess'[r].actual
          /\ charge'[r].token = IF row'[r].tokenRequired THEN sess'[r].actual ELSE 0
      BY <1>3, <1>e DEF Exact
    <2> QED
      BY <1>3, <2>1, <2>2, <2>3, Seen DEF Terminal
  <1>4. CASE row[r].status = "refunded" /\ row'[r].status # "settled"
    <2>1. charge[r].wallet + charge[r].sub = 0 /\ charge[r].token = 0
      BY <1>4, <1>e DEF Exact
    <2>2. CASE row'[r].status = "refunded"
      <3>1. charge'[r].wallet + charge'[r].sub = 0 /\ charge'[r].token = 0
        BY <2>2, <1>e DEF Exact
      <3> QED
        BY <1>4, <2>1, <2>2, <3>1, Seen DEF Terminal
    <2>3. CASE row'[r].status # "refunded"
      <3>1. charge'[r] = charge[r]
        BY <1>4, <2>3 DEF Closes
      <3> QED
        BY <1>4, <2>1, <2>3, <3>1, Seen DEF Terminal
    <2> QED
      BY <2>2, <2>3
  <1>5. CASE row[r].status \notin Terminal /\ row'[r].status = "refunded"
    <2>1. charge'[r].wallet + charge'[r].sub = 0 /\ charge'[r].token = 0
      BY <1>5, <1>e DEF Exact
    <2>2. charge'[r] = charge[r]
      BY <1>5 DEF Closes, Terminal
    <2> QED
      BY <1>5, <2>1, <2>2, Seen DEF Terminal
  <1> QED
    BY <1>t, <1>1, <1>2, <1>3, <1>4, <1>5 DEF Terminal

LEMMA ChargeStep ==
    ASSUME Ready, Ready', [DurableNext]_durableVars, \A r \in Requests : Unleaked(r) /\ Unleaked(r)'
    PROVE  RC!Next \/ Requests = {}
  <1>1. CASE UNCHANGED durableVars
    <2>1. SUFFICES ASSUME NEW r \in Requests PROVE RC!Next
      OBVIOUS
    <2>2. Alone(r) /\ row'[r] = row[r]
      BY <1>1, NoEffect
    <2>3. Closes(r)
      BY <2>2 DEF Closes, SamePrice, RowIs
    <2>4. RC!Step(r)
      BY <2>3, Charges
    <2> QED
      BY <2>2, <2>4 DEF RC!Next, Alone
  <1>2. CASE DurableNext
    <2>1. PICK r \in Requests : Opening(r) \/ Reserving(r) \/ Closing(r) \/ Timing(r)
      BY <1>2 DEF DurableNext
    <2>2. Alone(r) /\ Closes(r)
      BY <2>1, CallCloses DEF Ready, SessionInv
    <2>3. RC!Step(r)
      BY <2>2, Charges
    <2> QED
      BY <2>2, <2>3 DEF RC!Next, Alone
  <1> QED
    BY <1>1, <1>2

\* Without crashes every session lives.
Alive == \A r \in Requests : pc[r] # "dead"

LEMMA AliveStep ==
    ASSUME Ready, Alive, Crashes = {}, [Next]_vars
    PROVE  Alive'
  <1>t. pc \in [Requests -> Places]
    BY DEF Ready, SessionInv, SessionTypeOK
  <1>1. ASSUME NEW r \in Requests, NEW p, NEW s, Goto(r, p, s), p # "dead"
        PROVE  Alive'
    BY <1>t, <1>1 DEF Goto, Alive
  <1>2. ASSUME NEW r \in Requests, NEW s, Try(r, s)
        PROVE  Alive'
    BY <1>1, <1>2 DEF Try
  <1>3. ASSUME NEW r \in Requests, NEW s, GiveUp(r, s)
        PROVE  Alive'
    BY <1>1, <1>2, <1>3 DEF GiveUp
  <1>4. ASSUME NEW r \in Requests, NEW s, Fail(r, s)
        PROVE  Alive'
    BY <1>1, <1>4 DEF Fail
  <1>5. ASSUME NEW r \in Requests, NEW s, SettleError(r, s)
        PROVE  Alive'
    BY <1>1, <1>4, <1>5 DEF SettleError
  <1>6. ASSUME NEW r \in Requests, SessionStep(r)
        PROVE  Alive'
    <2>1. CASE Begin(r) \/ WalletCheck(r) \/ Abandon(r) \/ StartSettle(r)
      BY <1>1, <1>2, <1>3, <1>4, <2>1 DEF Begin, WalletCheck, Abandon, StartSettle
    <2>2. CASE Ensure(r) \/ WalletPre(r) \/ TokenPre(r) \/ SubPre(r)
      BY <1>1, <2>2 DEF Ensure, WalletPre, TokenPre, SubPre, Transaction
    <2>3. CASE TokenRollback(r) \/ RollbackSync(r) \/ RecordFailure(r) \/ Sync(r) \/ SyncRefund(r)
      BY <1>1, <1>3, <1>4, <2>3
         DEF TokenRollback, RollbackSync, RecordFailure, Sync, SyncRefund, Transaction
    <2>4. CASE Reserve(r) \/ SettleUpdate(r) \/ SettleFunding(r) \/ SettleToken(r) \/ SettleMark(r)
      BY <1>1, <1>4, <1>5, <2>4
         DEF Reserve, SettleUpdate, SettleFunding, SettleToken, SettleMark, Transaction
    <2>5. CASE RefundMark(r) \/ RefundFunding(r) \/ RefundExtra(r) \/ RefundToken(r) \/ RefundFinish(r)
      BY <1>1, <2>5
         DEF RefundMark, RefundFunding, RefundExtra, RefundToken, RefundFinish, Transaction
    <2> QED
      BY <1>6, <2>1, <2>2, <2>3, <2>4, <2>5 DEF SessionStep
  <1> QED
    BY <1>6 DEF Next, Finished, vars, Crash, Heartbeat, Age, WorkerStep, Alive

\* Each request is charged its price or nothing, and nothing moves once that is decided,
\* except that a refunded attempt may be paid from its fallback source: the
\* sessions and recovery passes implement RequestCharge, for every set of
\* requests and workers.  When all pay from the wallet it holds of any crashes,
\* stalls, failing and lossy calls; with subscriptions it needs that no process
\* dies between the token and the subscription and that one call fails at most.
THEOREM ChargedAtMostOnce ==
    ASSUME WalletOnly \/ (Steady /\ Crashes = {} /\ MaxFaults <= 1)
    PROVE  Spec => ChargesAtMostOnce
  <1> DEFINE Inv == Ready /\ (Crashes = {} => Alive)
             o == [r \in Requests |-> IF row[r].status \in Terminal THEN row[r].status ELSE "open"]
             n == [r \in Requests |-> [funding |-> charge[r].wallet + charge[r].sub, token |-> charge[r].token]]
             p == [r \in Requests |-> [funding |-> sess[r].actual,
                                       token |-> IF row[r].tokenRequired THEN sess[r].actual ELSE 0]]
  <1>1. Environment
    BY DEF Environment
  <1>2. Init => Inv
    BY BillingInit DEF Init, Alive
  <1>3. Inv /\ [Next]_vars => Inv'
    BY <1>1, BillingStep, AliveStep
  <1>4. Init => RC!Init
    BY DEF Init, DurableInit, NoRow, NoSession, Terminal, RC!Init, RC!Nothing
  <1>5. Inv /\ Inv' /\ [Next]_vars => [RC!Next]_<<o, n, p>>
    <2> SUFFICES ASSUME Inv, Inv', [Next]_vars PROVE [RC!Next]_<<o, n, p>>
      OBVIOUS
    <2>1. [DurableNext]_durableVars
      BY SessionInvStep DEF Ready
    <2>2. ASSUME NEW r \in Requests PROVE Unleaked(r) /\ Unleaked(r)'
      <3>1. WalletOnly => row[r].source = "wallet" /\ row'[r].source = "wallet"
        BY DEF Ready, BillingInv, RequestHolds
      <3>2. ~WalletOnly => Steady /\ MaxFaults <= 1 /\ pc[r] # "dead" /\ pc'[r] # "dead"
        BY DEF Alive
      <3> QED
        BY <3>1, <3>2 DEF Unleaked
    <2>3. RC!Next \/ Requests = {}
      BY <2>1, <2>2, ChargeStep
    <2>4. Requests = {} => UNCHANGED <<o, n, p>>
      OBVIOUS
    <2> QED
      BY <2>3, <2>4
  <1>6. Spec => []Inv
    BY <1>2, <1>3, PTL DEF Spec
  <1> QED
    BY <1>4, <1>5, <1>6, PTL DEF Spec, ChargesAtMostOnce, RC!Spec

-----------------------------------------------------------------------------
(* Balances that requests share.                                            *)

\* What one step of r does to the balances, with a token that is unlimited or not.
WalletMove(r) ==
    \/ /\ reservations'[r] = reservations[r]
       /\ \/ userQuota' >= 0
          \/ userQuota' + Clamp(adjustments'[r][FundingSettle].amount)
                >= userQuota + Clamp(adjustments[r][FundingSettle].amount)
    \/ /\ adjustments'[r] = adjustments[r]
       /\ \E m \in [target : Nat, amount : Nat] \ reservations[r] :
             /\ reservations'[r] = reservations[r] \cup {m}
             /\ userQuota' + m.amount >= userQuota

TokenMove(r) ==
    \/ tokenQuota' >= 0
    \/ tokenQuota' + Clamp(adjustments'[r][TokenSettle].amount)
          >= tokenQuota + Clamp(adjustments[r][TokenSettle].amount)

SubMove(r) ==
    /\ subUsed' = Clamp(subUsed + (charge'[r].sub - charge[r].sub))
    /\ SubTotal > 0 /\ subUsed <= SubTotal => subUsed' <= SubTotal

FundsMove(r, unlimited) ==
    /\ \A q \in Requests \ {r} : /\ charge'[q] = charge[q] /\ adjustments'[q] = adjustments[q]
                                 /\ reservations'[q] = reservations[q]
    /\ WalletMove(r) /\ SubMove(r) /\ (~unlimited => TokenMove(r))

LEMMA ClampIs ==
    ASSUME NEW n \in Int
    PROVE  Clamp(n) \in Nat /\ Clamp(n) >= n /\ (n >= 0 => Clamp(n) = n)
  BY DEF Clamp

\* The balances and markers of one request.
LEMMA FundTypes ==
    ASSUME DurableTypeOK, NEW r \in Requests
    PROVE  /\ userQuota \in Int /\ tokenQuota \in Int /\ subUsed \in Nat
           /\ charge[r].wallet \in Int /\ charge[r].sub \in Int /\ charge[r].token \in Int
           /\ \A e \in Effects : adjustments[r][e].amount \in Int
           /\ adjustments[r][FundingSettle].amount \in Int /\ adjustments[r][TokenSettle].amount \in Int
           /\ row[r].funding \in Nat /\ row[r].extra \in Nat /\ row[r].token \in Nat
           /\ row[r].delta \in Int /\ preRecord[r].amount \in Nat
           /\ row[r].tokenRequired \in BOOLEAN
  <1>1. charge[r] \in ChargeType /\ row[r] \in RowType /\ preRecord[r] \in RecordType
        /\ adjustments[r] \in [Effects -> MarkerType]
    BY DEF DurableTypeOK
  <1>2. \A e \in Effects : adjustments[r][e].amount \in Int
    BY <1>1 DEF MarkerType
  <1>3. preRecord[r].amount \in Nat
    BY <1>1 DEF RecordType
  <1> QED
    BY <1>1, <1>2, <1>3, ChargeFields, RowFields, EffectNames DEF DurableTypeOK

\* A step that moves no money.
LEMMA StillFunds ==
    ASSUME DurableTypeOK, NEW r \in Requests, NEW u, UNCHANGED <<adjustments, reservations, balances>>
    PROVE  FundsMove(r, u)
  <1>1. /\ UNCHANGED <<adjustments, reservations, charge, userQuota, tokenQuota, subUsed>>
    BY DEF balances
  <1>2. /\ Clamp(adjustments[r][FundingSettle].amount) \in Nat
        /\ Clamp(adjustments[r][TokenSettle].amount) \in Nat
    BY FundTypes, ClampIs
  <1>3. SubMove(r)
    BY <1>1, FundTypes DEF SubMove, Clamp
  <1> QED
    BY <1>1, <1>2, <1>3, FundTypes DEF FundsMove, WalletMove, TokenMove

\* A step that moves money.
LEMMA TakeMoves ==
    ASSUME DurableTypeOK, NEW r \in Requests, NEW w \in Int, NEW t \in Int, NEW n \in Int,
           n # 0 => SubDeltaOk(n), Take(r, w, n, t)
    PROVE  /\ userQuota' = userQuota - w /\ tokenQuota' = tokenQuota - t /\ SubMove(r)
           /\ \A q \in Requests \ {r} : charge'[q] = charge[q]
  <1>1. Charged(r, w, n, t) /\ \A q \in Requests \ {r} : charge'[q] = charge[q]
    BY TakeCharges
  <1>2. charge'[r].sub - charge[r].sub = n
    BY <1>1, FundTypes DEF Charged
  <1>3. subUsed' = IF n = 0 THEN subUsed ELSE Clamp(subUsed + n)
    BY DEF Take
  <1>4. subUsed' = Clamp(subUsed + n)
    BY <1>3, FundTypes DEF Clamp
  <1>5. SubTotal > 0 /\ subUsed <= SubTotal => subUsed' <= SubTotal
    BY <1>3 DEF SubDeltaOk
  <1> QED
    BY <1>1, <1>2, <1>4, <1>5 DEF Take, SubMove

\* A step that leaves the markers and reserves no more than there is.
LEMMA TakeFunds ==
    ASSUME DurableTypeOK, NEW r \in Requests, NEW w \in Int, NEW t \in Int, NEW n \in Int, NEW u,
           n # 0 => SubDeltaOk(n), Take(r, w, n, t), UNCHANGED <<adjustments, reservations>>,
           w <= 0 \/ userQuota >= w, ~u => t <= 0 \/ tokenQuota >= t
    PROVE  FundsMove(r, u)
  <1>1. /\ userQuota' = userQuota - w /\ tokenQuota' = tokenQuota - t /\ SubMove(r)
        /\ \A q \in Requests \ {r} : charge'[q] = charge[q]
    BY TakeMoves
  <1>2. /\ Clamp(adjustments[r][FundingSettle].amount) \in Nat
        /\ Clamp(adjustments[r][TokenSettle].amount) \in Nat
    BY FundTypes, ClampIs
  <1>3. WalletMove(r)
    BY <1>1, <1>2, FundTypes DEF WalletMove
  <1>4. ~u => TokenMove(r)
    BY <1>1, <1>2, FundTypes DEF TokenMove
  <1> QED
    BY <1>1, <1>3, <1>4 DEF FundsMove

LEMMA WalletFunds ==
    ASSUME DurableTypeOK, NEW r \in Requests, NEW q \in Nat, NEW u \in BOOLEAN,
           PreConsumeWalletOk(r, q, u), PreConsumeWallet(r, q)
    PROVE  FundsMove(r, u)
  <1>1. CASE WalletPreConsumed(r, q)
    <2>1. UNCHANGED <<adjustments, reservations, balances>>
      BY <1>1 DEF PreConsumeWallet, durableVars
    <2> QED
      BY <2>1, StillFunds
  <1>2. CASE ~WalletPreConsumed(r, q)
    <2>1. PICK t \in Int : t = IF row[r].tokenRequired THEN q ELSE 0
      OBVIOUS
    <2>2. Take(r, q, 0, t) /\ UNCHANGED <<adjustments, reservations>>
      BY <1>2, <2>1 DEF PreConsumeWallet
    <2>3. row[r].pre = "prepared"
      BY <1>2 DEF PreConsumeWalletOk, DurableTypeOK, RowType
    <2>4. q > 0 => userQuota >= q /\ (row[r].tokenRequired => u \/ tokenQuota >= q)
      BY <2>3 DEF PreConsumeWalletOk
    <2>5. (q <= 0 \/ userQuota >= q) /\ (~u => t <= 0 \/ tokenQuota >= t)
      BY <2>1, <2>4
    <2>6. q \in Int /\ 0 \in Int
      OBVIOUS
    <2> QED
      BY <2>2, <2>5, <2>6, TakeFunds
  <1> QED
    BY <1>1, <1>2

LEMMA SubscriptionFunds ==
    ASSUME DurableTypeOK, NEW r \in Requests, NEW q \in Nat, NEW u \in BOOLEAN,
           PreConsumeSubscriptionOk(r, q), PreConsumeSubscription(r, q)
    PROVE  FundsMove(r, u)
  <1>1. CASE preRecord[r].status = "consumed"
    <2>1. UNCHANGED <<adjustments, reservations, balances>>
      BY <1>1 DEF PreConsumeSubscription, durableVars
    <2> QED
      BY <2>1, StillFunds
  <1>2. CASE preRecord[r].status # "consumed"
    <2>1. Take(r, 0, q, 0) /\ UNCHANGED <<adjustments, reservations>>
      BY <1>2 DEF PreConsumeSubscription
    <2>2. SubTotal > 0 => SubTotal - subUsed >= q
      BY <1>2 DEF PreConsumeSubscriptionOk
    <2>3. SubDeltaOk(q)
      BY <2>2, FundTypes, BalancesAreIntegers DEF SubDeltaOk, Clamp
    <2>4. q \in Int /\ 0 \in Int /\ 0 <= 0
      OBVIOUS
    <2> QED
      BY <2>1, <2>3, <2>4, TakeFunds
  <1> QED
    BY <1>1, <1>2

LEMMA TokenFunds ==
    ASSUME DurableTypeOK, NEW r \in Requests, NEW q \in Nat, NEW u \in BOOLEAN,
           (ReserveTokenOk(q, u) /\ ReserveToken(r, q)) \/ IncreaseToken(r, q)
    PROVE  FundsMove(r, u)
  <1>1. PICK t \in Int : /\ Take(r, 0, 0, t) /\ UNCHANGED <<adjustments, reservations>>
                         /\ ~u => t <= 0 \/ tokenQuota >= t
    <2>1. CASE ReserveTokenOk(q, u) /\ ReserveToken(r, q)
      BY <2>1 DEF ReserveToken, ReserveTokenOk
    <2>2. CASE IncreaseToken(r, q)
      <3>1. PICK t \in Int : t = -q /\ t <= 0
        OBVIOUS
      <3> QED
        BY <2>2, <3>1 DEF IncreaseToken
    <2> QED
      BY <2>1, <2>2
  <1>2. 0 \in Int /\ 0 <= 0
    OBVIOUS
  <1> QED
    BY <1>1, <1>2, TakeFunds

LEMMA ReserveFunds ==
    ASSUME DurableTypeOK, NEW r \in Requests, NEW q \in Nat, NEW u \in BOOLEAN,
           ReserveOk(r, q, u), ReserveBillingRecovery(r, q)
    PROVE  FundsMove(r, u)
  <1>1. PICK d : d = ReserveDelta(r, q)
    OBVIOUS
  <1>2. d \in Nat /\ (d # 0 => \A m \in reservations[r] : m.target # q)
    BY <1>1, FundTypes DEF ReserveDelta, Reserved
  <1>3. CASE d = 0
    <2>1. UNCHANGED <<adjustments, reservations, balances>>
      BY <1>1, <1>3 DEF ReserveBillingRecovery, durableVars
    <2> QED
      BY <2>1, StillFunds
  <1>4. CASE d # 0
    <2>1. PICK f, t, n \in Int : /\ t = IF row[r].tokenRequired THEN d ELSE 0
                                 /\ f = IF row[r].source = "subscription" THEN 0 ELSE d
                                 /\ n = IF row[r].sub THEN d - f ELSE 0
      BY <1>2
    <2>2. /\ reservations' = [reservations EXCEPT ![r] = @ \cup {[target |-> q, amount |-> d]}]
          /\ Take(r, f, n, t) /\ UNCHANGED adjustments
      BY <1>1, <1>4, <2>1 DEF ReserveBillingRecovery
    <2>3. /\ n # 0 => SubDeltaOk(n)
          /\ ~u => t <= 0 \/ tokenQuota >= t
      BY <1>1, <1>2, <1>4, <2>1 DEF ReserveOk
    <2>4. /\ userQuota' = userQuota - f /\ tokenQuota' = tokenQuota - t /\ SubMove(r)
          /\ \A z \in Requests \ {r} : charge'[z] = charge[z]
      BY <2>2, <2>3, TakeMoves
    <2>5. PICK m : m = [target |-> q, amount |-> d]
      OBVIOUS
    <2>6. m \in [target : Nat, amount : Nat] /\ m.amount = d /\ m.target = q
      BY <1>2, <2>5
    <2>7. m \notin reservations[r]
      BY <1>2, <1>4, <2>6
    <2>8. /\ reservations'[r] = reservations[r] \cup {m}
          /\ \A z \in Requests \ {r} : reservations'[z] = reservations[z]
      BY <2>2, <2>5 DEF DurableTypeOK
    <2>9. userQuota' + m.amount >= userQuota
      BY <1>2, <2>1, <2>4, <2>6, FundTypes
    <2>10. WalletMove(r)
      BY <2>2, <2>6, <2>7, <2>8, <2>9 DEF WalletMove
    <2>11. ~u => TokenMove(r)
      <3>1. Clamp(adjustments[r][TokenSettle].amount) \in Nat
        BY FundTypes, ClampIs
      <3> QED
        BY <2>2, <2>3, <2>4, <3>1, FundTypes DEF TokenMove
    <2> QED
      BY <2>2, <2>4, <2>8, <2>10, <2>11 DEF FundsMove
  <1> QED
    BY <1>3, <1>4

LEMMA ApplyFunds ==
    ASSUME DurableTypeOK, LedgerInv, NEW r \in Requests, NEW e \in Effects, NEW u \in BOOLEAN,
           ApplyAdjustmentOk(r, e), ApplyAdjustment(r, e)
    PROVE  FundsMove(r, u)
  <1>1. CASE AdjustmentSkipped(r, e)
    <2>1. UNCHANGED <<adjustments, reservations, balances>>
      BY <1>1 DEF ApplyAdjustment, durableVars
    <2> QED
      BY <2>1, StillFunds
  <1>2. CASE ~AdjustmentSkipped(r, e)
    <2>1. PICK w, n, t, a : /\ w = WalletTaken(r, e) /\ n = SubTaken(r, e)
                            /\ t = TokenTaken(r, e) /\ a = EffectAmount(r, e)
      OBVIOUS
    <2>2. /\ Take(r, w, n, t) /\ UNCHANGED reservations
          /\ adjustments' = [adjustments EXCEPT ![r] =
                [@ EXCEPT ![e] = [done |-> TRUE, amount |-> a]]]
      BY <1>2, <2>1 DEF ApplyAdjustment
    <2>3. a \in Int /\ w \in Int /\ n \in Int /\ t \in Int
      BY <2>1, EffectAmountType
    <2>4. n # 0 => SubDeltaOk(n)
      BY <1>2, <2>1 DEF ApplyAdjustmentOk
    <2>5. /\ userQuota' = userQuota - w /\ tokenQuota' = tokenQuota - t /\ SubMove(r)
          /\ \A z \in Requests \ {r} : charge'[z] = charge[z]
      BY <2>2, <2>3, <2>4, TakeMoves
    <2>6. /\ adjustments'[r][e].amount = a
          /\ \A o \in Effects \ {e} : adjustments'[r][o] = adjustments[r][o]
          /\ \A z \in Requests \ {r} : adjustments'[z] = adjustments[z]
      <3>1. PICK g : g = [done |-> TRUE, amount |-> a]
        OBVIOUS
      <3>2. g.amount = a
        BY <3>1
      <3>3. adjustments \in [Requests -> [Effects -> MarkerType]]
        BY DEF DurableTypeOK
      <3>4. adjustments' = [adjustments EXCEPT ![r] = [adjustments[r] EXCEPT ![e] = g]]
        BY <2>2, <3>1
      <3> QED
        BY <3>2, <3>3, <3>4
    <2>7. adjustments[r][e].amount = 0
      <3>1. ~adjustments[r][e].done
        BY <1>2 DEF AdjustmentSkipped, Fenced
      <3> QED
        BY <3>1, BookFacts DEF LedgerKnows
    <2>8. /\ e = FundingSettle => w <= Clamp(a)
          /\ e # FundingSettle => w <= 0
          /\ e = TokenSettle => t <= Clamp(a)
          /\ e # TokenSettle => t <= 0
      <3>1. e[2] = "refund" => a \in Nat
        BY <2>1, FundTypes, EffectCases DEF EffectAmount, FundingSettle, TokenSettle
      <3>2. e[2] = "settle" => a = row[r].delta
        BY <2>1 DEF EffectAmount
      <3>3. /\ w = IF e[1] # "funding" \/ row[r].source # "wallet" THEN 0 ELSE IF e[2] = "settle" THEN a ELSE -a
            /\ t = IF e[1] # "token" \/ ~row[r].tokenRequired THEN 0 ELSE IF e[2] = "settle" THEN a ELSE -a
        BY <2>1 DEF WalletTaken, TokenTaken
      <3>4. /\ e = FundingSettle <=> e[1] = "funding" /\ e[2] = "settle"
            /\ e = TokenSettle <=> e[1] = "token" /\ e[2] = "settle"
            /\ e[2] \in {"settle", "refund"}
        BY EffectCases DEF FundingSettle, TokenSettle
      <3>5. e[2] = "refund" => w <= 0 /\ t <= 0
        BY <3>1, <3>3
      <3>6. e[2] = "settle" => (w = a \/ w = 0) /\ (t = a \/ t = 0)
        BY <3>3
      <3> QED
        BY <2>3, <3>3, <3>4, <3>5, <3>6, ClampIs
    <2>9. /\ Clamp(a) \in Nat /\ Clamp(a) >= a /\ Clamp(0) = 0
          /\ Clamp(adjustments[r][FundingSettle].amount) \in Nat
          /\ Clamp(adjustments[r][TokenSettle].amount) \in Nat
      BY <2>3, FundTypes, ClampIs
    <2>10. WalletMove(r)
      <3>1. CASE e = FundingSettle
        BY <2>2, <2>3, <2>5, <2>6, <2>7, <2>8, <2>9, <3>1, FundTypes DEF WalletMove
      <3>2. CASE e # FundingSettle
        <4>1. adjustments'[r][FundingSettle] = adjustments[r][FundingSettle]
          BY <2>6, <3>2, EffectNames
        <4> QED
          BY <2>2, <2>3, <2>5, <2>8, <2>9, <3>2, <4>1, FundTypes DEF WalletMove
      <3> QED
        BY <3>1, <3>2
    <2>11. TokenMove(r)
      <3>1. CASE e = TokenSettle
        BY <2>3, <2>5, <2>6, <2>7, <2>8, <2>9, <3>1, FundTypes DEF TokenMove
      <3>2. CASE e # TokenSettle
        <4>1. adjustments'[r][TokenSettle] = adjustments[r][TokenSettle]
          BY <2>6, <3>2, EffectNames
        <4> QED
          BY <2>3, <2>5, <2>8, <2>9, <3>2, <4>1, FundTypes DEF TokenMove
      <3> QED
        BY <3>1, <3>2
    <2> QED
      BY <2>2, <2>5, <2>6, <2>10, <2>11 DEF FundsMove
  <1> QED
    BY <1>1, <1>2

\* The calls that move no money.
LEMMA BookkeepingFunds ==
    ASSUME DurableTypeOK, NEW r \in Requests, NEW u \in BOOLEAN
    PROVE  /\ UNCHANGED durableVars => FundsMove(r, u)
           /\ AbortPrepared(r) => FundsMove(r, u)
           /\ MarkRefundPending(r) => FundsMove(r, u)
           /\ MarkSettled(r) => FundsMove(r, u)
           /\ MarkRefunded(r) => FundsMove(r, u)
           /\ TouchBillingRecovery(r) => FundsMove(r, u)
           /\ GrowStale(r) => FundsMove(r, u)
           /\ \A src, t : EnsureBillingRecovery(r, src, t) => FundsMove(r, u)
           /\ \A d : UpdateSettlement(r, d) => FundsMove(r, u)
           /\ \A sub, f, x, t : UpdateAmounts(r, sub, f, x, t) => FundsMove(r, u)
  BY StillFunds DEF durableVars, AbortPrepared, MarkRefundPending, MarkSettled, MarkRefunded,
     TouchBillingRecovery, GrowStale, EnsureBillingRecovery, UpdateSettlement, UpdateAmounts

\* The calls of a session carry its own flag.
LEMMA SessionFunds ==
    ASSUME SessionInv, LedgerInv, NEW r \in Requests, SessionStep(r)
    PROVE  FundsMove(r, sess[r].unlimited)
  <1>0. PICK u \in BOOLEAN : u = sess[r].unlimited
    BY SessionHere
  <1> SUFFICES FundsMove(r, u)
    BY <1>0
  <1>t. DurableTypeOK /\ sess[r].tok \in Nat
    BY SessionHere DEF SessionInv
  <1>q. pc[r] # "new" => EffectiveQuota(sess[r]) \in Nat
    BY SessionHere, EffectiveQuotaIsQuota, QuotasAreNaturals
  <1>c. /\ UNCHANGED durableVars => FundsMove(r, u)
        /\ AbortPrepared(r) => FundsMove(r, u)
        /\ MarkRefundPending(r) => FundsMove(r, u)
        /\ MarkSettled(r) => FundsMove(r, u)
        /\ MarkRefunded(r) => FundsMove(r, u)
        /\ \A src, t : EnsureBillingRecovery(r, src, t) => FundsMove(r, u)
        /\ \A d : UpdateSettlement(r, d) => FundsMove(r, u)
        /\ \A sub, f, x, t : UpdateAmounts(r, sub, f, x, t) => FundsMove(r, u)
    BY <1>t, BookkeepingFunds
  <1>a. ASSUME NEW e \in Effects, ApplyAdjustmentOk(r, e), ApplyAdjustment(r, e)
        PROVE  FundsMove(r, u)
    BY <1>t, <1>a, ApplyFunds
  <1>1. CASE Begin(r) \/ WalletCheck(r) \/ Abandon(r) \/ StartSettle(r)
    BY <1>c, <1>1 DEF Begin, WalletCheck, Abandon, StartSettle
  <1>2. CASE Ensure(r)
    BY <1>c, <1>2 DEF Ensure, Transaction
  <1>3. CASE WalletPre(r)
    <2>1. PICK q \in Nat : q = EffectiveQuota(sess[r])
      BY <1>q, <1>3 DEF WalletPre
    <2>2. \/ PreConsumeWalletOk(r, q, u) /\ PreConsumeWallet(r, q)
          \/ UNCHANGED durableVars
      BY <1>0, <1>3, <2>1 DEF WalletPre, Transaction
    <2> QED
      BY <1>t, <1>c, <2>2, WalletFunds
  <1>4. CASE TokenPre(r)
    <2>1. PICK q \in Nat : q = EffectiveQuota(sess[r])
      BY <1>q, <1>4 DEF TokenPre
    <2>2. \/ ReserveTokenOk(q, u) /\ ReserveToken(r, q)
          \/ UNCHANGED durableVars
      BY <1>0, <1>4, <2>1 DEF TokenPre, Transaction
    <2> QED
      BY <1>t, <1>c, <2>2, TokenFunds
  <1>5. CASE SubPre(r)
    <2>1. PICK q \in Nat : q = EffectiveQuota(sess[r])
      BY <1>q, <1>5 DEF SubPre
    <2>2. \/ PreConsumeSubscriptionOk(r, q) /\ PreConsumeSubscription(r, q)
          \/ UNCHANGED durableVars
      BY <1>5, <2>1 DEF SubPre, Transaction
    <2> QED
      BY <1>t, <1>c, <2>2, SubscriptionFunds
  <1>6. CASE TokenRollback(r)
    <2>1. IncreaseToken(r, sess[r].tok) \/ UNCHANGED durableVars
      BY <1>6 DEF TokenRollback, Transaction
    <2>2. PICK q \in Nat : q = sess[r].tok
      BY <1>t
    <2> QED
      BY <1>t, <1>c, <2>1, <2>2, TokenFunds
  <1>7. CASE RollbackSync(r) \/ RecordFailure(r) \/ Sync(r) \/ SyncRefund(r)
    BY <1>c, <1>7 DEF RollbackSync, RecordFailure, Sync, SyncRefund, Transaction
  <1>8. CASE Reserve(r)
    <2>1. PICK q \in Quotas : \/ ReserveOk(r, q, u) /\ ReserveBillingRecovery(r, q)
                              \/ UNCHANGED durableVars
      BY <1>0, <1>8 DEF Reserve, Transaction
    <2>2. q \in Nat
      BY QuotasAreNaturals
    <2> QED
      BY <1>t, <1>c, <2>1, <2>2, ReserveFunds
  <1>9. CASE SettleUpdate(r) \/ SettleMark(r) \/ RefundMark(r) \/ RefundFinish(r)
    BY <1>c, <1>9 DEF SettleUpdate, SettleMark, RefundMark, RefundFinish, Transaction
  <1>10. CASE SettleFunding(r) \/ SettleToken(r)
    <2>1. \/ UNCHANGED durableVars
          \/ ApplyAdjustmentOk(r, FundingSettle) /\ ApplyAdjustment(r, FundingSettle)
          \/ ApplyAdjustmentOk(r, TokenSettle) /\ ApplyAdjustment(r, TokenSettle)
      BY <1>10 DEF SettleFunding, SettleToken, Transaction, FundingSettle, TokenSettle
    <2> QED
      BY <1>c, <1>a, <2>1, EffectNames
  <1>11. CASE RefundFunding(r) \/ RefundExtra(r) \/ RefundToken(r)
    <2>1. \/ UNCHANGED durableVars
          \/ ApplyAdjustmentOk(r, FundingRefund) /\ ApplyAdjustment(r, FundingRefund)
          \/ ApplyAdjustmentOk(r, ExtraRefund) /\ ApplyAdjustment(r, ExtraRefund)
          \/ ApplyAdjustmentOk(r, TokenRefund) /\ ApplyAdjustment(r, TokenRefund)
      BY <1>11 DEF RefundFunding, RefundExtra, RefundToken, Transaction,
                   FundingRefund, ExtraRefund, TokenRefund
    <2> QED
      BY <1>c, <1>a, <2>1, EffectNames
  <1> QED
    BY <1>1, <1>2, <1>3, <1>4, <1>5, <1>6, <1>7, <1>8, <1>9, <1>10, <1>11 DEF SessionStep

\* A session keeps the flag of its token.
LEMMA UpdateFlag ==
    ASSUME NEW s \in SessionType, NEW v, NEW w, NEW x, NEW y
    PROVE  /\ [s EXCEPT !.failed = v].unlimited = s.unlimited
           /\ [s EXCEPT !.failed = v, !.heartbeat = w].unlimited = s.unlimited
           /\ [s EXCEPT !.trusted = v].unlimited = s.unlimited
           /\ [s EXCEPT !.fallback = v].unlimited = s.unlimited
           /\ [s EXCEPT !.consumed = v, !.pre = w, !.tok = x].unlimited = s.unlimited
           /\ [s EXCEPT !.tok = v].unlimited = s.unlimited
           /\ [s EXCEPT !.pre = v, !.subId = w, !.consumed = x].unlimited = s.unlimited
           /\ [s EXCEPT !.needsRecovery = v].unlimited = s.unlimited
           /\ [s EXCEPT !.heartbeat = v].unlimited = s.unlimited
           /\ [s EXCEPT !.pre = v, !.tok = w, !.consumed = x, !.extra = y].unlimited = s.unlimited
           /\ [s EXCEPT !.actual = v, !.attempt = w].unlimited = s.unlimited
           /\ [s EXCEPT !.attempt = v].unlimited = s.unlimited
           /\ [s EXCEPT !.fundingSettled = v].unlimited = s.unlimited
           /\ [s EXCEPT !.settled = v, !.heartbeat = w].unlimited = s.unlimited
           /\ [s EXCEPT !.refundErr = v].unlimited = s.unlimited
           /\ [s EXCEPT !.fundingRefunded = v].unlimited = s.unlimited
           /\ [s EXCEPT !.extraRefunded = v].unlimited = s.unlimited
           /\ [s EXCEPT !.tokenRefunded = v].unlimited = s.unlimited
           /\ [s EXCEPT !.refunded = v].unlimited = s.unlimited
           /\ [s EXCEPT !.refunded = v, !.refundErr = w].unlimited = s.unlimited
           /\ [s EXCEPT !.plan = v].unlimited = s.unlimited
  BY DEF SessionType

LEMMA FlagKept ==
    ASSUME SessionInv, NEW r \in Requests, SessionStep(r) \/ Crash(r)
    PROVE  /\ pc[r] # "new" => sess'[r].unlimited = sess[r].unlimited
           /\ pc[r] # "new" => pc'[r] # "new"
           /\ Begin(r) => pc'[r] # "new"
           /\ \A q \in Requests \ {r} : sess'[q] = sess[q] /\ pc'[q] = pc[q]
  <1>t. sess \in [Requests -> SessionType] /\ sess[r] \in SessionType /\ pc \in [Requests -> Places]
    BY DEF SessionInv, SessionTypeOK
  <1> DEFINE Done == /\ sess'[r].unlimited = sess[r].unlimited /\ pc'[r] # "new"
                     /\ \A q \in Requests \ {r} : sess'[q] = sess[q] /\ pc'[q] = pc[q]
             Flag(t) == t.unlimited = sess[r].unlimited
  <1>1. ASSUME NEW p, NEW t, Goto(r, p, t), Flag(t), p # "new"
        PROVE  Done
    BY <1>t, <1>1 DEF Goto
  <1>2. ASSUME NEW s, Try(r, s), Flag(s)
        PROVE  Done
    <2> DEFINE t == [NoSession EXCEPT !.plan = s.plan, !.quota = s.quota,
                                      !.playground = s.playground, !.unlimited = s.unlimited]
    <2>1. Flag(t)
      BY <1>2 DEF NoSession
    <2>2. PICK p : p # "new" /\ Goto(r, p, t)
      BY <1>2 DEF Try
    <2> HIDE DEF t, Done, Flag
    <2> QED
      BY <1>1, <2>1, <2>2
  <1>3. ASSUME NEW s \in SessionType, GiveUp(r, s), Flag(s)
        PROVE  Done
    <2>1. Flag([s EXCEPT !.plan = Tail(s.plan)]) /\ Flag([s EXCEPT !.failed = TRUE])
      BY <1>3, UpdateFlag
    <2> HIDE DEF Done, Flag
    <2> QED
      BY <1>1, <1>2, <1>3, <2>1 DEF GiveUp
  <1>4. ASSUME Fail(r, sess[r])
        PROVE  Done
    <2>1. Flag([sess[r] EXCEPT !.failed = TRUE, !.heartbeat = FALSE])
      BY <1>t, UpdateFlag
    <2> HIDE DEF Done, Flag
    <2> QED
      BY <1>1, <1>4, <2>1 DEF Fail
  <1>5. ASSUME SettleError(r, sess[r])
        PROVE  Done
    <2>1. /\ Flag([sess[r] EXCEPT !.attempt = sess[r].attempt + 1])
          /\ Flag([sess[r] EXCEPT !.heartbeat = FALSE])
      BY <1>t, UpdateFlag
    <2> HIDE DEF Done, Flag
    <2> QED
      BY <1>1, <1>4, <1>5, <2>1 DEF SettleError
  <1>6. CASE Begin(r)
    <2>1. PICK s : Try(r, s)
      BY <1>6 DEF Begin
    <2>2. PICK p, t : Goto(r, p, t) /\ p # "new"
      BY <2>1 DEF Try
    <2>3. pc[r] = "new" /\ pc'[r] # "new" /\ \A q \in Requests \ {r} : sess'[q] = sess[q] /\ pc'[q] = pc[q]
      BY <1>t, <1>6, <2>2 DEF Begin, Goto
    <2> QED
      BY <2>3
  <1>f. Flag(sess[r])
    OBVIOUS
  <1>7. CASE WalletCheck(r)
    <2>1. Flag([sess[r] EXCEPT !.fallback = TRUE]) /\ \A b : Flag([sess[r] EXCEPT !.trusted = b])
      BY <1>t, UpdateFlag
    <2>2. [sess[r] EXCEPT !.fallback = TRUE] \in SessionType
      BY <1>t, FallbackSet
    <2> HIDE DEF Flag, Done
    <2>3. Done
      BY <1>1, <1>3, <1>7, <2>1, <2>2 DEF WalletCheck
    <2> QED
      BY <1>7, <2>3 DEF Done, WalletCheck, Begin
  <1>8. CASE ~Begin(r) /\ ~WalletCheck(r)
    <2> SUFFICES Done
      BY <1>8
    <2>1. PICK s \in SessionType : s = sess[r]
      BY <1>t
    <2>2. /\ Flag(s)
          /\ Flag([s EXCEPT !.failed = TRUE])
          /\ \A v, w, x : Flag([s EXCEPT !.consumed = v, !.pre = w, !.tok = x])
          /\ \A v : Flag([s EXCEPT !.fallback = v]) /\ Flag([s EXCEPT !.tok = v])
          /\ \A v, w, x : Flag([s EXCEPT !.pre = v, !.subId = w, !.consumed = x])
          /\ Flag([s EXCEPT !.needsRecovery = TRUE]) /\ Flag([s EXCEPT !.heartbeat = TRUE])
          /\ \A v, w, x, y : Flag([s EXCEPT !.pre = v, !.tok = w, !.consumed = x, !.extra = y])
      BY <1>f, <2>1, UpdateFlag
    <2>3. /\ \A v, w : Flag([s EXCEPT !.actual = v, !.attempt = w])
          /\ \A v : Flag([s EXCEPT !.fundingSettled = v]) /\ Flag([s EXCEPT !.heartbeat = v])
          /\ Flag([s EXCEPT !.settled = TRUE, !.heartbeat = FALSE])
          /\ \A v : /\ Flag([s EXCEPT !.refundErr = v]) /\ Flag([s EXCEPT !.fundingRefunded = v])
                    /\ Flag([s EXCEPT !.extraRefunded = v]) /\ Flag([s EXCEPT !.tokenRefunded = v])
          /\ Flag([s EXCEPT !.refunded = TRUE])
          /\ Flag([s EXCEPT !.refunded = TRUE, !.refundErr = TRUE])
      BY <1>f, <2>1, UpdateFlag
    <2> HIDE DEF Flag, Done
    <2>4. CASE Ensure(r) \/ TokenPre(r)
      BY <1>1, <2>1, <2>2, <2>4 DEF Ensure, TokenPre, Transaction
    <2>5. CASE WalletPre(r)
      BY <1>1, <2>1, <2>2, <2>5 DEF WalletPre, Transaction
    <2>6. CASE SubPre(r)
      BY <1>1, <2>1, <2>2, <2>6 DEF SubPre, Transaction
    <2>7. CASE TokenRollback(r) \/ RollbackSync(r) \/ RecordFailure(r) \/ Sync(r) \/ SyncRefund(r)
      BY <1>1, <1>3, <1>4, <2>1, <2>2, <2>7
         DEF TokenRollback, RollbackSync, RecordFailure, Sync, SyncRefund, Transaction
    <2>8. CASE Reserve(r)
      BY <1>1, <1>4, <2>1, <2>2, <2>8 DEF Reserve, Transaction
    <2>9. CASE Abandon(r) \/ StartSettle(r)
      BY <1>1, <1>4, <2>1, <2>3, <2>9 DEF Abandon, StartSettle
    <2>10. CASE SettleUpdate(r) \/ SettleFunding(r) \/ SettleToken(r) \/ SettleMark(r)
      BY <1>1, <1>5, <2>1, <2>2, <2>3, <2>10 DEF SettleUpdate, SettleFunding, SettleToken, SettleMark, Transaction
    <2>11. CASE RefundMark(r) \/ RefundFunding(r) \/ RefundExtra(r)
      BY <1>1, <2>1, <2>2, <2>3, <2>11 DEF RefundMark, RefundFunding, RefundExtra, Transaction
    <2>12. CASE RefundToken(r)
      BY <1>1, <2>1, <2>2, <2>3, <2>12 DEF RefundToken, Transaction
    <2>13. CASE RefundFinish(r)
      <3>1. [[s EXCEPT !.refunded = TRUE] EXCEPT !.refundErr = TRUE] = [s EXCEPT !.refunded = TRUE, !.refundErr = TRUE]
        OBVIOUS
      <3> QED
        BY <1>1, <2>1, <2>2, <2>3, <2>13, <3>1 DEF RefundFinish, Transaction
    <2>14. CASE Crash(r)
      BY <1>1, <2>1, <2>3, <2>14 DEF Crash
    <2> QED
      BY <1>8, <2>4, <2>5, <2>6, <2>7, <2>8, <2>9, <2>10, <2>11, <2>12, <2>13, <2>14 DEF SessionStep
  <1> QED
    BY <1>6, <1>7, <1>8

-----------------------------------------------------------------------------
(* The shared balances stay within what was allowed.                        *)

ReserveMarkers == [target : Nat, amount : Nat]

ReservesFinite == \A r \in Requests : IsFiniteSet(reservations[r])

\* The sum of some reserve markers.
Tops(R) == SumFunction([m \in R |-> m.amount])

LEMMA TopsAdd ==
    ASSUME NEW R \in SUBSET ReserveMarkers, IsFiniteSet(R)
    PROVE  /\ Tops(R) \in Nat
           /\ \A m \in ReserveMarkers \ R : Tops(R \cup {m}) = Tops(R) + m.amount
  <1>1. PICK f : f = [m \in R |-> m.amount]
    OBVIOUS
  <1>2. f \in [R -> Nat] /\ f \in [R -> Int]
    BY <1>1 DEF ReserveMarkers
  <1>3. SumFunction(f) \in Nat
    BY <1>2, TotalIs
  <1>4. ASSUME NEW m \in ReserveMarkers \ R
        PROVE  Tops(R \cup {m}) = Tops(R) + m.amount
    <2>1. PICK h : h = [x \in R \cup {m} |-> x.amount]
      OBVIOUS
    <2>2. /\ h \in [R \cup {m} -> Int] /\ m \notin R /\ \A x \in R : h[x] = f[x]
          /\ h[m] = m.amount
      BY <1>1, <2>1 DEF ReserveMarkers
    <2>3. SumFunction(h) = SumFunction(f) + h[m]
      BY <1>2, <2>2, TotalAdd
    <2> QED
      BY <1>1, <2>1, <2>2, <2>3 DEF Tops
  <1> QED
    BY <1>1, <1>3, <1>4 DEF Tops

\* A request never holds a negative use of the subscription.
SubsNatural == \A r \in Requests : charge[r].sub \in Nat

LEMMA ReadySubs == Ready => SubsNatural
  <1> SUFFICES ASSUME Ready, NEW r \in Requests PROVE charge[r].sub \in Nat
    BY DEF SubsNatural
  <1>1. /\ BookTypes(row[r], adjustments[r], preRecord[r], charge[r])
        /\ LedgerKnows(row[r], adjustments[r], charge[r]) /\ BooksHold(r)
        /\ sess[r].actual \in Nat
    BY Here, SessionFields DEF BooksOpen, SessionTypeOK
  <1>2. CASE row[r].source = "wallet"
    BY <1>1, <1>2 DEF BooksHold, Books, SubBooks
  <1>3. CASE row[r].source = "subscription" /\ ~adjustments[r][FundingSettle].done
    <2>1. PICK h, x, y \in Int : /\ h = Held(preRecord[r]) /\ x = row[r].extra
                                 /\ y = adjustments[r][ExtraRefund].amount
      BY <1>1, EffectNames DEF BookTypes, Held
    <2>2. h \in Nat /\ (y = 0 \/ y = x) /\ x \in Nat
      BY <1>1, <2>1, EffectNames DEF BookTypes, Held, LedgerKnows, BooksHold, Books, AmountsBooked
    <2>3. adjustments[r][FundingSettle].amount = 0
      BY <1>1, <1>3, EffectNames DEF LedgerKnows
    <2>4. charge[r].sub = h + x + 0 - y
      BY <1>1, <1>3, <2>1, <2>3 DEF BooksHold, Books, SubBooks
    <2> QED
      BY <2>2, <2>4
  <1>4. CASE row[r].source = "subscription" /\ adjustments[r][FundingSettle].done
    <2>1. row[r].status \in {"settlement_pending", "settled"}
      BY <1>1, <1>4 DEF LedgerKnows
    <2>2. Exact(r)
      BY BooksExact
    <2>3. /\ adjustments[r][FundingSettle].amount = row[r].delta
          /\ ~adjustments[r][FundingRefund].done /\ ~adjustments[r][ExtraRefund].done
      BY <1>1, <1>4, <2>1 DEF BooksHold, Books, AmountsBooked
    <2>4. adjustments[r][ExtraRefund].amount = 0
      BY <1>1, <2>3, EffectNames DEF LedgerKnows
    <2>5. Held(preRecord[r]) = row[r].funding
      BY <1>1, <1>4, <2>1, <2>3 DEF Held, BooksHold, Books, SubBooks, StatusBooks
    <2>6. charge[r].sub = row[r].funding + row[r].extra + row[r].delta - 0
      BY <1>1, <1>4, <2>3, <2>4, <2>5 DEF BooksHold, Books, SubBooks
    <2>7. sess[r].actual = row[r].delta + (row[r].funding + row[r].extra)
      BY <2>1, <2>2 DEF Exact
    <2> QED
      BY <1>1, <2>6, <2>7 DEF BookTypes
  <1> QED
    BY <1>1, <1>2, <1>3, <1>4 DEF BookTypes

LEMMA ReadySubsNext == Ready' => SubsNatural'
  BY ReadySubs, PTL

LEMMA ConservedStep ==
    ASSUME IsFiniteSet(Requests), DurableTypeOK, SubsNatural, SubsNatural', SubscriptionConserved,
           NEW r \in Requests, NEW u, FundsMove(r, u)
    PROVE  SubscriptionConserved'
  <1>1. PICK f, h : /\ f = [q \in Requests |-> charge[q].sub]
                    /\ h = [q \in Requests |-> charge'[q].sub]
    OBVIOUS
  <1>2. f \in [Requests -> Nat] /\ h \in [Requests -> Nat] /\ f \in [Requests -> Int] /\ h \in [Requests -> Int]
    BY <1>1 DEF SubsNatural
  <1>3. \A q \in Requests \ {r} : h[q] = f[q]
    BY <1>1 DEF FundsMove
  <1>4. SumFunction(h) = SumFunction(f) + (h[r] - f[r]) /\ SumFunction(f) \in Nat /\ SumFunction(h) \in Nat
    BY <1>2, <1>3, TotalUpdate, TotalIs
  <1>5. subUsed = SumFunction(f)
    BY <1>1 DEF SubscriptionConserved
  <1>6. subUsed' = Clamp(subUsed + (h[r] - f[r]))
    BY <1>1 DEF FundsMove, SubMove
  <1>7. subUsed' = Clamp(SumFunction(h))
    BY <1>4, <1>5, <1>6
  <1>8. subUsed' = SumFunction(h)
    BY <1>4, <1>7, ClampIs
  <1> QED
    BY <1>1, <1>8 DEF SubscriptionConserved

WalletAllows == [r \in Requests |-> SettledAbove("funding")[r] + ToppedUp(r)]

LEMMA WalletFloorStep ==
    ASSUME IsFiniteSet(Requests), DurableTypeOK, DurableTypeOK', ReservesFinite,
           userQuota + SumFunction(WalletAllows) >= 0,
           NEW r \in Requests, NEW u, FundsMove(r, u)
    PROVE  ReservesFinite' /\ userQuota' + SumFunction(WalletAllows') >= 0
  <1>1. /\ \A q \in Requests : /\ reservations[q] \in SUBSET ReserveMarkers
                               /\ reservations'[q] \in SUBSET ReserveMarkers
        /\ userQuota \in Int /\ userQuota' \in Int
    BY DEF DurableTypeOK, ReserveMarkers
  <1>2. ReservesFinite'
    <2>1. IsFiniteSet(reservations'[r])
      <3>1. PICK R : R = reservations[r] /\ IsFiniteSet(R)
        BY DEF ReservesFinite
      <3>2. \A m : IsFiniteSet(R \cup {m})
        BY <3>1, FS_AddElement
      <3> QED
        BY <3>1, <3>2 DEF FundsMove, WalletMove
    <2> QED
      BY <2>1 DEF ReservesFinite, FundsMove
  <1>3. PICK f, h : f = WalletAllows /\ h = WalletAllows'
    OBVIOUS
  <1>4. \A q \in Requests : /\ f[q] = Clamp(adjustments[q][FundingSettle].amount) + Tops(reservations[q])
                            /\ h[q] = Clamp(adjustments'[q][FundingSettle].amount) + Tops(reservations'[q])
    BY <1>3 DEF WalletAllows, SettledAbove, ToppedUp, Tops, Booked, FundingSettle
  <1>5. \A q \in Requests : /\ Clamp(adjustments[q][FundingSettle].amount) \in Nat
                            /\ Clamp(adjustments'[q][FundingSettle].amount) \in Nat
    <2>1. \A q \in Requests : adjustments[q][FundingSettle].amount \in Int /\ adjustments'[q][FundingSettle].amount \in Int
      BY EffectNames DEF DurableTypeOK, MarkerType
    <2> QED
      BY <2>1, ClampIs
  <1>6. \A q \in Requests : Tops(reservations[q]) \in Nat /\ Tops(reservations'[q]) \in Nat
    <2>1. \A R \in SUBSET ReserveMarkers : IsFiniteSet(R) => Tops(R) \in Nat
      BY TopsAdd
    <2> QED
      BY <1>1, <1>2, <2>1 DEF ReservesFinite
  <1>7. f \in [Requests -> Nat] /\ h \in [Requests -> Nat]
    <2>1. \A q \in Requests : f[q] \in Nat /\ h[q] \in Nat
      BY <1>4, <1>5, <1>6
    <2> QED
      BY <1>3, <2>1 DEF WalletAllows
  <1>8. \A q \in Requests \ {r} : h[q] = f[q]
    BY <1>4 DEF FundsMove
  <1>9. PICK x, y \in Int : x = userQuota /\ y = userQuota'
    BY <1>1
  <1>10. y >= 0 \/ y + h[r] >= x + f[r]
    <2>1. CASE reservations'[r] = reservations[r]
      <3>1. PICK a, b, n \in Nat : /\ a = Clamp(adjustments[r][FundingSettle].amount)
                                   /\ b = Clamp(adjustments'[r][FundingSettle].amount)
                                   /\ n = Tops(reservations[r])
        BY <1>5, <1>6
      <3>2. f[r] = a + n /\ h[r] = b + n
        BY <1>4, <2>1, <3>1
      <3>3. y >= 0 \/ y + b >= x + a
        <4>1. CASE adjustments'[r] = adjustments[r] /\ \E m \in ReserveMarkers \ reservations[r] : reservations'[r] = reservations[r] \cup {m}
          BY <2>1, <4>1
        <4>2. CASE y >= 0 \/ y + b >= x + a
          BY <4>2
        <4> QED
          BY <1>9, <3>1, <4>1, <4>2 DEF FundsMove, WalletMove, ReserveMarkers
      <3> QED
        BY <3>2, <3>3
    <2>2. CASE reservations'[r] # reservations[r]
      <3>1. PICK m \in ReserveMarkers \ reservations[r] :
               /\ reservations'[r] = reservations[r] \cup {m} /\ userQuota' + m.amount >= userQuota
               /\ adjustments'[r] = adjustments[r]
        BY <2>2 DEF FundsMove, WalletMove, ReserveMarkers
      <3>2. PICK R \in SUBSET ReserveMarkers : R = reservations[r] /\ IsFiniteSet(R)
        BY <1>1 DEF ReservesFinite
      <3>3. Tops(R \cup {m}) = Tops(R) + m.amount
        BY <3>1, <3>2, TopsAdd
      <3>4. PICK a, n, k \in Nat : /\ a = Clamp(adjustments[r][FundingSettle].amount)
                                   /\ n = Tops(R) /\ k = m.amount
        BY <1>5, <1>6, <3>1, <3>2 DEF ReserveMarkers
      <3>5. f[r] = a + n /\ h[r] = a + (n + k) /\ y + k >= x
        BY <1>4, <1>9, <3>1, <3>2, <3>3, <3>4
      <3> QED
        BY <3>5
    <2> QED
      BY <2>1, <2>2
  <1>11. x + SumFunction(f) >= 0
    BY <1>3, <1>9
  <1>12. y + SumFunction(h) >= 0
    BY <1>7, <1>8, <1>10, <1>11, FloorStep
  <1> QED
    BY <1>2, <1>3, <1>9, <1>12

LEMMA TokenFloorStep ==
    ASSUME IsFiniteSet(Requests), DurableTypeOK, DurableTypeOK',
           tokenQuota + SumFunction(SettledAbove("token")) >= 0,
           NEW r \in Requests, FundsMove(r, FALSE)
    PROVE  tokenQuota' + SumFunction(SettledAbove("token")') >= 0
  <1>1. tokenQuota \in Int /\ tokenQuota' \in Int
    BY DEF DurableTypeOK
  <1>2. PICK f, h : f = SettledAbove("token") /\ h = SettledAbove("token")'
    OBVIOUS
  <1>3. \A q \in Requests : /\ f[q] = Clamp(adjustments[q][TokenSettle].amount)
                            /\ h[q] = Clamp(adjustments'[q][TokenSettle].amount)
    BY <1>2 DEF SettledAbove, Booked, TokenSettle
  <1>4. f \in [Requests -> Nat] /\ h \in [Requests -> Nat]
    <2>1. \A q \in Requests : adjustments[q][TokenSettle].amount \in Int /\ adjustments'[q][TokenSettle].amount \in Int
      BY EffectNames DEF DurableTypeOK, MarkerType
    <2>2. \A q \in Requests : f[q] \in Nat /\ h[q] \in Nat
      BY <1>3, <2>1, ClampIs
    <2> QED
      BY <1>2, <2>2 DEF SettledAbove
  <1>5. \A q \in Requests \ {r} : h[q] = f[q]
    BY <1>3 DEF FundsMove
  <1>6. tokenQuota' >= 0 \/ tokenQuota' + h[r] >= tokenQuota + f[r]
    BY <1>3 DEF FundsMove, TokenMove
  <1>7. PICK a, b \in Int : a = tokenQuota /\ b = tokenQuota'
    BY <1>1
  <1>8. a + SumFunction(f) >= 0 /\ (b >= 0 \/ b + h[r] >= a + f[r])
    BY <1>2, <1>6, <1>7
  <1>9. b + SumFunction(h) >= 0
    BY <1>4, <1>5, <1>8, FloorStep
  <1> QED
    BY <1>2, <1>7, <1>9

\* Every step moves the balances for one request, and no flag is withdrawn.
NewLimited == \A r \in Requests : pc[r] = "new" => ~sess[r].unlimited

LEMMA StepFunds ==
    ASSUME SessionInv, LedgerInv, NewLimited, [Next]_vars
    PROVE  /\ \/ UNCHANGED durableVars
              \/ \E r \in Requests : FundsMove(r, sess[r].unlimited)
           /\ \A r \in Requests : sess[r].unlimited => sess'[r].unlimited
           /\ NewLimited'
  <1>0. DurableTypeOK /\ SessionTypeOK
    BY DEF SessionInv
  <1>1. ASSUME NEW r \in Requests, SessionStep(r) \/ Crash(r)
        PROVE  /\ \A q \in Requests : sess[q].unlimited => sess'[q].unlimited
               /\ NewLimited'
    <2>1. /\ pc[r] # "new" => sess'[r].unlimited = sess[r].unlimited
          /\ pc[r] # "new" => pc'[r] # "new"
          /\ Begin(r) => pc'[r] # "new"
          /\ \A q \in Requests \ {r} : sess'[q] = sess[q] /\ pc'[q] = pc[q]
      BY <1>1, FlagKept
    <2>2. pc[r] = "new" => Begin(r)
      BY <1>1 DEF SessionStep, Crash, Running, WalletCheck, Ensure, WalletPre, TokenPre, SubPre,
         TokenRollback, RollbackSync, RecordFailure, Sync, SyncRefund, Reserve, Abandon,
         StartSettle, SettleUpdate, SettleFunding, SettleToken, SettleMark, RefundMark,
         RefundFunding, RefundExtra, RefundToken, RefundFinish
    <2>3. pc'[r] # "new"
      BY <2>1, <2>2
    <2>4. sess[r].unlimited => sess'[r].unlimited
      BY <2>1 DEF NewLimited
    <2> QED
      BY <2>1, <2>3, <2>4 DEF NewLimited
  <1>2. ASSUME UNCHANGED <<pc, sess>>
        PROVE  /\ \A q \in Requests : sess[q].unlimited => sess'[q].unlimited
               /\ NewLimited'
    BY <1>2 DEF NewLimited
  <1>3. CASE \E r \in Requests : SessionStep(r)
    BY <1>1, <1>3, SessionFunds
  <1>4. CASE \E r \in Requests : Crash(r)
    BY <1>1, <1>4 DEF Crash
  <1>5. ASSUME NEW r \in Requests, Heartbeat(r) \/ Age(r)
        PROVE  FundsMove(r, sess[r].unlimited) /\ UNCHANGED <<pc, sess>>
    <2>1. PICK u \in BOOLEAN : u = sess[r].unlimited
      BY SessionHere
    <2>2. FundsMove(r, u) /\ UNCHANGED <<pc, sess>>
      BY <1>0, <1>5, BookkeepingFunds DEF Heartbeat, Age
    <2> QED
      BY <2>1, <2>2
  <1>6. ASSUME NEW w \in Workers, WorkerStep(w)
        PROVE  /\ \/ UNCHANGED durableVars
                  \/ \E r \in Requests : FundsMove(r, sess[r].unlimited)
               /\ UNCHANGED <<pc, sess>>
    <2>1. \/ UNCHANGED durableVars
          \/ \E r \in Requests :
                \/ MarkRefundPendingOk(r) /\ MarkRefundPending(r)
                \/ MarkSettledOk(r) /\ MarkSettled(r)
                \/ MarkRefundedOk(r) /\ MarkRefunded(r)
                \/ \E e \in Effects : ApplyAdjustmentOk(r, e) /\ ApplyAdjustment(r, e)
      BY <1>0, <1>6, WorkerStepMoves
    <2>2. ASSUME NEW r \in Requests,
                \/ MarkRefundPendingOk(r) /\ MarkRefundPending(r)
                \/ MarkSettledOk(r) /\ MarkSettled(r)
                \/ MarkRefundedOk(r) /\ MarkRefunded(r)
                \/ \E e \in Effects : ApplyAdjustmentOk(r, e) /\ ApplyAdjustment(r, e)
          PROVE  FundsMove(r, sess[r].unlimited)
      <3>1. PICK u \in BOOLEAN : u = sess[r].unlimited
        BY SessionHere
      <3>2. FundsMove(r, u)
        BY <1>0, <2>2, BookkeepingFunds, ApplyFunds
      <3> QED
        BY <3>1, <3>2
    <2>3. UNCHANGED <<pc, sess>>
      BY <1>6 DEF WorkerStep
    <2> QED
      BY <2>1, <2>2, <2>3
  <1>7. ASSUME UNCHANGED vars
        PROVE  UNCHANGED durableVars /\ UNCHANGED <<pc, sess>>
    BY <1>7 DEF vars
  <1> QED
    BY <1>2, <1>3, <1>4, <1>5, <1>6, <1>7 DEF Next, Finished

LEMMA FundsInvStep ==
    ASSUME IsFiniteSet(Requests), Ready, Ready', NewLimited, ReservesFinite, SharedFundsHold, [Next]_vars
    PROVE  NewLimited' /\ ReservesFinite' /\ SharedFundsHold'
  <1>0. /\ SessionInv /\ LedgerInv /\ DurableTypeOK /\ DurableTypeOK'
        /\ SubsNatural /\ SubsNatural'
    BY ReadySubs, ReadySubsNext DEF Ready, SessionInv
  <1>1. /\ \/ UNCHANGED durableVars
           \/ \E r \in Requests : FundsMove(r, sess[r].unlimited)
        /\ \A r \in Requests : sess[r].unlimited => sess'[r].unlimited
        /\ NewLimited'
    BY <1>0, StepFunds
  <1>2. /\ SubscriptionConserved /\ userQuota + SumFunction(WalletAllows) >= 0
        /\ (\A r \in Requests : ~sess[r].unlimited) => tokenQuota + SumFunction(SettledAbove("token")) >= 0
        /\ SubTotal > 0 => subUsed <= SubTotal
    BY DEF SharedFundsHold, OverdraftOnlyAfterReservation, WalletAllows
  <1>3. SUFFICES /\ ReservesFinite' /\ SubscriptionConserved'
                 /\ userQuota' + SumFunction(WalletAllows') >= 0
                 /\ (\A r \in Requests : ~sess'[r].unlimited)
                       => tokenQuota' + SumFunction(SettledAbove("token")') >= 0
                 /\ SubTotal > 0 => subUsed' <= SubTotal
    BY <1>1 DEF SharedFundsHold, OverdraftOnlyAfterReservation, WalletAllows
  <1>4. CASE UNCHANGED durableVars
    <2>1. UNCHANGED <<adjustments, reservations, charge, userQuota, tokenQuota, subUsed>>
      BY <1>4 DEF durableVars, balances
    <2>2. ReservesFinite' /\ SubscriptionConserved'
      BY <1>2, <2>1 DEF ReservesFinite, SubscriptionConserved
    <2>3. WalletAllows' = WalletAllows /\ SettledAbove("token")' = SettledAbove("token")
      BY <2>1 DEF WalletAllows, SettledAbove, ToppedUp, Booked
    <2> QED
      BY <1>1, <1>2, <2>1, <2>2, <2>3
  <1>5. ASSUME NEW r \in Requests, FundsMove(r, sess[r].unlimited)
        PROVE  /\ ReservesFinite' /\ SubscriptionConserved'
               /\ userQuota' + SumFunction(WalletAllows') >= 0
               /\ (\A q \in Requests : ~sess'[q].unlimited)
                     => tokenQuota' + SumFunction(SettledAbove("token")') >= 0
               /\ SubTotal > 0 => subUsed' <= SubTotal
    <2>1. PICK u \in BOOLEAN : u = sess[r].unlimited /\ FundsMove(r, u)
      BY <1>0, <1>5, SessionHere
    <2>2. SubscriptionConserved'
      BY <1>0, <1>2, <2>1, ConservedStep
    <2>3. ReservesFinite' /\ userQuota' + SumFunction(WalletAllows') >= 0
      BY <1>0, <1>2, <2>1, WalletFloorStep
    <2>4. ASSUME \A q \in Requests : ~sess'[q].unlimited
          PROVE  tokenQuota' + SumFunction(SettledAbove("token")') >= 0
      <3>1. \A q \in Requests : ~sess[q].unlimited
        BY <1>1, <2>4
      <3>2. FundsMove(r, FALSE)
        BY <2>1, <3>1
      <3>3. tokenQuota + SumFunction(SettledAbove("token")) >= 0
        BY <1>2, <3>1
      <3> QED
        BY <1>0, <3>2, <3>3, TokenFloorStep
    <2>5. SubTotal > 0 => subUsed' <= SubTotal
      BY <1>2, <2>1 DEF FundsMove, SubMove
    <2> QED
      BY <2>2, <2>3, <2>4, <2>5
  <1> QED
    BY <1>1, <1>4, <1>5

LEMMA FundsInvInit ==
    ASSUME IsFiniteSet(Requests), InitUserQuota >= 0, InitTokenQuota >= 0, Init
    PROVE  NewLimited /\ ReservesFinite /\ SharedFundsHold
  <1>1. /\ adjustments = [r \in Requests |-> [e \in Effects |-> NoMarker]]
        /\ reservations = [r \in Requests |-> {}]
        /\ userQuota = InitUserQuota /\ tokenQuota = InitTokenQuota /\ subUsed = 0
        /\ charge = [r \in Requests |-> [wallet |-> 0, sub |-> 0, token |-> 0]]
    BY DEF Init, DurableInit
  <1>2. NewLimited
    <2>1. \A r \in Requests : sess[r] = NoSession
      BY DEF Init
    <2> QED
      BY <2>1 DEF NewLimited, NoSession
  <1>3. ReservesFinite
    BY <1>1, FS_EmptySet DEF ReservesFinite
  <1>4. \A r \in Requests : /\ adjustments[r][<<"funding", "settle">>].amount = 0
                            /\ adjustments[r][<<"token", "settle">>].amount = 0
                            /\ charge[r].sub = 0 /\ reservations[r] = {}
    BY <1>1, EffectsAre DEF NoMarker
  <1>5. \A r \in Requests : SettledAbove("funding")[r] = 0 /\ SettledAbove("token")[r] = 0
    BY <1>4 DEF SettledAbove, Booked, Clamp
  <1>6. \A r \in Requests : ToppedUp(r) = 0
    <2>1. PICK R, f : R = {} /\ f = [m \in R |-> m.amount]
      OBVIOUS
    <2>2. f \in [R -> Int] /\ IsFiniteSet(R) /\ \A x \in R : f[x] = 0
      BY <2>1, FS_EmptySet
    <2>3. SumFunction(f) = 0
      BY <2>2, TotalIs
    <2> QED
      BY <1>4, <2>1, <2>3 DEF ToppedUp
  <1>7. ASSUME NEW f, DOMAIN f = Requests, f = [r \in Requests |-> f[r]], \A r \in Requests : f[r] = 0
        PROVE  SumFunction(f) = 0
    <2>1. f \in [Requests -> Int]
      BY <1>7
    <2> QED
      BY <1>7, <2>1, TotalIs
  <1>8. PICK f, h, k : f = WalletAllows /\ h = SettledAbove("token") /\ k = [r \in Requests |-> charge[r].sub]
    OBVIOUS
  <1>9. /\ DOMAIN f = Requests /\ f = [r \in Requests |-> f[r]] /\ \A r \in Requests : f[r] = 0
        /\ DOMAIN h = Requests /\ h = [r \in Requests |-> h[r]] /\ \A r \in Requests : h[r] = 0
        /\ DOMAIN k = Requests /\ k = [r \in Requests |-> k[r]] /\ \A r \in Requests : k[r] = 0
    <2>1. ASSUME NEW r \in Requests PROVE f[r] = 0
      <3>1. f[r] = SettledAbove("funding")[r] + ToppedUp(r)
        BY <1>8 DEF WalletAllows
      <3>2. f[r] = 0 + 0
        BY <1>5, <1>6, <3>1
      <3> QED
        BY <3>2
    <2>2. \A r \in Requests : h[r] = 0
      BY <1>5, <1>8
    <2>3. \A r \in Requests : k[r] = 0
      BY <1>4, <1>8
    <2>4. /\ DOMAIN f = Requests /\ f = [r \in Requests |-> f[r]]
          /\ DOMAIN h = Requests /\ h = [r \in Requests |-> h[r]]
          /\ DOMAIN k = Requests /\ k = [r \in Requests |-> k[r]]
      BY <1>8 DEF WalletAllows, SettledAbove
    <2> QED
      BY <2>1, <2>2, <2>3, <2>4
  <1>10. SumFunction(f) = 0 /\ SumFunction(h) = 0 /\ SumFunction(k) = 0
    BY <1>7, <1>9
  <1>11. SubscriptionConserved
    BY <1>1, <1>8, <1>10 DEF SubscriptionConserved
  <1>12. /\ userQuota + SumFunction(WalletAllows) >= 0 /\ tokenQuota + SumFunction(SettledAbove("token")) >= 0
    BY <1>1, <1>8, <1>10, BalancesAreIntegers
  <1>13. SubTotal > 0 => subUsed <= SubTotal
    BY <1>1, BalancesAreIntegers
  <1> QED
    BY <1>2, <1>3, <1>11, <1>12, <1>13
       DEF SharedFundsHold, OverdraftOnlyAfterReservation, WalletAllows

\* Requests that share a wallet, a token and a subscription neither take more than
\* there is nor erase what another has taken: only a settlement above its
\* reservation or a supplementary reserve takes the wallet below zero, only a
\* settlement takes a limited token there, and the use of the subscription is
\* exactly what its requests took, never clamped and never above the total; for
\* any finite set of requests, whatever passes, faults and crashes do.
THEOREM FundsAreShared ==
    ASSUME Environment, IsFiniteSet(Requests), InitUserQuota >= 0, InitTokenQuota >= 0
    PROVE  Spec => []SharedFundsHold
  <1> DEFINE Inv == Ready /\ NewLimited /\ ReservesFinite /\ SharedFundsHold
  <1>1. Init => Inv
    BY BillingInit, FundsInvInit
  <1>2. Inv /\ [Next]_vars => Inv'
    BY BillingStep, FundsInvStep
  <1>3. Inv => SharedFundsHold
    OBVIOUS
  <1> HIDE DEF Inv
  <1> QED
    BY <1>1, <1>2, <1>3, PTL DEF Spec
=============================================================================
