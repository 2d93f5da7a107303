------------------------------- MODULE Rewards -------------------------------
(***************************************************************************)
(* What a user is given without paying: redemption codes, the daily        *)
(* check-in, the newcomer activity, and the share of an inviter in what    *)
(* the invited users pay.                                                  *)
(*                                                                         *)
(* The database either locks rows (MySQL, PostgreSQL) or has one writer at *)
(* a time and no row locks (SQLite); the code takes other paths for each.  *)
(***************************************************************************)
EXTENDS Integers, FiniteSetsExt, Functions

CONSTANTS
  Claimants,    \* goroutines of users and administrators
  Days,         \* the days on which the user may check in
  Deals,        \* paid orders of invited users
  InviteeOf,    \* order -> the invited user who paid
  Reward,       \* what an order earns the inviter before the cap
  InviteeCap,   \* the most an inviter earns from one invited user
  RewardLimit,  \* what an inviter has earned stays below this
  InviteLimit,  \* how many users an inviter may invite
  QuotaForInviter,  \* what a registration brought the inviter before the program was activated
  Newcomers,    \* users that register with the code of the inviter
  MaxEdits      \* bound: edits of the redemption code

ASSUME RewardsAssumption ==
  /\ "nobody" \notin Claimants /\ InviteeOf \in [Deals -> Newcomers]
  /\ Reward \in Nat \ {0} /\ InviteeCap \in Nat \ {0} /\ RewardLimit \in Nat /\ InviteLimit \in Nat
  /\ QuotaForInviter \in Nat /\ MaxEdits \in Nat

VARIABLES
  rowLocks,  \* TRUE: the database locks rows
  code,      \* one redemption code, with ghosts: its credits, its edits, and how often an
             \* edit was asked to make it usable again (asked) and did so (written)
  award,     \* day or activity -> its record and how often it was credited
  today,     \* the day
  inviter,   \* the inviter's counters: avail, frozen, history, moved, and what of
             \* them came without an entry of the ledger (bonus)
  members,   \* the users the inviter has invited
  ledger,    \* order -> its entry in the affiliate ledger
  ripe,      \* orders whose frozen reward may be thawed
  locked,    \* the goroutine that has locked the inviter's row
  act        \* goroutine -> what it is doing

rewVars == <<rowLocks, code, award, today, inviter, members, ledger, ripe, locked, act>>
codeVars == <<code>>
awardVars == <<award, today>>
affVars == <<inviter, members, ledger, ripe, locked>>

Activity == "newcomer"
Nobody == "nobody"
Off == [pc |-> "idle", of |-> "none", saw |-> "none", sum |-> 0]
NoEntry == [action |-> "none", reward |-> 0, frozen |-> FALSE, thawed |-> FALSE]

RewInit ==
  /\ rowLocks \in BOOLEAN
  /\ code = [status |-> "enabled", expired |-> FALSE, credits |-> 0, asked |-> 0, written |-> 0, edits |-> 0]
  /\ award = [k \in Days \cup {Activity} |-> [row |-> FALSE, paid |-> 0]]
  /\ today \in Days
  /\ inviter = [avail |-> 0, frozen |-> 0, history |-> 0, moved |-> 0, bonus |-> 0]
  /\ members = {} /\ ledger = [o \in Deals |-> NoEntry] /\ ripe = {}
  /\ locked = Nobody /\ act = [a \in Claimants |-> Off]

Does(a, rec) == act' = [act EXCEPT ![a] = rec]
Is(a, pc) == act[a].pc = pc

-----------------------------------------------------------------------------
(* Redemption codes. *)

\* Where there are row locks the transaction is one step.
Redeemable == code.status = "enabled" /\ ~code.expired
RedeemRead(a) ==
  /\ Is(a, "idle") /\ ~rowLocks /\ Redeemable
  /\ Does(a, [Off EXCEPT !.pc = "redeem"])
  /\ UNCHANGED <<rowLocks, codeVars, awardVars, affVars>>

EnabledStill == code.status = "enabled"

\* The compare-and-swap of the status decides who is credited.
Redeem(a) ==
  /\ Is(a, "redeem") \/ (Is(a, "idle") /\ rowLocks /\ Redeemable)
  /\ code' = IF EnabledStill THEN [code EXCEPT !.status = "used", !.credits = @ + 1] ELSE code
  /\ Does(a, Off)
  /\ UNCHANGED <<rowLocks, awardVars, affVars>>

\* UpdateRedemption reads the row and writes it all back, its status too; an
\* administrator may also ask for a status.
GetRedemptionById(a) ==
  /\ Is(a, "idle") /\ code.status # "deleted" /\ code.edits < MaxEdits
  /\ Does(a, [Off EXCEPT !.pc = "edit", !.saw = code.status])
  /\ code' = [code EXCEPT !.edits = @ + 1]
  /\ UNCHANGED <<rowLocks, awardVars, affVars>>

UpdateRedemption(a) ==
  /\ Is(a, "edit")
  /\ \E asked \in {"nothing", "enabled", "disabled"}, expired \in {code.expired, FALSE} :
       LET status == IF asked = "nothing" THEN act[a].saw ELSE asked
       IN code' = IF code.status = "deleted" THEN code
                  ELSE [code EXCEPT !.status = status, !.expired = expired,
                          !.asked = IF asked = "enabled" THEN @ + 1 ELSE @,
                          !.written = IF status = "enabled" /\ code.status # "enabled" THEN @ + 1 ELSE @]
  /\ Does(a, Off)
  /\ UNCHANGED <<rowLocks, awardVars, affVars>>

ExpireCode ==
  /\ ~code.expired /\ code' = [code EXCEPT !.expired = TRUE]
  /\ UNCHANGED <<rowLocks, awardVars, affVars, act>>

\* DeleteInvalidRedemptions takes the used and the disabled ones.
DeleteRedemptionById(a) ==
  /\ Is(a, "idle") /\ code.status # "deleted"
  /\ code' = [code EXCEPT !.status = "deleted"]
  /\ UNCHANGED <<rowLocks, awardVars, affVars, act>>

-----------------------------------------------------------------------------
(* Awards: one record for each user and day, one for each user and activity. *)

HasCheckedInToday(a) ==
  /\ Is(a, "idle") /\ ~award[today].row
  /\ Does(a, [Off EXCEPT !.pc = "award", !.of = today])
  /\ UNCHANGED <<rowLocks, codeVars, awardVars, affVars>>

HasActivityClaim(a) ==
  /\ Is(a, "idle") /\ ~award[Activity].row
  /\ Does(a, [Off EXCEPT !.pc = "award", !.of = Activity])
  /\ UNCHANGED <<rowLocks, codeVars, awardVars, affVars>>

UniqueRow(k) == ~award[k].row

\* The record and the credit are one transaction, or it is rolled back.
ClaimActivityReward(a) ==
  /\ Is(a, "award") /\ act[a].of = Activity
  /\ award' = IF UniqueRow(Activity) THEN [award EXCEPT ![Activity] = [row |-> TRUE, paid |-> @.paid + 1]] ELSE award
  /\ Does(a, Off)
  /\ UNCHANGED <<rowLocks, codeVars, today, affVars>>

userCheckinWithTransaction(a) ==
  /\ Is(a, "award") /\ act[a].of # Activity /\ rowLocks
  /\ award' = IF UniqueRow(today) THEN [award EXCEPT ![today] = [row |-> TRUE, paid |-> @.paid + 1]] ELSE award
  /\ Does(a, Off)
  /\ UNCHANGED <<rowLocks, codeVars, today, affVars>>

\* On SQLite the record comes first, and is deleted when the credit fails.
userCheckinWithoutTransaction(a) ==
  /\ Is(a, "award") /\ act[a].of # Activity /\ ~rowLocks
  /\ award' = IF UniqueRow(today) THEN [award EXCEPT ![today].row = TRUE] ELSE award
  /\ Does(a, IF UniqueRow(today) THEN [Off EXCEPT !.pc = "credit", !.of = today] ELSE Off)
  /\ UNCHANGED <<rowLocks, codeVars, today, affVars>>

CheckinCredit(a) ==
  /\ Is(a, "credit")
  /\ \/ award' = [award EXCEPT ![act[a].of].paid = @ + 1]
     \/ award' = [award EXCEPT ![act[a].of].row = FALSE]
     \/ UNCHANGED award  \* a restart, or the record could not be deleted
  /\ Does(a, Off)
  /\ UNCHANGED <<rowLocks, codeVars, today, affVars>>

Midnight ==
  /\ today' \in Days \ {today} /\ ~award[today'].row /\ award[today].row
  /\ UNCHANGED <<rowLocks, codeVars, award, affVars, act>>

-----------------------------------------------------------------------------
(* Invitations. *)

Lock(a) == IF rowLocks THEN locked = Nobody /\ locked' = a ELSE UNCHANGED locked
Unlock(a) == locked' = IF locked = a THEN Nobody ELSE locked

\* The code is resolved and the invited users counted, then the user is stored.
\* SQLite lets one of two such transactions fail.  A process in which the program
\* is not activated yet adds the inviter's bonus when the user is stored.
ResolveAffiliateInviterTx(a, u) ==
  /\ Is(a, "idle") /\ u \notin members /\ \A b \in Claimants : act[b].of # u
  /\ Cardinality(members) < InviteLimit /\ Lock(a)
  /\ Does(a, [Off EXCEPT !.pc = "register", !.of = u, !.sum = Cardinality(members)])
  /\ UNCHANGED <<rowLocks, codeVars, awardVars, inviter, members, ledger, ripe>>

CreateUserWithAffiliateTx(a) ==
  /\ Is(a, "register") /\ Unlock(a)
  /\ IF rowLocks \/ act[a].sum = Cardinality(members)
     THEN /\ members' = members \cup {act[a].of}
          /\ \E activated \in BOOLEAN : Does(a, [Off EXCEPT !.pc = IF activated THEN "idle" ELSE "bonus"])
     ELSE UNCHANGED members /\ Does(a, Off)
  /\ UNCHANGED <<rowLocks, codeVars, awardVars, inviter, ledger, ripe>>

\* One statement outside the transaction, without a look at the limits; its
\* error is ignored.
inviteUser(a) ==
  /\ Is(a, "bonus") /\ locked = Nobody /\ Does(a, Off)
  /\ \/ inviter' = [inviter EXCEPT !.avail = @ + QuotaForInviter, !.history = @ + QuotaForInviter,
                                   !.bonus = @ + QuotaForInviter]
     \/ UNCHANGED inviter
  /\ UNCHANGED <<rowLocks, codeVars, awardVars, members, ledger, ripe, locked>>

Accrued(u) == {o \in Deals : ledger[o].action = "accrue" /\ InviteeOf[o] = u}
Total(orders) == SumFunctionOnSet([o \in Deals |-> ledger[o].reward], orders)

LockInviter(a) == Lock(a)

\* The transaction of a payment: what the user has brought is summed up under
\* the lock of the inviter's row.
AccrueRead(a, o) ==
  /\ Is(a, "idle") /\ ledger[o].action = "none" /\ InviteeOf[o] \in members
  /\ \A b \in Claimants : act[b].of \in Deals => InviteeOf[act[b].of] # InviteeOf[o]
  /\ LockInviter(a)
  /\ Does(a, [Off EXCEPT !.pc = "accrue", !.of = o, !.sum = inviter.history])
  /\ UNCHANGED <<rowLocks, codeVars, awardVars, inviter, members, ledger, ripe>>

\* A reward is skipped, and recorded so, also when the program or the inviter
\* is inactive.  A transaction whose reads are stale fails on SQLite and is tried again.
ApplyAffiliateRewardTx(a) ==
  LET o == act[a].of
      left == InviteeCap - Total(Accrued(InviteeOf[o]))
      reward == IF Reward < left THEN Reward ELSE left
      skipped == \/ left <= 0 \/ act[a].sum + reward >= RewardLimit
                 \/ inviter.avail + inviter.frozen + reward >= RewardLimit
  IN /\ Is(a, "accrue")
     /\ IF ~rowLocks /\ act[a].sum # inviter.history THEN UNCHANGED <<inviter, ledger>>
        ELSE \E inactive \in BOOLEAN :
          IF skipped \/ inactive THEN ledger' = [ledger EXCEPT ![o].action = "skip"] /\ UNCHANGED inviter
          ELSE \E freeze \in BOOLEAN :
               /\ ledger' = [ledger EXCEPT ![o] = [action |-> "accrue", reward |-> reward, frozen |-> freeze, thawed |-> FALSE]]
               /\ inviter' = [inviter EXCEPT !.history = @ + reward,
                                             !.avail = IF freeze THEN @ ELSE @ + reward,
                                             !.frozen = IF freeze THEN @ + reward ELSE @]
     /\ Unlock(a) /\ Does(a, Off)
     /\ UNCHANGED <<rowLocks, codeVars, awardVars, members, ripe>>

Ripe(o) == ledger[o].frozen /\ ~ledger[o].thawed /\ o \in ripe
FreezeEnds(o) ==
  /\ ledger[o].frozen /\ o \notin ripe /\ ripe' = ripe \cup {o}
  /\ UNCHANGED <<rowLocks, codeVars, awardVars, inviter, members, ledger, locked, act>>

\* Mutant: the rows are looked for without the lock on the inviter's row.
MutLockThaw(a) == UNCHANGED locked
LockThaw(a) == Lock(a)

ThawRead(a) ==
  /\ Is(a, "idle") /\ LockThaw(a)
  /\ Does(a, [Off EXCEPT !.pc = "thaw", !.saw = {o \in Deals : Ripe(o)}])
  /\ \E o \in Deals : Ripe(o)
  /\ UNCHANGED <<rowLocks, codeVars, awardVars, inviter, members, ledger, ripe>>

Thawed(rows) ==
  ledger' = [o \in Deals |-> IF o \in rows THEN [ledger[o] EXCEPT !.thawed = TRUE] ELSE ledger[o]]

ThawAffiliateQuotaTx(a) ==
  LET rows == act[a].saw
      sum == Total(rows)
  IN /\ Is(a, "thaw")
     /\ IF ~rowLocks /\ \E o \in rows : ledger[o].thawed THEN UNCHANGED <<inviter, ledger>>
        ELSE /\ Thawed(rows)
             /\ inviter' = [inviter EXCEPT !.avail = @ + sum, !.frozen = IF @ >= sum THEN @ - sum ELSE 0]
     /\ Unlock(a) /\ Does(a, Off)
     /\ UNCHANGED <<rowLocks, codeVars, awardVars, members, ripe>>

\* One transaction: what may be thawed is, then an amount moves to the wallet.
\* When too little is available the thaw is rolled back too.
TransferAffiliateQuota(a) ==
  LET rows == {o \in Deals : Ripe(o)}
      sum == Total(rows)
  IN /\ Is(a, "idle") /\ locked = Nobody
     /\ \E amount \in 1..(inviter.avail + sum) :
          inviter' = [inviter EXCEPT !.avail = @ + sum - amount, !.frozen = IF @ >= sum THEN @ - sum ELSE 0,
                                     !.moved = @ + amount]
     /\ Thawed(rows)
     /\ UNCHANGED <<rowLocks, codeVars, awardVars, members, ripe, locked, act>>

\* UpdateWithTx leaves out the accounting columns except aff_frozen_quota: the
\* value the profile was read with is written back unless it is zero.
UpdateRead(a) ==
  /\ Is(a, "idle") /\ inviter.frozen > 0
  /\ Does(a, [Off EXCEPT !.pc = "profile", !.sum = inviter.frozen])
  /\ UNCHANGED <<rowLocks, codeVars, awardVars, affVars>>

UpdateWithTx(a) ==
  /\ Is(a, "profile") /\ locked = Nobody
  /\ inviter' = [inviter EXCEPT !.frozen = act[a].sum]
  /\ Does(a, Off)
  /\ UNCHANGED <<rowLocks, codeVars, awardVars, members, ledger, ripe, locked>>

CodeNext ==
  \/ \E a \in Claimants : RedeemRead(a) \/ Redeem(a) \/ GetRedemptionById(a) \/ UpdateRedemption(a) \/ DeleteRedemptionById(a)
  \/ ExpireCode
AwardNext ==
  \/ \E a \in Claimants : \/ HasCheckedInToday(a) \/ HasActivityClaim(a) \/ ClaimActivityReward(a)
                          \/ userCheckinWithTransaction(a) \/ userCheckinWithoutTransaction(a) \/ CheckinCredit(a)
  \/ Midnight
AffiliateNext ==
  \/ \E a \in Claimants :
       \/ \E u \in Newcomers : ResolveAffiliateInviterTx(a, u)
       \/ CreateUserWithAffiliateTx(a) \/ inviteUser(a)
       \/ \E o \in Deals : AccrueRead(a, o)
       \/ ApplyAffiliateRewardTx(a) \/ ThawRead(a) \/ ThawAffiliateQuotaTx(a)
       \/ TransferAffiliateQuota(a) \/ UpdateRead(a) \/ UpdateWithTx(a)
  \/ \E o \in Deals : FreezeEnds(o)

RewNext == CodeNext \/ AwardNext \/ AffiliateNext
RewSpec == RewInit /\ [][RewNext]_rewVars

-----------------------------------------------------------------------------
(* Properties. *)

(* A code is credited once, and once more each time an administrator's     *)
(* write makes it usable again: never twice to users who race.             *)
RedeemedOncePerIssue == code.credits <= 1 + code.written

(* A day's check-in and the activity are credited at most once, and never  *)
(* without the record that keeps the next request out.                     *)
AwardedAtMostOnce ==
  \A k \in DOMAIN award : award[k].paid <= 1 /\ (award[k].paid = 1 => award[k].row)

(* What the inviter may spend, and what moved to the wallet, is what the   *)
(* ledger says was earned and is not frozen any more, and the bonuses from *)
(* before the program's activation.                                        *)
AvailableIsEarned ==
  /\ inviter.avail + inviter.moved =
       inviter.bonus + Total({o \in Deals : ledger[o].action = "accrue" /\ (~ledger[o].frozen \/ ledger[o].thawed)})
  /\ inviter.history = inviter.bonus + Total({o \in Deals : ledger[o].action = "accrue"})

(* Registrations that overlap do not invite more users than the limit.     *)
InviteLimitHolds == Cardinality(members) <= InviteLimit

(* The limits on invited users, on what one of them earns the inviter, and *)
(* on what the inviter earns in all hold for transactions that overlap;    *)
(* the bonuses know no limit.                                              *)
AffiliateLimitsHold ==
  /\ InviteLimitHolds
  /\ \A u \in Newcomers : Total(Accrued(u)) <= InviteeCap
  /\ inviter.history - inviter.bonus < RewardLimit \/ inviter.history = inviter.bonus

(* Users, administrators and tasks that race keep all four.                *)
RewardsHold == RedeemedOncePerIssue /\ AwardedAtMostOnce /\ AvailableIsEarned /\ AffiliateLimitsHold

(* Not kept by the code, see the README.                                   *)
(* A code that no administrator asked to enable again is credited once.    *)
RedeemedAtMostOnce == code.credits <= 1 + code.asked

(* Not kept by the code, see the README.                                   *)
(* What is shown as frozen is what the ledger has frozen: an update of the *)
(* profile leaves the accounting columns alone.                            *)
FrozenIsAccrued ==
  inviter.frozen = Total({o \in Deals : ledger[o].action = "accrue" /\ ledger[o].frozen /\ ~ledger[o].thawed})
=============================================================================
