------------------------------ MODULE MCCredits ------------------------------
(* What adds to an account: payments, subscriptions and rewards.  The parts *)
(* share no state here, so a behaviour follows one of them.                 *)
EXTENDS Payments, Subscriptions, Rewards, TLC

CONSTANTS o1, o2, s1, s2, d1, d2, d3, u1, u2

VARIABLE part

creditVars == <<part, payVars, subVars, rewVars>>

Topup(provider) == [kind |-> "topup", provider |-> provider, onetime |-> TRUE]
Subscribe(provider) == [kind |-> "subscription", provider |-> provider, onetime |-> TRUE]
Recurring(book) == [book EXCEPT !.onetime = FALSE]
Book(first, second) == o1 :> first @@ o2 :> second
MCBooks == {Book(Topup("epay"), Topup("creem")), Book(Topup("stripe"), Topup("waffo")),
            Book(Topup("waffo_pancake"), Subscribe("stripe")),
            Book(Recurring(Subscribe("creem")), Subscribe("epay")),
            Book(Subscribe("waffo_pancake"), Recurring(Topup("creem")))}
MCNodeOf == [p \in Procs |-> p]

Vip == [up |-> "vip", down |-> "", length |-> 1, period |-> 0, uses |-> 0]
Svip == [up |-> "svip", down |-> "default", length |-> 2, period |-> 0, uses |-> 0]
Renewing == [up |-> "", down |-> "", length |-> 3, period |-> 1, uses |-> 2]
Uneven == [Renewing EXCEPT !.period = 2]
MCOffers == {s1 :> Vip @@ s2 :> Vip, s1 :> Vip @@ s2 :> Svip, s1 :> Renewing, s1 :> Uneven}

MCInviteeOf == d1 :> u1 @@ d2 :> u1 @@ d3 :> u2

\* The parts that do not move start in one of their initial states.
CreditsInit ==
  /\ part \in {"payments", "subscriptions", "codes", "awards", "affiliate"}
  /\ PayInit /\ SubInit /\ RewInit
  /\ part # "payments" => ord[o1].provider = "epay"
  /\ part # "subscriptions" => plans = (s1 :> Renewing)
  /\ part \in {"payments", "subscriptions"} => rowLocks
  /\ part # "awards" => today = CHOOSE d \in Days : TRUE

Pay(A) == part = "payments" /\ A /\ UNCHANGED <<part, subVars, rewVars>>
Sub(A) == part = "subscriptions" /\ A /\ UNCHANGED <<part, payVars, rewVars>>
Rew(p, A) == part = p /\ A /\ UNCHANGED <<part, payVars, subVars>>

CreditsNext ==
  \/ Pay(PayNext) \/ Sub(SubNext)
  \/ Rew("codes", CodeNext) \/ Rew("awards", AwardNext) \/ Rew("affiliate", AffiliateNext)

(* Handlers run to their end, a mutex is handed to those who wait for it,  *)
(* and a provider repeats what was not answered until a goroutine takes it.*)
CreditsSpec ==
  /\ CreditsInit /\ [][CreditsNext]_creditVars
  /\ \A p \in Procs : WF_creditVars(Pay(Handle(p))) /\ SF_creditVars(Pay(LockOrder(p)))
  /\ \A o \in Orders : SF_creditVars(Pay(\E p \in Procs : Webhook(p, o)))
=============================================================================
