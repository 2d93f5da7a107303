-------------------------- MODULE MCBillingSession --------------------------
(* Values of the constants of BillingSession for TLC. *)
EXTENDS BillingSession

AllPlans == {<<"wallet">>, <<"subscription">>,
             <<"wallet", "subscription">>, <<"subscription", "wallet">>}
AnyDelta == -4 .. 4
AnyAmount == 0 .. 6
=============================================================================
