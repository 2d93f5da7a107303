---------------------------- MODULE RequestCharge ----------------------------
(***************************************************************************)
(* What billing promises for a request: while the request is open its net  *)
(* charge may move; it closes as settled with exactly its price, or as     *)
(* refunded with nothing charged; once closed nothing moves, except that a *)
(* refunded attempt may be reopened to be paid from another source.        *)
(***************************************************************************)
EXTENDS Integers

CONSTANT Requests

VARIABLES
    outcome,  \* "open", "settled" or "refunded"
    net,      \* what has been taken from the funding source and the token
    price     \* what the request turned out to cost

Nothing == [funding |-> 0, token |-> 0]

Init ==
    /\ outcome = [r \in Requests |-> "open"]
    /\ net = [r \in Requests |-> Nothing]
    /\ price = [r \in Requests |-> Nothing]

\* Reserving, adjusting and pricing an open request.
Work(r) == outcome[r] = "open" /\ outcome'[r] = "open"

Settle(r) ==
    /\ outcome[r] = "open" /\ outcome'[r] = "settled"
    /\ net[r] = price[r] /\ net'[r] = net[r] /\ price'[r] = price[r]

Refund(r) ==
    /\ outcome[r] = "open" /\ outcome'[r] = "refunded"
    /\ net[r] = Nothing /\ net'[r] = Nothing

Reopen(r) ==
    /\ outcome[r] = "refunded" /\ outcome'[r] = "open"
    /\ net[r] = Nothing /\ net'[r] = Nothing

Closed(r) ==
    /\ outcome[r] # "open" /\ outcome'[r] = outcome[r] /\ net'[r] = net[r]
    /\ outcome[r] = "settled" => price'[r] = price[r]

Step(r) == Work(r) \/ Settle(r) \/ Refund(r) \/ Reopen(r) \/ Closed(r)

\* One request works or closes at a time; the others may only stand still.
Next ==
    \E r \in Requests :
        /\ Step(r)
        /\ \A q \in Requests \ {r} : outcome'[q] = outcome[q] /\ net'[q] = net[q]

Spec == Init /\ [][Next]_<<outcome, net, price>>
=============================================================================
