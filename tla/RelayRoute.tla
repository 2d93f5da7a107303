----------------------------- MODULE RelayRoute -----------------------------
(***************************************************************************)
(* One relay request from selection to its end: the attempt loop of        *)
(* controller/relay.go, the capacity leases that service/route_lease.go    *)
(* keeps in Redis, their renewal goroutines, and what the loop does to the *)
(* bill and to the response.  Several requests share the channels.         *)
(*                                                                         *)
(* A request id has one lease at a time, so a lease is named by its        *)
(* request.  Versions that are only compared for equality (health epoch,   *)
(* capability snapshot, capacity, ratio) are kept as the question the code *)
(* asks: has it changed since it was read?                                 *)
(***************************************************************************)
EXTENDS Integers, Sequences, FiniteSetsExt, SequencesExt

CONSTANTS
  Requests,     \* the requests in flight; an ended one stands for a new one
  Channels,     \* the channels that can serve the model
  Keys,         \* channel -> its enabled key indexes
  Policies,     \* request -> the retry policies its token may have, and "compact"
  Streamed,     \* the requests whose response is streamed
  TotalAttempts,\* DefaultTotalAttempts
  TTL,          \* routeAttemptLeaseTTL in ticks of the renewal interval
  Slack,        \* bound: how many ticks a call on the lease may be late
  MaxFaults     \* bound: Redis calls that fail, plus channels edited or given a new epoch

ASSUME RelayRouteAssumption ==
  /\ IsFiniteSet(Requests) /\ IsFiniteSet(Channels) /\ \A c \in Channels : Keys[c] # {}
  /\ \A r \in Requests : Policies[r] \subseteq {"auto", "none", "same_channel", "next_channel", "same_then_next", "compact"}
  /\ TotalAttempts \in Nat \ {0} /\ Slack \in Nat /\ MaxFaults \in Nat
  /\ TTL \in Nat /\ TTL > 2 * Slack + 1

VARIABLES
  req,      \* where each request is and what it carries
  lease,    \* its lease in Redis: the meta and request keys and the sorted-set member
  enabled,  \* the channels that are enabled
  cap,      \* channel -> capacity_total
  faults    \* faults and changes so far

vars == <<req, lease, enabled, cap, faults>>

None == [ch |-> "none", member |-> FALSE, left |-> -1]
Idle == [pc |-> "idle", policy |-> "auto", stage |-> "none", list |-> <<>>, key |-> 0,
         fresh |-> {}, steady |-> TRUE, filtered |-> {}, hist |-> <<>>,
         ren |-> "off", lost |-> FALSE, age |-> 0, cap |-> 0, out |-> "none", bill |-> "none"]

Init ==
  /\ req = [r \in Requests |-> Idle] /\ lease = [r \in Requests |-> None]
  /\ enabled = Channels /\ cap = [c \in Channels |-> 1] /\ faults = 0

Ch(r) == Head(req[r].list)  \* the candidate at the index of the attempt
Set(r, rec) == req' = [req EXCEPT ![r] = rec]

-----------------------------------------------------------------------------
(* The attempt list and the retry budgets. *)

SameLimit == 1      \* DefaultSameChannelAttempts
FailoverLimit == 2  \* DefaultFailoverAttempts
TopK == 3

Repeat(order, times) == [i \in 1..(times * Len(order)) |-> order[((i - 1) \div times) + 1]]
Prefix(order, n) == SubSeq(order, 1, IF n < Len(order) THEN n ELSE Len(order))

\* Automatic routing tries every ranked channel twice in a row.
selectedRouteAttemptCandidates(order) == Repeat(order, 1 + SameLimit)

manualRouteAttemptCandidates(order, policy) ==
  CASE policy = "none" -> Prefix(order, 1)
    [] policy = "same_channel" -> Repeat(Prefix(order, 1), 1 + SameLimit)
    [] policy = "same_then_next" -> Repeat(Prefix(order, 1 + FailoverLimit), 1 + SameLimit)
    [] OTHER -> Prefix(order, 1 + FailoverLimit)

\* The ranking is a permutation of the eligible channels, cut at three.
Rankings(eligible) == {Prefix(s, TopK) : s \in SetToSeqs(eligible)}

AttemptList(order, policy) ==
  IF policy = "auto" THEN selectedRouteAttemptCandidates(order)
  ELSE manualRouteAttemptCandidates(order, policy)

\* Attempts are <<channel, key, stage>>; the counters of the request are read off them.
Pairs(h) == 2..Len(h)
SameChannel(h) == Cardinality({i \in Pairs(h) : h[i][1] = h[i - 1][1] /\ h[i][2] # h[i - 1][2]})
Failovers(h) == Cardinality({i \in Pairs(h) : h[i][1] # h[i - 1][1]})
Tried(h, c, stage) == {h[i][2] : i \in {j \in 1..Len(h) : h[j][1] = c /\ h[j][3] = stage}}

Retryable(class) == class \in {"transient", "key"}
Failoverable(class) == class \in {"transient", "key", "model"}

Allows(class, same, h) ==
  /\ Len(h) < TotalAttempts
  /\ IF same THEN Retryable(class) /\ SameChannel(h) < SameLimit
     ELSE Failoverable(class) /\ Failovers(h) < FailoverLimit

\* The indexes from `from` on that the policy and the budgets allow.
NextCandidateForError(q, from, class) ==
  {i \in from..Len(q.list) :
     LET same == q.list[i] = q.hist[Len(q.hist)][1]
     IN /\ q.policy # "none"
        /\ q.policy = "same_channel" => same
        /\ q.policy = "next_channel" => ~same
        /\ Allows(class, same, q.hist)}
From(q, i) ==
  LET rest == SubSeq(q.list, i, Len(q.list))
  IN [q EXCEPT !.list = rest, !.fresh = @ \cap Range(rest)]

(* Compact requests: two thirds of the attempts for the exact model, the   *)
(* rest, with what the exact stage left over, for the base model.          *)
ExactBudget == (2 * TotalAttempts + 2) \div 3
StageAttempts(h, stage) == Cardinality({i \in 1..Len(h) : h[i][3] = stage})
BaseBudget(h) ==
  LET unused == ExactBudget - StageAttempts(h, "exact")
  IN (TotalAttempts - ExactBudget) + (IF unused > 0 THEN unused ELSE 0)
remainingAttempts(q) ==
  IF q.stage = "exact" THEN ExactBudget - StageAttempts(q.hist, "exact")
  ELSE BaseBudget(q.hist) - StageAttempts(q.hist, "base")
canSwitchToBase(q) ==
  q.stage = "exact" /\ StageAttempts(q.hist, "base") < TotalAttempts - ExactBudget

-----------------------------------------------------------------------------
(* How a request ends.  Its deferred calls refund an unsettled bill when   *)
(* there is an error, and then release the lease.                          *)

Finish(q, err) ==
  [Idle EXCEPT !.pc = "final", !.ren = q.ren, !.age = q.age,
               !.bill = IF err /\ q.bill = "held" THEN "refunded" ELSE q.bill]

Reset(q) == [q EXCEPT !.key = 0, !.steady = TRUE, !.age = 0, !.cap = 0]

\* Mutant: the refused candidate stays on the list.
MutFailover(q, gone) == IF gone THEN Finish(q, TRUE) ELSE [Reset(q) EXCEPT !.pc = "loop"]

\* The candidate was refused before anything went upstream.  Its channel is
\* filtered and the next candidate of another is tried, unless the client has
\* left or there is none.
Failover(q, gone) ==
  LET others == {i \in 1..Len(q.list) : q.list[i] # Head(q.list)}
  IN IF gone \/ others = {} THEN Finish(q, TRUE)
     ELSE [Reset(q) EXCEPT !.pc = "loop",
                           !.list = IF q.policy = "compact" THEN <<>> ELSE SubSeq(@, Min(others), Len(@)),
                           !.filtered = IF q.policy = "compact" THEN @ \cup {Head(q.list)} ELSE @]

-----------------------------------------------------------------------------
(* The leases in Redis: each script runs atomically.  A member is live     *)
(* while its score lies ahead; the keys of a lease live one instant more.  *)

Live(r, c) == lease[r].ch = c /\ lease[r].member /\ lease[r].left > 0
Owned(r) == lease[r].left >= 0

\* An acquisition removes the members of its channel whose time has come.
Evict(c) == [r \in Requests |-> IF lease[r].ch = c /\ lease[r].left <= 0
                                THEN [lease[r] EXCEPT !.member = FALSE] ELSE lease[r]]

\* Mutant: one request too many.
MutHasCapacity(c) == Cardinality({s \in Requests : Live(s, c)}) <= cap[c]
HasCapacity(c) == Cardinality({s \in Requests : Live(s, c)}) < cap[c]

Granted(r, c) == [Evict(c) EXCEPT ![r] = [ch |-> c, member |-> TRUE, left |-> TTL]]

Released(r) == IF Owned(r) THEN [lease EXCEPT ![r] = None] ELSE lease

\* A Redis call may fail before or after its effect.
Call(effect) ==
  \/ lease' = effect /\ UNCHANGED faults
  \/ faults < MaxFaults /\ faults' = faults + 1 /\ lease' \in {lease, effect}

-----------------------------------------------------------------------------
(* Selection: SelectLiveTokenRoute, by the distributor or, for a compact   *)
(* request, before every attempt.                                          *)

HasKey(q, c) == Keys[c] \ Tried(q.hist, c, q.stage) # {}

Begin(r) ==
  /\ req[r].pc = "idle" /\ ~Owned(r) /\ enabled # {}
  /\ \E policy \in Policies[r], order \in Rankings(enabled) :
       \E stage \in (IF policy = "compact" THEN {"exact", "base"} ELSE {"none"}) :
         Set(r, [Idle EXCEPT !.pc = "loop", !.policy = policy, !.stage = stage,
                             !.list = IF policy = "compact" THEN <<>> ELSE AttemptList(order, policy),
                             !.fresh = IF policy = "compact" THEN {} ELSE Range(order)])
  /\ UNCHANGED <<lease, enabled, cap, faults>>

switchToBase(q) == [q EXCEPT !.pc = "loop", !.stage = "base", !.filtered = {}]

\* getChannel skips what is disabled or has no key left.
Usable(q) == {i \in 1..Len(q.list) : q.list[i] \in enabled /\ HasKey(q, q.list[i])}

\* The candidate is set up with a key that this request has not used yet.
Chosen(q) ==
  {[q EXCEPT !.key = k] : k \in Keys[Head(q.list)] \ Tried(q.hist, Head(q.list), q.stage)}

\* The channel is enabled and has the versions that were selected.
GetRouteRuntimeState(q) == Head(q.list) \in enabled \cap q.fresh

\* The price may be impossible to compute, or above the ceiling of the policy;
\* the admission then begins with the runtime state.
Priced(q) ==
  {Finish(q, TRUE), Failover(q, FALSE)}
  \cup (IF GetRouteRuntimeState(q) THEN {[q EXCEPT !.pc = "acquire", !.steady = TRUE]} ELSE {})

\* The loop head: the budget of the request, then the next usable candidate.
GetChannel(r) ==
  LET q == req[r]
      first == From(q, Min(Usable(q)))
  IN /\ q.pc = "loop" /\ q.policy # "compact"
     /\ IF Len(q.hist) >= TotalAttempts \/ Usable(q) = {} THEN Set(r, Finish(q, TRUE))
        ELSE \E p \in UNION {Priced(c) : c \in Chosen(first)} : Set(r, p)
     /\ UNCHANGED <<lease, enabled, cap, faults>>

\* A compact attempt selects anew: everything it sees is fresh.  The error before
\* it allows both a retry and a failover: a model error has ended the exact stage,
\* and the base stage may go back to the channel that did not know the model.
GetCompactChannel(r) ==
  LET q == req[r]
      eligible == {c \in enabled \ q.filtered : HasKey(q, c)}
      lost == IF canSwitchToBase(q) THEN switchToBase(q) ELSE Finish(q, TRUE)
      again(order) == [q EXCEPT !.list = selectedRouteAttemptCandidates(order), !.fresh = Channels]
      next(p) == IF p.hist = <<>> THEN {1} ELSE NextCandidateForError(p, 1, "transient")
  IN /\ q.pc = "loop" /\ q.policy = "compact"
     /\ IF Len(q.hist) >= TotalAttempts THEN Set(r, Finish(q, TRUE))
        ELSE IF eligible = {} THEN Set(r, lost)
        ELSE \E p \in {again(order) : order \in Rankings(eligible)} :
               IF next(p) = {} THEN Set(r, lost)
               ELSE \E n \in UNION {Priced(c) : c \in Chosen(From(p, Min(next(p))))} : Set(r, n)
     /\ UNCHANGED <<lease, enabled, cap, faults>>

AcquireRouteLease(r) ==
  LET c == Ch(r)
  IN /\ req[r].pc = "acquire"
     /\ CASE Ch(r) \notin enabled -> Set(r, Finish(req[r], TRUE)) /\ UNCHANGED <<lease, faults>>
          [] Owned(r) -> Set(r, Finish(req[r], TRUE)) /\ UNCHANGED <<lease, faults>>
          [] ~Owned(r) /\ Ch(r) \in enabled /\ ~HasCapacity(c) ->
               /\ \E gone \in BOOLEAN : Set(r, Failover(req[r], gone))
               /\ lease' = Evict(c) /\ UNCHANGED faults
          [] OTHER ->
               /\ Call(Granted(r, c))
               /\ Set(r, IF faults' = faults THEN [req[r] EXCEPT !.pc = "recheck", !.age = 0, !.cap = cap[c]]
                         ELSE Finish(req[r], TRUE))
     /\ UNCHANGED <<enabled, cap>>

\* PrepareBillingForSelectedModel reserves, or tops up what is reserved; the
\* attempt then counts, and its key is spent.
PrepareBilling(q) ==
  {Finish(q, TRUE),
   [q EXCEPT !.pc = "up", !.bill = "held", !.hist = Append(@, <<Head(q.list), q.key, q.stage>>)]}

\* RecheckRouteLeaseRuntime before and after RecheckLiveRouteCandidate.  A
\* changed version or setting ends the request; a candidate that lost its
\* qualification is filtered and the next one is tried.  With both in order
\* the renewal starts and the bill is prepared.
Recheck(r) ==
  LET q == req[r]
      ok == GetRouteRuntimeState(q) /\ q.steady
  IN /\ q.pc = "recheck"
     /\ \/ /\ ok /\ UNCHANGED <<lease, faults>>
           /\ \E p \in PrepareBilling([q EXCEPT !.ren = "on", !.age = 0]) : Set(r, p)
        \/ Call(Released(r)) /\ \E gone \in BOOLEAN : Set(r, Failover(q, gone))
        \/ Call(Released(r)) /\ Set(r, Finish(q, TRUE))
     /\ UNCHANGED <<enabled, cap>>

-----------------------------------------------------------------------------
(* The upstream call and its outcome. *)

\* A frame was seen that is not parsed yet ("frame", FirstResponseTime), or
\* something was sent.
Outputs == {"none", "frame", "sent"}
relayResponseCommitted(q) == q.out = "sent"
HasSendResponse(q) == q.out \in {"frame", "sent"}

\* A compact response is not streamed: it is written when it is complete.
Observe(r, out) ==
  /\ req[r].pc = "up" /\ IF req[r].policy = "compact" THEN out = "sent" ELSE r \in Streamed
  /\ req[r].out \in (IF out = "sent" THEN Outputs \ {"sent"} ELSE {"none"})
  /\ Set(r, [req[r] EXCEPT !.out = out])
  /\ UNCHANGED <<lease, enabled, cap, faults>>

\* A health observation may or may not give the channel a new epoch.
Bumped(c, q, r) ==
  {[req EXCEPT ![r] = q]}
  \cup (IF faults < MaxFaults
        THEN {[s \in Requests |-> IF s = r THEN [q EXCEPT !.fresh = @ \ {c}]
                                  ELSE [req[s] EXCEPT !.fresh = @ \ {c}]]} ELSE {})
Report(c, q, r) ==
  \E next \in Bumped(c, q, r) :
    /\ req' = next
    /\ faults' = IF next = [req EXCEPT ![r] = q] THEN faults ELSE faults + 1

\* The handler returned no error: it has settled the bill, or left the
\* settlement to recovery.
HandlerSucceeds(r) ==
  /\ req[r].pc = "up"
  /\ \E out \in {req[r].out, "sent"}, bill \in {"settled", "pending"} :
       LET q == [req[r] EXCEPT !.out = out, !.bill = bill]
           failed == ~relayResponseCommitted(q) /\ (q.lost \/ bill = "pending")
       IN IF failed \/ bill = "pending" THEN Set(r, Finish(q, failed)) /\ UNCHANGED faults
          ELSE Report(Ch(r), Finish(q, FALSE), r)
  /\ UNCHANGED <<lease, enabled, cap>>

\* Nothing may follow what was written.
CanRouteFailover(q, class) == ~relayResponseCommitted(q) /\ Failoverable(class)

\* Mutant: an answered request ends with an error.
MutLostLease(q) == Finish(q, TRUE)

\* The lease was lost under a failed handler: what the client has got stands.
LostLease(q) == Finish(q, ~HasSendResponse(q))

\* compactRetryState.advance; the next attempt selects anew.
advance(p, class) ==
  LET q == [p EXCEPT !.list = <<>>, !.fresh = {}]
      model == q.stage = "exact" /\ class = "model"
      mayGoOn == ~relayResponseCommitted(q) /\ class # "input"
  IN IF mayGoOn /\ ~model /\ remainingAttempts(q) > 0 THEN [q EXCEPT !.pc = "retry"]
     ELSE IF (model \/ mayGoOn) /\ canSwitchToBase(q) THEN [switchToBase(q) EXCEPT !.pc = "retry"]
     ELSE Finish(q, TRUE)

\* What the loop does after an upstream error: stop, or wait and try on.
AfterError(q, class, gone) ==
  IF q.policy = "compact" /\ ~gone THEN advance(q, class)
  ELSE IF gone \/ ~CanRouteFailover(q, class) \/ NextCandidateForError(q, 2, class) = {}
  THEN Finish(q, TRUE)
  ELSE [From(q, Min(NextCandidateForError(q, 2, class))) EXCEPT !.pc = "retry"]

\* The handler failed.  A lost lease has cancelled the context, so neither the
\* observation nor another attempt can happen.  OaiResponsesCompactionHandler
\* has nothing left that could fail once it has written.
HandlerFails(r, class) ==
  LET q == req[r]
  IN /\ q.pc = "up" /\ (q.policy = "compact" => ~relayResponseCommitted(q))
     /\ IF q.lost
        THEN Set(r, LostLease(q)) /\ UNCHANGED faults
        ELSE \E gone \in BOOLEAN :
               IF class \in {"transient", "model"} /\ ~relayResponseCommitted(q) /\ ~gone
               THEN Report(Ch(r), AfterError(q, class, gone), r)
               ELSE Set(r, AfterError(q, class, gone)) /\ UNCHANGED faults
     /\ UNCHANGED <<lease, enabled, cap>>

-----------------------------------------------------------------------------
(* The renewal goroutine of a lease, and the release that stops it. *)

RenewBegin(r) ==
  /\ req[r].ren = "on" /\ req[r].age >= 1
  /\ Set(r, [req[r] EXCEPT !.ren = "call"])
  /\ UNCHANGED <<lease, enabled, cap, faults>>

Renewed(r) == IF Owned(r) THEN [lease EXCEPT ![r] = [@ EXCEPT !.member = TRUE, !.left = TTL]] ELSE lease

\* The first failure ends the goroutine and cancels the upstream call.
RenewRouteLease(r) ==
  /\ req[r].ren = "call"
  /\ Call(Renewed(r))
  /\ Set(r, IF faults' = faults /\ Owned(r) THEN [req[r] EXCEPT !.ren = "on", !.age = 0]
            ELSE [req[r] EXCEPT !.ren = "failed", !.lost = req[r].pc # "final", !.age = 0])
  /\ UNCHANGED <<enabled, cap>>

\* Stopping the goroutine cancels a renewal that is under way, which is
\* recorded like any other failure of a renewal.
Stopped(q) == {[q EXCEPT !.ren = "off"]}
              \cup (IF q.ren = "call" THEN {[q EXCEPT !.ren = "off", !.lost = TRUE]} ELSE {})

\* After the wait the loop releases the lease of the failed attempt.  It stops
\* when the renewal had failed, or when the wait was interrupted.
RetryRelease(r) ==
  /\ req[r].pc = "retry"
  /\ \/ req[r].policy # "compact" /\ Set(r, Finish(req[r], TRUE)) /\ UNCHANGED <<lease, faults>>
     \/ /\ Call(Released(r))
        /\ \E q \in Stopped(req[r]) :
             Set(r, IF q.lost THEN Finish(q, TRUE) ELSE [Reset(q) EXCEPT !.pc = "loop"])
  /\ UNCHANGED <<enabled, cap>>

\* The last deferred call: stop the renewal and release what is held.
EndRequest(r) ==
  /\ req[r].pc = "final"
  /\ IF req[r].ren = "off" THEN UNCHANGED <<lease, faults>> ELSE Call(Released(r))
  /\ Set(r, Idle)
  /\ UNCHANGED <<enabled, cap>>

-----------------------------------------------------------------------------
(* The environment. *)

\* The node stops: its requests and goroutines are gone, Redis is not.
Crash(r) ==
  /\ req[r].pc # "idle"
  /\ Set(r, Idle)
  /\ UNCHANGED <<lease, enabled, cap, faults>>

\* An administrator edits a channel: its status, or its capacity and ratio,
\* which the admission compares with what it read first.
Reconfigure(c) ==
  /\ faults < MaxFaults /\ faults' = faults + 1
  /\ \/ /\ cap' = [cap EXCEPT ![c] = 3 - @] /\ UNCHANGED enabled
        /\ req' = [r \in Requests |-> IF req[r].pc \in {"acquire", "recheck"} /\ Ch(r) = c
                                      THEN [req[r] EXCEPT !.steady = FALSE] ELSE req[r]]
     \/ enabled' = (enabled \ {c}) \cup ({c} \ enabled) /\ UNCHANGED <<req, cap>>
  /\ UNCHANGED lease

\* Admission and renewals are late by at most Slack.
OnTime(q) ==
  /\ q.pc = "recheck" => q.age < Slack
  /\ q.ren \in {"on", "call"} => q.age < 1 + Slack

Aged(l) == IF l.left <= 0 THEN None ELSE [l EXCEPT !.left = @ - 1]

Tick ==
  /\ \A r \in Requests : OnTime(req[r])
  /\ \E r \in Requests : lease[r].left >= 0
  /\ lease' = [r \in Requests |-> Aged(lease[r])]
  /\ req' = [r \in Requests |-> IF req[r].pc = "recheck" \/ req[r].ren \in {"on", "call"}
                                THEN [req[r] EXCEPT !.age = @ + 1] ELSE req[r]]
  /\ UNCHANGED <<enabled, cap, faults>>

Classes == {"transient", "key", "model", "input"}
Handler(r) == HandlerSucceeds(r) \/ \E class \in Classes : HandlerFails(r, class)
Admit(r) == \/ GetChannel(r) \/ GetCompactChannel(r) \/ AcquireRouteLease(r) \/ Recheck(r)
Renewal(r) == RenewBegin(r) \/ RenewRouteLease(r)

Next ==
  \/ \E r \in Requests :
       \/ Begin(r) \/ Admit(r) \/ Handler(r) \/ Renewal(r)
       \/ RetryRelease(r) \/ EndRequest(r) \/ Crash(r)
       \/ \E out \in Outputs \ {"none"} : Observe(r, out)
  \/ \E c \in Channels : Reconfigure(c)
  \/ Tick

Spec == Init /\ [][Next]_vars

-----------------------------------------------------------------------------
(* Properties. *)

(* capacity_total is the real concurrency of a channel: the requests that  *)
(* are upstream on it, and not cancelled, are never more than the capacity the last of them    *)
(* was admitted under, through expiry, renewal, lost replies and crashes.  *)
UpstreamWithinCapacity ==
  \A c \in Channels :
    LET up == {r \in Requests : req[r].pc = "up" /\ ~req[r].lost /\ Ch(r) = c}
    IN up # {} => Cardinality(up) <= Max({req[r].cap : r \in up})

(* A request never tries one key of a channel twice in the same stage, and *)
(* stays within the total, same-channel and failover budgets, whether its  *)
(* candidates come from the list or are selected anew.                     *)
AttemptBudgets ==
  \A r \in Requests : LET h == req[r].hist IN
    /\ Len(h) <= TotalAttempts /\ SameChannel(h) <= SameLimit /\ Failovers(h) <= FailoverLimit
    /\ \A i, j \in 1..Len(h) : i # j => h[i] # h[j]
    /\ StageAttempts(h, "exact") <= ExactBudget

(* After output was sent no second upstream call is made: two answers are  *)
(* never spliced together.                                                 *)
NoSecondResponse ==
  [][\A r \in Requests : req[r].out = "sent" /\ req'[r].pc = "up" => Len(req'[r].hist) = Len(req[r].hist)]_vars

(* What was delivered is not refunded because its lease was lost later.  A *)
(* handler that fails by itself after output is refunded: the client keeps *)
(* what it got and pays nothing for it.                                    *)
DeliveredNotRefunded ==
  [][\A r \in Requests : req[r].out = "sent" /\ req[r].lost /\ req'[r].bill = "refunded"
       => req[r].bill = "refunded"]_vars

(* After the first byte there is no second answer, in the list of a policy *)
(* or in the stages of a compact request, and a lease that is lost then    *)
(* does not give back what the answer costs.                               *)
AnswerIsFinal == NoSecondResponse /\ DeliveredNotRefunded

(* Not kept by the code, see the README.                                   *)
(* A request that ends without an error, and so keeps the quota it has     *)
(* reserved, without having settled has sent its client an answer.         *)
QuietEndWasAnswered ==
  [][\A r \in Requests : req[r].pc = "up" /\ req'[r].pc = "final" /\ req'[r].bill = "held"
       => req[r].out = "sent"]_vars

(* Every lap of the loop consumes something: a candidate of the list, the  *)
(* channels not yet filtered, or the exact stage; an attempt consumes one  *)
(* of the total.  So no request circles for ever, whatever fails.          *)
Rank(q) ==
  IF q.policy = "compact"
  THEN Cardinality(Channels \ q.filtered) + (IF q.stage = "exact" THEN Cardinality(Channels) + 1 ELSE 0)
  ELSE Len(q.list)
EveryLapConsumes ==
  [][\A r \in Requests :
       req'[r].pc = "loop" /\ req[r].pc \in {"loop", "acquire", "recheck"} /\ req'[r] # req[r]
         => Rank(req'[r]) < Rank(req[r]) \/ req'[r].fresh # req[r].fresh]_vars

(* The loop is bounded: what a request has tried stays within its budgets, *)
(* and what it has left to try shrinks with every lap.                     *)
AttemptsBounded == []AttemptBudgets /\ EveryLapConsumes
=============================================================================
