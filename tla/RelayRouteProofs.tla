--------------------------- MODULE RelayRouteProofs ---------------------------
(***************************************************************************)
(* Proof that the requests upstream on a channel stay within its capacity, *)
(* for any requests, channels, lease lifetime and slack: every request     *)
(* that was admitted and not cancelled has a live lease, and among any of  *)
(* them the last one admitted was counted against all the others.          *)
(*                                                                         *)
(* That the attempt loop is bounded, for any keys, policies and rankings:  *)
(* the channels left on the list of a request leave room in its budgets.   *)
(*                                                                         *)
(* And that the abilities and the marks of the keys of a channel follow    *)
(* its row, for any goroutines, operations and failed statements: the      *)
(* polling lock lets one of the writers that take it in at a time.         *)
(***************************************************************************)
EXTENDS RelayRoute, ChannelKeys, FiniteSetTheorems, SequenceTheorems, WellFoundedInduction, TLAPS

Fields == {"pc", "policy", "stage", "list", "key", "fresh", "steady", "filtered", "hist",
           "ren", "lost", "age", "cap", "out", "bill"}

\* A request between its admission and its end, a retry or its cancellation.
Active(r) == req[r].pc = "recheck" \/ (req[r].pc = "up" /\ ~req[r].lost)

\* Its lease covers the time that its next renewal may take.
Slot(r) ==
  /\ DOMAIN req[r] = Fields /\ req[r].age \in Nat
  /\ req[r].pc \in {"idle", "loop", "acquire", "recheck"} => req[r].ren = "off"
  /\ req[r].pc = "acquire" => Head(req[r].list) \in Channels
  /\ Active(r) => req[r].cap \in {1, 2} /\ lease[r].ch = Head(req[r].list) /\ lease[r].member
  /\ req[r].pc = "recheck" => lease[r].left + req[r].age >= TTL /\ req[r].age <= Slack
  /\ req[r].pc = "up" /\ ~req[r].lost =>
       /\ req[r].ren \in {"on", "call"}
       /\ lease[r].left + req[r].age >= TTL - Slack /\ req[r].age <= 1 + Slack

Leases ==
  /\ DOMAIN lease = Requests
  /\ \A r \in Requests : DOMAIN lease[r] = {"ch", "member", "left"} /\ lease[r].left \in Int

Settings ==
  /\ DOMAIN req = Requests /\ enabled \subseteq Channels
  /\ cap \in [Channels -> {1, 2}] /\ faults \in Nat

Admitted(c) == {r \in Requests : Active(r) /\ Head(req[r].list) = c}

\* Of any admitted requests, one was admitted under a capacity for all of them.
LastCounted ==
  \A c \in Channels : \A S \in SUBSET Admitted(c) :
    S # {} => \E r \in S : Cardinality(S) <= req[r].cap

RouteInv == Settings /\ Leases /\ (\A r \in Requests : Slot(r)) /\ LastCounted

-----------------------------------------------------------------------------
(* What the operators on a request make of it. *)

Row(q) == DOMAIN q = Fields /\ q.age \in Nat

\* A request that holds no slot.
Inactive(q) ==
  /\ Row(q) /\ q.pc \notin {"recheck", "up"}
  /\ q.pc \in {"idle", "loop", "acquire"} => q.ren = "off"
  /\ q.pc = "acquire" => Head(q.list) \in Channels

LEMMA IdleInactive == Inactive(Idle)
  BY DEF Fields, Inactive, Row, Idle

LEMMA FinishInactive ==
    ASSUME NEW q, Row(q), NEW e
    PROVE  Inactive(Finish(q, e))
  BY DEF Fields, Inactive, Row, Finish, Idle

LEMMA FailoverInactive ==
    ASSUME NEW q, Row(q), NEW gone, q.ren = "off"
    PROVE  Inactive(Failover(q, gone))
  BY FinishInactive DEF Fields, Inactive, Row, Failover, Reset

LEMMA PricedInactive ==
    ASSUME NEW q, Row(q), q.ren = "off", enabled \subseteq Channels, NEW n \in Priced(q)
    PROVE  Inactive(n)
  <1>1. CASE n = Finish(q, TRUE)
    BY <1>1, FinishInactive
  <1>2. CASE n = Failover(q, FALSE)
    BY <1>2, FailoverInactive
  <1>3. CASE GetRouteRuntimeState(q) /\ n = [q EXCEPT !.pc = "acquire", !.steady = TRUE]
    <2>1. Head(q.list) \in Channels
      BY <1>3 DEF GetRouteRuntimeState
    <2>2. Row(n) /\ n.pc = "acquire" /\ n.ren = q.ren /\ n.list = q.list
      BY <1>3 DEF Row, Fields
    <2> QED
      BY <2>1, <2>2 DEF Inactive
  <1> QED
    BY <1>1, <1>2, <1>3 DEF Priced

LEMMA FromRow ==
    ASSUME NEW q, Row(q), NEW i
    PROVE  Row(From(q, i)) /\ From(q, i).ren = q.ren /\ From(q, i).pc = q.pc
  BY DEF Row, Fields, From

LEMMA ChosenInactive ==
    ASSUME NEW q, Row(q), q.ren = "off", enabled \subseteq Channels,
           NEW n \in UNION {Priced(c) : c \in Chosen(q)}
    PROVE  Inactive(n)
  <1>1. PICK c \in Chosen(q) : n \in Priced(c)
    OBVIOUS
  <1>2. Row(c) /\ c.ren = "off"
    BY <1>1 DEF Chosen, Row, Fields
  <1> QED
    BY <1>1, <1>2, PricedInactive

LEMMA SwitchRow ==
    ASSUME NEW q, Row(q)
    PROVE  /\ Row(switchToBase(q)) /\ switchToBase(q).ren = q.ren /\ switchToBase(q).pc = "loop"
           /\ Inactive([switchToBase(q) EXCEPT !.pc = "retry"])
  BY DEF Row, Fields, switchToBase, Inactive

LEMMA AdvanceInactive ==
    ASSUME NEW p, Row(p), NEW class
    PROVE  Inactive(advance(p, class))
  <1> DEFINE q == [p EXCEPT !.list = <<>>, !.fresh = {}]
             retry == [q EXCEPT !.pc = "retry"]
             base == [switchToBase(q) EXCEPT !.pc = "retry"]
  <1>1. Row(q)
    BY DEF Row, Fields
  <1>2. Inactive(retry)
    BY DEF Row, Fields, Inactive
  <1>3. Inactive(base) /\ Inactive(Finish(q, TRUE))
    BY <1>1, SwitchRow, FinishInactive
  <1>4. advance(p, class) \in {Finish(q, TRUE), retry, base}
    BY DEF advance
  <1> QED
    BY <1>2, <1>3, <1>4

LEMMA AfterErrorInactive ==
    ASSUME NEW q, Row(q), NEW class, NEW gone
    PROVE  Inactive(AfterError(q, class, gone))
  <1> DEFINE next == From(q, Min(NextCandidateForError(q, 2, class)))
             retry == [next EXCEPT !.pc = "retry"]
  <1>1. Row(next)
    BY FromRow
  <1> HIDE DEF next
  <1>2. Inactive(retry)
    BY <1>1 DEF Row, Fields, Inactive
  <1>3. AfterError(q, class, gone) \in {advance(q, class), Finish(q, TRUE), retry}
    BY DEF AfterError, next
  <1> QED
    BY <1>2, <1>3, AdvanceInactive, FinishInactive

-----------------------------------------------------------------------------
(* Slots and leases. *)

\* An admitted request is live in Redis.
LEMMA ActiveIsLive ==
    ASSUME Leases, NEW r \in Requests, Slot(r), Active(r)
    PROVE  lease[r].left > 0 /\ Live(r, Head(req[r].list))
  <1>1. lease[r].left \in Int /\ req[r].age \in Nat /\ TTL \in Nat /\ Slack \in Nat /\ TTL > 2 * Slack + 1
    BY RelayRouteAssumption DEF Leases, Slot
  <1>2. lease[r].left > 0
    <2>1. CASE req[r].pc = "recheck"
      <3>1. lease[r].left + req[r].age >= TTL /\ req[r].age <= Slack
        BY <2>1 DEF Slot
      <3> QED
        BY <1>1, <3>1
    <2>2. CASE req[r].pc = "up" /\ ~req[r].lost
      <3>1. lease[r].left + req[r].age >= TTL - Slack /\ req[r].age <= 1 + Slack
        BY <2>2 DEF Slot
      <3> QED
        BY <1>1, <3>1
    <2> QED
      BY <2>1, <2>2 DEF Active
  <1> QED
    BY <1>2 DEF Live, Slot

\* What a step leaves alone of a request, as far as its slot goes.
Kept(r) ==
  /\ DOMAIN req'[r] = Fields
  /\ req'[r].pc = req[r].pc /\ req'[r].list = req[r].list /\ req'[r].ren = req[r].ren
  /\ req'[r].lost = req[r].lost /\ req'[r].age = req[r].age /\ req'[r].cap = req[r].cap

LEMMA KeptSlot ==
    ASSUME NEW r \in Requests, Slot(r), Kept(r), Active(r) => lease'[r] = lease[r]
    PROVE  Slot(r)'
  <1>1. Active(r)' <=> Active(r)
    BY DEF Active, Kept
  <1>2. req'[r].pc = "recheck" \/ (req'[r].pc = "up" /\ ~req'[r].lost) => lease'[r] = lease[r]
    BY <1>1 DEF Active
  <1> QED
    BY <1>1, <1>2 DEF Slot, Kept, Active

LEMMA InactiveSlot ==
    ASSUME NEW r \in Requests, Inactive(req'[r])
    PROVE  Slot(r)' /\ ~Active(r)'
  BY DEF Inactive, Row, Slot, Active

\* No request gains a slot.
LEMMA NobodyAdmitted ==
    ASSUME LastCounted,
           \A r \in Requests : Active(r)' =>
             Active(r) /\ req'[r].list = req[r].list /\ req'[r].cap = req[r].cap
    PROVE  LastCounted'
  <1> SUFFICES ASSUME NEW c \in Channels, NEW S \in SUBSET Admitted(c)', S # {}
               PROVE  \E r \in S : Cardinality(S) <= req'[r].cap
    BY DEF LastCounted
  <1>1. \A r \in S : r \in Requests /\ Active(r) /\ req'[r].list = req[r].list /\ req'[r].cap = req[r].cap
                     /\ Head(req[r].list) = c
    BY DEF Admitted
  <1>2. S \in SUBSET Admitted(c)
    BY <1>1 DEF Admitted
  <1>3. PICK r \in S : Cardinality(S) <= req[r].cap
    BY <1>2 DEF LastCounted
  <1> QED
    BY <1>1, <1>3

\* One request holds no slot after the step, the others keep what they have.
LEMMA InactiveStep ==
    ASSUME RouteInv, NEW r \in Requests, Settings', Leases', Inactive(req'[r]),
           \A s \in Requests \ {r} : Kept(s) /\ (Active(s) => lease'[s] = lease[s])
    PROVE  RouteInv'
  <1>1. ASSUME NEW s \in Requests  PROVE Slot(s)'
    BY KeptSlot, InactiveSlot DEF RouteInv
  <1>2. ~Active(r)'
    BY InactiveSlot
  <1>3. \A s \in Requests : Active(s)' =>
          Active(s) /\ req'[s].list = req[s].list /\ req'[s].cap = req[s].cap
    BY <1>2 DEF Kept, Active
  <1>4. LastCounted'
    BY <1>3, NobodyAdmitted DEF RouteInv
  <1> QED
    BY <1>1, <1>4 DEF RouteInv

\* One request keeps or loses its slot, the others keep what they have.
LEMMA SlotStep ==
    ASSUME RouteInv, NEW r \in Requests, Settings', Leases', Slot(r)',
           Active(r)' => Active(r) /\ req'[r].list = req[r].list /\ req'[r].cap = req[r].cap,
           \A s \in Requests \ {r} : Kept(s) /\ (Active(s) => lease'[s] = lease[s])
    PROVE  RouteInv'
  <1>1. ASSUME NEW s \in Requests  PROVE Slot(s)'
    BY KeptSlot DEF RouteInv
  <1>2. \A s \in Requests : Active(s)' =>
          Active(s) /\ req'[s].list = req[s].list /\ req'[s].cap = req[s].cap
    BY DEF Kept, Active
  <1>3. LastCounted'
    BY <1>2, NobodyAdmitted DEF RouteInv
  <1> QED
    BY <1>1, <1>3 DEF RouteInv

\* A step that sets one request leaves the others.
LEMMA SetKeeps ==
    ASSUME RouteInv, NEW r \in Requests, NEW rec, Set(r, rec)
    PROVE  /\ req'[r] = rec /\ DOMAIN req' = Requests
           /\ \A s \in Requests \ {r} : Kept(s)
  BY DEF RouteInv, Settings, Set, Kept, Slot

-----------------------------------------------------------------------------
(* The Redis calls. *)

LeaseFields == {"ch", "member", "left"}

LEMMA EvictKeeps ==
    ASSUME RouteInv, NEW c
    PROVE  /\ DOMAIN Evict(c) = Requests
           /\ \A s \in Requests :
                /\ DOMAIN Evict(c)[s] = LeaseFields /\ Evict(c)[s].left \in Int
                /\ Active(s) => Evict(c)[s] = lease[s]
  <1>1. DOMAIN Evict(c) = Requests
    BY DEF Evict
  <1>2. ASSUME NEW s \in Requests
        PROVE  /\ DOMAIN Evict(c)[s] = LeaseFields /\ Evict(c)[s].left \in Int
               /\ Active(s) => Evict(c)[s] = lease[s]
    <2>1. Evict(c)[s] = IF lease[s].ch = c /\ lease[s].left <= 0
                        THEN [lease[s] EXCEPT !.member = FALSE] ELSE lease[s]
      BY DEF Evict
    <2>2. DOMAIN lease[s] = LeaseFields /\ lease[s].left \in Int
      BY DEF RouteInv, Leases, LeaseFields
    <2>3. Active(s) => lease[s].left > 0
      BY ActiveIsLive DEF RouteInv
    <2> QED
      BY <2>1, <2>2, <2>3 DEF LeaseFields
  <1> QED
    BY <1>1, <1>2

\* A grant or a release changes no slot of another request.
LeaseStep(r, next) ==
  /\ DOMAIN next = Requests
  /\ \A s \in Requests : DOMAIN next[s] = LeaseFields /\ next[s].left \in Int
  /\ \A s \in Requests \ {r} : Active(s) => next[s] = lease[s]

LEMMA CallsAreLeaseSteps ==
    ASSUME RouteInv, NEW r \in Requests, NEW c
    PROVE  /\ LeaseStep(r, lease) /\ LeaseStep(r, Evict(c)) /\ LeaseStep(r, Granted(r, c))
           /\ LeaseStep(r, Released(r)) /\ LeaseStep(r, Renewed(r))
  <1>1. DOMAIN lease = Requests /\ \A s \in Requests : DOMAIN lease[s] = LeaseFields /\ lease[s].left \in Int
    BY DEF RouteInv, Leases, LeaseFields
  <1>2. LeaseStep(r, lease)
    BY <1>1 DEF LeaseStep
  <1>3. LeaseStep(r, Evict(c))
    BY EvictKeeps DEF LeaseStep
  <1>4. LeaseStep(r, Granted(r, c))
    <2> DEFINE new == [ch |-> c, member |-> TRUE, left |-> TTL]
    <2>1. DOMAIN new = LeaseFields /\ new.left \in Int
      BY RelayRouteAssumption DEF LeaseFields
    <2>2. Granted(r, c) = [Evict(c) EXCEPT ![r] = new]
      BY DEF Granted
    <2> HIDE DEF new
    <2> QED
      BY <2>1, <2>2, EvictKeeps DEF LeaseStep
  <1>5. LeaseStep(r, Released(r))
    <2>1. DOMAIN None = LeaseFields /\ None.left \in Int
      BY DEF None, LeaseFields
    <2> QED
      BY <1>1, <2>1 DEF LeaseStep, Released
  <1>6. LeaseStep(r, Renewed(r))
    <2> DEFINE new == [lease[r] EXCEPT !.member = TRUE, !.left = TTL]
    <2>1. DOMAIN new = LeaseFields /\ new.left \in Int
      BY <1>1, RelayRouteAssumption DEF LeaseFields
    <2>2. Renewed(r) = lease \/ Renewed(r) = [lease EXCEPT ![r] = new]
      BY DEF Renewed
    <2> HIDE DEF new
    <2> QED
      BY <1>1, <2>1, <2>2 DEF LeaseStep
  <1> QED
    BY <1>2, <1>3, <1>4, <1>5, <1>6

LEMMA CallKeeps ==
    ASSUME RouteInv, NEW r \in Requests, NEW effect, LeaseStep(r, effect), Call(effect)
    PROVE  /\ Leases' /\ faults' \in Nat
           /\ \A s \in Requests \ {r} : Active(s) => lease'[s] = lease[s]
  <1>1. LeaseStep(r, lease)
    BY CallsAreLeaseSteps
  <1>2. LeaseStep(r, lease')
    BY <1>1 DEF Call
  <1>3. faults' \in Nat
    BY DEF Call, RouteInv, Settings
  <1> QED
    BY <1>2, <1>3 DEF LeaseStep, Leases, LeaseFields

-----------------------------------------------------------------------------
(* The actions. *)

LEMMA InactiveSet ==
    ASSUME RouteInv, NEW r \in Requests, NEW rec, Set(r, rec), Inactive(rec), UNCHANGED <<enabled, cap>>,
           faults' \in Nat, Leases', \A s \in Requests \ {r} : Active(s) => lease'[s] = lease[s]
    PROVE  RouteInv'
  <1>1. req'[r] = rec /\ DOMAIN req' = Requests /\ \A s \in Requests \ {r} : Kept(s)
    BY SetKeeps
  <1>2. Settings'
    BY <1>1 DEF RouteInv, Settings
  <1> QED
    BY <1>1, <1>2, InactiveStep

LEMMA QuietInactiveSet ==
    ASSUME RouteInv, NEW r \in Requests, NEW rec, Set(r, rec), Inactive(rec),
           UNCHANGED <<lease, enabled, cap, faults>>
    PROVE  RouteInv'
  <1>1. faults' \in Nat /\ Leases'
    BY DEF RouteInv, Settings, Leases
  <1> QED
    BY <1>1, InactiveSet

LEMMA RowOf ==
    ASSUME RouteInv, NEW r \in Requests
    PROVE  Row(req[r]) /\ (req[r].pc \in {"loop", "acquire", "recheck"} => req[r].ren = "off") /\ enabled \subseteq Channels
  BY DEF RouteInv, Slot, Row, Settings

LEMMA BeginKeepsInv ==
    ASSUME RouteInv, NEW r \in Requests, Begin(r)
    PROVE  RouteInv'
  <1>1. PICK policy, stage, list, fresh :
          Set(r, [Idle EXCEPT !.pc = "loop", !.policy = policy, !.stage = stage, !.list = list, !.fresh = fresh])
    BY Zenon DEF Begin
  <1> DEFINE rec == [Idle EXCEPT !.pc = "loop", !.policy = policy, !.stage = stage, !.list = list, !.fresh = fresh]
  <1>2. Inactive(rec)
    BY DEF Inactive, Row, Fields, Idle
  <1>3. Set(r, rec)
    BY <1>1
  <1> HIDE DEF rec
  <1>4. UNCHANGED <<lease, enabled, cap, faults>>
    BY DEF Begin
  <1> QED
    BY <1>2, <1>3, <1>4, QuietInactiveSet

LEMMA GetChannelKeepsInv ==
    ASSUME RouteInv, NEW r \in Requests, GetChannel(r)
    PROVE  RouteInv'
  <1> DEFINE q == req[r]
             first == From(q, Min(Usable(q)))
  <1>1. Row(q) /\ q.ren = "off" /\ enabled \subseteq Channels
    BY RowOf DEF GetChannel
  <1>2. Row(first) /\ first.ren = "off"
    BY <1>1, FromRow
  <1>3. \/ Set(r, Finish(q, TRUE))
        \/ \E n \in UNION {Priced(c) : c \in Chosen(first)} : Set(r, n)
    BY DEF GetChannel
  <1> HIDE DEF q, first
  <1>4. \E n : Set(r, n) /\ Inactive(n)
    BY <1>1, <1>2, <1>3, FinishInactive, ChosenInactive
  <1>5. UNCHANGED <<lease, enabled, cap, faults>>
    BY DEF GetChannel
  <1> QED
    BY <1>4, <1>5, QuietInactiveSet

LEMMA GetCompactChannelKeepsInv ==
    ASSUME RouteInv, NEW r \in Requests, GetCompactChannel(r)
    PROVE  RouteInv'
  <1> DEFINE q == req[r]
             lost == IF canSwitchToBase(q) THEN switchToBase(q) ELSE Finish(q, TRUE)
             again(order) == [q EXCEPT !.list = selectedRouteAttemptCandidates(order), !.fresh = Channels]
             next(p) == IF p.hist = <<>> THEN {1} ELSE NextCandidateForError(p, 1, "transient")
  <1>1. Row(q) /\ q.ren = "off" /\ enabled \subseteq Channels
    BY RowOf DEF GetCompactChannel
  <1>2. \/ Set(r, Finish(q, TRUE)) \/ Set(r, lost)
        \/ \E order : \E n \in UNION {Priced(c) : c \in Chosen(From(again(order), Min(next(again(order)))))} : Set(r, n)
    BY Zenon DEF GetCompactChannel
  <1>3. Inactive(lost)
    <2>1. Inactive(switchToBase(q))
      <3>1. Row(switchToBase(q)) /\ switchToBase(q).ren = "off" /\ switchToBase(q).pc = "loop"
        BY <1>1, SwitchRow
      <3> QED
        BY <3>1 DEF Inactive
    <2>2. Inactive(Finish(q, TRUE))
      BY <1>1, FinishInactive
    <2> QED
      BY <2>1, <2>2
  <1>4. ASSUME NEW order  PROVE Row(again(order)) /\ again(order).ren = "off"
    BY <1>1 DEF Row, Fields
  <1> HIDE DEF q, lost, again, next
  <1>5. ASSUME NEW order, NEW n \in UNION {Priced(c) : c \in Chosen(From(again(order), Min(next(again(order)))))}
        PROVE  Inactive(n)
    <2>1. Row(From(again(order), Min(next(again(order))))) /\ From(again(order), Min(next(again(order)))).ren = "off"
      BY <1>4, FromRow
    <2> QED
      BY <1>1, <2>1, ChosenInactive
  <1>6. \E n : Set(r, n) /\ Inactive(n)
    BY <1>1, <1>2, <1>3, <1>5, FinishInactive
  <1>7. UNCHANGED <<lease, enabled, cap, faults>>
    BY DEF GetCompactChannel
  <1> QED
    BY <1>6, <1>7, QuietInactiveSet

\* The admission: the request is counted with all that are live.
LEMMA GrantKeepsInv ==
    ASSUME RouteInv, NEW r \in Requests, req[r].pc = "acquire", ~Owned(r), HasCapacity(Ch(r)),
           lease' = Granted(r, Ch(r)), UNCHANGED <<enabled, cap, faults>>,
           Set(r, [req[r] EXCEPT !.pc = "recheck", !.age = 0, !.cap = cap[Ch(r)]])
    PROVE  RouteInv'
  <1> DEFINE new == [req[r] EXCEPT !.pc = "recheck", !.age = 0, !.cap = cap[Ch(r)]]
  <1>1. PICK c \in Channels : c = Head(req[r].list) /\ c = Ch(r)
    BY DEF RouteInv, Slot, Ch
  <1>2. Row(req[r]) /\ req[r].ren = "off"
    BY RowOf
  <1>3. /\ new.pc = "recheck" /\ new.age = 0 /\ new.cap = cap[c] /\ new.list = req[r].list
        /\ new.ren = "off" /\ DOMAIN new = Fields
    BY <1>1, <1>2 DEF Row, Fields
  <1>4. Set(r, new)
    OBVIOUS
  <1> HIDE DEF new
  <1>5. req'[r] = new /\ DOMAIN req' = Requests /\ \A s \in Requests \ {r} : Kept(s)
    BY <1>4, SetKeeps
  <1>6. LeaseStep(r, lease')
    BY CallsAreLeaseSteps
  <1>7. lease'[r].ch = c /\ lease'[r].member /\ lease'[r].left = TTL
    <2>1. lease' = [Evict(c) EXCEPT ![r] = [ch |-> c, member |-> TRUE, left |-> TTL]]
      BY <1>1 DEF Granted
    <2>2. DOMAIN Evict(c) = Requests
      BY EvictKeeps
    <2> QED
      BY <2>1, <2>2
  <1>8. Leases'
    BY <1>6 DEF LeaseStep, Leases, LeaseFields
  <1>9. Settings'
    BY <1>5 DEF RouteInv, Settings
  <1>10. Slot(r)'
    <2>1. cap[c] \in {1, 2} /\ TTL \in Nat /\ Slack \in Nat
      BY RelayRouteAssumption DEF RouteInv, Settings
    <2> QED
      BY <1>1, <1>3, <1>5, <1>7, <2>1 DEF Slot, Active
  <1>11. ASSUME NEW s \in Requests  PROVE Slot(s)'
    BY <1>5, <1>6, <1>10, KeptSlot DEF LeaseStep, RouteInv
  <1>12. LastCounted'
    <2> SUFFICES ASSUME NEW d \in Channels, NEW S \in SUBSET Admitted(d)', S # {}
                 PROVE  \E s \in S : Cardinality(S) <= req'[s].cap
      BY DEF LastCounted
    <2>1. \A s \in S \ {r} : s \in Admitted(d) /\ req'[s].cap = req[s].cap
      BY <1>5 DEF Admitted, Active, Kept
    <2>2. CASE r \notin S
      <3>1. S \in SUBSET Admitted(d)
        BY <2>1, <2>2
      <3>2. PICK s \in S : Cardinality(S) <= req[s].cap
        BY <3>1 DEF RouteInv, LastCounted
      <3> QED
        BY <2>1, <2>2, <3>2
    <2>3. CASE r \in S
      <3> DEFINE L == {s \in Requests : Live(s, c)}
      <3>1. d = c
        BY <1>1, <1>3, <1>5, <2>3 DEF Admitted
      <3>2. S \ {r} \subseteq L
        <4>1. ASSUME NEW s \in S \ {r}  PROVE s \in Requests /\ Live(s, c)
          BY <2>1, <3>1, ActiveIsLive DEF Admitted, RouteInv
        <4> QED
          BY <4>1
      <3>3. IsFiniteSet(L) /\ IsFiniteSet(Requests)
        BY RelayRouteAssumption, FS_Subset
      <3>4. Cardinality(S \ {r}) <= Cardinality(L) /\ IsFiniteSet(S \ {r})
        BY <3>2, <3>3, FS_Subset
      <3>5. Cardinality(L) < cap[c]
        BY <1>1 DEF HasCapacity
      <3> HIDE DEF L
      <3>6. IsFiniteSet(S)
        <4>1. S \subseteq Requests
          BY DEF Admitted
        <4> QED
          BY <3>3, <4>1, FS_Subset
      <3>7. Cardinality(S \ {r}) = Cardinality(S) - 1
        BY <2>3, <3>6, FS_RemoveElement
      <3>8. Cardinality(S) \in Nat /\ Cardinality(L) \in Nat /\ cap[c] \in Int
        BY <3>3, <3>6, FS_CardinalityType DEF RouteInv, Settings
      <3>9. Cardinality(S) <= cap[c]
        BY <3>4, <3>5, <3>7, <3>8
      <3> QED
        BY <1>3, <1>5, <2>3, <3>9
    <2> QED
      BY <2>2, <2>3
  <1> QED
    BY <1>8, <1>9, <1>11, <1>12 DEF RouteInv

LEMMA AcquireKeepsInv ==
    ASSUME RouteInv, NEW r \in Requests, AcquireRouteLease(r)
    PROVE  RouteInv'
  <1>1. Row(req[r]) /\ req[r].ren = "off" /\ req[r].pc = "acquire" /\ UNCHANGED <<enabled, cap>>
    BY RowOf DEF AcquireRouteLease
  <1>2. CASE Set(r, Finish(req[r], TRUE)) /\ UNCHANGED <<lease, faults>>
    BY <1>1, <1>2, FinishInactive, QuietInactiveSet
  <1>3. CASE (\E gone \in BOOLEAN : Set(r, Failover(req[r], gone))) /\ lease' = Evict(Ch(r)) /\ UNCHANGED faults
    <2>1. PICK n : Set(r, n) /\ Inactive(n)
      BY <1>1, <1>3, FailoverInactive
    <2>2. LeaseStep(r, lease')
      BY <1>3, CallsAreLeaseSteps
    <2>3. Leases' /\ faults' \in Nat /\ \A s \in Requests \ {r} : Active(s) => lease'[s] = lease[s]
      BY <1>3, <2>2 DEF LeaseStep, Leases, LeaseFields, RouteInv, Settings
    <2> QED
      BY <1>1, <2>1, <2>3, InactiveSet
  <1>4. CASE /\ Ch(r) \in enabled /\ ~Owned(r) /\ HasCapacity(Ch(r))
             /\ Call(Granted(r, Ch(r)))
             /\ Set(r, IF faults' = faults THEN [req[r] EXCEPT !.pc = "recheck", !.age = 0, !.cap = cap[Ch(r)]]
                       ELSE Finish(req[r], TRUE))
    <2>1. CASE lease' = Granted(r, Ch(r)) /\ UNCHANGED faults
      BY <1>1, <1>4, <2>1, GrantKeepsInv
    <2>2. CASE faults' = faults + 1
      <3>1. faults' # faults
        BY <2>2 DEF RouteInv, Settings
      <3>2. Set(r, Finish(req[r], TRUE))
        BY <1>4, <3>1
      <3>3. Leases' /\ faults' \in Nat /\ \A s \in Requests \ {r} : Active(s) => lease'[s] = lease[s]
        BY <1>4, CallsAreLeaseSteps, CallKeeps
      <3> QED
        BY <1>1, <3>2, <3>3, FinishInactive, InactiveSet
    <2> QED
      BY <1>4, <2>1, <2>2 DEF Call
  <1> QED
    BY <1>1, <1>2, <1>3, <1>4 DEF AcquireRouteLease

LEMMA RecheckKeepsInv ==
    ASSUME RouteInv, NEW r \in Requests, Recheck(r)
    PROVE  RouteInv'
  <1>1. Row(req[r]) /\ req[r].ren = "off" /\ req[r].pc = "recheck" /\ UNCHANGED <<enabled, cap>>
    BY RowOf DEF Recheck
  <1>2. CASE Call(Released(r)) /\ \E n : Set(r, n) /\ Inactive(n)
    <2>1. Leases' /\ faults' \in Nat /\ \A s \in Requests \ {r} : Active(s) => lease'[s] = lease[s]
      BY <1>2, CallsAreLeaseSteps, CallKeeps
    <2> QED
      BY <1>1, <1>2, <2>1, InactiveSet
  <1>3. CASE /\ UNCHANGED <<lease, faults>>
             /\ \E p \in PrepareBilling([req[r] EXCEPT !.ren = "on", !.age = 0]) : Set(r, p)
    <2> DEFINE q == [req[r] EXCEPT !.ren = "on", !.age = 0]
               up == [q EXCEPT !.pc = "up", !.bill = "held", !.hist = Append(@, <<Head(q.list), q.key, q.stage>>)]
    <2>1. /\ DOMAIN q = Fields /\ q.age = 0 /\ q.ren = "on" /\ q.list = req[r].list /\ q.lost = req[r].lost
          /\ q.cap = req[r].cap
      BY <1>1 DEF Row, Fields
    <2>2. Set(r, Finish(q, TRUE)) \/ Set(r, up)
      BY <1>3 DEF PrepareBilling
    <2> HIDE DEF q
    <2>3. /\ DOMAIN up = Fields /\ up.age = 0 /\ up.ren = "on" /\ up.list = req[r].list /\ up.pc = "up"
          /\ up.lost = req[r].lost /\ up.cap = req[r].cap
      BY <2>1 DEF Fields
    <2> HIDE DEF up
    <2>4. CASE Set(r, Finish(q, TRUE))
      <3>1. Row(q)
        BY <2>1 DEF Row
      <3>2. Inactive(Finish(q, TRUE))
        BY <3>1, FinishInactive
      <3> QED
        BY <1>1, <1>3, <2>4, <3>2, QuietInactiveSet
    <2>5. CASE Set(r, up)
      <3>1. req'[r] = up /\ DOMAIN req' = Requests /\ \A s \in Requests \ {r} : Kept(s)
        BY <2>5, SetKeeps
      <3>2. Settings' /\ Leases'
        BY <1>1, <1>3, <3>1 DEF RouteInv, Settings, Leases
      <3>3. Slot(r)'
        <4>1. /\ req[r].cap \in {1, 2} /\ lease[r].ch = Head(req[r].list) /\ lease[r].member
              /\ lease[r].left + req[r].age >= TTL /\ req[r].age <= Slack
          BY <1>1 DEF RouteInv, Slot, Active
        <4>2. lease[r].left \in Int /\ req[r].age \in Nat /\ TTL \in Nat /\ Slack \in Nat
          BY <1>1, RelayRouteAssumption DEF RouteInv, Leases, Row
        <4>3. lease[r].left + 0 >= TTL - Slack /\ 0 <= 1 + Slack
          BY <4>1, <4>2
        <4> QED
          BY <1>3, <2>3, <3>1, <4>1, <4>3 DEF Slot, Active
      <3>4. Active(r) /\ req'[r].list = req[r].list /\ req'[r].cap = req[r].cap
        BY <1>1, <2>3, <3>1 DEF Active
      <3> QED
        BY <1>3, <3>1, <3>2, <3>3, <3>4, SlotStep
    <2> QED
      BY <2>2, <2>4, <2>5
  <1>4. ASSUME NEW gone  PROVE Inactive(Failover(req[r], gone)) /\ Inactive(Finish(req[r], TRUE))
    BY <1>1, FailoverInactive, FinishInactive
  <1> QED
    BY <1>2, <1>3, <1>4 DEF Recheck

LEMMA ObserveKeepsInv ==
    ASSUME RouteInv, NEW r \in Requests, NEW out, Observe(r, out)
    PROVE  RouteInv'
  <1> DEFINE new == [req[r] EXCEPT !.out = out]
  <1>1. Set(r, new) /\ UNCHANGED <<lease, enabled, cap, faults>>
    BY DEF Observe
  <1>2. /\ DOMAIN new = Fields /\ new.pc = req[r].pc /\ new.list = req[r].list /\ new.ren = req[r].ren
        /\ new.lost = req[r].lost /\ new.age = req[r].age /\ new.cap = req[r].cap
    BY RowOf DEF Row, Fields
  <1> HIDE DEF new
  <1>3. req'[r] = new /\ DOMAIN req' = Requests /\ \A s \in Requests \ {r} : Kept(s)
    BY <1>1, SetKeeps
  <1>4. Kept(r)
    BY <1>2, <1>3 DEF Kept
  <1>5. Slot(r)' /\ (Active(r)' => Active(r))
    BY <1>1, <1>4, KeptSlot DEF RouteInv, Active, Kept
  <1>6. Settings' /\ Leases'
    BY <1>1, <1>3 DEF RouteInv, Settings, Leases
  <1> QED
    BY <1>1, <1>3, <1>4, <1>5, <1>6, SlotStep DEF Kept

\* A health report takes a channel out of what others have read, no more.
LEMMA ReportKeepsInv ==
    ASSUME RouteInv, NEW r \in Requests, NEW c, NEW q, Inactive(q), Report(c, q, r),
           UNCHANGED <<lease, enabled, cap>>
    PROVE  RouteInv'
  <1>1. faults' \in Nat /\ Leases'
    BY DEF Report, RouteInv, Settings, Leases
  <1>2. CASE req' = [req EXCEPT ![r] = q]
    BY <1>1, <1>2, InactiveSet DEF Set
  <1>3. CASE req' = [s \in Requests |-> IF s = r THEN [q EXCEPT !.fresh = @ \ {c}]
                                        ELSE [req[s] EXCEPT !.fresh = @ \ {c}]]
    <2>1. ASSUME NEW s \in Requests \ {r}  PROVE Kept(s)
      <3>1. DOMAIN req[s] = Fields
        BY DEF RouteInv, Slot
      <3>2. req'[s] = [req[s] EXCEPT !.fresh = @ \ {c}]
        BY <1>3
      <3> QED
        BY <3>1, <3>2 DEF Kept, Fields
    <2>2. Inactive(req'[r])
      <3>1. req'[r] = [q EXCEPT !.fresh = @ \ {c}]
        BY <1>3
      <3> QED
        BY <3>1 DEF Inactive, Row, Fields
    <2>3. Settings'
      BY <1>1, <1>3 DEF RouteInv, Settings
    <2> QED
      BY <1>1, <2>1, <2>2, <2>3, InactiveStep
  <1> QED
    BY <1>2, <1>3 DEF Report, Bumped

LEMMA HandlerSucceedsKeepsInv ==
    ASSUME RouteInv, NEW r \in Requests, HandlerSucceeds(r)
    PROVE  RouteInv'
  <1>1. Row(req[r]) /\ UNCHANGED <<lease, enabled, cap>>
    BY RowOf DEF HandlerSucceeds
  <1>2. PICK out, bill :
          LET q == [req[r] EXCEPT !.out = out, !.bill = bill]
          IN \/ \E e : Set(r, Finish(q, e)) /\ UNCHANGED faults
             \/ Report(Ch(r), Finish(q, FALSE), r)
    BY Zenon DEF HandlerSucceeds
  <1> DEFINE q == [req[r] EXCEPT !.out = out, !.bill = bill]
  <1>3. Row(q)
    BY <1>1 DEF Row, Fields
  <1>4. (\E e : Set(r, Finish(q, e)) /\ UNCHANGED faults) \/ Report(Ch(r), Finish(q, FALSE), r)
    BY <1>2
  <1> HIDE DEF q
  <1> QED
    BY <1>1, <1>3, <1>4, FinishInactive, QuietInactiveSet, ReportKeepsInv

LEMMA HandlerFailsKeepsInv ==
    ASSUME RouteInv, NEW r \in Requests, NEW class, HandlerFails(r, class)
    PROVE  RouteInv'
  <1>1. Row(req[r]) /\ UNCHANGED <<lease, enabled, cap>>
    BY RowOf DEF HandlerFails
  <1>2. \/ \E e : Set(r, Finish(req[r], e)) /\ UNCHANGED faults
        \/ \E gone : Report(Ch(r), AfterError(req[r], class, gone), r)
        \/ \E gone : Set(r, AfterError(req[r], class, gone)) /\ UNCHANGED faults
    BY Zenon DEF HandlerFails, LostLease
  <1> QED
    BY <1>1, <1>2, FinishInactive, AfterErrorInactive, QuietInactiveSet, ReportKeepsInv

LEMMA RenewBeginKeepsInv ==
    ASSUME RouteInv, NEW r \in Requests, RenewBegin(r)
    PROVE  RouteInv'
  <1> DEFINE new == [req[r] EXCEPT !.ren = "call"]
  <1>1. Set(r, new) /\ UNCHANGED <<lease, enabled, cap, faults>> /\ req[r].ren = "on"
    BY DEF RenewBegin
  <1>2. /\ DOMAIN new = Fields /\ new.pc = req[r].pc /\ new.list = req[r].list /\ new.ren = "call"
        /\ new.lost = req[r].lost /\ new.age = req[r].age /\ new.cap = req[r].cap
    BY RowOf DEF Row, Fields
  <1> HIDE DEF new
  <1>3. req'[r] = new /\ DOMAIN req' = Requests /\ \A s \in Requests \ {r} : Kept(s)
    BY <1>1, SetKeeps
  <1>4. Settings' /\ Leases'
    BY <1>1, <1>3 DEF RouteInv, Settings, Leases
  <1>5. Slot(r)' /\ (Active(r)' => Active(r))
    BY <1>1, <1>2, <1>3 DEF RouteInv, Slot, Active
  <1> QED
    BY <1>1, <1>2, <1>3, <1>4, <1>5, SlotStep

LEMMA RenewKeepsInv ==
    ASSUME RouteInv, NEW r \in Requests, RenewRouteLease(r)
    PROVE  RouteInv'
  <1> DEFINE on == [req[r] EXCEPT !.ren = "on", !.age = 0]
             failed == [req[r] EXCEPT !.ren = "failed", !.lost = req[r].pc # "final", !.age = 0]
  <1>1. /\ req[r].ren = "call" /\ Call(Renewed(r)) /\ UNCHANGED <<enabled, cap>>
        /\ Set(r, IF faults' = faults /\ Owned(r) THEN on ELSE failed)
    BY DEF RenewRouteLease
  <1>2. Row(req[r]) /\ req[r].pc \notin {"idle", "loop", "acquire", "recheck"}
    BY <1>1 DEF RouteInv, Slot, Row
  <1>3. /\ DOMAIN on = Fields /\ on.pc = req[r].pc /\ on.list = req[r].list /\ on.ren = "on"
        /\ on.lost = req[r].lost /\ on.age = 0 /\ on.cap = req[r].cap
    BY <1>2 DEF Row, Fields
  <1>4. DOMAIN failed = Fields /\ failed.pc = req[r].pc /\ failed.age = 0 /\ (failed.pc = "up" => failed.lost)
    BY <1>2 DEF Row, Fields
  <1> HIDE DEF on, failed
  <1>5. Leases' /\ faults' \in Nat /\ \A s \in Requests \ {r} : Active(s) => lease'[s] = lease[s]
    BY <1>1, CallsAreLeaseSteps, CallKeeps
  <1>6. req'[r] \in {on, failed} /\ DOMAIN req' = Requests /\ \A s \in Requests \ {r} : Kept(s)
    BY <1>1, SetKeeps
  <1>7. Settings'
    BY <1>1, <1>5, <1>6 DEF RouteInv, Settings
  <1>8. CASE faults' = faults /\ Owned(r)
    <2>1. req'[r] = on
      BY <1>1, <1>8, SetKeeps
    <2>2. lease' = [lease EXCEPT ![r] = [@ EXCEPT !.member = TRUE, !.left = TTL]]
      <3>1. faults # faults + 1
        BY DEF RouteInv, Settings
      <3> QED
        BY <1>1, <1>8, <3>1 DEF Call, Renewed
    <2>3. lease'[r].ch = lease[r].ch /\ lease'[r].member /\ lease'[r].left = TTL
      BY <2>2 DEF RouteInv, Leases
    <2>4. TTL + 0 >= TTL - Slack /\ 0 <= 1 + Slack
      BY RelayRouteAssumption
    <2>5. Slot(r)' /\ (Active(r)' => Active(r))
      BY <1>2, <1>3, <2>1, <2>3, <2>4 DEF RouteInv, Slot, Active
    <2> QED
      BY <1>3, <1>5, <1>6, <1>7, <2>1, <2>5, SlotStep
  <1>9. CASE ~(faults' = faults /\ Owned(r))
    <2>1. req'[r] = failed
      BY <1>1, <1>9, SetKeeps
    <2>2. Slot(r)' /\ ~Active(r)'
      BY <1>2, <1>4, <2>1 DEF Slot, Active
    <2> QED
      BY <1>5, <1>6, <1>7, <2>2, SlotStep
  <1> QED
    BY <1>8, <1>9

LEMMA RetryReleaseKeepsInv ==
    ASSUME RouteInv, NEW r \in Requests, RetryRelease(r)
    PROVE  RouteInv'
  <1>1. Row(req[r]) /\ UNCHANGED <<enabled, cap>>
    BY RowOf DEF RetryRelease
  <1>2. CASE Set(r, Finish(req[r], TRUE)) /\ UNCHANGED <<lease, faults>>
    BY <1>1, <1>2, FinishInactive, QuietInactiveSet
  <1>3. CASE /\ Call(Released(r))
             /\ \E q \in Stopped(req[r]) :
                  Set(r, IF q.lost THEN Finish(q, TRUE) ELSE [Reset(q) EXCEPT !.pc = "loop"])
    <2>1. PICK q \in Stopped(req[r]) :
            Set(r, IF q.lost THEN Finish(q, TRUE) ELSE [Reset(q) EXCEPT !.pc = "loop"])
      BY <1>3
    <2>2. Row(q) /\ q.ren = "off"
      BY <1>1 DEF Stopped, Row, Fields
    <2>3. Inactive(Finish(q, TRUE))
      BY <2>2, FinishInactive
    <2>4. Inactive([Reset(q) EXCEPT !.pc = "loop"])
      BY <2>2 DEF Inactive, Row, Fields, Reset
    <2>5. Leases' /\ faults' \in Nat /\ \A s \in Requests \ {r} : Active(s) => lease'[s] = lease[s]
      BY <1>3, CallsAreLeaseSteps, CallKeeps
    <2>6. \E n : Set(r, n) /\ Inactive(n)
      BY <2>1, <2>3, <2>4
    <2> QED
      BY <1>1, <2>5, <2>6, InactiveSet
  <1> QED
    BY <1>2, <1>3 DEF RetryRelease

LEMMA EndKeepsInv ==
    ASSUME RouteInv, NEW r \in Requests, EndRequest(r) \/ Crash(r)
    PROVE  RouteInv'
  <1>1. Set(r, Idle) /\ UNCHANGED <<enabled, cap>>
    BY DEF EndRequest, Crash
  <1>2. CASE UNCHANGED <<lease, faults>>
    BY <1>1, <1>2, IdleInactive, QuietInactiveSet
  <1>3. CASE Call(Released(r))
    <2>1. Leases' /\ faults' \in Nat /\ \A s \in Requests \ {r} : Active(s) => lease'[s] = lease[s]
      BY <1>3, CallsAreLeaseSteps, CallKeeps
    <2> QED
      BY <1>1, <2>1, IdleInactive, InactiveSet
  <1> QED
    BY <1>2, <1>3 DEF EndRequest, Crash

LEMMA AllKeptStep ==
    ASSUME RouteInv, Settings', Leases', \A s \in Requests : Kept(s) /\ (Active(s) => lease'[s] = lease[s])
    PROVE  RouteInv'
  <1>1. ASSUME NEW s \in Requests  PROVE Slot(s)'
    BY KeptSlot DEF RouteInv
  <1>2. \A s \in Requests : Active(s)' =>
          Active(s) /\ req'[s].list = req[s].list /\ req'[s].cap = req[s].cap
    BY DEF Kept, Active
  <1> QED
    BY <1>1, <1>2, NobodyAdmitted DEF RouteInv

LEMMA ReconfigureKeepsInv ==
    ASSUME RouteInv, NEW c \in Channels, Reconfigure(c)
    PROVE  RouteInv'
  <1>1. UNCHANGED lease /\ faults' \in Nat /\ Leases'
    BY DEF Reconfigure, RouteInv, Settings, Leases
  <1>2. CASE /\ cap' = [cap EXCEPT ![c] = 3 - @] /\ UNCHANGED enabled
             /\ req' = [r \in Requests |-> IF req[r].pc \in {"acquire", "recheck"} /\ Ch(r) = c
                                           THEN [req[r] EXCEPT !.steady = FALSE] ELSE req[r]]
    <2>1. Settings'
      BY <1>1, <1>2 DEF RouteInv, Settings
    <2>2. ASSUME NEW s \in Requests  PROVE Kept(s)
      <3>1. DOMAIN req[s] = Fields
        BY DEF RouteInv, Slot
      <3>2. req'[s] = req[s] \/ req'[s] = [req[s] EXCEPT !.steady = FALSE]
        BY <1>2
      <3> QED
        BY <3>1, <3>2 DEF Kept, Fields
    <2> QED
      BY <1>1, <2>1, <2>2, AllKeptStep
  <1>3. CASE enabled' = (enabled \ {c}) \cup ({c} \ enabled) /\ UNCHANGED <<req, cap>>
    <2>1. Settings'
      BY <1>1, <1>3 DEF RouteInv, Settings
    <2>2. \A s \in Requests : Kept(s)
      BY <1>3 DEF Kept, RouteInv, Slot
    <2> QED
      BY <1>1, <2>1, <2>2, AllKeptStep
  <1> QED
    BY <1>2, <1>3 DEF Reconfigure

LEMMA TickKeepsInv ==
    ASSUME RouteInv, Tick
    PROVE  RouteInv'
  <1>1. /\ \A r \in Requests : OnTime(req[r])
        /\ lease' = [r \in Requests |-> Aged(lease[r])]
        /\ req' = [r \in Requests |-> IF req[r].pc = "recheck" \/ req[r].ren \in {"on", "call"}
                                      THEN [req[r] EXCEPT !.age = @ + 1] ELSE req[r]]
        /\ UNCHANGED <<enabled, cap, faults>>
    BY DEF Tick
  <1>2. ASSUME NEW r \in Requests
        PROVE  /\ DOMAIN req'[r] = Fields /\ req'[r].age \in Nat
               /\ req'[r].pc = req[r].pc /\ req'[r].list = req[r].list /\ req'[r].ren = req[r].ren
               /\ req'[r].lost = req[r].lost /\ req'[r].cap = req[r].cap
               /\ req[r].pc = "recheck" \/ req[r].ren \in {"on", "call"} => req'[r].age = req[r].age + 1
    <2>1. Row(req[r])
      BY RowOf
    <2>2. req[r].age + 1 \in Nat
      BY <2>1 DEF Row
    <2>3. CASE req[r].pc = "recheck" \/ req[r].ren \in {"on", "call"}
      <3>1. req'[r] = [req[r] EXCEPT !.age = @ + 1]
        BY <1>1, <2>3
      <3> QED
        BY <2>1, <2>2, <3>1 DEF Row, Fields
    <2>4. CASE ~(req[r].pc = "recheck" \/ req[r].ren \in {"on", "call"})
      <3>1. req'[r] = req[r]
        BY <1>1, <2>4
      <3> QED
        BY <2>1, <2>4, <3>1 DEF Row
    <2> QED
      BY <2>3, <2>4
  <1>3. ASSUME NEW r \in Requests
        PROVE  /\ DOMAIN lease'[r] = LeaseFields /\ lease'[r].left \in Int
               /\ lease[r].left > 0 =>
                    /\ lease'[r].ch = lease[r].ch /\ lease'[r].member = lease[r].member
                    /\ lease'[r].left = lease[r].left - 1
    <2>1. DOMAIN lease[r] = LeaseFields /\ lease[r].left \in Int /\ lease[r].left - 1 \in Int
      BY DEF RouteInv, Leases, LeaseFields
    <2>2. lease'[r] = Aged(lease[r])
      BY <1>1
    <2>3. DOMAIN None = LeaseFields /\ None.left \in Int
      BY DEF None, LeaseFields
    <2> QED
      BY <2>1, <2>2, <2>3 DEF Aged, LeaseFields
  <1>4. Leases'
    BY <1>1, <1>3 DEF Leases, LeaseFields
  <1>5. Settings'
    BY <1>1 DEF RouteInv, Settings
  <1>6. ASSUME NEW r \in Requests  PROVE Slot(r)'
    <2>1. Slot(r)
      BY DEF RouteInv
    <2>2. CASE ~Active(r)
      BY <1>2, <2>1, <2>2 DEF Slot, Active
    <2>3. CASE Active(r)
      <3> DEFINE l == lease[r].left  a == req[r].age  l1 == lease'[r].left  a1 == req'[r].age
      <3>1. lease[r].left > 0
        BY <2>1, <2>3, ActiveIsLive DEF RouteInv
      <3>2. req[r].pc = "recheck" \/ req[r].ren \in {"on", "call"}
        BY <2>1, <2>3 DEF Slot, Active
      <3>3. l1 = l - 1 /\ a1 = a + 1 /\ l \in Int /\ a \in Nat /\ TTL \in Nat /\ Slack \in Nat
        BY <1>2, <1>3, <2>1, <3>1, <3>2, RelayRouteAssumption DEF RouteInv, Leases, Slot
      <3>4. (req[r].pc = "recheck" => a < Slack) /\ (req[r].ren \in {"on", "call"} => a < 1 + Slack)
        BY <1>1 DEF OnTime
      <3>5. /\ req[r].pc = "recheck" => l + a >= TTL
            /\ req[r].pc = "up" /\ ~req[r].lost => req[r].ren \in {"on", "call"} /\ l + a >= TTL - Slack
        BY <2>1 DEF Slot
      <3> HIDE DEF l, a, l1, a1
      <3>6. /\ req[r].pc = "recheck" => l1 + a1 >= TTL /\ a1 <= Slack
            /\ req[r].pc = "up" /\ ~req[r].lost =>
                 req[r].ren \in {"on", "call"} /\ l1 + a1 >= TTL - Slack /\ a1 <= 1 + Slack
        BY <3>3, <3>4, <3>5
      <3> QED
        BY <1>2, <1>3, <2>1, <2>3, <3>1, <3>6 DEF Slot, Active, l1, a1
    <2> QED
      BY <2>2, <2>3
  <1>7. \A r \in Requests : Active(r)' =>
          Active(r) /\ req'[r].list = req[r].list /\ req'[r].cap = req[r].cap
    BY <1>2 DEF Active
  <1> QED
    BY <1>4, <1>5, <1>6, <1>7, NobodyAdmitted DEF RouteInv

LEMMA InitRoute == Init => RouteInv
  <1> SUFFICES ASSUME Init PROVE RouteInv
    OBVIOUS
  <1>1. \A r \in Requests : req[r] = Idle /\ lease[r] = None
    BY DEF Init
  <1>2. Settings
    BY DEF Init, Settings
  <1>3. Leases
    BY DEF Init, Leases, None
  <1>4. Inactive(Idle)
    BY IdleInactive
  <1>5. \A r \in Requests : Slot(r) /\ ~Active(r)
    BY <1>1, <1>4 DEF Slot, Active, Inactive, Row
  <1>6. LastCounted
    BY <1>5 DEF LastCounted, Admitted
  <1> QED
    BY <1>2, <1>3, <1>5, <1>6 DEF RouteInv

LEMMA NextKeepsRoute == RouteInv /\ [Next]_vars => RouteInv'
  <1> SUFFICES ASSUME RouteInv, [Next]_vars PROVE RouteInv'
    OBVIOUS
  <1>1. ASSUME NEW r \in Requests,
               \/ Begin(r) \/ Admit(r) \/ Handler(r) \/ Renewal(r)
               \/ RetryRelease(r) \/ EndRequest(r) \/ Crash(r)
               \/ \E out \in Outputs \ {"none"} : Observe(r, out)
        PROVE  RouteInv'
    <2>1. CASE Begin(r)
      BY <2>1, BeginKeepsInv
    <2>2. CASE Admit(r)
      BY <2>2, GetChannelKeepsInv, GetCompactChannelKeepsInv, AcquireKeepsInv, RecheckKeepsInv DEF Admit
    <2>3. CASE Handler(r)
      BY <2>3, HandlerSucceedsKeepsInv, HandlerFailsKeepsInv DEF Handler
    <2>4. CASE Renewal(r)
      BY <2>4, RenewBeginKeepsInv, RenewKeepsInv DEF Renewal
    <2>5. CASE RetryRelease(r)
      BY <2>5, RetryReleaseKeepsInv
    <2>6. CASE EndRequest(r) \/ Crash(r)
      BY <2>6, EndKeepsInv
    <2>7. CASE \E out \in Outputs \ {"none"} : Observe(r, out)
      BY <2>7, ObserveKeepsInv
    <2> QED
      BY <1>1, <2>1, <2>2, <2>3, <2>4, <2>5, <2>6, <2>7
  <1>2. ASSUME NEW c \in Channels, Reconfigure(c)  PROVE RouteInv'
    BY <1>2, ReconfigureKeepsInv
  <1>3. CASE Tick
    BY <1>3, TickKeepsInv
  <1>4. CASE UNCHANGED vars
    <2>1. UNCHANGED <<req, lease, enabled, cap, faults>>
      BY <1>4 DEF vars
    <2>2. Settings' /\ Leases'
      BY <2>1 DEF RouteInv, Settings, Leases
    <2>3. \A s \in Requests : Kept(s)
      BY <2>1 DEF Kept, RouteInv, Slot
    <2> QED
      BY <2>1, <2>2, <2>3, AllKeptStep
  <1> QED
    BY <1>1, <1>2, <1>3, <1>4 DEF Next

LEMMA InvBoundsUpstream == RouteInv => UpstreamWithinCapacity
  <1> SUFFICES ASSUME RouteInv, NEW c \in Channels,
                      NEW up, up = {r \in Requests : req[r].pc = "up" /\ ~req[r].lost /\ Ch(r) = c}, up # {}
               PROVE  Cardinality(up) <= Max({req[r].cap : r \in up})
    BY DEF UpstreamWithinCapacity
  <1> DEFINE caps == {req[r].cap : r \in up}
  <1>1. \A r \in up : r \in Requests /\ Active(r) /\ Head(req[r].list) = c
    BY DEF Active, Ch
  <1>2. up \in SUBSET Admitted(c)
    BY <1>1 DEF Admitted
  <1>3. PICK r \in up : Cardinality(up) <= req[r].cap
    BY <1>2 DEF RouteInv, LastCounted
  <1>4. caps \subseteq {1, 2} /\ req[r].cap \in caps
    BY <1>1 DEF RouteInv, Slot
  <1>5. IsFiniteSet(up) /\ Cardinality(up) \in Nat
    BY <1>1, RelayRouteAssumption, FS_Subset, FS_CardinalityType
  <1> HIDE DEF caps
  <1>6. Max(caps) \in caps /\ \A y \in caps : Max(caps) >= y
    <2>1. \E x \in caps : \A y \in caps : x >= y
      <3>1. CASE 2 \in caps
        BY <1>4, <3>1
      <3>2. CASE 2 \notin caps
        <4>1. 1 \in caps /\ \A y \in caps : y = 1
          BY <1>4, <3>2
        <4> QED
          BY <4>1
      <3> QED
        BY <3>1, <3>2
    <2> QED
      BY <2>1 DEF Max
  <1>7. Max(caps) >= req[r].cap /\ Max(caps) \in {1, 2} /\ req[r].cap \in {1, 2}
    BY <1>4, <1>6
  <1>8. Cardinality(up) <= Max(caps)
    BY <1>3, <1>5, <1>7
  <1> QED
    BY <1>8 DEF caps

(* capacity_total bounds what is really upstream: for any requests, channels *)
(* and faults, and any lease lifetime that outlasts an admission and a late  *)
(* renewal, the requests upstream on a channel and not cancelled are never   *)
(* more than the capacity that the last of them was admitted under           *)
(* (service/route_lease.go, controller/relay.go).                            *)
THEOREM CapacityIsKept == Spec => []UpstreamWithinCapacity
  <1>1. Init => RouteInv
    BY InitRoute
  <1>2. RouteInv /\ [Next]_vars => RouteInv'
    BY NextKeepsRoute
  <1>3. RouteInv => UpstreamWithinCapacity
    BY InvBoundsUpstream
  <1> QED
    BY <1>1, <1>2, <1>3, PTL DEF Spec

-----------------------------------------------------------------------------
(* One answer, which stays paid for. *)

\* Only an upstream call that is not a compact one has sent output.
Answer(q) ==
  /\ DOMAIN q = Fields
  /\ q.out = "sent" => q.pc = "up"

AnswerInv == DOMAIN req = Requests /\ \A r \in Requests : Answer(req[r])

\* What a step may do to a request.
StaysFinal(r) ==
  /\ req[r].out = "sent" /\ req'[r].pc = "up" => Len(req'[r].hist) = Len(req[r].hist)
  /\ req[r].out = "sent" /\ req[r].lost /\ req'[r].bill = "refunded" => req[r].bill = "refunded"

AnswerStep == AnswerInv' /\ \A r \in Requests : StaysFinal(r)

SameAnswer(r) ==
  /\ DOMAIN req'[r] = Fields
  /\ req'[r].pc = req[r].pc /\ req'[r].policy = req[r].policy /\ req'[r].out = req[r].out
  /\ req'[r].hist = req[r].hist /\ req'[r].bill = req[r].bill

Unsent(q) == DOMAIN q = Fields /\ q.out # "sent"

LEMMA FinishUnsent ==
    ASSUME NEW q, NEW e
    PROVE  Unsent(Finish(q, e)) /\ Finish(q, e).pc = "final"
  BY DEF Unsent, Fields, Finish, Idle

LEMMA FailoverUnsent ==
    ASSUME NEW q, Unsent(q), NEW gone
    PROVE  Unsent(Failover(q, gone))
  BY FinishUnsent DEF Unsent, Fields, Failover, Reset

LEMMA ChosenUnsent ==
    ASSUME NEW q, Unsent(q), NEW n \in UNION {Priced(c) : c \in Chosen(q)}
    PROVE  Unsent(n)
  <1>1. PICK c \in Chosen(q) : n \in Priced(c)
    OBVIOUS
  <1>2. Unsent(c)
    BY <1>1 DEF Chosen, Unsent, Fields
  <1>3. Unsent([c EXCEPT !.pc = "acquire", !.steady = TRUE])
    BY <1>2 DEF Unsent, Fields
  <1> QED
    BY <1>1, <1>2, <1>3, FinishUnsent, FailoverUnsent DEF Priced

LEMMA FromUnsent ==
    ASSUME NEW q, Unsent(q), NEW i
    PROVE  Unsent(From(q, i))
  BY DEF Unsent, Fields, From

LEMMA SwitchUnsent ==
    ASSUME NEW q, Unsent(q)
    PROVE  Unsent(switchToBase(q)) /\ Unsent([switchToBase(q) EXCEPT !.pc = "retry"])
  BY DEF Unsent, Fields, switchToBase

LEMMA SameAnswerStep ==
    ASSUME NEW r \in Requests, Answer(req[r]), SameAnswer(r)
    PROVE  Answer(req'[r]) /\ StaysFinal(r)
  BY DEF Answer, SameAnswer, StaysFinal

\* A request that has sent nothing goes on without having sent anything.
LEMMA UnsentStep ==
    ASSUME AnswerInv, NEW r \in Requests, Unsent(req[r]), NEW n, Set(r, n), Unsent(n)
    PROVE  AnswerStep
  <1>1. DOMAIN req' = Requests /\ req'[r] = n /\ \A s \in Requests \ {r} : SameAnswer(s)
    BY DEF AnswerInv, Answer, Set, SameAnswer
  <1>2. Answer(req'[r]) /\ StaysFinal(r)
    BY <1>1 DEF Answer, Unsent, StaysFinal
  <1> QED
    BY <1>1, <1>2, SameAnswerStep DEF AnswerStep, AnswerInv

LEMMA AdmitIsFinal ==
    ASSUME AnswerInv, NEW r \in Requests, Begin(r) \/ Admit(r) \/ RetryRelease(r)
    PROVE  AnswerStep
  <1>1. req[r].pc # "up" /\ Answer(req[r])
    BY DEF Begin, Admit, RetryRelease, GetChannel, GetCompactChannel, AcquireRouteLease, Recheck, AnswerInv
  <1> DEFINE q == req[r]
  <1>2. Unsent(q)
    BY <1>1 DEF Unsent, Answer
  <1>3. Unsent(Finish(q, TRUE)) /\ \A gone : Unsent(Failover(q, gone))
    BY <1>2, FinishUnsent, FailoverUnsent
  <1> SUFFICES \E n : Set(r, n) /\ Unsent(n)
    BY <1>2, UnsentStep
  <1>4. CASE Begin(r)
    <2>1. PICK policy, stage, list, fresh :
            Set(r, [Idle EXCEPT !.pc = "loop", !.policy = policy, !.stage = stage, !.list = list, !.fresh = fresh])
      BY <1>4, Zenon DEF Begin
    <2>2. Unsent([Idle EXCEPT !.pc = "loop", !.policy = policy, !.stage = stage, !.list = list, !.fresh = fresh])
      BY DEF Unsent, Fields, Idle
    <2> QED
      BY <2>1, <2>2, Zenon
  <1>5. CASE GetChannel(r)
    <2>1. \/ Set(r, Finish(q, TRUE))
          \/ \E n \in UNION {Priced(c) : c \in Chosen(From(q, Min(Usable(q))))} : Set(r, n)
      BY <1>5 DEF GetChannel
    <2>2. Unsent(From(q, Min(Usable(q))))
      BY <1>2, FromUnsent
    <2> HIDE DEF q
    <2> QED
      BY <1>3, <2>1, <2>2, ChosenUnsent
  <1>6. CASE GetCompactChannel(r)
    <2> DEFINE lost == IF canSwitchToBase(q) THEN switchToBase(q) ELSE Finish(q, TRUE)
               again(order) == [q EXCEPT !.list = selectedRouteAttemptCandidates(order), !.fresh = Channels]
               next(p) == IF p.hist = <<>> THEN {1} ELSE NextCandidateForError(p, 1, "transient")
               first(order) == From(again(order), Min(next(again(order))))
    <2>1. \/ Set(r, Finish(q, TRUE)) \/ Set(r, lost)
          \/ \E order : \E n \in UNION {Priced(c) : c \in Chosen(first(order))} : Set(r, n)
      BY <1>6, Zenon DEF GetCompactChannel
    <2>2. Unsent(lost)
      BY <1>2, <1>3, SwitchUnsent
    <2>3. ASSUME NEW order  PROVE Unsent(again(order))
      BY <1>2 DEF Unsent, Fields
    <2> HIDE DEF q, lost, again, next
    <2>4. ASSUME NEW order  PROVE Unsent(first(order))
      BY <2>3, FromUnsent
    <2> HIDE DEF first
    <2> QED
      BY <1>3, <2>1, <2>2, <2>4, ChosenUnsent
  <1>7. CASE AcquireRouteLease(r)
    <2>1. Unsent([q EXCEPT !.pc = "recheck", !.age = 0, !.cap = cap[Ch(r)]])
      BY <1>2 DEF Unsent, Fields
    <2>2. \/ Set(r, Finish(q, TRUE)) \/ \E gone : Set(r, Failover(q, gone))
          \/ Set(r, [q EXCEPT !.pc = "recheck", !.age = 0, !.cap = cap[Ch(r)]])
      BY <1>7 DEF AcquireRouteLease
    <2> HIDE DEF q
    <2> QED
      BY <1>3, <2>1, <2>2
  <1>8. CASE Recheck(r)
    <2> DEFINE on == [q EXCEPT !.ren = "on", !.age = 0]
               up == [on EXCEPT !.pc = "up", !.bill = "held", !.hist = Append(@, <<Head(on.list), on.key, on.stage>>)]
    <2>1. Unsent(on)
      BY <1>2 DEF Unsent, Fields
    <2>2. \/ Set(r, Finish(on, TRUE)) \/ Set(r, up)
          \/ Set(r, Finish(q, TRUE)) \/ \E gone : Set(r, Failover(q, gone))
      BY <1>8 DEF Recheck, PrepareBilling
    <2> HIDE DEF q, on
    <2>3. Unsent(up) /\ Unsent(Finish(on, TRUE))
      BY <2>1, FinishUnsent DEF Unsent, Fields
    <2> HIDE DEF up
    <2> QED
      BY <1>3, <2>2, <2>3
  <1>9. CASE RetryRelease(r)
    <2>1. \/ Set(r, Finish(q, TRUE))
          \/ \E p \in Stopped(q) : Set(r, IF p.lost THEN Finish(p, TRUE) ELSE [Reset(p) EXCEPT !.pc = "loop"])
      BY <1>9 DEF RetryRelease
    <2>2. ASSUME NEW p \in Stopped(q)  PROVE Unsent(Finish(p, TRUE)) /\ Unsent([Reset(p) EXCEPT !.pc = "loop"])
      <3>1. p = [q EXCEPT !.ren = "off"] \/ p = [q EXCEPT !.ren = "off", !.lost = TRUE]
        BY <2>2 DEF Stopped
      <3> HIDE DEF q
      <3>2. Unsent([q EXCEPT !.ren = "off"]) /\ Unsent([q EXCEPT !.ren = "off", !.lost = TRUE])
        BY <1>2 DEF Unsent, Fields
      <3>3. Unsent(p)
        BY <3>1, <3>2
      <3> QED
        BY <3>3, FinishUnsent DEF Unsent, Fields, Reset
    <2> HIDE DEF q
    <2> QED
      BY <1>3, <2>1, <2>2
  <1> QED
    BY <1>4, <1>5, <1>6, <1>7, <1>8, <1>9 DEF Admit

\* A request that ends or stops is final when what it had sent stays paid for.
LEMMA EndsFinal ==
    ASSUME AnswerInv, NEW r \in Requests, NEW n, Unsent(n), n.pc # "up",
           req[r].out = "sent" /\ req[r].lost => n.bill # "refunded" \/ req[r].bill = "refunded",
           req'[r].pc = n.pc, req'[r].out = n.out, req'[r].bill = n.bill, DOMAIN req'[r] = Fields,
           DOMAIN req' = Requests, \A s \in Requests \ {r} : SameAnswer(s)
    PROVE  AnswerStep
  <1>1. Answer(req'[r]) /\ StaysFinal(r)
    BY DEF Answer, Unsent, StaysFinal
  <1> QED
    BY <1>1, SameAnswerStep DEF AnswerStep, AnswerInv

LEMMA EndSetFinal ==
    ASSUME AnswerInv, NEW r \in Requests, NEW n, Unsent(n), n.pc # "up", Set(r, n),
           req[r].out = "sent" /\ req[r].lost => n.bill # "refunded" \/ req[r].bill = "refunded"
    PROVE  AnswerStep
  <1>1. DOMAIN req' = Requests /\ req'[r] = n /\ \A s \in Requests \ {r} : SameAnswer(s)
    BY DEF AnswerInv, Answer, Set, SameAnswer
  <1> QED
    BY <1>1, EndsFinal DEF Unsent

LEMMA ReportFinal ==
    ASSUME AnswerInv, NEW r \in Requests, NEW c, NEW n, Unsent(n), n.pc # "up", Report(c, n, r),
           req[r].out = "sent" /\ req[r].lost => n.bill # "refunded" \/ req[r].bill = "refunded"
    PROVE  AnswerStep
  <1>1. CASE req' = [req EXCEPT ![r] = n]
    BY <1>1, EndSetFinal DEF Set
  <1>2. CASE req' = [s \in Requests |-> IF s = r THEN [n EXCEPT !.fresh = @ \ {c}]
                                        ELSE [req[s] EXCEPT !.fresh = @ \ {c}]]
    <2>1. ASSUME NEW s \in Requests \ {r}  PROVE SameAnswer(s)
      <3>1. DOMAIN req[s] = Fields /\ req'[s] = [req[s] EXCEPT !.fresh = @ \ {c}]
        BY <1>2 DEF AnswerInv, Answer
      <3> QED
        BY <3>1 DEF SameAnswer, Fields
    <2>2. req'[r] = [n EXCEPT !.fresh = @ \ {c}] /\ DOMAIN req' = Requests
      BY <1>2
    <2>3. req'[r].pc = n.pc /\ req'[r].out = n.out /\ req'[r].bill = n.bill /\ DOMAIN req'[r] = Fields
      BY <2>2 DEF Unsent, Fields
    <2> QED
      BY <2>1, <2>2, <2>3, EndsFinal
  <1> QED
    BY <1>1, <1>2 DEF Report, Bumped

LEMMA SucceedsIsFinal ==
    ASSUME AnswerInv, NEW r \in Requests, HandlerSucceeds(r)
    PROVE  AnswerStep
  <1>1. PICK out \in {req[r].out, "sent"}, bill \in {"settled", "pending"} :
          LET q == [req[r] EXCEPT !.out = out, !.bill = bill]
              failed == ~relayResponseCommitted(q) /\ (q.lost \/ bill = "pending")
          IN IF failed \/ bill = "pending" THEN Set(r, Finish(q, failed)) /\ UNCHANGED faults
             ELSE Report(Ch(r), Finish(q, FALSE), r)
    BY DEF HandlerSucceeds
  <1> DEFINE q == [req[r] EXCEPT !.out = out, !.bill = bill]
             failed == ~relayResponseCommitted(q) /\ (q.lost \/ bill = "pending")
  <1>2. (Set(r, Finish(q, failed)) \/ Report(Ch(r), Finish(q, FALSE), r))
    BY <1>1
  <1>3. q.out = out /\ q.bill = bill
    BY DEF AnswerInv, Answer, Fields
  <1>4. \A e : Finish(q, e).bill \in {bill, "refunded"} /\ (~e => Finish(q, e).bill = bill)
    BY <1>3 DEF Finish, Idle
  <1>5. req[r].out = "sent" => ~failed
    BY <1>1, <1>3 DEF relayResponseCommitted
  <1>6. Unsent(Finish(q, failed)) /\ Finish(q, failed).pc # "up"
        /\ Unsent(Finish(q, FALSE)) /\ Finish(q, FALSE).pc # "up"
    BY FinishUnsent
  <1>7. req[r].out = "sent" => Finish(q, failed).bill = bill /\ bill # "refunded"
    BY <1>4, <1>5
  <1>8. Finish(q, FALSE).bill = bill /\ bill # "refunded"
    BY <1>4
  <1> HIDE DEF q, failed
  <1>9. CASE Set(r, Finish(q, failed))
    BY <1>6, <1>7, <1>9, EndSetFinal
  <1>10. CASE Report(Ch(r), Finish(q, FALSE), r)
    BY <1>6, <1>8, <1>10, ReportFinal
  <1> QED
    BY <1>2, <1>9, <1>10

LEMMA AfterErrorUnsent ==
    ASSUME NEW q, Answer(q), q.policy = "compact" => q.out # "sent", NEW class, NEW gone
    PROVE  Unsent(AfterError(q, class, gone)) /\ AfterError(q, class, gone).pc # "up"
  <1>1. CASE Unsent(q)
    <2> DEFINE p == [q EXCEPT !.list = <<>>, !.fresh = {}]
               retry == [p EXCEPT !.pc = "retry"]
               base == [switchToBase(p) EXCEPT !.pc = "retry"]
               next == From(q, Min(NextCandidateForError(q, 2, class)))
               again == [next EXCEPT !.pc = "retry"]
    <2>1. Unsent(p)
      BY <1>1 DEF Unsent, Fields
    <2>2. Unsent(retry) /\ retry.pc = "retry"
      BY <1>1 DEF Unsent, Fields
    <2>3. Unsent(base) /\ base.pc = "retry"
      <3> HIDE DEF p
      <3> QED
        BY <2>1 DEF Unsent, Fields, switchToBase
    <2>4. Unsent(again) /\ again.pc = "retry"
      <3>1. Unsent(next)
        BY <1>1, FromUnsent
      <3> HIDE DEF next
      <3> QED
        BY <3>1 DEF Unsent, Fields
    <2>5. AfterError(q, class, gone) \in {Finish(q, TRUE), Finish(p, TRUE), retry, base, again}
      BY DEF AfterError, advance
    <2> HIDE DEF p, retry, base, next, again
    <2> QED
      BY <2>2, <2>3, <2>4, <2>5, FinishUnsent
  <1>2. CASE ~Unsent(q)
    <2>1. q.out = "sent" /\ q.policy # "compact"
      BY <1>2 DEF Answer, Unsent
    <2>2. AfterError(q, class, gone) = Finish(q, TRUE)
      BY <2>1 DEF AfterError, CanRouteFailover, relayResponseCommitted
    <2> QED
      BY <2>2, FinishUnsent
  <1> QED
    BY <1>1, <1>2

LEMMA FailsIsFinal ==
    ASSUME AnswerInv, NEW r \in Requests, NEW class, HandlerFails(r, class)
    PROVE  AnswerStep
  <1>1. Answer(req[r]) /\ (req[r].policy = "compact" => req[r].out # "sent")
    BY DEF AnswerInv, HandlerFails, relayResponseCommitted
  <1>2. CASE req[r].lost /\ Set(r, LostLease(req[r]))
    <2>1. Unsent(LostLease(req[r])) /\ LostLease(req[r]).pc # "up"
      BY FinishUnsent DEF LostLease
    <2>2. req[r].out = "sent" => LostLease(req[r]).bill = req[r].bill
      BY DEF LostLease, Finish, Idle, HasSendResponse
    <2> QED
      BY <1>2, <2>1, <2>2, EndSetFinal
  <1>3. CASE /\ ~req[r].lost
             /\ \E gone : \/ Report(Ch(r), AfterError(req[r], class, gone), r)
                          \/ Set(r, AfterError(req[r], class, gone))
    <2>1. PICK gone : Report(Ch(r), AfterError(req[r], class, gone), r) \/ Set(r, AfterError(req[r], class, gone))
      BY <1>3
    <2>2. PICK n : n = AfterError(req[r], class, gone)
      OBVIOUS
    <2>3. Unsent(n) /\ n.pc # "up"
      BY <1>1, <2>2, AfterErrorUnsent
    <2> QED
      BY <1>3, <2>1, <2>2, <2>3, EndSetFinal, ReportFinal
  <1> QED
    BY <1>2, <1>3, Zenon DEF HandlerFails

LEMMA OtherIsFinal ==
    ASSUME AnswerInv, NEW r \in Requests,
           Renewal(r) \/ EndRequest(r) \/ Crash(r) \/ \E out \in Outputs \ {"none"} : Observe(r, out)
    PROVE  AnswerStep
  <1>1. Answer(req[r]) /\ DOMAIN req[r] = Fields
    BY DEF AnswerInv, Answer
  <1>2. CASE Renewal(r)
    <2>1. PICK new : Set(r, new) /\ \/ new = [req[r] EXCEPT !.ren = "call"]
                                    \/ new = [req[r] EXCEPT !.ren = "on", !.age = 0]
                                    \/ new = [req[r] EXCEPT !.ren = "failed", !.lost = req[r].pc # "final", !.age = 0]
      BY <1>2 DEF Renewal, RenewBegin, RenewRouteLease
    <2>2. /\ DOMAIN new = Fields /\ new.pc = req[r].pc /\ new.policy = req[r].policy /\ new.out = req[r].out
          /\ new.hist = req[r].hist /\ new.bill = req[r].bill
      BY <1>1, <2>1 DEF Fields
    <2>3. DOMAIN req' = Requests /\ req'[r] = new /\ \A s \in Requests \ {r} : SameAnswer(s)
      BY <2>1 DEF AnswerInv, Answer, Set, SameAnswer
    <2>4. SameAnswer(r)
      BY <2>2, <2>3 DEF SameAnswer
    <2> QED
      BY <2>3, <2>4, SameAnswerStep DEF AnswerStep, AnswerInv
  <1>3. CASE EndRequest(r) \/ Crash(r)
    <2>1. Set(r, Idle)
      BY <1>3 DEF EndRequest, Crash
    <2>2. Unsent(Idle) /\ Idle.pc # "up" /\ Idle.bill # "refunded"
      BY DEF Unsent, Fields, Idle
    <2> QED
      BY <2>1, <2>2, EndSetFinal
  <1>4. CASE \E out \in Outputs \ {"none"} : Observe(r, out)
    <2>1. PICK out : Set(r, [req[r] EXCEPT !.out = out]) /\ req[r].pc = "up"
      BY <1>4 DEF Observe
    <2> DEFINE new == [req[r] EXCEPT !.out = out]
    <2>2. /\ DOMAIN new = Fields /\ new.pc = req[r].pc /\ new.policy = req[r].policy
          /\ new.hist = req[r].hist /\ new.bill = req[r].bill
      BY <1>1 DEF Fields
    <2>3. Set(r, new)
      BY <2>1
    <2> HIDE DEF new
    <2>4. DOMAIN req' = Requests /\ req'[r] = new /\ \A s \in Requests \ {r} : SameAnswer(s)
      BY <2>3 DEF AnswerInv, Answer, Set, SameAnswer
    <2>5. Answer(req'[r]) /\ StaysFinal(r)
      BY <2>1, <2>2, <2>4 DEF Answer, StaysFinal
    <2> QED
      BY <2>4, <2>5, SameAnswerStep DEF AnswerStep, AnswerInv
  <1> QED
    BY <1>2, <1>3, <1>4

LEMMA EnvironmentIsFinal ==
    ASSUME AnswerInv, Tick \/ UNCHANGED vars \/ \E c \in Channels : Reconfigure(c)
    PROVE  AnswerStep
  <1>1. DOMAIN req' = Requests
    BY DEF AnswerInv, Tick, Reconfigure, vars
  <1>2. ASSUME NEW r \in Requests  PROVE SameAnswer(r)
    <2>1. DOMAIN req[r] = Fields
      BY DEF AnswerInv, Answer
    <2>2. req'[r] = req[r] \/ req'[r] = [req[r] EXCEPT !.age = @ + 1] \/ req'[r] = [req[r] EXCEPT !.steady = FALSE]
      BY DEF Tick, Reconfigure, vars
    <2> QED
      BY <2>1, <2>2 DEF SameAnswer, Fields
  <1> QED
    BY <1>1, <1>2, SameAnswerStep DEF AnswerStep, AnswerInv

LEMMA NextIsFinal == AnswerInv /\ [Next]_vars => AnswerStep
  <1> SUFFICES ASSUME AnswerInv, [Next]_vars PROVE AnswerStep
    OBVIOUS
  <1>1. ASSUME NEW r \in Requests, Begin(r) \/ Admit(r) \/ RetryRelease(r)  PROVE AnswerStep
    BY <1>1, AdmitIsFinal
  <1>2. ASSUME NEW r \in Requests, Handler(r)  PROVE AnswerStep
    BY <1>2, SucceedsIsFinal, FailsIsFinal DEF Handler
  <1>3. ASSUME NEW r \in Requests,
               Renewal(r) \/ EndRequest(r) \/ Crash(r) \/ \E out \in Outputs \ {"none"} : Observe(r, out)
        PROVE  AnswerStep
    BY <1>3, OtherIsFinal
  <1>4. CASE Tick \/ UNCHANGED vars \/ \E c \in Channels : Reconfigure(c)
    BY <1>4, EnvironmentIsFinal
  <1> QED
    BY <1>1, <1>2, <1>3, <1>4 DEF Next

LEMMA InitAnswers == Init => AnswerInv
  BY DEF Init, AnswerInv, Answer, Idle, Fields

(* After the first byte a request makes no second upstream call, and the     *)
(* loss of its lease does not refund what it delivered, however attempts,    *)
(* renewals, crashes and settings interleave (controller/relay.go, Relay and *)
(* its deferred refund).  An error of the handler itself, after output and   *)
(* with the lease held, is refunded by the code and not excluded here.       *)
THEOREM AnswersAreFinal == Spec => AnswerIsFinal
  <1>1. Init => AnswerInv
    BY InitAnswers
  <1>2. AnswerInv /\ [Next]_vars => AnswerInv'
    BY NextIsFinal DEF AnswerStep
  <1>3. AnswerInv /\ [Next]_vars =>
          /\ [\A r \in Requests : req[r].out = "sent" /\ req'[r].pc = "up" => Len(req'[r].hist) = Len(req[r].hist)]_vars
          /\ [\A r \in Requests : req[r].out = "sent" /\ req[r].lost /\ req'[r].bill = "refunded"
                => req[r].bill = "refunded"]_vars
    BY NextIsFinal DEF AnswerStep, StaysFinal
  <1> QED
    BY <1>1, <1>2, <1>3, PTL DEF Spec, AnswerIsFinal, NoSecondResponse, DeliveredNotRefunded

-----------------------------------------------------------------------------
(* The budgets of the attempts. *)

Attempts == Channels \X (UNION {Keys[c] : c \in Channels}) \X {"none", "exact", "base"}

Last1(h) == h[Len(h)][1]

\* The attempts of a channel follow each other.
Grouped(list) == \A i, j, k \in 1..Len(list) : i <= j /\ j <= k /\ list[i] = list[k] => list[j] = list[i]

\* The channels of the list that were not yet tried leave room for the failovers.
Room(h, list) ==
  /\ Grouped(list)
  /\ IF h = <<>> THEN Cardinality(Range(list)) <= 1 + FailoverLimit
     ELSE /\ Last1(h) \in Range(list) => Head(list) = Last1(h)
          /\ Failovers(h) + Cardinality(Range(list) \ {Last1(h)}) <= FailoverLimit

\* What a request has tried.
Spent(h) ==
  /\ Len(h) <= TotalAttempts /\ SameChannel(h) <= SameLimit
  /\ \A i, j \in 1..Len(h) : i # j => h[i] # h[j]
  /\ StageAttempts(h, "exact") <= ExactBudget

\* The budget that its next attempt, on channel c, needs.
MayGo(h, c) == h = <<>> \/ IF Last1(h) = c THEN SameChannel(h) < SameLimit ELSE Failovers(h) < FailoverLimit

\* Between two attempts.
Going == {"loop", "acquire", "recheck", "retry"}

\* The channel of the last attempt is on the list only if it may be tried again.
Retries(q) ==
  q.policy # "compact" /\ q.pc \in Going /\ q.hist # <<>> /\ Last1(q.hist) \in Range(q.list)
    => SameChannel(q.hist) < SameLimit

\* A request is a record with these fields.
Record(q) == DOMAIN q = Fields /\ q = [x \in Fields |-> q[x]]

Base(q) ==
  /\ Record(q) /\ q.hist \in Seq(Attempts) /\ q.list \in Seq(Channels) /\ q.stage \in {"none", "exact", "base"}
  /\ Spent(q.hist) /\ (q.stage = "exact" => q.policy = "compact")
  /\ q.stage = "exact" /\ q.pc \in Going => StageAttempts(q.hist, "exact") < ExactBudget
  /\ Retries(q)
  /\ IF q.policy = "compact" THEN Failovers(q.hist) <= FailoverLimit ELSE Room(q.hist, q.list)

\* Its candidate may be tried.
Fit(q) ==
  /\ q.list # <<>> /\ Len(q.hist) < TotalAttempts
  /\ q.key \in Keys[Head(q.list)] \ Tried(q.hist, Head(q.list), q.stage)
  /\ q.policy = "compact" => Head(q.list) \notin q.filtered /\ MayGo(q.hist, Head(q.list))

Budget(q) == Base(q) /\ (q.pc \in {"acquire", "recheck"} => Fit(q))

BudgetInv == DOMAIN req = Requests /\ \A r \in Requests : Budget(req[r])

LEMMA MinIn ==
    ASSUME NEW S, S \subseteq Nat, S # {}
    PROVE  Min(S) \in S /\ \A y \in S : Min(S) <= y
  <1> DEFINE R == {ss \in Nat \X Nat : ss[1] < ss[2]}
  <1>1. PICK x \in S : \A y \in S : ~(<<y, x>> \in R)
    <2> HIDE DEF R
    <2>1. IsWellFoundedOn(R, Nat)
      BY NatLessThanWellFounded DEF R, OpToRel
    <2> QED
      BY <2>1, WFMin
  <1>2. \A y \in S : x <= y
    <2> TAKE y \in S
    <2>1. ~(y < x)
      BY <1>1
    <2> QED
      BY <2>1
  <1>3. \E z \in S : \A y \in S : z <= y
    BY <1>2
  <1> QED
    BY <1>3, Zenon DEF Min

\* What is left of a list from a position on.
IsRest(s, list, i) ==
  /\ s \in Seq(Channels) /\ s # <<>> /\ Head(s) = list[i] /\ Len(s) = Len(list) - i + 1
  /\ \A k \in 1..Len(s) : s[k] = list[i + k - 1] /\ i + k - 1 \in 1..Len(list)
  /\ Range(s) \subseteq Range(list)

LEMMA SuffixIs ==
    ASSUME NEW list \in Seq(Channels), NEW i \in 1..Len(list)
    PROVE  IsRest(SubSeq(list, i, Len(list)), list, i)
  <1>0. PICK s : s = SubSeq(list, i, Len(list))
    OBVIOUS
  <1>1. s \in Seq(Channels) /\ Len(s) = Len(list) - i + 1 /\ \A k \in 1..Len(s) : s[k] = list[i + k - 1]
    BY <1>0, SubSeqProperties
  <1>2. \A k \in 1..Len(s) : i + k - 1 \in 1..Len(list)
    BY <1>1
  <1>3. s # <<>> /\ 1 \in 1..Len(s) /\ Head(s) = s[1]
    BY <1>1
  <1>4. DOMAIN s = 1..Len(s) /\ DOMAIN list = 1..Len(list)
    BY <1>1
  <1>5. Range(s) \subseteq Range(list)
    BY <1>1, <1>2, <1>4 DEF Range
  <1>6. IsRest(s, list, i)
    BY <1>1, <1>2, <1>3, <1>5 DEF IsRest
  <1> QED
    BY <1>0, <1>6

LEMMA RangeFinite ==
    ASSUME NEW list \in Seq(Channels)
    PROVE  /\ Range(list) \subseteq Channels /\ IsFiniteSet(Range(list)) /\ Range(list) = {list[i] : i \in 1..Len(list)}
           /\ \A x : IsFiniteSet(Range(list) \ {x}) /\ Cardinality(Range(list) \ {x}) \in Nat
  <1>1. DOMAIN list = 1..Len(list)
    OBVIOUS
  <1>2. Range(list) \subseteq Channels
    BY <1>1 DEF Range
  <1>3. IsFiniteSet(Range(list))
    BY <1>2, FS_Subset, RelayRouteAssumption
  <1>4. \A x : IsFiniteSet(Range(list) \ {x}) /\ Cardinality(Range(list) \ {x}) \in Nat
    <2> TAKE x
    <2>1. Range(list) \ {x} \subseteq Range(list)
      OBVIOUS
    <2> QED
      BY <1>3, <2>1, FS_Subset, FS_CardinalityType
  <1> QED
    BY <1>1, <1>2, <1>3, <1>4 DEF Range

LEMMA FailoversType ==
    ASSUME NEW h \in Seq(Attempts)
    PROVE  Failovers(h) \in Nat /\ SameChannel(h) \in Nat /\ StageAttempts(h, "exact") \in Nat
  <1>1. IsFiniteSet(1..Len(h)) /\ IsFiniteSet(2..Len(h))
    BY FS_Interval
  <1>2. /\ {i \in Pairs(h) : h[i][1] # h[i - 1][1]} \subseteq 2..Len(h)
        /\ {i \in Pairs(h) : h[i][1] = h[i - 1][1] /\ h[i][2] # h[i - 1][2]} \subseteq 2..Len(h)
        /\ {i \in 1..Len(h) : h[i][3] = "exact"} \subseteq 1..Len(h)
    BY DEF Pairs
  <1> QED
    BY <1>1, <1>2, FS_Subset, FS_CardinalityType DEF Failovers, SameChannel, StageAttempts

LEMMA RoomSuffix ==
    ASSUME NEW h \in Seq(Attempts), NEW list \in Seq(Channels), Room(h, list), NEW i \in 1..Len(list),
           NEW s, IsRest(s, list, i)
    PROVE  Room(h, s)
  <1>1. /\ s \in Seq(Channels) /\ Head(s) = list[i] /\ Len(s) = Len(list) - i + 1
        /\ \A k \in 1..Len(s) : s[k] = list[i + k - 1] /\ i + k - 1 \in 1..Len(list)
        /\ Range(s) \subseteq Range(list) /\ s # <<>>
    BY DEF IsRest
  <1>2. Grouped(list)
    BY DEF Room
  <1>3. Grouped(s)
    <2> SUFFICES ASSUME NEW a \in 1..Len(s), NEW b \in 1..Len(s), NEW c \in 1..Len(s), a <= b, b <= c, s[a] = s[c]
                 PROVE  s[b] = s[a]
      BY DEF Grouped
    <2>1. PICK x, y, z : x = i + a - 1 /\ y = i + b - 1 /\ z = i + c - 1
      OBVIOUS
    <2>2. x <= y /\ y <= z
      BY <2>1
    <2>3. x \in 1..Len(list) /\ y \in 1..Len(list) /\ z \in 1..Len(list) /\ s[a] = list[x] /\ s[b] = list[y] /\ s[c] = list[z]
      BY <1>1, <2>1
    <2>4. list[x] = list[z]
      BY <2>3
    <2>5. list[y] = list[x]
      BY ONLY <1>2, <2>2, <2>3, <2>4 DEF Grouped
    <2> QED
      BY <2>3, <2>5
  <1>4. \A x : Cardinality(Range(s) \ {x}) <= Cardinality(Range(list) \ {x})
    <2> TAKE x
    <2>1. Range(s) \ {x} \subseteq Range(list) \ {x}
      BY <1>1
    <2> QED
      BY <2>1, RangeFinite, FS_Subset
  <1>5. Cardinality(Range(s)) <= Cardinality(Range(list)) /\ Cardinality(Range(s)) \in Nat /\ Cardinality(Range(list)) \in Nat
    BY <1>1, RangeFinite, FS_Subset, FS_CardinalityType
  <1>6. CASE h = <<>>
    BY <1>3, <1>5, <1>6 DEF Room, FailoverLimit
  <1>7. CASE h # <<>>
    <2>0. PICK x : x = Last1(h)
      OBVIOUS
    <2>1. ASSUME x \in Range(s) PROVE Head(s) = x
      <3>1. x \in Range(list) /\ Head(list) = x /\ Head(list) = list[1] /\ 1 \in 1..Len(list)
        BY <1>1, <1>7, <2>0, <2>1 DEF Room
      <3>2. PICK k \in 1..Len(s) : s[k] = x
        BY <1>1, <2>1, RangeFinite
      <3>3. list[i + k - 1] = list[1] /\ 1 <= i /\ i <= i + k - 1 /\ i + k - 1 \in 1..Len(list)
        BY <1>1, <3>1, <3>2
      <3>4. list[i] = list[1]
        BY <1>2, <3>1, <3>3 DEF Grouped
      <3> QED
        BY <1>1, <3>1, <3>4
    <2>2. PICK f, n, m : f = Failovers(h) /\ n = Cardinality(Range(s) \ {x}) /\ m = Cardinality(Range(list) \ {x})
      OBVIOUS
    <2>3. f \in Nat /\ n \in Nat /\ m \in Nat /\ n <= m /\ f + m <= FailoverLimit
      BY <1>1, <1>4, <1>7, <2>0, <2>2, RangeFinite, FailoversType DEF Room
    <2>4. f + n <= FailoverLimit
      BY <2>3 DEF FailoverLimit
    <2> QED
      BY <1>3, <1>7, <2>0, <2>1, <2>2, <2>4 DEF Room
  <1> QED
    BY <1>6, <1>7

-----------------------------------------------------------------------------
(* The lists that a selection makes. *)

\* A ranking of at most three different channels of a set.
Ordered(o, E) ==
  /\ o \in Seq(E) /\ Len(o) <= 1 + FailoverLimit /\ (E # {} => o # <<>>)
  /\ \A i, j \in 1..Len(o) : o[i] = o[j] => i = j

LEMMA PrefixOrdered ==
    ASSUME NEW E, NEW o, Ordered(o, E), NEW n \in Nat \ {0}
    PROVE  Ordered(Prefix(o, n), E)
  <1>1. PICK m : m = IF n < Len(o) THEN n ELSE Len(o)
    OBVIOUS
  <1>2. o \in Seq(E) /\ Len(o) \in Nat /\ m \in Nat /\ m <= Len(o) /\ (Len(o) # 0 => m # 0)
    BY <1>1 DEF Ordered
  <1>3. PICK p : p = SubSeq(o, 1, m)
    OBVIOUS
  <1>4. p \in Seq(E) /\ Len(p) = m /\ \A i \in 1..m : p[i] = o[i]
    BY <1>2, <1>3, SubSeqProperties
  <1>5. Len(p) <= 1 + FailoverLimit
    BY <1>2, <1>4 DEF Ordered, FailoverLimit
  <1>6. E # {} => p # <<>>
    BY <1>2, <1>4 DEF Ordered
  <1>7. \A i, j \in 1..Len(p) : p[i] = p[j] => i = j
    BY <1>2, <1>4 DEF Ordered
  <1>8. Ordered(p, E)
    BY <1>4, <1>5, <1>6, <1>7 DEF Ordered
  <1> QED
    BY <1>1, <1>3, <1>8 DEF Prefix

LEMMA RankingOrdered ==
    ASSUME NEW E, E \subseteq Channels, NEW o \in Rankings(E)
    PROVE  Ordered(o, E)
  <1>1. PICK s \in SetToSeqs(E) : o = Prefix(s, TopK)
    BY DEF Rankings
  <1>2. PICK c : c = Cardinality(E)
    OBVIOUS
  <1>3. c \in Nat /\ IsFiniteSet(E)
    BY <1>2, FS_Subset, FS_CardinalityType, RelayRouteAssumption
  <1>4. s \in [1..c -> E] /\ \A i, j \in 1..c : i # j => s[i] # s[j]
    BY <1>2 DEF SetToSeqs
  <1>5. s \in Seq(E) /\ Len(s) = c
    BY <1>3, <1>4
  <1>6. E # {} => c # 0
    BY <1>2, <1>3, FS_EmptySet
  <1>7. PICK m : m = IF 3 < c THEN 3 ELSE c
    OBVIOUS
  <1>8. m \in Nat /\ m <= c /\ m <= 3 /\ (c # 0 => m # 0)
    BY <1>3, <1>7
  <1>9. o = SubSeq(s, 1, m)
    BY <1>1, <1>5, <1>7 DEF Prefix, TopK
  <1>10. o \in Seq(E) /\ Len(o) = m /\ \A i \in 1..m : o[i] = s[i]
    BY <1>5, <1>8, <1>9, SubSeqProperties
  <1>11. E # {} => o # <<>>
    BY <1>6, <1>8, <1>10
  <1>12. \A i, j \in 1..Len(o) : o[i] = o[j] => i = j
    BY <1>3, <1>4, <1>8, <1>10
  <1> QED
    BY <1>8, <1>10, <1>11, <1>12 DEF Ordered, FailoverLimit

LEMMA RangeBound ==
    ASSUME NEW o, Ordered(o, Channels)
    PROVE  Cardinality(Range(o)) <= 1 + FailoverLimit
  <1>1. o \in Seq(Channels) /\ Len(o) \in Nat
    BY DEF Ordered
  <1>2. o \in Surjection(1..Len(o), Range(o))
    BY <1>1, RangeFinite DEF Surjection
  <1>3. ExistsSurjection(1..Len(o), Range(o))
    BY <1>2 DEF ExistsSurjection
  <1>4. Cardinality(Range(o)) <= Len(o)
    BY <1>1, <1>3, FS_SurjCardinalityBound
  <1>5. Cardinality(Range(o)) \in Nat
    BY <1>1, RangeFinite, FS_CardinalityType
  <1> QED
    BY <1>1, <1>4, <1>5 DEF Ordered, FailoverLimit

LEMMA OrderedWithin ==
    ASSUME NEW E, E \subseteq Channels, E # {}, NEW o, Ordered(o, E)
    PROVE  Ordered(o, Channels) /\ o \in Seq(E)
  <1>1. o \in Seq(E) /\ o # <<>>
    BY DEF Ordered
  <1>2. o \in Seq(Channels)
    BY <1>1
  <1> QED
    BY <1>1, <1>2 DEF Ordered

LEMMA OrderedRoom ==
    ASSUME NEW o, Ordered(o, Channels)
    PROVE  o \in Seq(Channels) /\ Room(<<>>, o)
  <1>1. o \in Seq(Channels) /\ \A i, j \in 1..Len(o) : o[i] = o[j] => i = j
    BY DEF Ordered
  <1>2. Grouped(o)
    <2> SUFFICES ASSUME NEW i \in 1..Len(o), NEW j \in 1..Len(o), NEW k \in 1..Len(o), i <= j, j <= k, o[i] = o[k]
                 PROVE  o[j] = o[i]
      BY DEF Grouped
    <2>1. i = k
      BY <1>1
    <2>2. i = j
      BY <2>1
    <2> QED
      BY <2>2
  <1> QED
    BY <1>1, <1>2, RangeBound DEF Room

\* Every channel twice in a row.
LEMMA RepeatIs ==
    ASSUME NEW E, NEW o \in Seq(E), NEW d, d = Repeat(o, 1 + SameLimit)
    PROVE  /\ d \in Seq(E) /\ Len(d) = 2 * Len(o) /\ DOMAIN d = 1..Len(d)
           /\ \A i \in 1..Len(d) : \E k \in 1..Len(o) : d[i] = o[k] /\ (i = 2 * k \/ i = 2 * k - 1)
  <1>1. PICK n \in Nat : n = Len(o)
    OBVIOUS
  <1>2. ASSUME NEW i \in 1..(2 * n)
        PROVE  \E k \in 1..n : ((i - 1) \div 2) + 1 = k /\ (i = 2 * k \/ i = 2 * k - 1)
    <2>1. PICK x \in Nat : x = i - 1
      OBVIOUS
    <2>2. PICK y \in Nat : y = x \div 2
      BY <2>1
    <2>3. x = 2 * y \/ x = 2 * y + 1
      BY <2>1, <2>2
    <2>4. y + 1 \in 1..n
      BY <1>1, <2>1, <2>3
    <2> QED
      BY <2>1, <2>2, <2>3, <2>4
  <1>3. d = [i \in 1..(2 * n) |-> o[((i - 1) \div 2) + 1]]
    BY <1>1 DEF Repeat, SameLimit
  <1>4. \A i \in 1..(2 * n) : d[i] = o[((i - 1) \div 2) + 1]
    BY <1>3
  <1>5. \A i \in 1..(2 * n) : \E k \in 1..n : d[i] = o[k] /\ (i = 2 * k \/ i = 2 * k - 1)
    BY <1>2, <1>4
  <1>6. \A k \in 1..n : o[k] \in E
    BY <1>1
  <1>7. DOMAIN d = 1..(2 * n) /\ d = [i \in 1..(2 * n) |-> d[i]]
    BY <1>3
  <1>8. d \in [1..(2 * n) -> E] /\ 2 * n \in Nat
    <2>1. \A i \in 1..(2 * n) : d[i] \in E
      BY ONLY <1>5, <1>6
    <2>2. d \in [1..(2 * n) -> E]
      BY ONLY <1>7, <2>1
    <2> QED
      BY <1>1, <2>2
  <1>9. d \in Seq(E) /\ Len(d) = 2 * n
    BY <1>8
  <1> QED
    BY <1>1, <1>5, <1>7, <1>9

LEMMA RepeatRoom ==
    ASSUME NEW o, Ordered(o, Channels), NEW d, d = Repeat(o, 1 + SameLimit)
    PROVE  d \in Seq(Channels) /\ Room(<<>>, d)
  <1>1. o \in Seq(Channels) /\ \A i, j \in 1..Len(o) : o[i] = o[j] => i = j
    BY DEF Ordered
  <1>2. /\ d \in Seq(Channels) /\ Len(d) = 2 * Len(o) /\ DOMAIN d = 1..Len(d)
        /\ \A i \in 1..Len(d) : \E k \in 1..Len(o) : d[i] = o[k] /\ (i = 2 * k \/ i = 2 * k - 1)
    BY <1>1, RepeatIs
  <1>3. Grouped(d)
    <2> SUFFICES ASSUME NEW i \in 1..Len(d), NEW j \in 1..Len(d), NEW k \in 1..Len(d), i <= j, j <= k, d[i] = d[k]
                 PROVE  d[j] = d[i]
      BY DEF Grouped
    <2>1. PICK x \in 1..Len(o) : d[i] = o[x] /\ (i = 2 * x \/ i = 2 * x - 1)
      BY <1>2
    <2>2. PICK y \in 1..Len(o) : d[j] = o[y] /\ (j = 2 * y \/ j = 2 * y - 1)
      BY <1>2
    <2>3. PICK z \in 1..Len(o) : d[k] = o[z] /\ (k = 2 * z \/ k = 2 * z - 1)
      BY <1>2
    <2>4. x = z
      BY <1>1, <2>1, <2>3
    <2>5. x = y
      BY <2>1, <2>2, <2>3, <2>4
    <2> QED
      BY <2>1, <2>2, <2>5
  <1>4. Range(d) \subseteq Range(o)
    BY <1>1, <1>2, RangeFinite
  <1>5. Cardinality(Range(d)) <= Cardinality(Range(o)) /\ Cardinality(Range(d)) \in Nat /\ Cardinality(Range(o)) \in Nat
    BY <1>1, <1>4, RangeFinite, FS_Subset, FS_CardinalityType
  <1>6. Cardinality(Range(d)) <= 1 + FailoverLimit
    BY <1>5, RangeBound DEF FailoverLimit
  <1> QED
    BY <1>2, <1>3, <1>6 DEF Room

LEMMA StartHasRoom ==
    ASSUME NEW E, E \subseteq Channels, E # {}, NEW o \in Rankings(E), NEW policy
    PROVE  AttemptList(o, policy) \in Seq(Channels) /\ Room(<<>>, AttemptList(o, policy))
  <1>1. Ordered(o, Channels)
    BY RankingOrdered, OrderedWithin
  <1>2. Ordered(Prefix(o, 1), Channels) /\ Ordered(Prefix(o, 1 + FailoverLimit), Channels)
    BY <1>1, PrefixOrdered DEF FailoverLimit
  <1>3. AttemptList(o, policy) \in {Prefix(o, 1), Prefix(o, 1 + FailoverLimit), Repeat(o, 1 + SameLimit),
                                   Repeat(Prefix(o, 1), 1 + SameLimit), Repeat(Prefix(o, 1 + FailoverLimit), 1 + SameLimit)}
    BY Zenon DEF AttemptList, selectedRouteAttemptCandidates, manualRouteAttemptCandidates
  <1> QED
    BY <1>1, <1>2, <1>3, OrderedRoom, RepeatRoom

-----------------------------------------------------------------------------
(* An attempt is added to what was tried. *)

LEMMA AppendIs ==
    ASSUME NEW h \in Seq(Attempts), NEW a \in Attempts, NEW g, g = Append(h, a)
    PROVE  /\ g \in Seq(Attempts) /\ Len(g) = Len(h) + 1 /\ g[Len(g)] = a /\ g # <<>>
           /\ \A i \in 1..Len(h) : g[i] = h[i]
  BY AppendProperties

LEMMA AppendCounts ==
    ASSUME NEW h \in Seq(Attempts), NEW a \in Attempts, NEW g, g = Append(h, a)
    PROVE  /\ h = <<>> => Failovers(g) = 0
           /\ h # <<>> => Failovers(g) = Failovers(h) + (IF Last1(h) = a[1] THEN 0 ELSE 1)
           /\ h = <<>> => SameChannel(g) = 0
           /\ h # <<>> => SameChannel(g) <= SameChannel(h) + (IF Last1(h) = a[1] THEN 1 ELSE 0)
           /\ StageAttempts(g, "exact") = StageAttempts(h, "exact") + (IF a[3] = "exact" THEN 1 ELSE 0)
  <1>1. PICK n \in Nat : n = Len(h)
    OBVIOUS
  <1>2. Len(g) = n + 1 /\ g[n + 1] = a /\ \A i \in 1..n : g[i] = h[i]
    BY <1>1, AppendIs
  <1>3. IsFiniteSet(1..n) /\ IsFiniteSet(2..n)
    BY <1>1, FS_Interval
  <1>4. PICK F : F = {i \in Pairs(h) : h[i][1] # h[i - 1][1]}
    OBVIOUS
  <1>5. PICK X : X = {i \in 1..Len(h) : h[i][3] = "exact"}
    OBVIOUS
  <1>6. F \subseteq 2..n /\ X \subseteq 1..n
    BY <1>1, <1>4, <1>5 DEF Pairs
  <1>7. IsFiniteSet(F) /\ IsFiniteSet(X) /\ n + 1 \notin F /\ n + 1 \notin X
    <2>1. IsFiniteSet(F) /\ IsFiniteSet(X)
      BY <1>3, <1>6, FS_Subset
    <2>2. n + 1 \notin F /\ n + 1 \notin X
      BY <1>1, <1>6
    <2> QED
      BY <2>1, <2>2
  <1>8. StageAttempts(g, "exact") = StageAttempts(h, "exact") + (IF a[3] = "exact" THEN 1 ELSE 0)
    <2>1. PICK Y : Y = {i \in 1..Len(g) : g[i][3] = "exact"}
      OBVIOUS
    <2>2. StageAttempts(h, "exact") = Cardinality(X) /\ StageAttempts(g, "exact") = Cardinality(Y)
      BY <1>5, <2>1 DEF StageAttempts
    <2>3. Cardinality(X) \in Nat /\ Cardinality(X \cup {n + 1}) = Cardinality(X) + 1
      BY <1>7, FS_AddElement, FS_CardinalityType
    <2>4. \A i \in 1..(n + 1) : i \in 1..n \/ i = n + 1
      BY <1>1
    <2>5. \A i : i \in Y <=> (i \in X \/ (i = n + 1 /\ a[3] = "exact"))
      BY <1>1, <1>2, <1>5, <2>1, <2>4
    <2>6. Y = IF a[3] = "exact" THEN X \cup {n + 1} ELSE X
      BY <2>5
    <2> QED
      BY <2>2, <2>3, <2>6
  <1>9. PICK G : G = {i \in Pairs(g) : g[i][1] # g[i - 1][1]}
    OBVIOUS
  <1>10. Failovers(h) = Cardinality(F) /\ Failovers(g) = Cardinality(G)
    BY <1>4, <1>9 DEF Failovers
  <1>11. ASSUME h = <<>> PROVE Failovers(g) = 0
    <2>1. n = 0
      BY <1>1, <1>11
    <2>2. G = {}
      BY <1>2, <1>9, <2>1 DEF Pairs
    <2> QED
      BY <1>10, <2>2, FS_EmptySet
  <1>12. ASSUME h # <<>> PROVE Failovers(g) = Failovers(h) + (IF Last1(h) = a[1] THEN 0 ELSE 1)
    <2>1. n >= 1
      BY <1>1, <1>12
    <2>2. \A i \in 2..(n + 1) : (i \in 2..n /\ i - 1 \in 1..n /\ i \in 1..n) \/ (i = n + 1 /\ i - 1 = n /\ n \in 1..n)
      BY <1>1, <2>1
    <2>3. Last1(h) = h[n][1]
      BY <1>1 DEF Last1
    <2>4. n + 1 \in G <=> a[1] # h[n][1]
      BY <1>1, <1>2, <1>9, <2>1 DEF Pairs
    <2>5. \A i \in 2..n : i \in G <=> i \in F
      BY <1>1, <1>2, <1>4, <1>9, <2>1 DEF Pairs
    <2>6. G \subseteq 2..(n + 1)
      BY <1>2, <1>9 DEF Pairs
    <2>7. \A i : i \in G <=> (i \in F \/ (i = n + 1 /\ a[1] # h[n][1]))
      BY <1>6, <2>2, <2>4, <2>5, <2>6
    <2>8. G = IF Last1(h) = a[1] THEN F ELSE F \cup {n + 1}
      BY <2>3, <2>7
    <2>9. Cardinality(F) \in Nat /\ Cardinality(F \cup {n + 1}) = Cardinality(F) + 1
      BY <1>7, FS_AddElement, FS_CardinalityType
    <2> QED
      BY <1>10, <2>8, <2>9
  <1>13. PICK S, T : /\ S = {i \in Pairs(h) : h[i][1] = h[i - 1][1] /\ h[i][2] # h[i - 1][2]}
                     /\ T = {i \in Pairs(g) : g[i][1] = g[i - 1][1] /\ g[i][2] # g[i - 1][2]}
    OBVIOUS
  <1>14. SameChannel(h) = Cardinality(S) /\ SameChannel(g) = Cardinality(T)
    BY <1>13 DEF SameChannel
  <1>15. ASSUME h = <<>> PROVE SameChannel(g) = 0
    <2>1. n = 0
      BY <1>1, <1>15
    <2>2. T = {}
      BY <1>2, <1>13, <2>1 DEF Pairs
    <2> QED
      BY <1>14, <2>2, FS_EmptySet
  <1>16. ASSUME h # <<>> PROVE SameChannel(g) <= SameChannel(h) + (IF Last1(h) = a[1] THEN 1 ELSE 0)
    <2>1. n >= 1
      BY <1>1, <1>16
    <2>2. \A i \in 2..(n + 1) : i \in 2..n \/ i = n + 1
      BY <1>1
    <2>3. Last1(h) = h[n][1]
      BY <1>1 DEF Last1
    <2>4. n + 1 \in T => a[1] = h[n][1]
      BY <1>1, <1>2, <1>13, <2>1 DEF Pairs
    <2>5. \A i \in 2..n : i \in T => i \in S
      BY <1>1, <1>2, <1>13, <2>1 DEF Pairs
    <2>6. T \subseteq 2..(n + 1)
      BY <1>2, <1>13 DEF Pairs
    <2>7. T \subseteq S \cup {n + 1} /\ (Last1(h) # a[1] => T \subseteq S)
      BY <2>2, <2>3, <2>4, <2>5, <2>6
    <2>8. S \subseteq 2..n
      BY <1>1, <1>13 DEF Pairs
    <2>9. IsFiniteSet(S) /\ n + 1 \notin S
      <3>1. IsFiniteSet(S)
        BY <1>3, <2>8, FS_Subset
      <3>2. n + 1 \notin S
        BY <1>1, <2>8
      <3> QED
        BY <3>1, <3>2
    <2>10. IsFiniteSet(S \cup {n + 1}) /\ Cardinality(S \cup {n + 1}) = Cardinality(S) + 1 /\ Cardinality(S) \in Nat
      BY <2>9, FS_AddElement, FS_CardinalityType
    <2>11. Cardinality(T) <= Cardinality(S \cup {n + 1}) /\ (Last1(h) # a[1] => Cardinality(T) <= Cardinality(S))
      BY <2>7, <2>9, <2>10, FS_Subset
    <2>12. IsFiniteSet(T) /\ Cardinality(T) \in Nat
      BY <2>7, <2>10, FS_Subset, FS_CardinalityType
    <2> QED
      BY <1>14, <2>10, <2>11, <2>12
  <1> QED
    BY <1>8, <1>11, <1>12, <1>15, <1>16

LEMMA AppendSpent ==
    ASSUME NEW h \in Seq(Attempts), Spent(h), Len(h) < TotalAttempts,
           NEW c, NEW k, NEW stage, NEW a \in Attempts, a = <<c, k, stage>>, k \notin Tried(h, c, stage),
           stage = "exact" => StageAttempts(h, "exact") < ExactBudget,
           h # <<>> /\ Last1(h) = c => SameChannel(h) < SameLimit,
           NEW g, g = Append(h, a)
    PROVE  Spent(g)
  <1>1. PICK n \in Nat : n = Len(h)
    OBVIOUS
  <1>2. Len(g) = n + 1 /\ g[n + 1] = a /\ \A i \in 1..n : g[i] = h[i]
    BY <1>1, AppendIs
  <1>3. \A i \in 1..n : h[i] # a
    BY <1>1 DEF Tried
  <1>4. \A i \in 1..(n + 1) : i \in 1..n \/ i = n + 1
    BY <1>1
  <1>5. \A i, j \in 1..n : i # j => h[i] # h[j]
    BY <1>1 DEF Spent
  <1>6. \A i, j \in 1..Len(g) : i # j => g[i] # g[j]
    BY <1>2, <1>3, <1>4, <1>5
  <1>7. PICK x, y, t : x = StageAttempts(h, "exact") /\ y = StageAttempts(g, "exact") /\ t = ExactBudget
    OBVIOUS
  <1>8. x \in Nat /\ t \in Nat /\ x <= t
    BY <1>7, FailoversType, RelayRouteAssumption DEF Spent, ExactBudget
  <1>9. y = x + (IF stage = "exact" THEN 1 ELSE 0)
    BY <1>7, AppendCounts
  <1>10. y <= t
    BY <1>7, <1>8, <1>9
  <1>11. Len(g) <= TotalAttempts
    BY <1>1, <1>2, RelayRouteAssumption
  <1>12. SameChannel(g) <= SameLimit
    <2>1. PICK e, f : e = SameChannel(h) /\ f = SameChannel(g)
      OBVIOUS
    <2>2. g \in Seq(Attempts)
      BY AppendIs
    <2>3. e \in Nat /\ f \in Nat /\ e <= SameLimit
      BY <2>1, <2>2, FailoversType DEF Spent
    <2>4. (h = <<>> => f = 0) /\ (h # <<>> => f <= e + (IF Last1(h) = c THEN 1 ELSE 0))
      BY <2>1, AppendCounts
    <2>5. h # <<>> /\ Last1(h) = c => e < SameLimit
      BY <2>1
    <2>6. f <= SameLimit
      BY <2>3, <2>4, <2>5 DEF SameLimit
    <2> QED
      BY <2>1, <2>6
  <1> QED
    BY <1>6, <1>7, <1>10, <1>11, <1>12 DEF Spent

LEMMA AppendRoom ==
    ASSUME NEW h \in Seq(Attempts), NEW list \in Seq(Channels), list # <<>>, Room(h, list),
           NEW a \in Attempts, a[1] = Head(list), NEW g, g = Append(h, a)
    PROVE  Room(g, list)
  <1>1. g # <<>> /\ Last1(g) = Head(list) /\ Head(list) \in Range(list)
    <2>1. Head(list) = list[1] /\ 1 \in 1..Len(list)
      OBVIOUS
    <2> QED
      BY <2>1, AppendIs, RangeFinite DEF Last1
  <1>2. PICK x, R : x = Head(list) /\ R = Range(list)
    OBVIOUS
  <1>3. PICK f, m, n : f = Failovers(g) /\ m = Cardinality(R) /\ n = Cardinality(R \ {x})
    OBVIOUS
  <1>4. IsFiniteSet(R) /\ m \in Nat /\ n \in Nat /\ n = m - 1
    BY <1>1, <1>2, <1>3, RangeFinite, FS_RemoveElement, FS_CardinalityType
  <1>5. CASE h = <<>>
    <2>1. f = 0 /\ m <= 1 + FailoverLimit
      BY <1>2, <1>3, <1>5, AppendCounts DEF Room
    <2>2. f + n <= FailoverLimit
      BY <1>4, <2>1 DEF FailoverLimit
    <2> QED
      BY <1>1, <1>2, <1>3, <2>2 DEF Room
  <1>6. CASE h # <<>>
    <2>1. PICK l, e, w : l = Last1(h) /\ e = Failovers(h) /\ w = Cardinality(R \ {l})
      OBVIOUS
    <2>2. e \in Nat /\ w \in Nat /\ e + w <= FailoverLimit /\ (l \in R => x = l)
      BY <1>2, <1>6, <2>1, RangeFinite, FailoversType DEF Room
    <2>3. f = e + (IF l = x THEN 0 ELSE 1)
      BY <1>2, <1>3, <1>6, <2>1, AppendCounts
    <2>4. l = x => w = n
      BY <1>3, <2>1
    <2>5. l # x => R \ {l} = R
      BY <2>2
    <2>6. l # x => w = m
      BY <1>3, <2>1, <2>5
    <2>7. f + n <= FailoverLimit
      BY <1>4, <2>2, <2>3, <2>4, <2>6 DEF FailoverLimit
    <2> QED
      BY <1>1, <1>2, <1>3, <1>6, <2>7 DEF Room
  <1> QED
    BY <1>5, <1>6

-----------------------------------------------------------------------------
(* What the operators make of a request. *)

LEMMA IdleRecord == Record(Idle)
  BY DEF Record, Idle, Fields

LEMMA ExceptRecord ==
    ASSUME NEW q, Record(q), NEW f, NEW v
    PROVE  Record([q EXCEPT ![f] = v])
  BY DEF Record

LEMMA EqualRecords ==
    ASSUME NEW q, Record(q), NEW p, Record(p), \A x \in Fields : p[x] = q[x]
    PROVE  p = q
  BY DEF Record

LEMMA FinishRecord ==
    ASSUME NEW q, NEW e
    PROVE  Record(Finish(q, e))
  BY IdleRecord DEF Record, Finish, Fields

LEMMA ExactRoom == ExactBudget \in Nat /\ ExactBudget > 0
  <1>1. PICK t \in Nat : t = TotalAttempts /\ t > 0
    BY RelayRouteAssumption
  <1>2. (2 * t + 2) \div 3 \in Nat /\ (2 * t + 2) \div 3 > 0
    BY <1>1
  <1> QED
    BY <1>1, <1>2 DEF ExactBudget

LEMMA NothingSpent ==
    /\ <<>> \in Seq(Attempts) /\ Spent(<<>>) /\ Failovers(<<>>) = 0 /\ SameChannel(<<>>) = 0 /\ StageAttempts(<<>>, "exact") = 0
    /\ <<>> \in Seq(Channels) /\ Room(<<>>, <<>>)
  <1>1. Len(<<>>) = 0 /\ <<>> \in Seq(Attempts) /\ <<>> \in Seq(Channels)
    OBVIOUS
  <1>2. Failovers(<<>>) = 0 /\ SameChannel(<<>>) = 0 /\ StageAttempts(<<>>, "exact") = 0
    <2>1. {i \in Pairs(<<>>) : (<<>>)[i][1] # (<<>>)[i - 1][1]} = {}
      BY DEF Pairs
    <2>2. {i \in 1..Len(<<>>) : (<<>>)[i][3] = "exact"} = {}
      BY <1>1
    <2>3. {i \in Pairs(<<>>) : (<<>>)[i][1] = (<<>>)[i - 1][1] /\ (<<>>)[i][2] # (<<>>)[i - 1][2]} = {}
      BY DEF Pairs
    <2> QED
      BY <2>1, <2>2, <2>3, FS_EmptySet DEF Failovers, SameChannel, StageAttempts
  <1>3. Spent(<<>>)
    BY <1>1, <1>2, ExactRoom, RelayRouteAssumption DEF Spent, SameLimit
  <1>4. Range(<<>>) = {}
    <2>1. PICK s : s = <<>>
      OBVIOUS
    <2>2. s \in Seq(Channels) /\ Len(s) = 0
      BY <1>1, <2>1
    <2>3. Range(s) = {}
      <3>1. DOMAIN s = 1..Len(s) /\ 1..Len(s) = {}
        BY <2>2
      <3> QED
        BY <3>1 DEF Range
    <2> QED
      BY <2>1, <2>3
  <1>5. Room(<<>>, <<>>)
    BY <1>1, <1>4, FS_EmptySet DEF Room, Grouped, FailoverLimit
  <1> QED
    BY <1>1, <1>2, <1>3, <1>5

\* A request that has tried nothing.
LEMMA FreshBudget ==
    ASSUME NEW q, Record(q), q.hist = <<>>, q.list \in Seq(Channels), q.stage \in {"none", "exact", "base"},
           q.pc \notin {"acquire", "recheck"}, q.policy # "compact" => Room(<<>>, q.list),
           q.stage = "exact" => q.policy = "compact"
    PROVE  Budget(q)
  <1>1. StageAttempts(q.hist, "exact") < ExactBudget
    BY NothingSpent, ExactRoom
  <1>2. Failovers(q.hist) <= FailoverLimit
    BY NothingSpent DEF FailoverLimit
  <1> QED
    BY <1>1, <1>2, NothingSpent DEF Budget, Base, Retries

LEMMA FinishBudget ==
    ASSUME NEW q, NEW e
    PROVE  Budget(Finish(q, e)) /\ Finish(q, e).pc = "final"
  <1>1. PICK f : f = Finish(q, e)
    OBVIOUS
  <1>2. f.hist = <<>> /\ f.list = <<>> /\ f.stage = "none" /\ f.pc = "final"
    BY <1>1 DEF Finish, Idle
  <1> QED
    BY <1>1, <1>2, FinishRecord, FreshBudget, NothingSpent

LEMMA IdleBudget == Budget(Idle) /\ Idle.pc = "idle"
  <1>1. Idle.hist = <<>> /\ Idle.list = <<>> /\ Idle.stage = "none" /\ Idle.pc = "idle"
    BY DEF Idle
  <1> QED
    BY <1>1, IdleRecord, FreshBudget, NothingSpent

\* A request that has tried what it had tried before.
LEMMA SameBase ==
    ASSUME NEW q, Base(q), NEW p, Record(p), p.hist = q.hist, p.policy = q.policy, p.list \in Seq(Channels),
           p.policy # "compact" => Room(p.hist, p.list), p.stage \in {"none", "exact", "base"},
           p.stage = "exact" => q.stage = "exact" /\ (q.pc \in Going \/ p.pc \notin Going),
           Retries(p) \/ (Range(p.list) \subseteq Range(q.list) /\ (q.pc \in Going \/ p.pc \notin Going))
    PROVE  Base(p)
  <1>1. Retries(p)
    BY DEF Base, Retries
  <1> QED
    BY <1>1 DEF Base

LEMMA SameFit ==
    ASSUME NEW q, Base(q), Fit(q), NEW p, p.hist = q.hist, p.policy = q.policy, p.list = q.list, p.stage = q.stage,
           p.key = q.key, p.filtered = q.filtered
    PROVE  Fit(p)
  BY DEF Fit

\* The request at a later candidate of its list.
Onward(p, q, i) ==
  /\ Base(p) /\ p.list # <<>> /\ Head(p.list) = q.list[i] /\ Len(p.list) = Len(q.list) - i + 1
  /\ p.pc = q.pc /\ p.hist = q.hist /\ p.policy = q.policy /\ p.stage = q.stage /\ p.filtered = q.filtered

LEMMA FromBase ==
    ASSUME NEW q, Base(q), NEW i \in 1..Len(q.list)
    PROVE  Onward(From(q, i), q, i)
  <1>0. PICK p : p = From(q, i)
    OBVIOUS
  <1>1. PICK s, F : s = SubSeq(q.list, i, Len(q.list)) /\ F = q.fresh \cap Range(s)
    OBVIOUS
  <1>2. p = [q EXCEPT !.list = s, !.fresh = F]
    BY <1>0, <1>1 DEF From
  <1>3. Record(q) /\ q.list \in Seq(Channels) /\ q.hist \in Seq(Attempts)
    BY DEF Base
  <1>4. Record(p)
    BY <1>2, <1>3 DEF Record
  <1>5. p.list = s /\ p.pc = q.pc /\ p.hist = q.hist /\ p.policy = q.policy /\ p.stage = q.stage /\ p.filtered = q.filtered
    BY <1>2, <1>3 DEF Record, Fields
  <1>6. IsRest(s, q.list, i)
    BY <1>1, <1>3, SuffixIs
  <1>7. s \in Seq(Channels) /\ s # <<>> /\ Head(s) = q.list[i] /\ Len(s) = Len(q.list) - i + 1 /\ Range(s) \subseteq Range(q.list)
    BY <1>6 DEF IsRest
  <1>8. q.policy # "compact" => Room(q.hist, s)
    BY <1>3, <1>6, RoomSuffix DEF Base
  <1>9. Base(p)
    BY <1>4, <1>5, <1>7, <1>8, SameBase DEF Base
  <1> QED
    BY <1>0, <1>5, <1>7, <1>9 DEF Onward

\* What a compact request has left to be filtered.
LEMMA FilterConsumes ==
    ASSUME NEW F, NEW c \in Channels \ F
    PROVE  /\ Cardinality(Channels \ F) \in Nat /\ Cardinality(Channels) \in Nat
           /\ Cardinality(Channels \ (F \cup {c})) < Cardinality(Channels \ F)
           /\ Cardinality(Channels \ (F \cup {c})) \in Nat
  <1>1. IsFiniteSet(Channels) /\ IsFiniteSet(Channels \ F)
    <2>1. Channels \ F \subseteq Channels
      OBVIOUS
    <2> QED
      BY <2>1, RelayRouteAssumption, FS_Subset
  <1>2. Channels \ (F \cup {c}) = (Channels \ F) \ {c}
    OBVIOUS
  <1>3. Cardinality((Channels \ F) \ {c}) = Cardinality(Channels \ F) - 1
    BY <1>1, FS_RemoveElement
  <1>4. IsFiniteSet((Channels \ F) \ {c})
    BY <1>1, FS_RemoveElement
  <1>5. PICK a, b, t : /\ a = Cardinality(Channels \ F) /\ b = Cardinality(Channels \ (F \cup {c}))
                       /\ t = Cardinality(Channels)
    OBVIOUS
  <1>6. a \in Nat /\ b \in Nat /\ t \in Nat
    BY <1>1, <1>2, <1>4, <1>5, FS_CardinalityType
  <1>7. b = a - 1
    BY <1>2, <1>3, <1>5
  <1>8. b < a
    BY <1>6, <1>7
  <1> QED
    BY <1>5, <1>6, <1>8

\* A refused candidate is left behind.
LEMMA FailoverBudget ==
    ASSUME NEW q, Base(q), q.list # <<>>, q.pc \in {"loop", "acquire", "recheck"},
           q.policy = "compact" => Head(q.list) \notin q.filtered, NEW gone, NEW n, n = Failover(q, gone)
    PROVE  Budget(n) /\ (n.pc = "loop" => Rank(n) < Rank(q))
  <1>1. PICK others : others = {i \in 1..Len(q.list) : q.list[i] # Head(q.list)}
    OBVIOUS
  <1>2. CASE gone \/ others = {}
    <2>1. n = Finish(q, TRUE)
      BY <1>1, <1>2, Zenon DEF Failover
    <2> QED
      BY <2>1, FinishBudget
  <1>3. CASE ~(gone \/ others = {})
    <2>1. PICK list, F : /\ list = IF q.policy = "compact" THEN <<>> ELSE SubSeq(q.list, Min(others), Len(q.list))
                         /\ F = IF q.policy = "compact" THEN q.filtered \cup {Head(q.list)} ELSE q.filtered
      OBVIOUS
    <2>2. Record(q) /\ q.list \in Seq(Channels) /\ q.hist \in Seq(Attempts) /\ q.stage \in {"none", "exact", "base"}
      BY DEF Base
    <2>3. n = [Reset(q) EXCEPT !.pc = "loop", !.list = list, !.filtered = F]
      BY <1>1, <1>3, <2>1, <2>2 DEF Failover, Reset, Record, Fields
    <2>4. /\ Record(n) /\ n.list = list /\ n.filtered = F /\ n.pc = "loop"
          /\ n.hist = q.hist /\ n.policy = q.policy /\ n.stage = q.stage
      BY <2>2, <2>3 DEF Reset, Record, Fields
    <2>5. CASE q.policy = "compact"
      <3>1. list = <<>> /\ F = q.filtered \cup {Head(q.list)}
        BY <2>1, <2>5
      <3>2. Base(n)
        BY <2>2, <2>4, <2>5, <3>1, SameBase, NothingSpent DEF Going, Retries
      <3>3. Head(q.list) \in Channels \ q.filtered
        BY <2>2, <2>5
      <3>4. PICK a, b, t : /\ a = Cardinality(Channels \ q.filtered) /\ b = Cardinality(Channels \ F)
                           /\ t = IF q.stage = "exact" THEN Cardinality(Channels) + 1 ELSE 0
        OBVIOUS
      <3>5. a \in Nat /\ b \in Nat /\ b < a /\ t \in Nat
        <4>1. PICK c, G : c = Head(q.list) /\ G = q.filtered
          OBVIOUS
        <4>2. c \in Channels \ G /\ F = G \cup {c} /\ a = Cardinality(Channels \ G) /\ b = Cardinality(Channels \ F)
          BY <3>1, <3>3, <3>4, <4>1
        <4>3. /\ Cardinality(Channels \ G) \in Nat /\ Cardinality(Channels) \in Nat
              /\ Cardinality(Channels \ (G \cup {c})) < Cardinality(Channels \ G)
              /\ Cardinality(Channels \ (G \cup {c})) \in Nat
          BY ONLY <4>2, FilterConsumes
        <4> QED
          BY <3>4, <4>2, <4>3
      <3>6. Rank(q) = a + t /\ Rank(n) = b + t
        BY <2>4, <2>5, <3>4 DEF Rank
      <3> QED
        BY <2>4, <3>2, <3>5, <3>6 DEF Budget
    <2>6. CASE q.policy # "compact"
      <3>1. others \subseteq Nat /\ others # {}
        BY <1>1, <1>3
      <3>2. PICK m \in others : m = Min(others)
        BY <3>1, MinIn
      <3>3. m \in 1..Len(q.list) /\ m # 1
        <4>1. m \in 1..Len(q.list) /\ q.list[m] # Head(q.list)
          BY <1>1, <3>2
        <4>2. Head(q.list) = q.list[1]
          BY <2>2
        <4> QED
          BY <4>1, <4>2
      <3>4. list = SubSeq(q.list, m, Len(q.list))
        BY <2>1, <2>6, <3>2
      <3>5. IsRest(list, q.list, m)
        BY <2>2, <3>3, <3>4, SuffixIs
      <3>6. list \in Seq(Channels) /\ Len(list) = Len(q.list) - m + 1 /\ Range(list) \subseteq Range(q.list)
        BY <3>5 DEF IsRest
      <3>7. Room(q.hist, list)
        BY <2>2, <2>6, <3>3, <3>5, RoomSuffix DEF Base
      <3>8. Base(n)
        BY <2>2, <2>4, <3>6, <3>7, SameBase DEF Going
      <3>9. Len(list) < Len(q.list)
        BY <2>2, <3>3, <3>6
      <3>10. Rank(n) = Len(list) /\ Rank(q) = Len(q.list)
        BY <2>4, <2>6 DEF Rank
      <3> QED
        BY <2>4, <3>8, <3>9, <3>10 DEF Budget
    <2> QED
      BY <2>5, <2>6
  <1> QED
    BY <1>2, <1>3

\* A candidate with a key is priced.
LEMMA PricedBudget ==
    ASSUME NEW q, Base(q), Fit(q), q.pc = "loop", NEW n \in Priced(q)
    PROVE  Budget(n) /\ (n.pc = "loop" => Rank(n) < Rank(q))
  <1>1. CASE n = Finish(q, TRUE)
    BY <1>1, FinishBudget
  <1>2. CASE n = Failover(q, FALSE)
    BY <1>2, FailoverBudget DEF Fit
  <1>3. CASE n = [q EXCEPT !.pc = "acquire", !.steady = TRUE]
    <2>1. Record(q) /\ q.list \in Seq(Channels) /\ q.stage \in {"none", "exact", "base"}
      BY DEF Base
    <2>2. /\ Record(n) /\ n.pc = "acquire" /\ n.list = q.list /\ n.hist = q.hist /\ n.policy = q.policy
          /\ n.stage = q.stage /\ n.key = q.key /\ n.filtered = q.filtered
      BY <1>3, <2>1 DEF Record, Fields
    <2>3. Base(n)
      BY <2>1, <2>2, SameBase DEF Going, Base
    <2>4. Fit(n)
      BY <2>2, SameFit
    <2> QED
      BY <2>2, <2>3, <2>4 DEF Budget
  <1> QED
    BY <1>1, <1>2, <1>3 DEF Priced

\* A key is chosen for the candidate, which is then priced.
LEMMA ChosenBudget ==
    ASSUME NEW q, Base(q), q.pc = "loop", q.list # <<>>, Len(q.hist) < TotalAttempts,
           q.policy = "compact" =>
             Head(q.list) \notin q.filtered /\ MayGo(q.hist, Head(q.list)),
           NEW n \in UNION {Priced(c) : c \in Chosen(q)}
    PROVE  Budget(n) /\ (n.pc = "loop" => Rank(n) < Rank(q))
  <1>1. PICK c \in Chosen(q) : n \in Priced(c)
    OBVIOUS
  <1>2. PICK k \in Keys[Head(q.list)] \ Tried(q.hist, Head(q.list), q.stage) : c = [q EXCEPT !.key = k]
    BY <1>1 DEF Chosen
  <1>3. Record(q) /\ q.list \in Seq(Channels) /\ q.stage \in {"none", "exact", "base"}
    BY DEF Base
  <1>4. /\ Record(c) /\ c.pc = "loop" /\ c.list = q.list /\ c.hist = q.hist /\ c.policy = q.policy
        /\ c.stage = q.stage /\ c.key = k /\ c.filtered = q.filtered
    BY <1>2, <1>3 DEF Record, Fields
  <1>5. Base(c)
    BY <1>3, <1>4, SameBase DEF Going, Base
  <1>6. Fit(c)
    BY <1>2, <1>4 DEF Fit
  <1>7. Rank(c) = Rank(q)
    BY <1>4 DEF Rank
  <1> QED
    BY <1>1, <1>4, <1>5, <1>6, <1>7, PricedBudget

\* The exact stage is over.
LEMMA SwitchBudget ==
    ASSUME NEW q, Base(q), q.policy = "compact", NEW n, n = switchToBase(q)
    PROVE  /\ Base(n) /\ n.pc = "loop" /\ n.stage = "base" /\ n.hist = q.hist /\ n.list = q.list /\ n.policy = q.policy
           /\ Budget(n) /\ Budget([n EXCEPT !.pc = "retry"]) /\ [n EXCEPT !.pc = "retry"].pc = "retry"
           /\ q.stage = "exact" => Rank(n) < Rank(q)
  <1>1. Record(q) /\ q.list \in Seq(Channels)
    BY DEF Base
  <1>2. /\ Record(n) /\ n.pc = "loop" /\ n.stage = "base" /\ n.hist = q.hist /\ n.list = q.list /\ n.policy = q.policy
        /\ n.filtered = {}
    BY <1>1 DEF switchToBase, Record, Fields
  <1>3. Base(n)
    BY <1>1, <1>2, SameBase DEF Retries
  <1>4. PICK m : m = [n EXCEPT !.pc = "retry"]
    OBVIOUS
  <1>5. Record(m) /\ m.pc = "retry" /\ m.stage = "base" /\ m.hist = n.hist /\ m.list = n.list /\ m.policy = n.policy
    BY <1>2, <1>4 DEF Record, Fields
  <1>6. Base(m)
    BY <1>1, <1>2, <1>3, <1>5, SameBase DEF Retries
  <1>7. q.stage = "exact" => Rank(n) < Rank(q)
    <2>1. PICK a, t : a = Cardinality(Channels \ q.filtered) /\ t = Cardinality(Channels)
      OBVIOUS
    <2>2. a \in Nat /\ t \in Nat
      <3>1. Channels \ q.filtered \subseteq Channels /\ IsFiniteSet(Channels)
        BY RelayRouteAssumption
      <3> QED
        BY <2>1, <3>1, FS_Subset, FS_CardinalityType
    <2>3. Channels \ {} = Channels
      OBVIOUS
    <2>4. q.stage = "exact" => Rank(q) = a + (t + 1)
      BY <2>1 DEF Rank
    <2>5. Rank(n) = t + 0
      BY <1>2, <2>1, <2>3 DEF Rank
    <2> QED
      BY <2>2, <2>4, <2>5
  <1> QED
    BY <1>2, <1>3, <1>4, <1>5, <1>6, <1>7 DEF Budget

LEMMA AdvanceBudget ==
    ASSUME NEW p, Base(p), p.policy = "compact", NEW class, NEW n, n = advance(p, class)
    PROVE  Budget(n) /\ n.pc # "loop"
  <1>1. PICK q : q = [p EXCEPT !.list = <<>>, !.fresh = {}]
    OBVIOUS
  <1>2. Record(p) /\ p.stage \in {"none", "exact", "base"} /\ p.hist \in Seq(Attempts)
    BY DEF Base
  <1>3. /\ Record(q) /\ q.list = <<>> /\ q.pc = p.pc /\ q.hist = p.hist /\ q.policy = p.policy /\ q.stage = p.stage
    BY <1>1, <1>2 DEF Record, Fields
  <1>4. Base(q)
    BY <1>2, <1>3, SameBase, NothingSpent DEF Retries
  <1>5. CASE n = [q EXCEPT !.pc = "retry"] /\ remainingAttempts(q) > 0
    <2>1. Record(n) /\ n.pc = "retry" /\ n.list = <<>> /\ n.hist = q.hist /\ n.policy = q.policy /\ n.stage = q.stage
      BY <1>3, <1>5 DEF Record, Fields
    <2>2. q.stage = "exact" => StageAttempts(q.hist, "exact") < ExactBudget
      <3>1. PICK x, t : x = StageAttempts(q.hist, "exact") /\ t = ExactBudget
        OBVIOUS
      <3>2. x \in Nat /\ t \in Nat
        BY <1>2, <1>3, <3>1, FailoversType, ExactRoom
      <3>3. q.stage = "exact" => t - x > 0
        BY <1>5, <3>1 DEF remainingAttempts
      <3> QED
        BY <3>1, <3>2, <3>3
    <2>3. Base(n)
      BY <1>2, <1>3, <1>4, <2>1, <2>2, NothingSpent DEF Base, Retries
    <2> QED
      BY <2>1, <2>3 DEF Budget
  <1>6. CASE n = [switchToBase(q) EXCEPT !.pc = "retry"]
    BY <1>3, <1>4, <1>6, SwitchBudget
  <1>7. CASE n = Finish(q, TRUE)
    BY <1>7, FinishBudget
  <1>8. \/ n = [q EXCEPT !.pc = "retry"] /\ remainingAttempts(q) > 0
        \/ n = [switchToBase(q) EXCEPT !.pc = "retry"]
        \/ n = Finish(q, TRUE)
    BY <1>1, Zenon DEF advance
  <1> QED
    BY <1>5, <1>6, <1>7, <1>8

LEMMA AfterErrorBudget ==
    ASSUME NEW q, Base(q), NEW class, NEW gone, NEW n, n = AfterError(q, class, gone)
    PROVE  Budget(n) /\ n.pc # "loop"
  <1>1. PICK S : S = NextCandidateForError(q, 2, class)
    OBVIOUS
  <1>2. CASE q.policy = "compact" /\ ~gone
    <2>1. n = advance(q, class)
      BY <1>2, Zenon DEF AfterError
    <2> QED
      BY <1>2, <2>1, AdvanceBudget
  <1>3. CASE n = Finish(q, TRUE)
    BY <1>3, FinishBudget
  <1>4. CASE q.policy # "compact" /\ S # {} /\ n = [From(q, Min(S)) EXCEPT !.pc = "retry"]
    <2>1. S \subseteq 2..Len(q.list) /\ q.list \in Seq(Channels)
      BY <1>1 DEF NextCandidateForError, Base
    <2>2. S \subseteq Nat /\ S # {}
      BY <1>4, <2>1
    <2>3. PICK i \in S : i = Min(S)
      BY <2>2, MinIn
    <2>4. i \in 1..Len(q.list)
      BY <2>1, <2>3
    <2>5. PICK f : f = From(q, i)
      OBVIOUS
    <2>6. Base(f) /\ f.policy = q.policy /\ f.stage = q.stage /\ f.hist = q.hist /\ Head(f.list) = q.list[i]
      <3>1. Onward(f, q, i)
        BY <2>4, <2>5, FromBase
      <3> QED
        BY <3>1 DEF Onward
    <2>7. Record(f) /\ f.list \in Seq(Channels) /\ f.stage \in {"none", "exact", "base"} /\ f.stage # "exact"
      BY <1>4, <2>6 DEF Base
    <2>8. Record(n) /\ n.pc = "retry" /\ n.hist = f.hist /\ n.policy = f.policy /\ n.list = f.list /\ n.stage = f.stage
      BY <1>4, <2>3, <2>5, <2>7 DEF Record, Fields
    <2>9. Retries(n)
      <3> SUFFICES ASSUME q.hist # <<>>, Last1(q.hist) \in Range(f.list) PROVE SameChannel(q.hist) < SameLimit
        BY <2>6, <2>8 DEF Retries
      <3>1. Head(f.list) = Last1(q.hist)
        BY <1>4, <2>6 DEF Base, Room
      <3>2. q.list[i] = Last1(q.hist)
        BY <2>6, <3>1
      <3> QED
        BY <1>1, <2>3, <3>2 DEF NextCandidateForError, Allows, Last1
    <2>10. Base(n)
      BY <1>4, <2>6, <2>7, <2>8, <2>9, SameBase DEF Base
    <2> QED
      BY <2>8, <2>10 DEF Budget
  <1>5. \/ q.policy = "compact" /\ ~gone
        \/ n = Finish(q, TRUE)
        \/ q.policy # "compact" /\ S # {} /\ n = [From(q, Min(S)) EXCEPT !.pc = "retry"]
    BY <1>1, Zenon DEF AfterError
  <1> QED
    BY <1>2, <1>3, <1>4, <1>5

-----------------------------------------------------------------------------
(* The steps. *)

\* What a lap of the loop does to a request.
Consumes(r) ==
  req'[r].pc = "loop" /\ req[r].pc \in {"loop", "acquire", "recheck"} /\ req'[r] # req[r]
    => Rank(req'[r]) < Rank(req[r]) \/ req'[r].fresh # req[r].fresh

BudgetStep == BudgetInv' /\ \A r \in Requests : Consumes(r)

\* What a step leaves alone of what a request tries.
SameTry(r) ==
  /\ Record(req'[r])
  /\ req'[r].pc = req[r].pc /\ req'[r].policy = req[r].policy /\ req'[r].stage = req[r].stage
  /\ req'[r].list = req[r].list /\ req'[r].key = req[r].key /\ req'[r].filtered = req[r].filtered
  /\ req'[r].hist = req[r].hist
  /\ req[r].pc = "loop" => req'[r] = req[r] \/ req'[r].fresh # req[r].fresh

LEMMA SameTryStep ==
    ASSUME NEW r, Budget(req[r]), SameTry(r)
    PROVE  Budget(req'[r]) /\ Consumes(r)
  <1>1. PICK q, p : q = req[r] /\ p = req'[r]
    OBVIOUS
  <1>2. /\ Record(p) /\ p.pc = q.pc /\ p.policy = q.policy /\ p.stage = q.stage /\ p.list = q.list /\ p.key = q.key
        /\ p.filtered = q.filtered /\ p.hist = q.hist
    BY <1>1 DEF SameTry
  <1>3. Base(q)
    BY <1>1 DEF Budget
  <1>4. Base(p)
    BY <1>2, <1>3 DEF Base, Retries
  <1>5. q.pc \in {"acquire", "recheck"} => Fit(p)
    BY <1>1, <1>2, <1>3, SameFit DEF Budget
  <1> QED
    BY <1>1, <1>2, <1>4, <1>5 DEF Budget, Consumes, SameTry

LEMMA SetBudget ==
    ASSUME BudgetInv, NEW r \in Requests, NEW n, Set(r, n), Budget(n),
           n.pc = "loop" => req[r].pc \notin {"loop", "acquire", "recheck"} \/ Rank(n) < Rank(req[r])
    PROVE  BudgetStep
  <1>1. DOMAIN req' = Requests /\ req'[r] = n /\ \A s \in Requests \ {r} : req'[s] = req[s]
    BY DEF BudgetInv, Set
  <1>2. \A s \in Requests : Budget(req'[s])
    BY <1>1 DEF BudgetInv
  <1>3. \A s \in Requests : Consumes(s)
    BY <1>1 DEF Consumes
  <1> QED
    BY <1>1, <1>2, <1>3 DEF BudgetStep, BudgetInv

LEMMA AllSameTry ==
    ASSUME BudgetInv, DOMAIN req' = Requests, \A r \in Requests : SameTry(r)
    PROVE  BudgetStep
  BY SameTryStep DEF BudgetStep, BudgetInv

LEMMA SameSet ==
    ASSUME BudgetInv, NEW r \in Requests, NEW n, Set(r, n), Record(n),
           n.pc = req[r].pc, n.pc # "loop", n.policy = req[r].policy, n.stage = req[r].stage, n.list = req[r].list,
           n.key = req[r].key, n.filtered = req[r].filtered, n.hist = req[r].hist
    PROVE  BudgetStep
  <1>1. DOMAIN req' = Requests /\ req'[r] = n /\ \A s \in Requests \ {r} : req'[s] = req[s]
    BY DEF BudgetInv, Set
  <1>2. SameTry(r)
    BY <1>1 DEF SameTry
  <1>3. \A s \in Requests \ {r} : SameTry(s)
    BY <1>1 DEF SameTry, BudgetInv, Budget, Base
  <1> QED
    BY <1>1, <1>2, <1>3, AllSameTry

LEMMA RankType ==
    ASSUME NEW q, Budget(q)
    PROVE  Rank(q) \in Nat
  <1>1. q.list \in Seq(Channels)
    BY DEF Budget, Base
  <1>2. Channels \ q.filtered \subseteq Channels /\ IsFiniteSet(Channels)
    BY RelayRouteAssumption
  <1>3. Cardinality(Channels \ q.filtered) \in Nat /\ Cardinality(Channels) \in Nat
    BY <1>2, FS_Subset, FS_CardinalityType
  <1> QED
    BY <1>1, <1>3 DEF Rank

LEMMA BeginBudget ==
    ASSUME RouteInv, BudgetInv, NEW r \in Requests, Begin(r)
    PROVE  BudgetStep
  <1>1. enabled \subseteq Channels /\ enabled # {} /\ req[r].pc = "idle"
    BY DEF RouteInv, Settings, Begin
  <1>2. PICK policy \in Policies[r], order \in Rankings(enabled) :
          \E stage \in (IF policy = "compact" THEN {"exact", "base"} ELSE {"none"}) :
            Set(r, [Idle EXCEPT !.pc = "loop", !.policy = policy, !.stage = stage,
                                !.list = IF policy = "compact" THEN <<>> ELSE AttemptList(order, policy),
                                !.fresh = IF policy = "compact" THEN {} ELSE Range(order)])
    BY Zenon DEF Begin
  <1>3. PICK list, F : /\ list = IF policy = "compact" THEN <<>> ELSE AttemptList(order, policy)
                       /\ F = IF policy = "compact" THEN {} ELSE Range(order)
    OBVIOUS
  <1>4. PICK stage \in (IF policy = "compact" THEN {"exact", "base"} ELSE {"none"}) :
          Set(r, [Idle EXCEPT !.pc = "loop", !.policy = policy, !.stage = stage, !.list = list, !.fresh = F])
    BY <1>2, <1>3
  <1>5. PICK n : n = [Idle EXCEPT !.pc = "loop", !.policy = policy, !.stage = stage, !.list = list, !.fresh = F]
    OBVIOUS
  <1>6. Record(n) /\ n.pc = "loop" /\ n.policy = policy /\ n.stage = stage /\ n.list = list /\ n.hist = <<>>
    BY <1>5, IdleRecord DEF Record, Fields, Idle
  <1>7. PICK E : E = enabled
    OBVIOUS
  <1>8. AttemptList(order, policy) \in Seq(Channels) /\ Room(<<>>, AttemptList(order, policy))
    BY <1>1, <1>7, StartHasRoom
  <1>9. list \in Seq(Channels) /\ (policy # "compact" => Room(<<>>, list))
    BY <1>3, <1>8, NothingSpent
  <1>10. stage \in {"none", "exact", "base"} /\ (stage = "exact" => policy = "compact")
    OBVIOUS
  <1>11. Budget(n)
    BY <1>6, <1>9, <1>10, FreshBudget
  <1> QED
    BY <1>1, <1>4, <1>5, <1>11, SetBudget

LEMMA GetChannelBudget ==
    ASSUME BudgetInv, NEW r \in Requests, GetChannel(r)
    PROVE  BudgetStep
  <1>1. PICK q, U : q = req[r] /\ U = Usable(q)
    OBVIOUS
  <1>2. q.pc = "loop" /\ q.policy # "compact"
    BY <1>1 DEF GetChannel
  <1>3. Base(q) /\ q.list \in Seq(Channels) /\ q.hist \in Seq(Attempts)
    BY <1>1 DEF BudgetInv, Budget, Base
  <1>4. CASE Set(r, Finish(q, TRUE))
    BY <1>4, FinishBudget, SetBudget
  <1>5. CASE /\ ~(Len(q.hist) >= TotalAttempts) /\ U # {}
             /\ \E p \in UNION {Priced(c) : c \in Chosen(From(q, Min(U)))} : Set(r, p)
    <2>1. U \subseteq 1..Len(q.list) /\ U \subseteq Nat
      BY <1>1, <1>3 DEF Usable
    <2>2. PICK i \in U : i = Min(U)
      BY <1>5, <2>1, MinIn
    <2>3. PICK f : f = From(q, i)
      OBVIOUS
    <2>4. i \in 1..Len(q.list)
      BY <2>1
    <2>5. /\ Base(f) /\ f.list # <<>> /\ Len(f.list) = Len(q.list) - i + 1
          /\ f.pc = "loop" /\ f.hist = q.hist /\ f.policy = q.policy
      <3>1. Onward(f, q, i)
        BY <1>3, <2>3, <2>4, FromBase
      <3> QED
        BY <1>2, <3>1 DEF Onward
    <2>6. PICK n \in UNION {Priced(c) : c \in Chosen(f)} : Set(r, n)
      BY <1>5, <2>2, <2>3
    <2>7. Len(f.hist) < TotalAttempts
      BY <1>3, <1>5, <2>5, RelayRouteAssumption
    <2>8. Budget(n) /\ (n.pc = "loop" => Rank(n) < Rank(f))
      BY <1>2, <2>5, <2>6, <2>7, ChosenBudget
    <2>10. Rank(f) = Len(f.list) /\ Rank(q) = Len(q.list)
      BY <1>2, <2>5 DEF Rank
    <2>11. Len(f.list) <= Len(q.list) /\ Len(f.list) \in Nat /\ Len(q.list) \in Nat
      BY <1>3, <2>4, <2>5
    <2>12. Rank(n) \in Int
      BY <2>8, RankType
    <2>13. n.pc = "loop" => Rank(n) < Rank(req[r])
      BY <1>1, <2>8, <2>10, <2>11, <2>12
    <2> QED
      BY <2>6, <2>8, <2>13, SetBudget
  <1>6. \/ Set(r, Finish(q, TRUE))
        \/ /\ ~(Len(q.hist) >= TotalAttempts) /\ U # {}
           /\ \E p \in UNION {Priced(c) : c \in Chosen(From(q, Min(U)))} : Set(r, p)
    BY <1>1, Zenon DEF GetChannel
  <1> QED
    BY <1>4, <1>5, <1>6

LEMMA GetCompactBudget ==
    ASSUME RouteInv, BudgetInv, NEW r \in Requests, GetCompactChannel(r)
    PROVE  BudgetStep
  <1>1. PICK q, E : q = req[r] /\ E = {c \in enabled \ q.filtered : HasKey(q, c)}
    OBVIOUS
  <1> DEFINE again(order) == [q EXCEPT !.list = selectedRouteAttemptCandidates(order), !.fresh = Channels]
             next(p) == IF p.hist = <<>> THEN {1} ELSE NextCandidateForError(p, 1, "transient")
             lost == IF canSwitchToBase(q) THEN switchToBase(q) ELSE Finish(q, TRUE)
  <1>2. q.pc = "loop" /\ q.policy = "compact"
    BY <1>1 DEF GetCompactChannel
  <1>3. Base(q) /\ Record(q) /\ q.hist \in Seq(Attempts) /\ q.stage \in {"none", "exact", "base"}
    BY <1>1 DEF BudgetInv, Budget, Base
  <1>4. E \subseteq Channels /\ \A c \in E : c \notin q.filtered
    BY <1>1 DEF RouteInv, Settings
  <1>5. CASE Set(r, Finish(q, TRUE))
    BY <1>5, FinishBudget, SetBudget
  <1>6. CASE Set(r, lost)
    <2>1. CASE canSwitchToBase(q)
      <3>1. PICK n : n = switchToBase(q)
        OBVIOUS
      <3>2. q.stage = "exact" /\ Set(r, n)
        BY <1>6, <2>1, <3>1 DEF canSwitchToBase
      <3>3. Budget(n) /\ Rank(n) < Rank(q)
        BY <1>2, <1>3, <3>1, <3>2, SwitchBudget
      <3> QED
        BY <1>1, <3>2, <3>3, SetBudget
    <2>2. CASE ~canSwitchToBase(q)
      BY <1>5, <1>6, <2>2
    <2> QED
      BY <2>1, <2>2
  <1>7. CASE /\ ~(Len(q.hist) >= TotalAttempts) /\ E # {}
             /\ \E order \in Rankings(E) :
                  /\ next(again(order)) # {}
                  /\ \E n \in UNION {Priced(c) : c \in Chosen(From(again(order), Min(next(again(order)))))} : Set(r, n)
    <2>1. PICK order \in Rankings(E) :
            /\ next(again(order)) # {}
            /\ \E n \in UNION {Priced(c) : c \in Chosen(From(again(order), Min(next(again(order)))))} : Set(r, n)
      BY <1>7
    <2>2. PICK d, p, N : d = Repeat(order, 1 + SameLimit) /\ p = again(order) /\ N = next(p)
      OBVIOUS
    <2>3. order \in Seq(E) /\ order # <<>>
      BY <1>4, <1>7, RankingOrdered DEF Ordered
    <2>4. d \in Seq(E) /\ Len(d) = 2 * Len(order)
      BY <2>2, <2>3, RepeatIs
    <2>5. Len(d) \in Nat /\ 1 \in 1..Len(d)
      BY <2>3, <2>4
    <2>6. d \in Seq(Channels)
      BY <1>4, <2>4
    <2>7. /\ Record(p) /\ p.list = d /\ p.pc = q.pc /\ p.hist = q.hist /\ p.policy = q.policy /\ p.stage = q.stage
          /\ p.filtered = q.filtered
      BY <1>3, <2>2 DEF Record, Fields, selectedRouteAttemptCandidates
    <2>8. Base(p)
      BY <1>2, <1>3, <2>6, <2>7, SameBase DEF Going, Retries
    <2>9. N \subseteq 1..Len(d)
      BY <2>2, <2>5, <2>7 DEF NextCandidateForError
    <2>10. N # {} /\ N \subseteq Nat
      BY <2>1, <2>2, <2>9
    <2>11. PICK i \in N : i = Min(N)
      BY <2>10, MinIn
    <2>12. PICK f : f = From(p, i)
      OBVIOUS
    <2>13. /\ Base(f) /\ f.list # <<>> /\ Head(f.list) = d[i]
           /\ f.pc = "loop" /\ f.hist = q.hist /\ f.policy = "compact" /\ f.stage = q.stage /\ f.filtered = q.filtered
      <3>1. i \in 1..Len(p.list)
        BY <2>7, <2>9
      <3>2. Onward(f, p, i)
        BY <2>8, <2>12, <3>1, FromBase
      <3> QED
        BY <1>2, <2>7, <3>2 DEF Onward
    <2>14. d[i] \in E
      BY <2>4, <2>9
    <2>15. MayGo(q.hist, d[i])
      BY <2>2, <2>7 DEF NextCandidateForError, Allows, Last1, MayGo
    <2>16. PICK n \in UNION {Priced(c) : c \in Chosen(f)} : Set(r, n)
      BY <2>1, <2>2, <2>11, <2>12
    <2>17. Len(f.hist) < TotalAttempts
      BY <1>3, <1>7, <2>13, RelayRouteAssumption
    <2>18. Budget(n) /\ (n.pc = "loop" => Rank(n) < Rank(f))
      BY <1>4, <2>13, <2>14, <2>15, <2>16, <2>17, ChosenBudget
    <2>19. Rank(f) = Rank(q)
      BY <1>2, <2>13 DEF Rank
    <2> QED
      BY <1>1, <2>16, <2>18, <2>19, SetBudget
  <1>8. \/ Set(r, Finish(q, TRUE))
        \/ Set(r, lost)
        \/ /\ ~(Len(q.hist) >= TotalAttempts) /\ E # {}
           /\ \E order \in Rankings(E) :
                /\ next(again(order)) # {}
                /\ \E n \in UNION {Priced(c) : c \in Chosen(From(again(order), Min(next(again(order)))))} : Set(r, n)
    BY <1>1, ZenonT(60) DEF GetCompactChannel
  <1> QED
    BY <1>5, <1>6, <1>7, <1>8

LEMMA AcquireBudget ==
    ASSUME BudgetInv, NEW r \in Requests, AcquireRouteLease(r)
    PROVE  BudgetStep
  <1>1. PICK q : q = req[r]
    OBVIOUS
  <1>2. q.pc = "acquire" /\ Base(q) /\ Fit(q) /\ Record(q) /\ q.list \in Seq(Channels) /\ q.stage \in {"none", "exact", "base"}
    BY <1>1 DEF AcquireRouteLease, BudgetInv, Budget, Base
  <1>3. CASE Set(r, Finish(q, TRUE))
    BY <1>3, FinishBudget, SetBudget
  <1>4. ASSUME NEW gone, Set(r, Failover(q, gone)) PROVE BudgetStep
    <2>1. PICK n : n = Failover(q, gone)
      OBVIOUS
    <2>2. Budget(n) /\ (n.pc = "loop" => Rank(n) < Rank(q))
      BY <1>2, <2>1, FailoverBudget DEF Fit
    <2> QED
      BY <1>1, <1>4, <2>1, <2>2, SetBudget
  <1>5. ASSUME NEW c, Set(r, [q EXCEPT !.pc = "recheck", !.age = 0, !.cap = c]) PROVE BudgetStep
    <2>1. PICK n : n = [q EXCEPT !.pc = "recheck", !.age = 0, !.cap = c]
      OBVIOUS
    <2>2. /\ Record(n) /\ n.pc = "recheck" /\ n.policy = q.policy /\ n.stage = q.stage /\ n.list = q.list
          /\ n.key = q.key /\ n.filtered = q.filtered /\ n.hist = q.hist
      BY <1>2, <2>1 DEF Record, Fields
    <2>3. Base(n)
      BY <1>2, <2>2, SameBase DEF Going, Base
    <2>4. Fit(n)
      BY <1>2, <2>2, SameFit
    <2> QED
      BY <1>5, <2>1, <2>2, <2>3, <2>4, SetBudget DEF Budget
  <1>6. \/ Set(r, Finish(q, TRUE))
        \/ \E gone \in BOOLEAN : Set(r, Failover(q, gone))
        \/ \E c : Set(r, [q EXCEPT !.pc = "recheck", !.age = 0, !.cap = c])
    BY <1>1, Zenon DEF AcquireRouteLease
  <1> QED
    BY <1>3, <1>4, <1>5, <1>6

\* The attempt that is made.
LEMMA AttemptBudget ==
    ASSUME NEW q, Base(q), Fit(q), q.pc = "recheck", NEW n, Record(n), n.pc = "up", n.policy = q.policy, n.stage = q.stage,
           n.list = q.list, n.hist = Append(q.hist, <<Head(q.list), q.key, q.stage>>)
    PROVE  Budget(n)
  <1>1. PICK c, a, h, g : /\ c = Head(q.list) /\ a = <<c, q.key, q.stage>> /\ h = q.hist /\ g = Append(h, a)
    OBVIOUS
  <1>2. /\ q.list \in Seq(Channels) /\ q.list # <<>> /\ c \in Channels /\ h \in Seq(Attempts)
        /\ q.stage \in {"none", "exact", "base"} /\ Spent(h) /\ Len(h) < TotalAttempts
        /\ q.key \in Keys[c] /\ q.key \notin Tried(h, c, q.stage)
        /\ q.stage = "exact" => StageAttempts(h, "exact") < ExactBudget
    BY <1>1 DEF Base, Fit, Going
  <1>3. q.key \in UNION {Keys[d] : d \in Channels}
    BY <1>2
  <1>4. a \in Attempts
    BY <1>1, <1>2, <1>3 DEF Attempts
  <1>5. g \in Seq(Attempts) /\ n.hist = g
    BY <1>1, <1>2, <1>4, AppendIs
  <1>6. Spent(g)
    <2>1. c \in Range(q.list)
      <3>1. c = q.list[1] /\ 1 \in 1..Len(q.list)
        BY <1>1, <1>2
      <3> QED
        BY <1>2, <3>1, RangeFinite
    <2>2. h # <<>> /\ Last1(h) = c => SameChannel(h) < SameLimit
      BY <1>1, <2>1 DEF Base, Fit, Retries, MayGo, Going
    <2> QED
      BY <1>1, <1>2, <1>4, <2>2, AppendSpent
  <1>7. q.policy # "compact" => Room(g, q.list)
    <2>1. a[1] = Head(q.list)
      BY <1>1
    <2> QED
      BY <1>1, <1>2, <1>4, <2>1, AppendRoom DEF Base
  <1>8. q.policy = "compact" => Failovers(g) <= FailoverLimit
    <2> SUFFICES ASSUME q.policy = "compact" PROVE Failovers(g) <= FailoverLimit
      OBVIOUS
    <2>1. PICK e, f : e = Failovers(h) /\ f = Failovers(g)
      OBVIOUS
    <2>2. e \in Nat /\ e <= FailoverLimit /\ (h = <<>> \/ Last1(h) = c \/ e < FailoverLimit)
      BY <1>1, <1>2, <2>1, FailoversType DEF Base, Fit, MayGo
    <2>3. (h = <<>> => f = 0) /\ (h # <<>> => f = e + (IF Last1(h) = c THEN 0 ELSE 1))
      BY <1>1, <1>2, <1>4, <2>1, AppendCounts
    <2>4. f <= FailoverLimit
      BY <2>2, <2>3 DEF FailoverLimit
    <2> QED
      BY <2>1, <2>4
  <1>9. q.stage = "exact" => q.policy = "compact"
    BY DEF Base
  <1>10. Base(n)
    BY <1>2, <1>5, <1>6, <1>7, <1>8, <1>9 DEF Base, Going, Retries
  <1> QED
    BY <1>10 DEF Budget

LEMMA RecheckBudget ==
    ASSUME BudgetInv, NEW r \in Requests, Recheck(r)
    PROVE  BudgetStep
  <1>1. PICK q : q = req[r]
    OBVIOUS
  <1>2. q.pc = "recheck" /\ Base(q) /\ Fit(q) /\ Record(q)
    BY <1>1 DEF Recheck, BudgetInv, Budget, Base
  <1>3. ASSUME NEW p, Set(r, Finish(p, TRUE)) PROVE BudgetStep
    BY <1>3, FinishBudget, SetBudget
  <1>4. ASSUME NEW gone, Set(r, Failover(q, gone)) PROVE BudgetStep
    <2>1. PICK n : n = Failover(q, gone)
      OBVIOUS
    <2>2. Budget(n) /\ (n.pc = "loop" => Rank(n) < Rank(q))
      BY <1>2, <2>1, FailoverBudget DEF Fit
    <2> QED
      BY <1>1, <1>4, <2>1, <2>2, SetBudget
  <1>5. ASSUME NEW p \in PrepareBilling([q EXCEPT !.ren = "on", !.age = 0]), Set(r, p) PROVE BudgetStep
    <2>1. PICK b : b = [q EXCEPT !.ren = "on", !.age = 0]
      OBVIOUS
    <2>2. Record(b) /\ b.policy = q.policy /\ b.stage = q.stage /\ b.list = q.list /\ b.key = q.key /\ b.hist = q.hist
      BY <1>2, <2>1 DEF Record, Fields
    <2>3. CASE p = Finish(b, TRUE)
      BY <1>3, <1>5, <2>3
    <2>4. CASE p = [b EXCEPT !.pc = "up", !.bill = "held", !.hist = Append(b.hist, <<Head(b.list), b.key, b.stage>>)]
      <3>1. PICK g : g = Append(q.hist, <<Head(q.list), q.key, q.stage>>)
        OBVIOUS
      <3>2. p = [b EXCEPT !.pc = "up", !.bill = "held", !.hist = g]
        BY <2>2, <2>4, <3>1
      <3>3. Record(p) /\ p.pc = "up" /\ p.policy = q.policy /\ p.stage = q.stage /\ p.list = q.list /\ p.hist = g
        BY <2>2, <3>2 DEF Record, Fields
      <3>4. Budget(p)
        BY <1>2, <3>1, <3>3, AttemptBudget
      <3> QED
        BY <1>5, <3>3, <3>4, SetBudget
    <2>5. \/ p = Finish(b, TRUE)
          \/ p = [b EXCEPT !.pc = "up", !.bill = "held", !.hist = Append(b.hist, <<Head(b.list), b.key, b.stage>>)]
      BY <1>5, <2>1 DEF PrepareBilling
    <2> QED
      BY <2>3, <2>4, <2>5
  <1>6. \/ \E p \in PrepareBilling([q EXCEPT !.ren = "on", !.age = 0]) : Set(r, p)
        \/ \E gone \in BOOLEAN : Set(r, Failover(q, gone))
        \/ Set(r, Finish(q, TRUE))
    BY <1>1, Zenon DEF Recheck
  <1> QED
    BY <1>3, <1>4, <1>5, <1>6

LEMMA ObserveBudget ==
    ASSUME BudgetInv, NEW r \in Requests, NEW out, Observe(r, out)
    PROVE  BudgetStep
  <1>1. PICK n : n = [req[r] EXCEPT !.out = out]
    OBVIOUS
  <1>2. Set(r, n) /\ req[r].pc = "up" /\ Record(req[r])
    BY <1>1 DEF Observe, BudgetInv, Budget, Base
  <1>3. /\ Record(n) /\ n.pc = req[r].pc /\ n.policy = req[r].policy /\ n.stage = req[r].stage /\ n.list = req[r].list
        /\ n.key = req[r].key /\ n.filtered = req[r].filtered /\ n.hist = req[r].hist
    BY <1>1, <1>2 DEF Record, Fields
  <1> QED
    BY <1>2, <1>3, SameSet

\* A channel gets a new epoch: the others see it, and try what they would have tried.
LEMMA ReportBudget ==
    ASSUME BudgetInv, NEW r \in Requests, NEW c, NEW q, Budget(q), q.pc # "loop", Report(c, q, r)
    PROVE  BudgetStep
  <1>1. CASE req' = [req EXCEPT ![r] = q]
    BY <1>1, SetBudget DEF Set
  <1>2. CASE req' = [s \in Requests |-> IF s = r THEN [q EXCEPT !.fresh = q.fresh \ {c}]
                                        ELSE [req[s] EXCEPT !.fresh = req[s].fresh \ {c}]]
    <2>1. DOMAIN req' = Requests /\ req'[r] = [q EXCEPT !.fresh = q.fresh \ {c}]
      BY <1>2
    <2>2. Budget(req'[r]) /\ req'[r].pc # "loop"
      <3>1. PICK p, F : F = q.fresh \ {c} /\ p = [q EXCEPT !.fresh = F]
        OBVIOUS
      <3>2. Record(q) /\ Base(q)
        BY DEF Budget, Base
      <3>3. /\ Record(p) /\ p.pc = q.pc /\ p.policy = q.policy /\ p.stage = q.stage /\ p.list = q.list /\ p.key = q.key
            /\ p.filtered = q.filtered /\ p.hist = q.hist
        BY <3>1, <3>2 DEF Record, Fields
      <3>4. Base(p)
        BY <3>2, <3>3 DEF Base, Retries
      <3>5. q.pc \in {"acquire", "recheck"} => Fit(p)
        BY <3>2, <3>3, SameFit DEF Budget
      <3> QED
        BY <2>1, <3>1, <3>3, <3>4, <3>5 DEF Budget
    <2>3. ASSUME NEW s \in Requests \ {r} PROVE Budget(req'[s]) /\ Consumes(s)
      <3>1. PICK p, F, n : p = req[s] /\ F = p.fresh \ {c} /\ n = [p EXCEPT !.fresh = F]
        OBVIOUS
      <3>2. req'[s] = n /\ Record(p) /\ Budget(p)
        BY <1>2, <3>1 DEF BudgetInv, Budget, Base
      <3>3. /\ Record(n) /\ n.pc = p.pc /\ n.policy = p.policy /\ n.stage = p.stage /\ n.list = p.list /\ n.key = p.key
            /\ n.filtered = p.filtered /\ n.hist = p.hist /\ n.fresh = F
        BY <3>1, <3>2 DEF Record, Fields
      <3>4. F = p.fresh => n = p
        BY <3>1, <3>2 DEF Record
      <3>5. SameTry(s)
        BY <3>1, <3>2, <3>3, <3>4 DEF SameTry
      <3> QED
        BY <3>1, <3>2, <3>5, SameTryStep
    <2>4. Consumes(r)
      BY <2>2 DEF Consumes
    <2> QED
      BY <2>1, <2>2, <2>3, <2>4 DEF BudgetStep, BudgetInv
  <1> QED
    BY <1>1, <1>2 DEF Report, Bumped

LEMMA HandlerBudget ==
    ASSUME BudgetInv, NEW r \in Requests, Handler(r)
    PROVE  BudgetStep
  <1>1. Base(req[r])
    BY DEF BudgetInv, Budget
  <1>2. ASSUME NEW p, NEW e, Set(r, Finish(p, e)) PROVE BudgetStep
    BY <1>2, FinishBudget, SetBudget
  <1>3. ASSUME NEW p, NEW e, NEW c, Report(c, Finish(p, e), r) PROVE BudgetStep
    <2>1. PICK f : f = Finish(p, e)
      OBVIOUS
    <2>2. Budget(f) /\ f.pc # "loop" /\ Report(c, f, r)
      BY <1>3, <2>1, FinishBudget
    <2> QED
      BY <2>2, ReportBudget
  <1>4. CASE HandlerSucceeds(r)
    <2>1. PICK out \in {req[r].out, "sent"}, bill \in {"settled", "pending"} :
            LET q == [req[r] EXCEPT !.out = out, !.bill = bill]
                failed == ~relayResponseCommitted(q) /\ (q.lost \/ bill = "pending")
            IN IF failed \/ bill = "pending" THEN Set(r, Finish(q, failed)) /\ UNCHANGED faults
               ELSE Report(Ch(r), Finish(q, FALSE), r)
      BY <1>4, Zenon DEF HandlerSucceeds
    <2>2. PICK q : q = [req[r] EXCEPT !.out = out, !.bill = bill]
      OBVIOUS
    <2>3. PICK failed \in BOOLEAN : failed <=> (~relayResponseCommitted(q) /\ (q.lost \/ bill = "pending"))
      BY Zenon
    <2>4. PICK c : c = Ch(r)
      OBVIOUS
    <2>5. Set(r, Finish(q, failed)) \/ Set(r, Finish(q, TRUE)) \/ Set(r, Finish(q, FALSE)) \/ Report(c, Finish(q, FALSE), r)
      BY <2>1, <2>2, <2>3, <2>4, Zenon
    <2> QED
      BY <1>2, <1>3, <2>5
  <1>5. ASSUME NEW class \in Classes, HandlerFails(r, class) PROVE BudgetStep
    <2>1. PICK q, c : q = req[r] /\ c = Ch(r)
      OBVIOUS
    <2>2. \/ Set(r, LostLease(q))
          \/ \E gone \in BOOLEAN : Report(c, AfterError(q, class, gone), r) \/ Set(r, AfterError(q, class, gone))
      BY <1>5, <2>1, Zenon DEF HandlerFails
    <2>3. ASSUME Set(r, LostLease(q)) PROVE BudgetStep
      <3>1. PICK e \in BOOLEAN : e <=> ~HasSendResponse(q)
        BY Zenon
      <3>2. Finish(q, ~HasSendResponse(q)) = Finish(q, e)
        BY <3>1 DEF Finish
      <3> QED
        BY <1>2, <2>3, <3>2 DEF LostLease
    <2>4. ASSUME NEW gone \in BOOLEAN, Report(c, AfterError(q, class, gone), r) \/ Set(r, AfterError(q, class, gone))
          PROVE  BudgetStep
      <3>1. PICK n : n = AfterError(q, class, gone)
        OBVIOUS
      <3>2. Budget(n) /\ n.pc # "loop"
        BY <1>1, <2>1, <3>1, AfterErrorBudget
      <3> QED
        BY <2>4, <3>1, <3>2, SetBudget, ReportBudget
    <2> QED
      BY <2>2, <2>3, <2>4
  <1> QED
    BY <1>4, <1>5 DEF Handler

LEMMA RenewalBudget ==
    ASSUME RouteInv, BudgetInv, NEW r \in Requests, Renewal(r)
    PROVE  BudgetStep
  <1>1. Record(req[r])
    BY DEF BudgetInv, Budget, Base
  <1>2. req[r].pc # "loop"
    BY DEF RouteInv, Slot, Renewal, RenewBegin, RenewRouteLease
  <1>3. ASSUME NEW n, Set(r, n), Record(n),
               n.pc = req[r].pc, n.policy = req[r].policy, n.stage = req[r].stage, n.list = req[r].list,
               n.key = req[r].key, n.filtered = req[r].filtered, n.hist = req[r].hist
        PROVE  BudgetStep
    BY <1>2, <1>3, SameSet
  <1>4. CASE RenewBegin(r)
    <2>1. PICK n : n = [req[r] EXCEPT !.ren = "call"]
      OBVIOUS
    <2>2. /\ Record(n) /\ n.pc = req[r].pc /\ n.policy = req[r].policy /\ n.stage = req[r].stage
          /\ n.list = req[r].list /\ n.key = req[r].key /\ n.filtered = req[r].filtered /\ n.hist = req[r].hist
      BY <1>1, <2>1 DEF Record, Fields
    <2> QED
      BY <1>3, <1>4, <2>1, <2>2 DEF RenewBegin
  <1>5. CASE RenewRouteLease(r)
    <2>1. PICK n : n = [req[r] EXCEPT !.ren = "on", !.age = 0]
      OBVIOUS
    <2>2. PICK l \in BOOLEAN : l <=> req[r].pc # "final"
      BY Zenon
    <2>3. PICK m : m = [req[r] EXCEPT !.ren = "failed", !.lost = l, !.age = 0]
      OBVIOUS
    <2>4. Set(r, n) \/ Set(r, m)
      BY <1>5, <2>1, <2>2, <2>3 DEF RenewRouteLease
    <2>5. /\ Record(n) /\ n.pc = req[r].pc /\ n.policy = req[r].policy /\ n.stage = req[r].stage
          /\ n.list = req[r].list /\ n.key = req[r].key /\ n.filtered = req[r].filtered /\ n.hist = req[r].hist
      BY <1>1, <2>1 DEF Record, Fields
    <2>6. /\ Record(m) /\ m.pc = req[r].pc /\ m.policy = req[r].policy /\ m.stage = req[r].stage
          /\ m.list = req[r].list /\ m.key = req[r].key /\ m.filtered = req[r].filtered /\ m.hist = req[r].hist
      BY <1>1, <2>3 DEF Record, Fields
    <2> QED
      BY <1>3, <2>4, <2>5, <2>6
  <1> QED
    BY <1>4, <1>5 DEF Renewal

\* The next lap.
LEMMA RetryBudget ==
    ASSUME BudgetInv, NEW r \in Requests, RetryRelease(r)
    PROVE  BudgetStep
  <1>1. PICK q : q = req[r]
    OBVIOUS
  <1>2. q.pc = "retry" /\ Base(q) /\ Record(q) /\ q.list \in Seq(Channels) /\ q.stage \in {"none", "exact", "base"}
    BY <1>1 DEF RetryRelease, BudgetInv, Budget, Base
  <1>3. ASSUME NEW p, Set(r, Finish(p, TRUE)) PROVE BudgetStep
    BY <1>3, FinishBudget, SetBudget
  <1>4. ASSUME NEW p \in Stopped(q), Set(r, [Reset(p) EXCEPT !.pc = "loop"]) PROVE BudgetStep
    <2>1. PICK n : n = [Reset(p) EXCEPT !.pc = "loop"]
      OBVIOUS
    <2>2. /\ Record(p) /\ p.policy = q.policy /\ p.stage = q.stage /\ p.list = q.list /\ p.hist = q.hist
      BY <1>2, <1>4 DEF Stopped, Record, Fields
    <2>3. /\ Record(n) /\ n.pc = "loop" /\ n.policy = p.policy /\ n.stage = p.stage /\ n.list = p.list /\ n.hist = p.hist
      BY <2>1, <2>2 DEF Reset, Record, Fields
    <2>4. Base(n)
      BY <1>2, <2>2, <2>3, SameBase DEF Going, Base
    <2> QED
      BY <1>1, <1>2, <1>4, <2>1, <2>3, <2>4, SetBudget DEF Budget
  <1>5. \/ Set(r, Finish(q, TRUE))
        \/ \E p \in Stopped(q) : Set(r, Finish(p, TRUE)) \/ Set(r, [Reset(p) EXCEPT !.pc = "loop"])
    BY <1>1, Zenon DEF RetryRelease
  <1> QED
    BY <1>3, <1>4, <1>5

LEMMA EndBudget ==
    ASSUME BudgetInv, NEW r \in Requests, EndRequest(r) \/ Crash(r)
    PROVE  BudgetStep
  <1>1. Set(r, Idle)
    BY DEF EndRequest, Crash
  <1> QED
    BY <1>1, IdleBudget, SetBudget

LEMMA ReconfigureBudget ==
    ASSUME BudgetInv, NEW c, Reconfigure(c)
    PROVE  BudgetStep
  <1>0. DOMAIN req = Requests /\ \A r \in Requests : Record(req[r])
    BY DEF BudgetInv, Budget, Base
  <1>1. CASE UNCHANGED req
    BY <1>0, <1>1, AllSameTry DEF SameTry
  <1>2. CASE req' = [r \in Requests |-> IF req[r].pc \in {"acquire", "recheck"} /\ Ch(r) = c
                                        THEN [req[r] EXCEPT !.steady = FALSE] ELSE req[r]]
    <2>1. ASSUME NEW r \in Requests PROVE SameTry(r)
      <3>1. req'[r] = req[r] \/ (req[r].pc # "loop" /\ req'[r] = [req[r] EXCEPT !.steady = FALSE])
        BY <1>2
      <3>2. PICK q, n : q = req[r] /\ n = [q EXCEPT !.steady = FALSE]
        OBVIOUS
      <3>3. /\ Record(n) /\ n.pc = q.pc /\ n.policy = q.policy /\ n.stage = q.stage /\ n.list = q.list /\ n.key = q.key
            /\ n.filtered = q.filtered /\ n.hist = q.hist
        BY <1>0, <3>2 DEF Record, Fields
      <3> QED
        BY <1>0, <3>1, <3>2, <3>3 DEF SameTry
    <2> QED
      BY <1>2, <2>1, AllSameTry
  <1> QED
    BY <1>1, <1>2 DEF Reconfigure

LEMMA TickBudget ==
    ASSUME RouteInv, BudgetInv, Tick
    PROVE  BudgetStep
  <1>1. DOMAIN req' = Requests /\ \A r \in Requests : Record(req[r])
    BY DEF BudgetInv, Budget, Base, Tick
  <1>2. ASSUME NEW r \in Requests PROVE SameTry(r)
    <2>1. PICK q, a, n : q = req[r] /\ a = q.age + 1 /\ n = [q EXCEPT !.age = a]
      OBVIOUS
    <2>2. req'[r] = q \/ (q.pc # "loop" /\ req'[r] = n)
      BY <2>1 DEF Tick, RouteInv, Slot
    <2>3. /\ Record(n) /\ n.pc = q.pc /\ n.policy = q.policy /\ n.stage = q.stage /\ n.list = q.list /\ n.key = q.key
          /\ n.filtered = q.filtered /\ n.hist = q.hist
      BY <1>1, <2>1 DEF Record, Fields
    <2> QED
      BY <1>1, <2>1, <2>2, <2>3 DEF SameTry
  <1> QED
    BY <1>1, <1>2, AllSameTry

LEMMA NextBudget == RouteInv /\ BudgetInv /\ [Next]_vars => BudgetStep
  <1> SUFFICES ASSUME RouteInv, BudgetInv, [Next]_vars PROVE BudgetStep
    OBVIOUS
  <1>1. ASSUME NEW r \in Requests, Begin(r) \/ Admit(r) \/ Handler(r) \/ Renewal(r) \/ RetryRelease(r) \/ EndRequest(r) \/ Crash(r)
        PROVE  BudgetStep
    BY <1>1, BeginBudget, GetChannelBudget, GetCompactBudget, AcquireBudget, RecheckBudget, HandlerBudget, RenewalBudget,
       RetryBudget, EndBudget DEF Admit
  <1>2. CASE UNCHANGED vars
    <2>1. UNCHANGED req /\ DOMAIN req = Requests /\ \A r \in Requests : Record(req[r])
      BY <1>2 DEF vars, BudgetInv, Budget, Base
    <2> QED
      BY <2>1, AllSameTry DEF SameTry
  <1> QED
    BY <1>1, <1>2, ObserveBudget, ReconfigureBudget, TickBudget DEF Next

LEMMA InitBudget == Init => BudgetInv
  BY IdleBudget DEF Init, BudgetInv

LEMMA BudgetBounds == BudgetInv => AttemptBudgets
  <1> SUFFICES ASSUME BudgetInv, NEW r \in Requests
               PROVE  LET h == req[r].hist IN
                        /\ Len(h) <= TotalAttempts /\ SameChannel(h) <= SameLimit /\ Failovers(h) <= FailoverLimit
                        /\ \A i, j \in 1..Len(h) : i # j => h[i] # h[j]
                        /\ StageAttempts(h, "exact") <= ExactBudget
    BY DEF AttemptBudgets
  <1>1. PICK q, h : q = req[r] /\ h = q.hist
    OBVIOUS
  <1>2. Base(q) /\ Spent(h) /\ h \in Seq(Attempts) /\ q.list \in Seq(Channels)
    BY <1>1 DEF BudgetInv, Budget, Base
  <1>3. Failovers(h) <= FailoverLimit
    <2>1. CASE q.policy = "compact"
      BY <1>1, <1>2, <2>1 DEF Base
    <2>2. CASE h = <<>>
      BY <2>2, NothingSpent DEF FailoverLimit
    <2>3. CASE q.policy # "compact" /\ h # <<>>
      <3>1. PICK f, n : f = Failovers(h) /\ n = Cardinality(Range(q.list) \ {Last1(h)})
        OBVIOUS
      <3>2. f \in Nat /\ n \in Nat /\ f + n <= FailoverLimit
        BY <1>1, <1>2, <2>3, <3>1, RangeFinite, FailoversType DEF Base, Room
      <3> QED
        BY <3>1, <3>2 DEF FailoverLimit
    <2> QED
      BY <2>1, <2>2, <2>3
  <1> QED
    BY <1>1, <1>2, <1>3 DEF Spent

(* The loop of controller/relay.go is bounded: for any requests, channels, *)
(* keys, policies, rankings and faults, a request makes at most            *)
(* TotalAttempts attempts and FailoverLimit failovers, never tries a key   *)
(* of a channel twice in a stage, spends at most the exact stage's share   *)
(* there, and every lap that makes no attempt uses up a candidate, a       *)
(* channel or the exact stage.                                             *)
THEOREM AttemptsAreBounded == Spec => AttemptsBounded
  <1>1. Init => RouteInv /\ BudgetInv
    BY InitRoute, InitBudget
  <1>2. RouteInv /\ BudgetInv /\ [Next]_vars => (RouteInv /\ BudgetInv)'
    BY NextKeepsRoute, NextBudget DEF BudgetStep
  <1>3. RouteInv /\ BudgetInv /\ [Next]_vars =>
          [\A r \in Requests :
             req'[r].pc = "loop" /\ req[r].pc \in {"loop", "acquire", "recheck"} /\ req'[r] # req[r]
               => Rank(req'[r]) < Rank(req[r]) \/ req'[r].fresh # req[r].fresh]_vars
    BY NextBudget DEF BudgetStep, Consumes
  <1>4. BudgetInv => AttemptBudgets
    BY BudgetBounds
  <1> QED
    BY <1>1, <1>2, <1>3, <1>4, PTL DEF Spec, AttemptsBounded, EveryLapConsumes

-----------------------------------------------------------------------------
(* The keys of a channel. *)

RowKeys == {"status", "keys", "marks", "poll", "mode"}
JobKeys == {"pc", "kind", "ch", "live", "key", "want", "act", "turn"}

\* What was asked of a goroutine that edits or manages.
TaskShape(j) ==
  /\ DOMAIN j.ch = RowKeys
  /\ \/ j.kind = "manage" /\ j.act \in Actions
     \/ j.kind = "edit" /\ j.act \in {<<c>> : c \in {"append", "replace", "mode", "other"}}

\* A goroutine that has the pointer into the cache has not begun to write.
JobShape(j) ==
  /\ DOMAIN j = JobKeys /\ j.live \in BOOLEAN /\ j.turn \in BOOLEAN
  /\ j.live => memory /\ j.pc \in {"pick", "use"}
  /\ j.pc \in {"manage", "write"} => TaskShape(j)

\* The row and the abilities may differ.
Mid(j) == j.pc \in {"able", "reread", "abilities", "tagged"}

\* The change of a status leaves the marks of the row but for the key to enable.
Keeps(row, j) ==
  \A i \in DOMAIN row.keys :
    i \in DOMAIN j.ch.marks \/ i \notin DOMAIN row.marks \/ (j.want = "on" /\ row.keys[i] = j.key)

\* What a goroutine between two statements knows of the row, when it writes alone.
Knows(j) ==
  /\ j.pc = "save" =>
       /\ IF j.turn THEN j.ch.status = "on" <=> j.want = "on" ELSE j.ch.status = stored.status
       /\ multi => Keeps(stored, j)
  /\ j.pc \in {"able", "tagged"} => (stored.status = "on" <=> j.want = "on")
  /\ j.pc = "abilities" => (j.turn <=> stored.status = "on")

Shapes ==
  /\ memory \in BOOLEAN /\ multi \in BOOLEAN /\ able \in BOOLEAN /\ clean \in BOOLEAN
  /\ DOMAIN stored = RowKeys
  /\ job = [w \in Workers |-> job[w]]
  /\ \A w \in Workers : JobShape(job[w])

\* Whoever changes a status, and every writer but an edit and a tag change, has the
\* polling lock.
Locked(j) == j.pc \in {"read", "save", "able"} \/ (Writing(j) /\ ~Lockless(j))
LockHeld == \A w \in Workers : Locked(job[w]) => keyLock = w

Agrees == able <=> stored.status = "on"

WritersKnow ==
  /\ ~Overlap(job)
  /\ \A w \in Workers : Knows(job[w])
  /\ (\A w \in Workers : ~Mid(job[w])) => Agrees

KeysInv == Shapes /\ LockHeld /\ (clean => WritersKnow)

LEMMA OneWriter ==
    ASSUME KeysInv, clean, NEW v \in Workers, NEW w \in Workers, v # w, Writing(job[w])
    PROVE  ~Writing(job[v])
  BY DEF KeysInv, WritersKnow, Overlap, LockHeld, Locked

\* Who does not write knows nothing that could become wrong.
LEMMA IdleKnows ==
    ASSUME NEW j, ~Writing(j)
    PROVE  Knows(j) /\ Knows(j)' /\ ~Mid(j) /\ ~Locked(j)
  BY DEF Writing, Knows, Mid, Locked

LEMMA JobTurns ==
    ASSUME NEW w \in Workers, NEW j, Shapes, job' = [job EXCEPT ![w] = j]
    PROVE  job' = [v \in Workers |-> IF v = w THEN j ELSE job[v]]
  BY DEF Shapes

\* One goroutine takes a step.
LEMMA TurnKeeps ==
    ASSUME KeysInv, NEW w \in Workers, NEW j, JobShape(j),
           job' = [job EXCEPT ![w] = j], clean' = (clean /\ ~Overlap(job')), UNCHANGED <<memory, multi>>,
           DOMAIN stored' = RowKeys, able' \in BOOLEAN,
           \A v \in Workers \ {w} : keyLock = v => keyLock' = v,
           Locked(j) => keyLock' = w,
           clean /\ clean' => Knows(j)',
           \/ /\ stored'.status = stored.status /\ stored'.keys = stored.keys /\ able' = able
              /\ keyLock = NoWorker \/ stored'.marks = stored.marks
              /\ ~Writing(job[w]) /\ ~Mid(j)
           \/ /\ Writing(job[w]) /\ (clean /\ clean' /\ ~Mid(j) => Agrees')
    PROVE  KeysInv'
  <1>1. Shapes /\ LockHeld
    BY DEF KeysInv
  <1>2. job' = [v \in Workers |-> IF v = w THEN j ELSE job[v]]
    BY <1>1, JobTurns
  <1>3. job'[w] = j /\ \A v \in Workers : v # w => job'[v] = job[v]
    BY <1>2
  <1>4. Shapes'
    BY <1>1, <1>2, <1>3 DEF Shapes, JobShape
  <1>5. LockHeld'
    <2> SUFFICES ASSUME NEW v \in Workers, Locked(job'[v]) PROVE keyLock' = v
      BY DEF LockHeld, Locked, Writing, Lockless
    <2>1. CASE v = w
      BY <1>3, <2>1
    <2>2. CASE v # w
      BY <1>1, <1>3, <2>2 DEF LockHeld
    <2> QED
      BY <2>1, <2>2
  <1>6. ASSUME clean' PROVE WritersKnow'
    <2>0. clean /\ ~Overlap(job')
      BY <1>1, <1>6 DEF Shapes
    <2>1. WritersKnow /\ Knows(j)'
      BY <1>6, <2>0 DEF KeysInv
    <2>2. ~Overlap(job)'
      BY <2>0 DEF Overlap, Writing, Lockless
    <2>3. CASE Writing(job[w])
      <3>1. \A v \in Workers : v # w => ~Writing(job[v])
        BY <2>0, <2>3, OneWriter
      <3>2. ASSUME NEW v \in Workers PROVE Knows(job[v])'
        <4>1. CASE v = w
          BY <1>3, <2>1, <4>1 DEF Knows
        <4>2. CASE v # w
          BY <1>3, <3>1, <4>2 DEF Knows, Writing
        <4> QED
          BY <4>1, <4>2
      <3>3. (\A v \in Workers : ~Mid(job[v]))' => Agrees'
        BY <1>3, <1>6, <2>0, <2>3 DEF Mid
      <3> QED
        BY <2>2, <3>2, <3>3 DEF WritersKnow
    <2>4. CASE ~Writing(job[w])
      <3>1. /\ stored'.status = stored.status /\ stored'.keys = stored.keys /\ able' = able /\ ~Mid(j) /\ ~Mid(job[w])
            /\ keyLock = NoWorker \/ stored'.marks = stored.marks
        BY <2>4 DEF Mid, Writing
      <3>2. ASSUME NEW v \in Workers PROVE Knows(job[v])'
        <4>1. CASE v = w
          BY <1>3, <2>1, <4>1 DEF Knows
        <4>2. CASE v # w
          <5>1. job'[v] = job[v] /\ Knows(job[v])
            BY <1>3, <2>1, <4>2 DEF WritersKnow
          <5>2. job[v].pc = "save" => stored'.marks = stored.marks
            BY <1>1, <3>1, ChannelKeysAssumption DEF LockHeld, Locked
          <5>3. job[v].pc = "save" /\ multi /\ Keeps(stored, job[v]) => Keeps(stored', job[v])
            BY <3>1, <5>2 DEF Keeps
          <5> QED
            BY <3>1, <5>1, <5>3 DEF Knows, Keeps
        <4> QED
          BY <4>1, <4>2
      <3>3. (\A v \in Workers : ~Mid(job[v]))' => Agrees'
        <4> SUFFICES ASSUME \A v \in Workers : ~Mid(job[v])' PROVE Agrees'
          OBVIOUS
        <4>1. \A v \in Workers : ~Mid(job[v])
          BY <1>3, <3>1 DEF Mid
        <4> QED
          BY <2>1, <3>1, <4>1 DEF WritersKnow, Agrees
      <3> QED
        BY <2>2, <3>2, <3>3 DEF WritersKnow
    <2> QED
      BY <2>3, <2>4
  <1> QED
    BY <1>4, <1>5, <1>6 DEF KeysInv

LEMMA NoJobShape ==
    /\ JobShape(NoJob) /\ ~Writing(NoJob) /\ ~Mid(NoJob)
    /\ JobShape([NoJob EXCEPT !.pc = "refresh"]) /\ ~Writing([NoJob EXCEPT !.pc = "refresh"]) /\ ~Mid([NoJob EXCEPT !.pc = "refresh"])
  BY DEF JobShape, NoJob, JobKeys, Writing, Mid

\* A goroutine begins.
LEMMA StartKeeps ==
    ASSUME KeysInv, NEW w \in Workers, NEW j, JobShape(j), Start(w, j), Writing(j) => Lockless(j) /\ j.pc \in {"write", "tag"}
    PROVE  KeysInv'
  <1>1. /\ job[w].pc = "idle" /\ job' = [job EXCEPT ![w] = j] /\ clean' = (clean /\ ~Overlap(job'))
        /\ UNCHANGED <<memory, multi, stored, able, keyLock>>
    BY DEF Start, Turn
  <1>2. ~Writing(job[w]) /\ ~Mid(j) /\ Knows(j)' /\ ~Locked(j)
    BY <1>1 DEF Writing, Mid, Knows, Locked
  <1>3. DOMAIN stored' = RowKeys /\ able' \in BOOLEAN
    BY <1>1 DEF KeysInv, Shapes
  <1> QED
    BY <1>1, <1>2, <1>3, TurnKeeps

LEMMA BeginKeeps ==
    ASSUME KeysInv, NEW w \in Workers, Begins(w)
    PROVE  KeysInv'
  <1>0. memory \in BOOLEAN /\ DOMAIN stored = RowKeys
    BY DEF KeysInv, Shapes
  <1>1. CASE CacheGetChannel(w)
    <2>0. PICK m \in BOOLEAN : m = memory
      BY <1>0
    <2>1. PICK c : c = IF memory THEN <<>> ELSE stored
      OBVIOUS
    <2>2. PICK j : j = [NoJob EXCEPT !.pc = "pick", !.kind = "request", !.live = m, !.ch = c]
      OBVIOUS
    <2>3. JobShape(j) /\ ~Writing(j)
      BY <2>0, <2>2 DEF JobShape, JobKeys, NoJob, Writing
    <2>4. Start(w, j)
      BY <1>1, <2>0, <2>1, <2>2 DEF CacheGetChannel
    <2> QED
      BY <2>3, <2>4, StartKeeps
  <1>2. ASSUME NEW kind, GetAllChannels(w, kind) PROVE KeysInv'
    <2>1. PICK c, x : c = stored /\ x = IF kind = "test" THEN "pick" ELSE "use"
      OBVIOUS
    <2>2. PICK j : j = [NoJob EXCEPT !.pc = x, !.kind = kind, !.ch = c]
      OBVIOUS
    <2>3. JobShape(j) /\ ~Writing(j)
      BY <2>1, <2>2 DEF JobShape, JobKeys, NoJob, Writing
    <2>4. Start(w, j)
      BY <1>2, <2>1, <2>2 DEF GetAllChannels
    <2> QED
      BY <2>3, <2>4, StartKeeps
  <1>3. ASSUME NEW want, UpdateChannelStatusRequest(w, want) \/ ChannelByTagRequest(w, want) PROVE KeysInv'
    <2>1. PICK x, y : \/ UpdateChannelStatusRequest(w, want) /\ x = "status" /\ y = "manual"
                      \/ ChannelByTagRequest(w, want) /\ x = "tag" /\ y = "tag"
      BY <1>3
    <2>2. PICK j : j = [NoJob EXCEPT !.pc = x, !.kind = y, !.want = want]
      OBVIOUS
    <2>3. JobShape(j) /\ (Writing(j) => Lockless(j) /\ j.pc \in {"write", "tag"})
      BY <2>1, <2>2 DEF JobShape, JobKeys, NoJob, Writing, Lockless
    <2>4. Start(w, j)
      BY <2>1, <2>2 DEF UpdateChannelStatusRequest, ChannelByTagRequest
    <2> QED
      BY <2>3, <2>4, StartKeeps
  <1>4. ASSUME NEW act \in Actions, ManageMultiKeys(w, act) PROVE KeysInv'
    <2>1. PICK c : c = stored
      OBVIOUS
    <2>2. PICK j : j = [NoJob EXCEPT !.pc = "manage", !.kind = "manage", !.ch = c, !.act = act]
      OBVIOUS
    <2>3. JobShape(j) /\ ~Writing(j)
      BY <1>0, <1>4, <2>1, <2>2 DEF JobShape, JobKeys, NoJob, Writing, TaskShape
    <2>4. Start(w, j)
      BY <1>4, <2>1, <2>2 DEF ManageMultiKeys
    <2> QED
      BY <2>3, <2>4, StartKeeps
  <1>5. ASSUME NEW change \in {"append", "replace", "mode", "other"}, UpdateChannel(w, change) PROVE KeysInv'
    <2>1. PICK c : c = stored /\ Start(w, [NoJob EXCEPT !.pc = "write", !.kind = "edit", !.ch = c, !.act = <<change>>])
      BY <1>5, Zenon DEF UpdateChannel
    <2>2. PICK j : j = [NoJob EXCEPT !.pc = "write", !.kind = "edit", !.ch = c, !.act = <<change>>]
      OBVIOUS
    <2>3. JobShape(j) /\ (Writing(j) => Lockless(j) /\ j.pc \in {"write", "tag"})
      BY <1>0, <1>5, <2>1, <2>2 DEF TaskShape, JobShape, JobKeys, NoJob, Writing, Lockless
    <2> QED
      BY <2>1, <2>2, <2>3, StartKeeps
  <1> QED
    BY <1>1, <1>2, <1>3, <1>4, <1>5 DEF Begins

\* The row, the abilities and who holds the lock stay, and the goroutine had not
\* begun to write.
LEMMA StayKeeps ==
    ASSUME KeysInv, NEW w \in Workers, NEW j, JobShape(j), ~Writing(job[w]), ~Writing(j), Turn(w, j),
           UNCHANGED <<memory, multi, able, keyLock>>, DOMAIN stored' = RowKeys,
           stored'.status = stored.status, stored'.keys = stored.keys,
           keyLock = NoWorker \/ stored'.marks = stored.marks
    PROVE  KeysInv'
  <1>1. job' = [job EXCEPT ![w] = j] /\ clean' = (clean /\ ~Overlap(job'))
    BY DEF Turn
  <1>2. ~Mid(j) /\ Knows(j)' /\ ~Locked(j)
    BY IdleKnows
  <1>3. able' \in BOOLEAN
    BY DEF KeysInv, Shapes
  <1> QED
    BY <1>1, <1>2, <1>3, TurnKeeps

LEMMA PickKeeps ==
    ASSUME KeysInv, NEW w \in Workers, GetNextEnabledKey(w) \/ processChannelError(w)
    PROVE  KeysInv'
  <1>0. JobShape(job[w]) /\ DOMAIN stored = RowKeys
    BY DEF KeysInv, Shapes
  <1>1. CASE GetNextEnabledKey(w)
    <2>1. job[w].pc = "pick" /\ keyLock = NoWorker /\ UNCHANGED <<memory, multi, able, keyLock>>
      BY <1>1 DEF GetNextEnabledKey, Rest
    <2>2. ~Writing(job[w])
      BY <2>1 DEF Writing
    <2>3. CASE \E k : Turn(w, [job[w] EXCEPT !.pc = "use", !.key = k]) /\ UNCHANGED stored
      <3>1. PICK k : Turn(w, [job[w] EXCEPT !.pc = "use", !.key = k]) /\ UNCHANGED stored
        BY <2>3
      <3>2. PICK j : j = [job[w] EXCEPT !.pc = "use", !.key = k]
        OBVIOUS
      <3>3. JobShape(j) /\ ~Writing(j)
        BY <1>0, <3>2 DEF JobShape, JobKeys, Writing
      <3> QED
        BY <1>0, <2>1, <2>2, <3>1, <3>2, <3>3, StayKeeps
    <2>4. CASE Turn(w, NoJob) /\ UNCHANGED stored
      <3>1. PICK j : j = NoJob
        OBVIOUS
      <3> QED
        BY <1>0, <2>1, <2>2, <2>4, <3>1, NoJobShape, StayKeeps
    <2>5. ASSUME NEW k, NEW c, NEW m, NEW p, NEW x, Turn(w, [job[w] EXCEPT !.pc = "use", !.key = k, !.ch = c]),
                 stored' = stored \/ stored' = [stored EXCEPT !.marks = m, !.poll = p, !.mode = x]
          PROVE  KeysInv'
      <3>2. PICK j : j = [job[w] EXCEPT !.pc = "use", !.key = k, !.ch = c]
        OBVIOUS
      <3>3. JobShape(j) /\ ~Writing(j)
        BY <1>0, <2>1, <3>2 DEF JobShape, JobKeys, Writing
      <3>4. DOMAIN stored' = RowKeys /\ stored'.status = stored.status /\ stored'.keys = stored.keys
        BY <1>0, <2>5 DEF RowKeys
      <3> QED
        BY <2>1, <2>2, <2>5, <3>2, <3>3, <3>4, StayKeeps
    <2>6. ASSUME NEW ch, NEW i, NEW next,
                 Turn(w, [job[w] EXCEPT !.pc = "use", !.key = ch.keys[i], !.ch = IF job[w].live THEN @ ELSE next]),
                 stored' = IF ch.mode = "polling" /\ ~memory
                           THEN [stored EXCEPT !.marks = ch.marks, !.poll = next.poll, !.mode = ch.mode] ELSE stored
          PROVE  KeysInv'
      <3>4. PICK c : c = IF job[w].live THEN job[w].ch ELSE next
        OBVIOUS
      <3>5. PICK k, m, p, x : k = ch.keys[i] /\ m = ch.marks /\ p = next.poll /\ x = ch.mode
        OBVIOUS
      <3>6. Turn(w, [job[w] EXCEPT !.pc = "use", !.key = k, !.ch = c])
        BY <1>0, <2>6, <3>4, <3>5 DEF JobShape, JobKeys
      <3>7. stored' = stored \/ stored' = [stored EXCEPT !.marks = m, !.poll = p, !.mode = x]
        BY <2>6, <3>5
      <3> QED
        BY <2>5, <3>6, <3>7
    <2> QED
      BY <1>1, <2>3, <2>4, <2>6, Zenon DEF GetNextEnabledKey
  <1>2. CASE processChannelError(w)
    <2>1. job[w].pc = "use" /\ UNCHANGED <<memory, multi, able, keyLock, stored>>
      BY <1>2 DEF processChannelError, Rest
    <2>2. ~Writing(job[w])
      BY <2>1 DEF Writing
    <2>3. PICK j : /\ Turn(w, j)
                   /\ j = NoJob \/ \E want : j = [job[w] EXCEPT !.pc = "status", !.want = want, !.live = FALSE, !.ch = <<>>]
      BY <1>2 DEF processChannelError
    <2>4. JobShape(j) /\ ~Writing(j)
      BY <1>0, <2>3, NoJobShape DEF JobShape, JobKeys, Writing
    <2> QED
      BY <1>0, <2>1, <2>2, <2>3, <2>4, StayKeeps
  <1> QED
    BY <1>1, <1>2

LEMMA StatusKeeps ==
    ASSUME KeysInv, NEW w \in Workers, UpdateChannelStatus(w) \/ ManageLocked(w)
    PROVE  KeysInv'
  <1>0. JobShape(job[w]) /\ DOMAIN stored = RowKeys /\ able \in BOOLEAN
    BY DEF KeysInv, Shapes
  <1>1. /\ job[w].pc \in {"status", "manage"} /\ keyLock = NoWorker
        /\ UNCHANGED <<memory, multi, able, stored>>
    BY DEF UpdateChannelStatus, ManageLocked, Rest
  <1>2. ~Writing(job[w])
    BY <1>1 DEF Writing
  <1>3. CASE Turn(w, NoJob) /\ UNCHANGED keyLock
    <2>1. PICK j : j = NoJob
      OBVIOUS
    <2> QED
      BY <1>0, <1>1, <1>2, <1>3, <2>1, NoJobShape, StayKeeps
  <1>4. ASSUME NEW j, JobShape(j), j.pc \in {"read", "write"}, Turn(w, j), keyLock' = w PROVE KeysInv'
    <2>1. ~Mid(j) /\ Knows(j)'
      BY <1>4 DEF Mid, Knows
    <2>2. job' = [job EXCEPT ![w] = j] /\ clean' = (clean /\ ~Overlap(job'))
      BY <1>4 DEF Turn
    <2>3. \A v \in Workers \ {w} : keyLock = v => keyLock' = v
      BY <1>1, ChannelKeysAssumption
    <2> QED
      BY <1>0, <1>1, <1>2, <1>4, <2>1, <2>2, <2>3, TurnKeeps
  <1>5. CASE UpdateChannelStatus(w) /\ ~(Turn(w, NoJob) /\ UNCHANGED keyLock)
    <2>1. PICK j : j = [job[w] EXCEPT !.pc = "read"]
      OBVIOUS
    <2>2. JobShape(j) /\ j.pc \in {"read", "write"}
      BY <1>0, <1>1, <2>1 DEF JobShape, JobKeys
    <2>3. Turn(w, j) /\ keyLock' = w
      BY <1>5, <2>1 DEF UpdateChannelStatus, To
    <2> QED
      BY <1>4, <2>2, <2>3
  <1>6. CASE ManageLocked(w) /\ ~(Turn(w, NoJob) /\ UNCHANGED keyLock)
    <2>2. PICK j : j = [job[w] EXCEPT !.pc = "write"]
      OBVIOUS
    <2>3. JobShape(j) /\ j.pc \in {"read", "write"}
      BY <1>0, <1>1, <1>6, <2>2 DEF JobShape, JobKeys, TaskShape, ManageLocked
    <2>4. Turn(w, j) /\ keyLock' = w
      BY <1>6, <2>2 DEF ManageLocked, To
    <2> QED
      BY <1>4, <2>3, <2>4
  <1> QED
    BY <1>3, <1>5, <1>6

\* A goroutine that writes takes a step.
LEMMA WorkKeeps ==
    ASSUME KeysInv, NEW w \in Workers, NEW j, JobShape(j), Writing(job[w]), Turn(w, j), UNCHANGED <<memory, multi>>,
           DOMAIN stored' = RowKeys, able' \in BOOLEAN,
           \/ keyLock' = keyLock /\ (Locked(j) => Locked(job[w]))
           \/ keyLock' = (IF keyLock = w THEN NoWorker ELSE keyLock) /\ ~Writing(j),
           clean => Knows(j)', clean /\ ~Mid(j) => Agrees'
    PROVE  KeysInv'
  <1>1. job' = [job EXCEPT ![w] = j] /\ clean' = (clean /\ ~Overlap(job'))
    BY DEF Turn
  <1>2. \A v \in Workers \ {w} : keyLock = v => keyLock' = v
    OBVIOUS
  <1>3. Locked(j) => keyLock' = w
    BY IdleKnows DEF KeysInv, LockHeld
  <1> QED
    BY <1>1, <1>2, <1>3, TurnKeeps

LEMMA WriterAgrees ==
    ASSUME KeysInv, clean, NEW w \in Workers, Writing(job[w])
    PROVE  Knows(job[w]) /\ (~Mid(job[w]) => Agrees)
  <1>1. \A v \in Workers : v # w => ~Writing(job[v])
    BY OneWriter
  <1>2. ~Mid(job[w]) => \A v \in Workers : ~Mid(job[v])
    BY <1>1 DEF Mid, Writing
  <1> QED
    BY <1>2 DEF KeysInv, WritersKnow

LEMMA HandlerIs ==
    ASSUME NEW ch, DOMAIN ch = RowKeys, NEW key, NEW want, NEW n,
           n = handlerMultiKeyUpdate(ch, key, want)
    PROVE  /\ n.status # ch.status => (n.status = "on" <=> want = "on")
           /\ \A i \in DOMAIN ch.marks \ DOMAIN n.marks : want = "on" /\ ch.keys[i] = key
  <1>1. PICK at : at = {i \in DOMAIN ch.keys : ch.keys[i] = key /\ \A k \in 1..(i - 1) : ch.keys[k] # key}
    OBVIOUS
  <1>2. PICK marks : marks = [i \in (IF want = "on" THEN DOMAIN ch.marks \ at ELSE DOMAIN ch.marks \cup at) |->
                                IF i \in at THEN want ELSE ch.marks[i]]
    OBVIOUS
  <1>3. CASE key = NoKey
    <2>1. n = [ch EXCEPT !.status = want]
      BY <1>3 DEF handlerMultiKeyUpdate, RowKeys
    <2> QED
      BY <2>1
  <1>4. CASE key # NoKey /\ at = {}
    <2>1. n = ch
      BY <1>1, <1>4 DEF handlerMultiKeyUpdate
    <2> QED
      BY <2>1
  <1>5. CASE key # NoKey /\ at # {}
    <2>1. PICK x : x = IF ~hasEnabledMultiKey(ch, marks) THEN "auto" ELSE IF want = "on" THEN "on" ELSE ch.status
      OBVIOUS
    <2>2. n = [ch EXCEPT !.marks = marks, !.status = x]
      BY <1>1, <1>2, <1>5, <2>1 DEF handlerMultiKeyUpdate
    <2>3. n.marks = marks /\ n.status = x
      BY <2>2
    <2>4. want = "on" => hasEnabledMultiKey(ch, marks)
      <3> SUFFICES ASSUME want = "on" PROVE hasEnabledMultiKey(ch, marks)
        OBVIOUS
      <3>1. PICK i \in at : TRUE
        BY <1>5
      <3>2. i \in DOMAIN ch.keys /\ i \notin DOMAIN marks
        BY <1>1, <1>2, <3>1
      <3> QED
        BY <3>2 DEF hasEnabledMultiKey
    <2>5. \A i \in DOMAIN ch.marks \ DOMAIN marks : want = "on" /\ ch.keys[i] = key
      BY <1>1, <1>2
    <2> QED
      BY <2>1, <2>3, <2>4, <2>5
  <1> QED
    BY <1>3, <1>4, <1>5

LEMMA ReturnedShape ==
    ASSUME NEW w \in Workers, NEW c
    PROVE  JobShape(Returned(w, c)) /\ ~Writing(Returned(w, c)) /\ ~Mid(Returned(w, c))
  BY NoJobShape DEF Returned

LEMMA ReadKeeps ==
    ASSUME KeysInv, NEW w \in Workers, ReadStatus(w)
    PROVE  KeysInv'
  <1>0. /\ JobShape(job[w]) /\ DOMAIN stored = RowKeys /\ able \in BOOLEAN
        /\ job[w].pc = "read" /\ Writing(job[w]) /\ Locked(job[w]) /\ UNCHANGED <<memory, multi, stored, able>>
    BY DEF KeysInv, Shapes, ReadStatus, Rest, Writing, Locked
  <1>1. clean => Agrees
    BY <1>0, WriterAgrees DEF Mid
  <1>2. CASE stored.status = job[w].want
    <2>1. PICK j : j = Returned(w, FALSE)
      OBVIOUS
    <2>2. JobShape(j) /\ ~Writing(j)
      BY <2>1, ReturnedShape
    <2>3. Turn(w, j) /\ keyLock' = (IF keyLock = w THEN NoWorker ELSE keyLock)
      BY <1>2, <2>1 DEF ReadStatus, Leave
    <2>4. Knows(j)' /\ (clean => Agrees')
      BY <1>0, <1>1, <2>2, IdleKnows DEF Agrees
    <2> QED
      BY <1>0, <2>2, <2>3, <2>4, WorkKeeps
  <1>3. CASE stored.status # job[w].want
    <2>1. PICK row, q : row = stored /\ q = job[w]
      OBVIOUS
    <2>2. PICK n : n = IF multi THEN handlerMultiKeyUpdate(row, q.key, q.want) ELSE [row EXCEPT !.status = q.want]
      OBVIOUS
    <2>3. PICK t \in BOOLEAN : t <=> ~multi \/ n.status # row.status
      OBVIOUS
    <2>4. PICK j : j = [q EXCEPT !.pc = "save", !.ch = n, !.turn = t]
      OBVIOUS
    <2>5. Turn(w, j) /\ UNCHANGED keyLock
      <3>1. t = (~multi \/ n.status # row.status)
        BY <2>3
      <3> QED
        BY <1>3, <2>1, <2>2, <2>4, <3>1 DEF ReadStatus
    <2>6. /\ JobShape(j) /\ ~Mid(j) /\ j.kind = q.kind /\ j.pc = "save" /\ j.ch = n /\ j.turn = t /\ j.want = q.want /\ j.key = q.key
      BY <1>0, <2>1, <2>4 DEF JobShape, JobKeys, Mid
    <2>7. t => (n.status = "on" <=> q.want = "on")
      <3>1. CASE multi
        BY <1>0, <2>1, <2>2, <2>3, <3>1, HandlerIs
      <3>2. CASE ~multi
        BY <1>0, <2>1, <2>2, <3>2
      <3> QED
        BY <3>1, <3>2
    <2>8. multi => Keeps(row, j)
      BY <1>0, <2>1, <2>2, <2>6, HandlerIs DEF Keeps
    <2>9. stored' = row /\ (multi <=> multi')
      BY <1>0, <2>1
    <2>10. Knows(j)'
      BY <2>3, <2>6, <2>7, <2>8, <2>9 DEF Knows
    <2>11. clean => Agrees'
      BY <1>0, <1>1 DEF Agrees
    <2> QED
      BY <1>0, <2>1, <2>5, <2>6, <2>10, <2>11, WorkKeeps
  <1> QED
    BY <1>2, <1>3

\* A writer goes on to its next statement.
LEMMA NextIs ==
    ASSUME NEW q, JobShape(q), Writing(q), NEW x, x \notin {"manage", "write"}, NEW j, j = [q EXCEPT !.pc = x]
    PROVE  /\ JobShape(j) /\ j.pc = x /\ j.kind = q.kind /\ j.want = q.want /\ j.turn = q.turn
           /\ x \notin {"read", "save", "able"} => (Locked(j) => Locked(q))
  BY DEF JobShape, JobKeys, Writing, Locked, Lockless

LEMMA SaveKeeps ==
    ASSUME KeysInv, NEW w \in Workers, saveStatusState(w) \/ UpdateAbilityStatus(w)
    PROVE  KeysInv'
  <1>0. /\ JobShape(job[w]) /\ DOMAIN stored = RowKeys /\ able \in BOOLEAN
        /\ Writing(job[w]) /\ Locked(job[w]) /\ UNCHANGED <<memory, multi>>
    BY DEF KeysInv, Shapes, saveStatusState, UpdateAbilityStatus, Rest, Writing, Locked
  <1>1. clean => Knows(job[w]) /\ (~Mid(job[w]) => Agrees)
    BY <1>0, WriterAgrees
  <1>2. ASSUME NEW j, j = Returned(w, TRUE), Leave(w, j), clean => Agrees', able' \in BOOLEAN,
               DOMAIN stored' = RowKeys
        PROVE  KeysInv'
    <2>1. JobShape(j) /\ ~Writing(j) /\ Knows(j)'
      BY <1>2, ReturnedShape, IdleKnows
    <2>2. Turn(w, j) /\ keyLock' = (IF keyLock = w THEN NoWorker ELSE keyLock)
      BY <1>2 DEF Leave
    <2> QED
      BY <1>0, <1>2, <2>1, <2>2, WorkKeeps
  <1>3. CASE saveStatusState(w)
    <2>1. /\ job[w].pc = "save" /\ ~Mid(job[w]) /\ UNCHANGED able
          /\ stored'.status = job[w].ch.status /\ DOMAIN stored' = RowKeys
      BY <1>0, <1>3 DEF saveStatusState, Mid
    <2>2. CASE job[w].turn
      <3>1. PICK q : q = job[w]
        OBVIOUS
      <3>2. PICK j, x : j = [q EXCEPT !.pc = x] /\ x = "able"
        OBVIOUS
      <3>3. Turn(w, j) /\ UNCHANGED keyLock
        BY <1>3, <2>2, <3>1, <3>2 DEF saveStatusState, To
      <3>4. JobShape(j) /\ j.pc = "able" /\ j.want = q.want
        BY <1>0, <3>1, <3>2, NextIs
      <3>5. Mid(j) /\ (clean => Knows(j)')
        <4>1. Mid(j)
          BY <3>4 DEF Mid
        <4>2. ASSUME clean PROVE stored'.status = "on" <=> j.want = "on"
          BY <1>1, <2>1, <2>2, <3>1, <3>4, <4>2 DEF Knows
        <4> QED
          BY <3>4, <4>1, <4>2 DEF Knows
      <3> QED
        BY <1>0, <2>1, <3>3, <3>4, <3>5, WorkKeeps
    <2>3. CASE ~job[w].turn
      <3>1. PICK j : j = Returned(w, TRUE)
        OBVIOUS
      <3>2. Leave(w, j)
        BY <1>3, <2>3, <3>1 DEF saveStatusState
      <3>3. clean => Agrees'
        BY <1>1, <2>1, <2>3 DEF Knows, Agrees
      <3> QED
        BY <1>0, <1>2, <2>1, <3>1, <3>2, <3>3
    <2> QED
      BY <2>2, <2>3
  <1>4. CASE UpdateAbilityStatus(w)
    <2>1. job[w].pc = "able" /\ able' = (job[w].want = "on") /\ UNCHANGED stored
      BY <1>4 DEF UpdateAbilityStatus
    <2>2. PICK j : j = Returned(w, TRUE)
      OBVIOUS
    <2>3. Leave(w, j)
      BY <1>4, <2>2 DEF UpdateAbilityStatus
    <2>4. clean => Agrees'
      BY <1>1, <2>1 DEF Knows, Agrees
    <2> QED
      BY <1>0, <1>2, <2>1, <2>2, <2>3, <2>4
  <1> QED
    BY <1>3, <1>4

\* The edits and the tag changes.
LEMMA EditKeeps ==
    ASSUME KeysInv, NEW w \in Workers,
           Update(w) \/ Reread(w) \/ UpdateAbilities(w) \/ EnableOrDisableByTag(w) \/ UpdateAbilityStatusByTag(w)
    PROVE  KeysInv'
  <1>0. /\ JobShape(job[w]) /\ DOMAIN stored = RowKeys /\ able \in BOOLEAN
        /\ Writing(job[w]) /\ UNCHANGED <<memory, multi, keyLock>>
    BY DEF KeysInv, Shapes, Update, Reread, UpdateAbilities, EnableOrDisableByTag, UpdateAbilityStatusByTag, Rest, Writing
  <1>1. clean => Knows(job[w]) /\ (~Mid(job[w]) => Agrees)
    BY <1>0, WriterAgrees
  <1>2. PICK q : q = job[w]
    OBVIOUS
  <1>3. ASSUME NEW x \in {"reread", "tagged", "refresh"}, To(w, x), DOMAIN stored' = RowKeys,
               able' \in BOOLEAN, clean /\ x = "tagged" => (stored'.status = "on" <=> q.want = "on"),
               clean /\ x = "refresh" => Agrees'
        PROVE  KeysInv'
    <2>1. PICK j : j = [q EXCEPT !.pc = x]
      OBVIOUS
    <2>2. Turn(w, j)
      BY <1>2, <1>3, <2>1 DEF To
    <2>3. JobShape(j) /\ j.pc = x /\ j.want = q.want /\ (Locked(j) => Locked(q))
      BY <1>0, <1>2, <2>1, NextIs
    <2>4. (clean => Knows(j)') /\ (~Mid(j) => x = "refresh")
      BY <1>3, <2>3 DEF Knows, Mid
    <2> QED
      BY <1>0, <1>2, <1>3, <2>2, <2>3, <2>4, WorkKeeps
  <1>4. CASE Update(w)
    <2>1. DOMAIN stored' = RowKeys /\ To(w, "reread") /\ UNCHANGED able
      BY <1>4 DEF Update, RowKeys
    <2> QED
      BY <1>0, <1>3, <2>1
  <1>5. CASE Reread(w)
    <2>1. PICK t \in BOOLEAN : t = (stored.status = "on")
      OBVIOUS
    <2>2. PICK j : j = [q EXCEPT !.pc = "abilities", !.turn = t]
      OBVIOUS
    <2>3. Turn(w, j) /\ UNCHANGED <<stored, able>> /\ q.pc = "reread"
      BY <1>2, <1>5, <2>1, <2>2 DEF Reread
    <2>4. JobShape(j) /\ j.pc = "abilities" /\ j.turn = t /\ j.kind = q.kind
      BY <1>0, <1>2, <2>2, <2>3 DEF JobShape, JobKeys
    <2>5. (Locked(j) => Locked(q)) /\ Mid(j)
      BY <2>3, <2>4 DEF Locked, Writing, Lockless, Mid
    <2>6. Knows(j)'
      BY <2>1, <2>3, <2>4 DEF Knows
    <2> QED
      BY <1>0, <1>2, <2>3, <2>4, <2>5, <2>6, WorkKeeps
  <1>6. CASE UpdateAbilities(w)
    <2>1. q.pc = "abilities" /\ able' = q.turn /\ To(w, "refresh") /\ UNCHANGED stored
      BY <1>2, <1>6 DEF UpdateAbilities
    <2>2. able' \in BOOLEAN
      BY <1>0, <1>2, <2>1 DEF JobShape
    <2>3. clean => Agrees'
      BY <1>1, <1>2, <2>1 DEF Knows, Agrees
    <2> QED
      BY <1>0, <1>3, <2>1, <2>2, <2>3
  <1>7. CASE EnableOrDisableByTag(w)
    <2>1. /\ stored'.status = q.want /\ DOMAIN stored' = RowKeys
          /\ To(w, "tagged") /\ UNCHANGED able
      BY <1>0, <1>2, <1>7 DEF EnableOrDisableByTag
    <2> QED
      BY <1>0, <1>3, <2>1
  <1>8. CASE UpdateAbilityStatusByTag(w)
    <2>1. q.pc = "tagged" /\ able' = (q.want = "on") /\ To(w, "refresh") /\ UNCHANGED stored
      BY <1>2, <1>8 DEF UpdateAbilityStatusByTag
    <2>2. clean => Agrees'
      BY <1>1, <1>2, <2>1 DEF Knows, Agrees
    <2> QED
      BY <1>0, <1>3, <2>1, <2>2
  <1> QED
    BY <1>4, <1>5, <1>6, <1>7, <1>8

LEMMA RefreshKeeps ==
    ASSUME KeysInv, NEW w \in Workers, InitChannelCache(w)
    PROVE  KeysInv'
  <1>0. /\ JobShape(job[w]) /\ DOMAIN stored = RowKeys /\ able \in BOOLEAN
        /\ job[w].pc = "refresh" /\ ~Writing(job[w]) /\ UNCHANGED <<memory, multi, stored, able>>
    BY DEF KeysInv, Shapes, InitChannelCache, Rest, Writing
  <1>1. CASE memory
    <2>1. PICK q, c : q = job[w] /\ c = stored
      OBVIOUS
    <2>2. PICK j : j = [q EXCEPT !.pc = "swap", !.ch = c]
      OBVIOUS
    <2>3. Turn(w, j) /\ UNCHANGED keyLock
      BY <1>1, <2>1, <2>2 DEF InitChannelCache
    <2>4. JobShape(j) /\ ~Writing(j)
      BY <1>0, <2>1, <2>2 DEF JobShape, JobKeys, Writing
    <2> QED
      BY <1>0, <2>3, <2>4, StayKeeps
  <1>2. CASE ~memory
    <2>1. PICK j : j = NoJob
      OBVIOUS
    <2>2. Leave(w, j)
      BY <1>2, <2>1 DEF InitChannelCache
    <2>3. JobShape(j) /\ ~Mid(j) /\ Knows(j)' /\ ~Locked(j)
      BY <2>1, NoJobShape, IdleKnows
    <2>4. /\ job' = [job EXCEPT ![w] = j] /\ clean' = (clean /\ ~Overlap(job'))
          /\ \A v \in Workers \ {w} : keyLock = v => keyLock' = v
      BY <2>2 DEF Leave, Turn
    <2> QED
      BY <1>0, <2>3, <2>4, TurnKeeps
  <1> QED
    BY <1>1, <1>2

LEMMA UnreadKeeps ==
    ASSUME KeysInv, NEW w \in Workers, ChannelsUnread(w)
    PROVE  KeysInv'
  <1>0. /\ JobShape(job[w]) /\ DOMAIN stored = RowKeys /\ job[w].pc = "refresh" /\ ~Writing(job[w])
        /\ UNCHANGED <<memory, multi, stored, able, keyLock>>
    BY DEF KeysInv, Shapes, ChannelsUnread, Rest, Writing
  <1>1. PICK q, c : q = job[w] /\ c = NoChannel
    OBVIOUS
  <1>2. PICK j : j = [q EXCEPT !.pc = "swap", !.ch = c]
    OBVIOUS
  <1>3. Turn(w, j)
    BY <1>1, <1>2 DEF ChannelsUnread
  <1>4. JobShape(j) /\ ~Writing(j)
    BY <1>0, <1>1, <1>2 DEF JobShape, JobKeys, Writing
  <1> QED
    BY <1>0, <1>3, <1>4, StayKeeps

\* A swap touches only goroutines that do not write.
LEMMA DetachKeeps ==
    ASSUME KeysInv, NEW js, js = [v \in Workers |-> js[v]], job' = Detached(js),
           \A v \in Workers : js[v] = job[v] \/ (js[v] = NoJob /\ ~Writing(job[v])),
           UNCHANGED <<memory, multi, stored, able, clean>>,
           \A v \in Workers : Writing(js[v]) /\ keyLock = v => keyLock' = v
    PROVE  KeysInv'
  <1>0. Shapes /\ LockHeld
    BY DEF KeysInv
  <1>1. ASSUME NEW v \in Workers
        PROVE  /\ JobShape(js[v]) /\ JobShape(job'[v])
               /\ job'[v] = js[v] \/ (~Writing(js[v]) /\ ~Writing(job'[v]))
    <2>1. JobShape(js[v])
      BY <1>0, NoJobShape DEF Shapes
    <2>2. CASE js[v].live
      <3>1. PICK q, c : q = js[v] /\ c = cached
        OBVIOUS
      <3>2. job'[v] = [q EXCEPT !.live = FALSE, !.ch = c]
        BY <2>2, <3>1 DEF Detached
      <3> QED
        BY <2>1, <2>2, <3>1, <3>2 DEF JobShape, JobKeys, Writing
    <2>3. CASE ~js[v].live
      BY <2>1, <2>3 DEF Detached
    <2> QED
      BY <2>1, <2>2, <2>3 DEF JobShape
  <1>2. job' = [v \in Workers |-> job'[v]]
    BY DEF Detached
  <1>3. ASSUME NEW v \in Workers PROVE job'[v] = job[v] \/ (~Writing(job[v]) /\ ~Writing(job'[v]))
    BY <1>1, NoJobShape
  <1>4. Shapes'
    BY <1>0, <1>1, <1>2 DEF Shapes, JobShape
  <1>5. ASSUME NEW v \in Workers, Locked(job'[v]) PROVE keyLock' = v
    <2>1. Writing(job'[v])
      BY <1>5 DEF Locked, Writing
    <2>2. job'[v] = job[v] /\ job'[v] = js[v]
      BY <1>1, <1>3, <2>1
    <2> QED
      BY <1>0, <1>5, <2>1, <2>2 DEF LockHeld
  <1>6. LockHeld'
    BY <1>5 DEF LockHeld, Locked, Writing, Lockless
  <1>7. ASSUME clean' PROVE WritersKnow'
    <2>1. WritersKnow
      BY <1>7 DEF KeysInv
    <2>2. ~Overlap(job)'
      BY <1>3, <2>1 DEF WritersKnow, Overlap, Writing, Lockless
    <2>3. ASSUME NEW v \in Workers PROVE Knows(job[v])'
      <3>1. CASE job'[v] = job[v]
        <4>1. Knows(job[v])
          BY <2>1 DEF WritersKnow
        <4> QED
          BY <3>1, <4>1 DEF Knows
      <3>2. CASE ~Writing(job'[v])
        BY <3>2 DEF Knows, Writing
      <3> QED
        BY <1>3, <3>1, <3>2
    <2>4. ASSUME \A v \in Workers : ~Mid(job[v])' PROVE Agrees'
      <3>1. \A v \in Workers : ~Mid(job[v])
        BY <1>3, <2>4 DEF Mid, Writing
      <3> QED
        BY <2>1, <3>1 DEF WritersKnow, Agrees
    <2> QED
      BY <2>2, <2>3, <2>4 DEF WritersKnow
  <1> QED
    BY <1>4, <1>6, <1>7 DEF KeysInv

LEMMA SwapKeeps ==
    ASSUME KeysInv, SyncSwap \/ \E w \in Workers : SwapChannels(w)
    PROVE  KeysInv'
  <1>0. Shapes
    BY DEF KeysInv
  <1>1. CASE SyncSwap
    <2>1. PICK js : js = job
      OBVIOUS
    <2>2. job' = Detached(js) /\ UNCHANGED <<memory, multi, stored, able, clean, keyLock>>
      BY <1>1, <2>1 DEF SyncSwap, Rest
    <2>3. js = [v \in Workers |-> js[v]] /\ \A v \in Workers : js[v] = job[v]
      BY <1>0, <2>1 DEF Shapes
    <2> QED
      BY <2>2, <2>3, DetachKeeps
  <1>2. ASSUME NEW w \in Workers, SwapChannels(w) PROVE KeysInv'
    <2>1. PICK js : js = [job EXCEPT ![w] = NoJob]
      OBVIOUS
    <2>2. /\ job' = Detached(js) /\ UNCHANGED <<memory, multi, stored, able, clean>>
          /\ keyLock' = (IF keyLock = w THEN NoWorker ELSE keyLock) /\ ~Writing(job[w])
      BY <1>2, <2>1 DEF SwapChannels, Rest, Writing
    <2>3. js = [v \in Workers |-> IF v = w THEN NoJob ELSE job[v]]
      BY <1>0, <2>1 DEF Shapes
    <2>4. /\ js = [v \in Workers |-> js[v]]
          /\ \A v \in Workers : js[v] = job[v] \/ (js[v] = NoJob /\ ~Writing(job[v]))
      BY <2>2, <2>3
    <2>5. \A v \in Workers : Writing(js[v]) /\ keyLock = v => keyLock' = v
      BY <2>2, <2>3, NoJobShape
    <2> QED
      BY <2>2, <2>4, <2>5, DetachKeeps
  <1> QED
    BY <1>1, <1>2

LEMMA FailKeeps ==
    ASSUME KeysInv, NEW w \in Workers, DbStatementFails(w)
    PROVE  KeysInv'
  <1>0. Shapes /\ LockHeld /\ JobShape(job[w])
    BY DEF KeysInv, Shapes
  <1>1. clean' = FALSE /\ UNCHANGED <<memory, multi, stored, able>>
    BY DEF DbStatementFails, Rest
  <1>2. PICK q, on : q = job[w] /\ on = (job[w].pc = "save" /\ job[w].turn)
    OBVIOUS
  <1>3. PICK j : j = CASE on -> [q EXCEPT !.pc = "able", !.kind = ""]
                       [] q.pc = "able" -> Returned(w, TRUE)
                       [] OTHER -> NoJob
    OBVIOUS
  <1>4. job' = [job EXCEPT ![w] = j] /\ keyLock' = IF keyLock = w /\ ~on THEN NoWorker ELSE keyLock
    BY <1>2, <1>3 DEF DbStatementFails
  <1>5. job' = [v \in Workers |-> IF v = w THEN j ELSE job[v]]
    BY <1>0, <1>4, JobTurns
  <1>6. JobShape(j) /\ (Locked(j) => on)
    <2>1. CASE on
      BY <1>0, <1>2, <1>3, <2>1 DEF JobShape, JobKeys
    <2>2. CASE ~on
      BY <1>3, <2>2, NoJobShape, ReturnedShape, IdleKnows
    <2> QED
      BY <1>2, <2>1, <2>2
  <1>7. on => keyLock = w
    BY <1>0, <1>2 DEF LockHeld, Locked
  <1>8. Shapes'
    BY <1>0, <1>1, <1>5, <1>6 DEF Shapes, JobShape
  <1>9. ASSUME NEW v \in Workers, Locked(job'[v]) PROVE keyLock' = v
    <2>1. CASE v = w
      BY <1>4, <1>5, <1>6, <1>7, <1>9, <2>1
    <2>2. CASE v # w
      BY <1>0, <1>4, <1>5, <1>9, <2>2 DEF LockHeld
    <2> QED
      BY <2>1, <2>2
  <1>10. LockHeld'
    BY <1>9 DEF LockHeld, Locked, Writing, Lockless
  <1> QED
    BY <1>1, <1>8, <1>10 DEF KeysInv

LEMMA KeysInitInv == KeysInit => KeysInv
  <1> SUFFICES ASSUME KeysInit PROVE KeysInv
    OBVIOUS
  <1>1. /\ memory \in BOOLEAN /\ multi \in BOOLEAN /\ able = TRUE /\ clean = TRUE /\ stored.status = "on"
        /\ DOMAIN stored = RowKeys /\ job = [w \in Workers |-> NoJob]
    BY DEF KeysInit, RowKeys
  <1>2. \A w \in Workers : JobShape(job[w]) /\ ~Writing(job[w])
    BY <1>1, NoJobShape
  <1>3. \A w \in Workers : Knows(job[w]) /\ ~Mid(job[w]) /\ ~Locked(job[w])
    BY <1>2, IdleKnows
  <1>4. Shapes
    BY <1>1, <1>2 DEF Shapes
  <1> QED
    BY <1>1, <1>2, <1>3, <1>4 DEF KeysInv, LockHeld, WritersKnow, Overlap, Agrees

LEMMA KeysStep == KeysInv /\ [KeysNext]_chanVars => KeysInv'
  <1> SUFFICES ASSUME KeysInv, [KeysNext]_chanVars PROVE KeysInv'
    OBVIOUS
  <1>1. CASE UNCHANGED chanVars
    BY <1>1 DEF chanVars, KeysInv, Shapes, LockHeld, Locked, WritersKnow, Overlap, Knows, Mid, Agrees, Writing,
       Lockless, JobShape, Keeps
  <1>2. CASE SyncChannelCache \/ SyncUnread
    <2>1. UNCHANGED <<memory, multi, stored, able, keyLock, job, clean>>
      BY <1>2 DEF SyncChannelCache, SyncUnread, Rest
    <2> QED
      BY <2>1 DEF KeysInv, Shapes, LockHeld, Locked, WritersKnow, Overlap, Knows, Mid, Agrees, Writing,
         Lockless, JobShape, Keeps
  <1>3. ASSUME NEW w \in Workers, Continues(w) PROVE KeysInv'
    BY <1>3, PickKeeps, StatusKeeps, ReadKeeps, SaveKeeps, EditKeeps, RefreshKeeps, SwapKeeps DEF Continues
  <1> QED
    BY <1>1, <1>2, <1>3, BeginKeeps, FailKeeps, UnreadKeeps, SwapKeeps DEF KeysNext

LEMMA KeysInvariant == KeysSpec => []KeysInv
  BY KeysInitInv, KeysStep, PTL DEF KeysSpec

(* For every number of goroutines, operations and failed statements: when   *)
(* nobody is writing, the abilities are enabled exactly when the channel    *)
(* is, unless a statement failed or an edit or a tag change overlapped      *)
(* another writer: the polling lock keeps all the others apart, each knows  *)
(* the status of the row it has read or written until it has updated the    *)
(* abilities, and a status that several keys leave alone needs no update.   *)
THEOREM AbilitiesFollow == KeysSpec => []AbilitiesAgree
  <1>1. KeysInv => AbilitiesAgree
    BY IdleKnows DEF KeysInv, Shapes, WritersKnow, Agrees, AbilitiesAgree
  <1> QED
    BY <1>1, KeysInvariant, PTL

\* Keys and marks stay, or every unmarked key was unmarked before.
LEMMA NothingBack ==
    ASSUME NEW K,
           \A i \in enabledKeyIndexes(stored') : i \in enabledKeyIndexes(stored) \/ stored'.keys[i] \in K,
           \A i \in enabledKeyIndexes(stored) : stored'.keys[i] = stored.keys[i]
    PROVE  BroughtBack \subseteq K
  BY DEF BroughtBack, EnabledKeys

LEMMA SameMarks ==
    ASSUME NEW K, stored'.keys = stored.keys, stored'.marks = stored.marks
    PROVE  BroughtBack \subseteq K
  BY NothingBack DEF enabledKeyIndexes

\* An edit, or the management of keys, on the channel that is stored.
LEMMA UpdateAsked ==
    ASSUME KeysInv, NEW w \in Workers, Update(w), ~LoadedEarlier(job[w])
    PROVE  BroughtBack \subseteq Asked(job[w])
  <1>1. PICK j, c, ch : j = job[w] /\ c = j.ch /\ ch = Sent(j)
    OBVIOUS
  <1>2. j.pc = "write" /\ ~j.live /\ TaskShape(j)
    BY <1>1 DEF Update, KeysInv, Shapes, JobShape
  <1>0. DOMAIN c = RowKeys
    BY <1>1, <1>2 DEF TaskShape
  <1>3. c.keys = stored.keys /\ c.marks = stored.marks
    BY <1>1, <1>2 DEF LoadedEarlier
  <1>4. PICK keys : keys = IF ch.keys = <<>> THEN stored.keys ELSE ch.keys
    OBVIOUS
  <1>5. stored'.keys = keys /\ stored'.marks = Restrict(ch.marks, DOMAIN ch.marks \cap DOMAIN keys)
    BY <1>1, <1>4 DEF Update
  <1>6. enabledKeyIndexes(stored') = {i \in DOMAIN keys : i \notin DOMAIN ch.marks}
    BY <1>5 DEF enabledKeyIndexes, Restrict
  <1>7. CASE Asked(j) = ToSet(c.keys)
    BY <1>1, <1>3, <1>7 DEF BroughtBack
  <1>8. ASSUME keys = stored.keys, DOMAIN stored.marks \subseteq DOMAIN ch.marks PROVE BroughtBack \subseteq Asked(job[w])
    BY <1>5, <1>6, <1>8, NothingBack DEF enabledKeyIndexes
  <1>9. CASE j.kind = "edit"
    <2>1. PICK change \in {"append", "replace", "mode", "other"} : j.act = <<change>>
      BY <1>2, <1>9 DEF TaskShape, Actions
    <2>2. j.act[1] = change /\ ch = Edited(c, change)
      BY <1>1, <1>9, <2>1 DEF Sent
    <2>3. CASE change \in {"append", "replace"}
      BY <1>1, <1>2, <1>7, <2>2, <2>3 DEF Asked
    <2>4. CASE change \in {"mode", "other"}
      <3>1. ch.keys = <<>> /\ ch.marks = c.marks
        BY <1>0, <2>2, <2>4 DEF Edited, RowKeys
      <3> QED
        BY <1>3, <1>4, <1>8, <3>1
    <2> QED
      BY <2>1, <2>3, <2>4
  <1>10. CASE j.kind = "manage"
    <2>1. PICK a, p : j.act = <<a, p>> /\ a \in {"disable_key", "enable_key", "delete_key", "enable_all_keys",
                                               "disable_all_keys", "delete_disabled_keys"}
      BY <1>2, <1>10 DEF TaskShape, Actions
    <2>2. j.act[1] = a /\ j.act[2] = p /\ ch = Managed(c, j.act)
      BY <1>1, <1>10, <2>1 DEF Sent
    <2>3. CASE a = "enable_all_keys"
      BY <1>1, <1>2, <1>7, <2>2, <2>3 DEF Asked
    <2>4. CASE a \in {"disable_key", "disable_all_keys"}
      <3>1. PICK more : ch = [c EXCEPT !.marks = Marked(c, more)]
        BY <2>2, <2>4 DEF Managed
      <3>2. ch.keys = c.keys /\ DOMAIN c.marks \subseteq DOMAIN ch.marks
        BY <1>0, <3>1 DEF RowKeys, Marked
      <3> QED
        BY <1>3, <1>4, <1>8, <3>2
    <2>6. CASE a = "enable_key"
      <3>1. ch = [c EXCEPT !.marks = Restrict(c.marks, DOMAIN c.marks \ {p})]
        BY <1>0, <2>2, <2>6 DEF Managed, RowKeys
      <3>2. ch.keys = c.keys /\ DOMAIN ch.marks = DOMAIN c.marks \ {p}
        BY <1>0, <3>1 DEF RowKeys, Restrict
      <3>3. keys = stored.keys /\ Asked(j) = {stored.keys[p]}
        BY <1>1, <1>2, <1>3, <1>4, <2>2, <2>6, <3>2 DEF Asked
      <3>4. \A i \in enabledKeyIndexes(stored') : i \in enabledKeyIndexes(stored) \/ stored'.keys[i] \in Asked(j)
        BY <1>3, <1>5, <1>6, <3>2, <3>3 DEF enabledKeyIndexes
      <3> QED
        BY <1>1, <1>5, <3>3, <3>4, NothingBack
    <2>7. CASE a \in {"delete_key", "delete_disabled_keys"}
      <3>1. CASE ch.keys = <<>>
        BY <1>1, <1>2, <1>7, <2>2, <2>7, <3>1 DEF Asked
      <3>2. CASE ch.keys # <<>>
        <4>1. PICK drop : ch = Without(c, drop)
          BY <2>2, <2>7 DEF Managed
        <4>2. PICK kept : kept = SelectSeq([i \in 1..Len(c.keys) |-> i], LAMBDA i : i \notin drop)
          OBVIOUS
        <4>3. ch = [c EXCEPT !.keys = [i \in 1..Len(kept) |-> c.keys[kept[i]]],
                             !.marks = [i \in {k \in 1..Len(kept) : kept[k] \notin enabledKeyIndexes(c)} |->
                                          c.marks[kept[i]]]]
          BY <4>1, <4>2 DEF Without
        <4>4. /\ keys = [i \in 1..Len(kept) |-> c.keys[kept[i]]]
              /\ DOMAIN ch.marks = {k \in 1..Len(kept) : kept[k] \notin enabledKeyIndexes(c)}
          BY <1>0, <1>4, <3>2, <4>3 DEF RowKeys
        <4>5. ASSUME NEW i \in enabledKeyIndexes(stored') PROVE stored'.keys[i] \in EnabledKeys(stored)
          <5>1. i \in 1..Len(kept) /\ kept[i] \in enabledKeyIndexes(c) /\ stored'.keys[i] = c.keys[kept[i]]
            BY <1>5, <1>6, <4>4
          <5> QED
            BY <1>3, <5>1 DEF EnabledKeys, enabledKeyIndexes
        <4> QED
          BY <4>5 DEF BroughtBack, EnabledKeys
      <3> QED
        BY <3>1, <3>2
    <2> QED
      BY <2>1, <2>3, <2>4, <2>6, <2>7
  <1> QED
    BY <1>2, <1>9, <1>10 DEF TaskShape

LEMMA SaveAsked ==
    ASSUME KeysInv, clean, NEW w \in Workers, saveStatusState(w)
    PROVE  BroughtBack \subseteq Asked(job[w])
  <1>1. job[w].pc = "save" /\ Writing(job[w]) /\ DOMAIN stored = RowKeys
    BY DEF saveStatusState, Writing, KeysInv, Shapes
  <1>2. Knows(job[w])
    BY <1>1, WriterAgrees
  <1>3. stored'.keys = stored.keys
    BY <1>1 DEF saveStatusState, RowKeys
  <1>4. CASE multi
    <2>1. stored'.marks = job[w].ch.marks
      BY <1>1, <1>4 DEF saveStatusState, RowKeys
    <2>2. Keeps(stored, job[w])
      BY <1>1, <1>2, <1>4 DEF Knows
    <2>3. \A i \in enabledKeyIndexes(stored') : i \in enabledKeyIndexes(stored) \/ stored'.keys[i] \in Asked(job[w])
      BY <1>1, <1>3, <2>1, <2>2 DEF Keeps, enabledKeyIndexes, Asked
    <2> QED
      BY <1>3, <2>3, NothingBack
  <1>5. CASE ~multi
    <2>1. stored'.marks = stored.marks
      BY <1>1, <1>5 DEF saveStatusState, RowKeys
    <2> QED
      BY <1>3, <2>1, SameMarks
  <1> QED
    BY <1>4, <1>5

\* Without a cache a pick saves the channel it loaded.
LEMMA PickAsked ==
    ASSUME KeysInv, NEW w \in Workers, GetNextEnabledKey(w), ~LoadedEarlier(job[w])
    PROVE  BroughtBack \subseteq Asked(job[w])
  <1>1. job[w].pc = "pick" /\ DOMAIN stored = RowKeys /\ (job[w].live => memory) /\ job[w].live \in BOOLEAN
    BY DEF GetNextEnabledKey, KeysInv, Shapes, JobShape
  <1>2. CASE UNCHANGED stored
    BY <1>2, SameMarks
  <1>3. CASE ~memory /\ \E p, x : stored' = [stored EXCEPT !.marks = Held(w).marks, !.poll = p, !.mode = x]
    <2>1. Held(w) = job[w].ch /\ job[w].ch.marks = stored.marks
      BY <1>1, <1>3 DEF Held, LoadedEarlier
    <2>2. stored'.keys = stored.keys /\ stored'.marks = stored.marks
      BY <1>1, <1>3, <2>1 DEF RowKeys
    <2> QED
      BY <2>2, SameMarks
  <1> QED
    BY <1>2, <1>3, Zenon DEF GetNextEnabledKey

\* Who takes a step that writes the row is the only one that moves.
LEMMA OnlyOneSteps ==
    ASSUME Shapes, NEW v \in Workers, NEW j, Turn(v, j), NEW w \in Workers, Steps(w)
    PROVE  w = v
  BY JobTurns DEF Turn, Steps

LEMMA MarksStep ==
    ASSUME KeysInv, clean, KeysNext, NEW w \in Workers, Steps(w), ~LoadedEarlier(job[w])
    PROVE  BroughtBack \subseteq Asked(job[w])
  <1>0. Shapes
    BY DEF KeysInv
  <1>1. CASE UNCHANGED stored
    BY <1>1, SameMarks
  <1>2. ASSUME NEW v \in Workers, saveStatusState(v) PROVE BroughtBack \subseteq Asked(job[w])
    <2>1. \E j : Turn(v, j)
      BY <1>2 DEF saveStatusState, To, Leave
    <2> QED
      BY <1>0, <1>2, <2>1, OnlyOneSteps, SaveAsked
  <1>3. ASSUME NEW v \in Workers, Update(v) PROVE BroughtBack \subseteq Asked(job[w])
    <2>1. \E j : Turn(v, j)
      BY <1>3, Zenon DEF Update, To
    <2> QED
      BY <1>0, <1>3, <2>1, OnlyOneSteps, UpdateAsked
  <1>4. ASSUME NEW v \in Workers, GetNextEnabledKey(v) PROVE BroughtBack \subseteq Asked(job[w])
    <2>1. \E j : Turn(v, j)
      BY <1>4, Zenon DEF GetNextEnabledKey
    <2> QED
      BY <1>0, <1>4, <2>1, OnlyOneSteps, PickAsked
  <1>5. ASSUME NEW v \in Workers, EnableOrDisableByTag(v) PROVE BroughtBack \subseteq Asked(job[w])
    <2>1. stored'.keys = stored.keys /\ stored'.marks = stored.marks
      BY <1>0, <1>5 DEF EnableOrDisableByTag, Shapes, RowKeys
    <2> QED
      BY <2>1, SameMarks
  <1>6. ASSUME NEW v \in Workers, Begins(v) PROVE UNCHANGED stored
    BY <1>6 DEF Begins, CacheGetChannel, GetAllChannels, UpdateChannelStatusRequest, ChannelByTagRequest,
       ManageMultiKeys, UpdateChannel, Start
  <1>7. ASSUME NEW v \in Workers, Continues(v) PROVE BroughtBack \subseteq Asked(job[w])
    BY <1>1, <1>2, <1>3, <1>4, <1>5, <1>7 DEF Continues, processChannelError, UpdateChannelStatus, ReadStatus,
       UpdateAbilityStatus, ManageLocked, Reread, UpdateAbilities, UpdateAbilityStatusByTag, InitChannelCache,
       SwapChannels
  <1>8. ASSUME NEW v \in Workers, DbStatementFails(v) \/ ChannelsUnread(v) PROVE UNCHANGED stored
    BY <1>8 DEF DbStatementFails, ChannelsUnread
  <1> QED
    BY <1>1, <1>6, <1>7, <1>8 DEF KeysNext, SyncChannelCache, SyncUnread, SyncSwap

(* For every number of goroutines, operations and failed statements, with   *)
(* and without the memory cache: a goroutine that writes the marks of the   *)
(* channel enables none but the keys it was asked to enable.  Under the     *)
(* polling lock the marks that a status change read are still those of the  *)
(* row when it saves; a pick, and the management of keys, that loaded the   *)
(* channel before the lock keep the marks when nobody wrote them since; and *)
(* the renumbering of a deletion takes every mark along with its key.       *)
(* Failed statements and edits that overlap another writer are excepted.    *)
THEOREM MarksAreKept == KeysSpec => KeyMarksKept
  <1>1. KeysInv /\ [KeysNext]_chanVars =>
          [clean => \A w \in Workers : Steps(w) /\ ~LoadedEarlier(job[w]) => BroughtBack \subseteq Asked(job[w])]_chanVars
    BY MarksStep
  <1> QED
    BY <1>1, KeysInvariant, PTL DEF KeysSpec, KeyMarksKept
=============================================================================
