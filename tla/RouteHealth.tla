----------------------------- MODULE RouteHealth -----------------------------
(***************************************************************************)
(* The circuit breaker of live routing: one channel_health row of          *)
(* service/route_health.go (the channel/model scope) and the requests that *)
(* ask it for admission, recheck it once they hold a lease, run upstream   *)
(* and report what they saw.  Admission is a read followed by a            *)
(* conditional update, an observation is one locked transaction, and a     *)
(* request may end without reporting anything.                             *)
(*                                                                         *)
(* Time is relative: the row carries the time left of its cooldown and a   *)
(* request the age of the timestamp it took when its admission began.      *)
(***************************************************************************)
EXTENDS Integers, FiniteSetsExt

CONSTANTS
  Requests,      \* the requests in flight; an ended one stands for a new one
  Threshold,     \* RouteHealthPolicy.FailureThreshold
  Cooldown,      \* the default cooldown and probe window in ticks
  LongCooldown,  \* a Retry-After, and the cooldown of a capability failure
  MaxStall       \* bound: how many ticks one admission may be delayed

ASSUME RouteHealthAssumption ==
  /\ IsFiniteSet(Requests)
  /\ Threshold \in Nat \ {0} /\ Cooldown \in Nat \ {0}
  /\ LongCooldown \in Nat /\ LongCooldown > Cooldown
  /\ MaxStall \in Nat \ {0}

VARIABLES
  row,     \* the channel_health row; a missing row reads as closed
  req      \* where each request is

vars == <<row, req>>

\* health_epoch is only ever compared for equality, so a number that no request
\* holds any more is used again.  0 is an epoch no row has.
Epochs == 1..(Cardinality(Requests) + 2)
Admitting == {"load", "rearm", "claim"}
Idle == [pc |-> "idle", age |-> 0, last |-> FALSE, epoch |-> 0, probe |-> FALSE]

TypeOK ==
  /\ row \in [state : {"closed", "open", "half"}, failures : 0..Threshold,
              armed : BOOLEAN, left : (-MaxStall)..LongCooldown, epoch : Epochs]
  /\ req \in [Requests -> [pc : Admitting \cup {"idle", "selected", "run"},
                           age : 0..MaxStall, last : BOOLEAN,
                           epoch : Epochs \cup {0}, probe : BOOLEAN]]

Init ==
  /\ row = [state |-> "closed", failures |-> 0, armed |-> FALSE, left |-> 0, epoch |-> 1]
  /\ req = [r \in Requests |-> Idle]

NextEpoch == Min(Epochs \ ({row.epoch} \cup {req[r].epoch : r \in Requests}))

Goto(r, fields) == req' = [req EXCEPT ![r] = fields]

\* cooldown_until > 0 AND cooldown_until <= now, for the request's timestamp.
Elapsed(r) == row.armed /\ row.left <= -req[r].age

-----------------------------------------------------------------------------
(* Admission: routeHealthScopeUsable. *)

Begin(r) ==
  /\ req[r].pc = "idle"
  /\ Goto(r, [Idle EXCEPT !.pc = "load"])
  /\ UNCHANGED row

\* What the loaded row leads to.  An elapsed half-open row is re-armed, an
\* elapsed open one is claimed, a closed one admits, anything else refuses.
LoadRouteHealth(r) ==
  /\ req[r].pc = "load"
  /\ Goto(r, CASE row.state = "closed" -> [req[r] EXCEPT !.pc = "selected", !.epoch = row.epoch]
               [] row.state = "half" /\ row.left <= -req[r].age -> [req[r] EXCEPT !.pc = "rearm"]
               [] row.state = "open" /\ Elapsed(r) ->
                    [req[r] EXCEPT !.pc = "claim", !.epoch = row.epoch]
               [] OTHER -> Idle)
  /\ UNCHANGED row

\* Mutant: a lost probe is given another window instead of being re-armed.
MutRearmExtends(r) ==
  /\ req[r].pc = "rearm"
  /\ row' = [row EXCEPT !.left = Cooldown - req[r].age, !.epoch = NextEpoch]
  /\ Goto(r, Idle)

MutRearmSameEpoch(r) ==
  /\ req[r].pc = "rearm"
  /\ IF row.state = "half" /\ Elapsed(r)
     THEN /\ row' = [row EXCEPT !.state = "open", !.armed = FALSE, !.left = 0]
          /\ Goto(r, IF req[r].last THEN Idle ELSE [req[r] EXCEPT !.pc = "load", !.last = TRUE])
     ELSE UNCHANGED row /\ Goto(r, Idle)

\* The row of a lost probe goes back to open with no cooldown; the loop then
\* reads it once more, unless this was its second round.
RearmLostProbe(r) ==
  /\ req[r].pc = "rearm"
  /\ IF row.state = "half" /\ Elapsed(r)
     THEN /\ row' = [row EXCEPT !.state = "open", !.armed = FALSE, !.left = 0, !.epoch = NextEpoch]
          /\ Goto(r, IF req[r].last THEN Idle ELSE [req[r] EXCEPT !.pc = "load", !.last = TRUE])
     ELSE UNCHANGED row /\ Goto(r, Idle)

MutClaimAnyState(r) ==
  /\ req[r].pc = "claim"
  /\ row' = [row EXCEPT !.state = "half", !.left = Cooldown - req[r].age]
  /\ Goto(r, [req[r] EXCEPT !.pc = "selected", !.probe = TRUE])

\* open -> half_open.  The epoch handed out is the loaded one plus one, which is
\* the row's only if no other step changed the row in between.
ClaimProbe(r) ==
  /\ req[r].pc = "claim"
  /\ IF row.state = "open" /\ Elapsed(r)
     THEN /\ row' = [row EXCEPT !.state = "half", !.left = Cooldown - req[r].age, !.epoch = NextEpoch]
          /\ Goto(r, [req[r] EXCEPT !.pc = "selected", !.probe = TRUE,
                                    !.epoch = IF @ = row.epoch THEN NextEpoch ELSE 0])
     ELSE UNCHANGED row /\ Goto(r, Idle)

-----------------------------------------------------------------------------
(* The admitted request. *)

\* The runtime recheck around the lease: the row must still be at the epoch the
\* selection saw.  Epochs never return, so the later of its two reads decides.
RecheckRouteLeaseRuntime(r) ==
  /\ req[r].pc = "selected"
  /\ Goto(r, IF row.epoch = req[r].epoch THEN [req[r] EXCEPT !.pc = "run"] ELSE Idle)
  /\ UNCHANGED row

\* kind -> the cooldown it asks for, and whether one failure is enough to open.
Failures == {"transient", "retry_after", "capability"}
CooldownOf(kind) == IF kind = "transient" THEN Cooldown ELSE LongCooldown
OpensAtOnce(kind) == kind # "transient"

\* A failure in half-open, at the threshold or with a Retry-After opens the
\* circuit and starts its cooldown anew, whatever was left of the previous one.
ObserveRouteHealthFailure(kind) ==
  LET count == Min({row.failures + 1, Threshold})
      opens == row.state = "half" \/ count >= Threshold \/ OpensAtOnce(kind)
  IN row' = IF opens
            THEN [row EXCEPT !.state = "open", !.failures = count, !.armed = TRUE,
                             !.left = CooldownOf(kind), !.epoch = NextEpoch]
            ELSE [row EXCEPT !.failures = count]

ObserveRouteHealthSuccess ==
  row' = IF row.state = "closed" /\ row.failures = 0 /\ ~row.armed THEN row
         ELSE [state |-> "closed", failures |-> 0, armed |-> FALSE, left |-> 0, epoch |-> NextEpoch]

ReportFailure(r, kind) ==
  /\ req[r].pc = "run"
  /\ ObserveRouteHealthFailure(kind)
  /\ Goto(r, Idle)

ReportSuccess(r) ==
  /\ req[r].pc = "run"
  /\ ObserveRouteHealthSuccess
  /\ Goto(r, Idle)

\* The request ends with nothing to report: it was admitted but another channel
\* was picked (a selection asks for the probe of every candidate), its client left, its node stopped, its error is no health signal,
\* or the report itself failed.
EndSilently(r) ==
  /\ req[r].pc # "idle"
  /\ Goto(r, Idle)
  /\ UNCHANGED row

\* Time passes.
Tick ==
  /\ \A r \in Requests : req[r].pc \in Admitting => req[r].age < MaxStall
  /\ row' = [row EXCEPT !.left = IF row.armed THEN Max({@ - 1, -MaxStall}) ELSE @]
  /\ req' = [r \in Requests |-> [req[r] EXCEPT !.age = IF req[r].pc \in Admitting THEN @ + 1 ELSE 0]]

Admission(r) == LoadRouteHealth(r) \/ RearmLostProbe(r) \/ ClaimProbe(r)
Report(r) == ReportSuccess(r) \/ \E kind \in Failures : ReportFailure(r, kind)

Next ==
  \/ \E r \in Requests :
       Begin(r) \/ Admission(r) \/ RecheckRouteLeaseRuntime(r) \/ Report(r) \/ EndSilently(r)
  \/ Tick

Spec == Init /\ [][Next]_vars

-----------------------------------------------------------------------------
(* Properties. *)

(* While the circuit is half open one request at most holds an epoch the   *)
(* recheck accepts: the probe is single however many requests raced for it.*)
SingleProbe ==
  row.state = "half" =>
    Cardinality({r \in Requests : req[r].pc \in {"selected", "run"} /\ req[r].epoch = row.epoch}) <= 1

(* A request goes upstream only on a closed circuit or as its probe: what  *)
(* happened to the row since the selection read it is seen by the recheck, *)
(* because every change of state takes a new epoch.                        *)
RunsOnlyWhenUsable ==
  [][\A r \in Requests : (req[r].pc = "selected" /\ req'[r].pc = "run")
       => row.state = "closed" \/ (row.state = "half" /\ req[r].probe)]_vars

(* A circuit that opened on failures is probed once its cooldown is over,  *)
(* and one whose probe is lost does not stay half open: some later request *)
(* notices that the window has closed, however many admitted requests end  *)
(* without a report, race for the row or act on old timestamps.            *)
CircuitMoves ==
  /\ row.state = "open" /\ row.armed ~> row.state # "open"
  /\ row.state = "half" ~> row.state # "half"
=============================================================================
