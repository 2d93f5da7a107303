---------------------------- MODULE UpstreamProofs ----------------------------
(***************************************************************************)
(* Proofs about what keeps a channel among the routes, and about the       *)
(* stream or the task that comes back from it.                             *)
(*                                                                         *)
(* The health circuit, for any finite set of requests, any threshold, any  *)
(* cooldowns and any delay of an admission: the theorems rest on the epoch *)
(* alone.  A state of the row is left only together with its epoch, and    *)
(* the epoch taken instead is one that no request holds.                   *)
(*                                                                         *)
(* The capability snapshots, for any set of nodes and any number of        *)
(* changes, failed statements and restarts.                                *)
(*                                                                         *)
(* The goroutines of StreamScannerHandler, for a channel of any capacity   *)
(* and a stream of any length, whichever of them panic, time out or lose   *)
(* the client.                                                             *)
(*                                                                         *)
(* The billing of songs and videos, for any set of tasks, pollers and      *)
(* users and any number of failed statements: nothing keeps two pollers    *)
(* from working on a task at once but the comparison of the status in its  *)
(* row.                                                                    *)
(***************************************************************************)
EXTENDS RouteHealth, Capabilities, StreamScanner, AsyncTask,
        FiniteSetTheorems, SequenceTheorems, WellFoundedInduction, TLAPS

(* The health circuit. *)

\* The requests that the recheck of the lease accepts.
Holds(r) == req[r].pc \in {"selected", "run"} /\ req[r].epoch = row.epoch

\* An epoch that both the row and an admitted request carry was handed out in
\* the state the row is still in: closed, or half open to a probe.
HoldersAreUsable ==
  \A r \in Requests :
    Holds(r) => row.state = "closed" \/ (row.state = "half" /\ req[r].probe)

\* A half-open row gave its epoch to one request.
OneHolder ==
  row.state = "half" => \A r, s \in Requests : Holds(r) /\ Holds(s) => r = s

HealthInv == TypeOK /\ HoldersAreUsable /\ OneHolder

-----------------------------------------------------------------------------
(* Minima and maxima. *)

LEMMA MinOfNaturals ==
    ASSUME NEW S \in SUBSET Nat, S # {}
    PROVE  Min(S) \in S
  <1> DEFINE R == {ss \in Nat \X Nat : ss[1] < ss[2]}
  <1>1. PICK x \in S : \A y \in S : ~(<<y, x>> \in R)
    <2> HIDE DEF R
    <2>1. IsWellFoundedOn(R, Nat)
      BY NatLessThanWellFounded DEF R, OpToRel
    <2> QED
      BY <2>1, WFMin
  <1>2. \A y \in S : x <= y
    <2> TAKE y \in S
    <2>1. ~(y < x)
      BY <1>1
    <2> QED
      BY <2>1
  <1> QED
    BY <1>2 DEF Min

LEMMA MinOfTwo ==
    ASSUME NEW a \in Int, NEW b \in Int
    PROVE  Min({a, b}) = IF a <= b THEN a ELSE b
  <1> DEFINE m == IF a <= b THEN a ELSE b
  <1>1. m \in {a, b} /\ \A y \in {a, b} : m <= y
    OBVIOUS
  <1>2. Min({a, b}) \in {a, b} /\ \A y \in {a, b} : Min({a, b}) <= y
    BY <1>1 DEF Min
  <1> QED
    BY <1>1, <1>2

LEMMA MaxOfTwo ==
    ASSUME NEW a \in Int, NEW b \in Int
    PROVE  Max({a, b}) = IF a >= b THEN a ELSE b
  <1> DEFINE m == IF a >= b THEN a ELSE b
  <1>1. m \in {a, b} /\ \A y \in {a, b} : m >= y
    OBVIOUS
  <1>2. Max({a, b}) \in {a, b} /\ \A y \in {a, b} : Max({a, b}) >= y
    BY <1>1 DEF Max
  <1> QED
    BY <1>1, <1>2

-----------------------------------------------------------------------------
\* There is always an epoch left that neither the row nor a request carries.
LEMMA NextEpochIsFresh ==
    ASSUME TypeOK
    PROVE  /\ NextEpoch \in Epochs
           /\ NextEpoch # row.epoch
           /\ \A r \in Requests : req[r].epoch # NextEpoch
  <1> DEFINE held == {req[r].epoch : r \in Requests}
             taken == held \cup {row.epoch}
             n == Cardinality(Requests)
  <1>1. n \in Nat /\ IsFiniteSet(held) /\ Cardinality(held) <= n
    <2>1. IsFiniteSet(Requests)
      BY RouteHealthAssumption
    <2>2. n \in Nat
      BY <2>1, FS_CardinalityType
    <2>3. IsFiniteSet(held) /\ Cardinality(held) <= n
      <3> DEFINE f == [r \in Requests |-> req[r].epoch]
      <3>1. f \in Surjection(Requests, held)
        BY DEF Surjection
      <3> HIDE DEF f, held
      <3> QED
        BY <2>1, <3>1, FS_Surjection
    <2> QED
      BY <2>2, <2>3
  <1>2. IsFiniteSet(taken) /\ Cardinality(taken) <= n + 1 /\ Cardinality(taken) \in Nat
    <2> HIDE DEF n, held
    <2>1. Cardinality(held) \in Nat
      BY <1>1, FS_CardinalityType
    <2>2. /\ IsFiniteSet(taken)
          /\ Cardinality(taken) = IF row.epoch \in held THEN Cardinality(held) ELSE Cardinality(held) + 1
      BY <1>1, FS_AddElement
    <2> QED
      BY <1>1, <2>1, <2>2
  <1>3. IsFiniteSet(Epochs) /\ Cardinality(Epochs) = n + 2
    <2>1. IsFiniteSet(1..(n + 2)) /\ Cardinality(1..(n + 2)) = n + 2
      <3> HIDE DEF n
      <3>1. n + 2 \in Int /\ ~(1 > n + 2) /\ (n + 2) - 1 + 1 = n + 2
        BY <1>1
      <3> QED
        BY <3>1, FS_Interval
    <2> QED
      BY <2>1 DEF Epochs
  <1>4. Epochs \ taken # {}
    <2>1. SUFFICES ASSUME Epochs \subseteq taken PROVE FALSE
      OBVIOUS
    <2>2. Cardinality(Epochs) <= Cardinality(taken)
      <3> HIDE DEF taken
      <3> QED
        BY <1>2, <2>1, FS_Subset
    <2> HIDE DEF taken, n
    <2> QED
      BY <1>1, <1>2, <1>3, <2>2
  <1>5. Epochs \ taken \in SUBSET Nat
    <2> HIDE DEF n
    <2> QED
      BY <1>1 DEF Epochs
  <1>6. Min(Epochs \ taken) \in Epochs \ taken
    <2> HIDE DEF taken
    <2> QED
      BY <1>4, <1>5, MinOfNaturals
  <1>7. NextEpoch = Min(Epochs \ taken)
    <2>1. taken = {row.epoch} \cup {req[r].epoch : r \in Requests}
      OBVIOUS
    <2> QED
      BY <2>1 DEF NextEpoch
  <1> QED
    <2>1. NextEpoch \in Epochs /\ NextEpoch \notin taken
      BY <1>6, <1>7
    <2> HIDE DEF n
    <2> QED
      BY <2>1

-----------------------------------------------------------------------------
(* Types. *)

LEMMA InitTyped == Init => TypeOK
  <1>1. Cardinality(Requests) \in Nat
    BY RouteHealthAssumption, FS_CardinalityType
  <1> QED
    BY <1>1, RouteHealthAssumption DEF Init, TypeOK, Epochs, Idle

\* The request types of TypeOK, and what a step that moves one request keeps.
Request == [pc : Admitting \cup {"idle", "selected", "run"}, age : 0..MaxStall,
            last : BOOLEAN, epoch : Epochs \cup {0}, probe : BOOLEAN]

LEMMA GotoTyped ==
    ASSUME TypeOK, NEW r \in Requests, NEW fields \in Request, Goto(r, fields)
    PROVE  /\ req' \in [Requests -> Request]
           /\ req'[r] = fields
           /\ \A s \in Requests : s # r => req'[s] = req[s]
  BY DEF Goto, TypeOK, Request

LEMMA IdleTyped == Idle \in Request
  BY RouteHealthAssumption DEF Idle, Request

-----------------------------------------------------------------------------
(* Steps. *)

\* The row keeps its state and its epoch; a request that the recheck accepts
\* afterwards was accepted before, or has just been admitted by a closed row.
SameEpoch ==
  /\ row'.state = row.state /\ row'.epoch = row.epoch
  /\ \A r \in Requests :
       Holds(r)' => \/ Holds(r) /\ req'[r].probe = req[r].probe
                    \/ row.state = "closed"

\* The row takes a new epoch, which at most one request holds: the probe of the
\* half-open row.
NewEpoch ==
  \E p \in Requests : \A r \in Requests :
    Holds(r)' => r = p /\ row'.state = "half" /\ req'[r].probe

LEMMA AdmissionSteps ==
    ASSUME TypeOK, NEW r \in Requests, Begin(r) \/ Admission(r)
    PROVE  TypeOK' /\ (SameEpoch \/ NewEpoch)
  <1> USE RouteHealthAssumption DEF Request
  <1>0. req[r] \in Request /\ row.epoch \in Epochs /\ 0 \notin Epochs
    BY DEF TypeOK, Epochs
  <1>1. CASE Begin(r)
    <2>1. [Idle EXCEPT !.pc = "load"] \in Request
      BY IdleTyped DEF Admitting
    <2>2. UNCHANGED row /\ Goto(r, [Idle EXCEPT !.pc = "load"])
      BY <1>1 DEF Begin
    <2>3. TypeOK'
      BY <2>1, <2>2, GotoTyped DEF TypeOK
    <2>4. SameEpoch
      BY <2>1, <2>2, GotoTyped DEF SameEpoch, Holds, Idle
    <2> QED
      BY <2>3, <2>4
  <1>2. CASE LoadRouteHealth(r)
    <2>1. PICK fields :
            /\ UNCHANGED row /\ Goto(r, fields)
            /\ \/ row.state = "closed" /\ fields = [req[r] EXCEPT !.pc = "selected", !.epoch = row.epoch]
               \/ fields = [req[r] EXCEPT !.pc = "rearm"]
               \/ fields = [req[r] EXCEPT !.pc = "claim", !.epoch = row.epoch]
               \/ fields = Idle
      BY <1>2 DEF LoadRouteHealth
    <2>2. fields \in Request
      <3>1. [req[r] EXCEPT !.pc = "selected", !.epoch = row.epoch] \in Request
        BY <1>0 DEF Admitting
      <3>2. [req[r] EXCEPT !.pc = "rearm"] \in Request
        BY <1>0 DEF Admitting
      <3>3. [req[r] EXCEPT !.pc = "claim", !.epoch = row.epoch] \in Request
        BY <1>0 DEF Admitting
      <3> QED
        BY <2>1, <3>1, <3>2, <3>3, IdleTyped
    <2>3. TypeOK'
      BY <2>1, <2>2, GotoTyped DEF TypeOK
    <2>4. fields.pc \in {"selected", "run"} => row.state = "closed"
      <3>1. /\ Idle.pc = "idle"
            /\ [req[r] EXCEPT !.pc = "rearm"].pc = "rearm"
            /\ [req[r] EXCEPT !.pc = "claim", !.epoch = row.epoch].pc = "claim"
        BY <1>0 DEF Idle
      <3> QED
        BY <2>1, <3>1 DEF Goto
    <2>5. SameEpoch
      BY <2>1, <2>2, <2>4, GotoTyped DEF SameEpoch, Holds
    <2> QED
      BY <2>3, <2>5
  <1>3. CASE RearmLostProbe(r)
    <2>1. PICK fields :
            /\ Goto(r, fields)
            /\ fields = Idle \/ fields = [req[r] EXCEPT !.pc = "load", !.last = TRUE]
            /\ \/ UNCHANGED row
               \/ row' = [row EXCEPT !.state = "open", !.armed = FALSE, !.left = 0, !.epoch = NextEpoch]
      BY <1>3 DEF RearmLostProbe
    <2>2. fields \in Request
      BY <1>0, <2>1, IdleTyped DEF Admitting
    <2>3. TypeOK'
      <3>1. req' \in [Requests -> Request]
        BY <2>1, <2>2, GotoTyped
      <3>2. 0 \in (-MaxStall)..LongCooldown
        OBVIOUS
      <3> QED
        BY <2>1, <3>1, <3>2, NextEpochIsFresh, ZenonT(60) DEF TypeOK
    <2>4. fields.pc \notin {"selected", "run"}
      <3>1. /\ Idle.pc = "idle"
            /\ [req[r] EXCEPT !.pc = "load", !.last = TRUE].pc = "load"
        BY <1>0 DEF Idle
      <3> QED
        BY <2>1, <3>1 DEF Goto
    <2>5. CASE UNCHANGED row
      <3>1. SameEpoch
        BY <2>1, <2>2, <2>4, <2>5, GotoTyped DEF SameEpoch, Holds
      <3> QED
        BY <2>3, <3>1
    <2>6. CASE row' = [row EXCEPT !.state = "open", !.armed = FALSE, !.left = 0, !.epoch = NextEpoch]
      <3>1. row'.epoch = NextEpoch
        BY <2>6 DEF TypeOK
      <3>2. NewEpoch
        BY <2>1, <2>2, <2>4, <3>1, GotoTyped, NextEpochIsFresh DEF NewEpoch, Holds
      <3> QED
        BY <2>3, <3>2
    <2>7. \/ UNCHANGED row
          \/ row' = [row EXCEPT !.state = "open", !.armed = FALSE, !.left = 0, !.epoch = NextEpoch]
      BY <1>3 DEF RearmLostProbe
    <2> QED
      BY ONLY <2>5, <2>6, <2>7
  <1>4. CASE ClaimProbe(r)
    <2>1. CASE UNCHANGED row /\ Goto(r, Idle)
      <3>1. TypeOK'
        BY <2>1, IdleTyped, GotoTyped DEF TypeOK
      <3>2. req'[r].pc = "idle" /\ \A s \in Requests : s # r => req'[s] = req[s]
        <4>1. req'[r] = Idle /\ \A s \in Requests : s # r => req'[s] = req[s]
          BY <2>1, IdleTyped, GotoTyped
        <4> QED
          BY <4>1 DEF Idle
      <3>3. SameEpoch
        BY <2>1, <3>2 DEF SameEpoch, Holds
      <3> QED
        BY <3>1, <3>3
    <2>2. CASE /\ row' = [row EXCEPT !.state = "half", !.left = Cooldown - req[r].age, !.epoch = NextEpoch]
               /\ Goto(r, [req[r] EXCEPT !.pc = "selected", !.probe = TRUE,
                                         !.epoch = IF @ = row.epoch THEN NextEpoch ELSE 0])
      <3> DEFINE fields == [req[r] EXCEPT !.pc = "selected", !.probe = TRUE,
                                          !.epoch = IF @ = row.epoch THEN NextEpoch ELSE 0]
      <3>1. fields \in Request /\ fields.probe = TRUE
        <4>1. (IF req[r].epoch = row.epoch THEN NextEpoch ELSE 0) \in Epochs \cup {0}
          BY NextEpochIsFresh
        <4>2. fields = [req[r] EXCEPT !.pc = "selected", !.probe = TRUE,
                          !.epoch = IF req[r].epoch = row.epoch THEN NextEpoch ELSE 0]
          BY <1>0
        <4> HIDE DEF fields
        <4> QED
          BY <1>0, <4>1, <4>2
      <3>2. Goto(r, fields)
        BY <2>2
      <3>3. Cooldown - req[r].age \in (-MaxStall)..LongCooldown
        BY <1>0
      <3>4. row'.state = "half" /\ row'.epoch = NextEpoch
        BY <2>2 DEF TypeOK
      <3> HIDE DEF fields
      <3>5. TypeOK'
        BY <2>2, <3>1, <3>2, <3>3, GotoTyped, NextEpochIsFresh DEF TypeOK
      <3>6. NewEpoch
        BY <3>1, <3>2, <3>4, GotoTyped, NextEpochIsFresh DEF NewEpoch, Holds
      <3> QED
        BY <3>5, <3>6
    <2> QED
      BY <1>4, <2>1, <2>2 DEF ClaimProbe
  <1> QED
    BY <1>1, <1>2, <1>3, <1>4 DEF Admission

\* What an observation does to the row.
LEMMA ObservationSteps ==
    ASSUME TypeOK, ObserveRouteHealthSuccess \/ \E kind \in Failures : ObserveRouteHealthFailure(kind)
    PROVE  /\ row' \in [state : {"closed", "open", "half"}, failures : 0..Threshold,
                        armed : BOOLEAN, left : (-MaxStall)..LongCooldown, epoch : Epochs]
           /\ row'.epoch = NextEpoch \/ (row'.epoch = row.epoch /\ row'.state = row.state)
  <1> USE RouteHealthAssumption
  <1>0. 0 \in (-MaxStall)..LongCooldown /\ NextEpoch \in Epochs
    BY NextEpochIsFresh
  <1>1. CASE ObserveRouteHealthSuccess
    BY <1>0, <1>1 DEF ObserveRouteHealthSuccess, TypeOK
  <1>2. ASSUME NEW kind \in Failures, ObserveRouteHealthFailure(kind)
        PROVE  /\ row' \in [state : {"closed", "open", "half"}, failures : 0..Threshold,
                            armed : BOOLEAN, left : (-MaxStall)..LongCooldown, epoch : Epochs]
               /\ row'.epoch = NextEpoch \/ (row'.epoch = row.epoch /\ row'.state = row.state)
    <2> DEFINE count == Min({row.failures + 1, Threshold})
    <2>1. count \in 0..Threshold
      <3>1. row.failures + 1 \in 0..(Threshold + 1) /\ Threshold \in Int
        BY DEF TypeOK
      <3> QED
        BY <3>1, MinOfTwo
    <2>2. CooldownOf(kind) \in (-MaxStall)..LongCooldown
      BY DEF CooldownOf
    <2>3. \/ row' = [row EXCEPT !.state = "open", !.failures = count, !.armed = TRUE,
                                !.left = CooldownOf(kind), !.epoch = NextEpoch]
          \/ row' = [row EXCEPT !.failures = count]
      BY <1>2 DEF ObserveRouteHealthFailure
    <2> HIDE DEF count
    <2> QED
      BY <1>0, <2>1, <2>2, <2>3, ZenonT(60) DEF TypeOK
  <1> QED
    BY <1>1, <1>2

LEMMA AdmittedSteps ==
    ASSUME TypeOK, NEW r \in Requests, RecheckRouteLeaseRuntime(r) \/ Report(r) \/ EndSilently(r)
    PROVE  TypeOK' /\ (SameEpoch \/ NewEpoch)
  <1> USE RouteHealthAssumption
  <1>0. /\ req[r] \in Request
        /\ [req[r] EXCEPT !.pc = "run"] \in Request
        /\ [req[r] EXCEPT !.pc = "run"].epoch = req[r].epoch
        /\ [req[r] EXCEPT !.pc = "run"].probe = req[r].probe
        /\ Idle.pc = "idle"
    BY DEF TypeOK, Request, Idle
  <1>1. CASE RecheckRouteLeaseRuntime(r)
    <2>1. PICK fields :
            /\ UNCHANGED row /\ Goto(r, fields) /\ req[r].pc = "selected"
            /\ fields = Idle \/ fields = [req[r] EXCEPT !.pc = "run"]
      BY <1>1 DEF RecheckRouteLeaseRuntime
    <2>2. fields \in Request
      BY <1>0, <2>1, IdleTyped
    <2>3. TypeOK'
      BY <2>1, <2>2, GotoTyped DEF TypeOK, Request
    <2>4. SameEpoch
      <3>1. fields.pc = "idle" \/ (fields.epoch = req[r].epoch /\ fields.probe = req[r].probe)
        BY <1>0, <2>1
      <3> QED
        BY <2>1, <2>2, <3>1, GotoTyped DEF SameEpoch, Holds
    <2> QED
      BY <2>3, <2>4
  <1>2. CASE Report(r)
    <2>1. Goto(r, Idle) /\ (ObserveRouteHealthSuccess \/ \E kind \in Failures : ObserveRouteHealthFailure(kind))
      BY <1>2 DEF Report, ReportSuccess, ReportFailure
    <2>2. TypeOK'
      BY <2>1, IdleTyped, GotoTyped, ObservationSteps DEF TypeOK, Request
    <2>3. req'[r].pc = "idle" /\ \A s \in Requests : s # r => req'[s] = req[s]
      BY <1>0, <2>1, IdleTyped, GotoTyped
    <2>4. row'.epoch = NextEpoch \/ (row'.epoch = row.epoch /\ row'.state = row.state)
      BY <2>1, ObservationSteps
    <2>5. SameEpoch \/ NewEpoch
      BY <2>3, <2>4, NextEpochIsFresh DEF SameEpoch, NewEpoch, Holds
    <2> QED
      BY <2>2, <2>5
  <1>3. CASE EndSilently(r)
    <2>1. UNCHANGED row /\ Goto(r, Idle)
      BY <1>3 DEF EndSilently
    <2>2. TypeOK'
      BY <2>1, IdleTyped, GotoTyped DEF TypeOK, Request
    <2>3. req'[r].pc = "idle" /\ \A s \in Requests : s # r => req'[s] = req[s]
      BY <1>0, <2>1, IdleTyped, GotoTyped
    <2>4. SameEpoch
      BY <2>1, <2>3 DEF SameEpoch, Holds
    <2> QED
      BY <2>2, <2>4
  <1> QED
    BY <1>1, <1>2, <1>3

LEMMA TickStep ==
    ASSUME TypeOK, Tick
    PROVE  TypeOK' /\ SameEpoch
  <1> USE RouteHealthAssumption
  <1> DEFINE left == IF row.armed THEN Max({row.left - 1, -MaxStall}) ELSE row.left
  <1>1. left \in (-MaxStall)..LongCooldown
    <2>1. row.left - 1 \in Int /\ -MaxStall \in Int /\ row.left \in (-MaxStall)..LongCooldown
      BY DEF TypeOK
    <2> QED
      BY <2>1, MaxOfTwo
  <1>2. row' = [row EXCEPT !.left = left]
    BY DEF Tick, TypeOK
  <1>3. \A r \in Requests :
          /\ req'[r] \in Request
          /\ req'[r].pc = req[r].pc /\ req'[r].epoch = req[r].epoch /\ req'[r].probe = req[r].probe
    <2> TAKE r \in Requests
    <2> DEFINE age == IF req[r].pc \in Admitting THEN req[r].age + 1 ELSE 0
    <2>1. req[r] \in Request
      BY DEF TypeOK, Request
    <2>2. age \in 0..MaxStall
      BY <2>1 DEF Tick, Request
    <2>3. req'[r] = [req[r] EXCEPT !.age = age]
      BY <2>1 DEF Tick, Request
    <2> HIDE DEF age
    <2> QED
      BY <2>1, <2>2, <2>3 DEF Request
  <1>4. req' = [r \in Requests |-> req'[r]]
    BY DEF Tick
  <1> HIDE DEF left
  <1>5. TypeOK'
    <2>1. req' \in [Requests -> Request]
      BY <1>3, <1>4
    <2> QED
      BY <1>1, <1>2, <1>4, <2>1 DEF TypeOK, Request
  <1>6. row'.state = row.state /\ row'.epoch = row.epoch
    BY <1>2 DEF TypeOK
  <1> QED
    BY <1>3, <1>5, <1>6 DEF SameEpoch, Holds

-----------------------------------------------------------------------------
LEMMA HealthStep ==
    ASSUME HealthInv, [Next]_vars
    PROVE  HealthInv'
  <1>1. TypeOK' /\ (SameEpoch \/ NewEpoch)
    <2>1. CASE UNCHANGED vars
      BY <2>1 DEF HealthInv, TypeOK, vars, SameEpoch, Holds
    <2>2. CASE Tick
      BY <2>2, TickStep DEF HealthInv
    <2>3. ASSUME NEW r \in Requests, Begin(r) \/ Admission(r)
          PROVE  TypeOK' /\ (SameEpoch \/ NewEpoch)
      BY <2>3, AdmissionSteps DEF HealthInv
    <2>4. ASSUME NEW r \in Requests, RecheckRouteLeaseRuntime(r) \/ Report(r) \/ EndSilently(r)
          PROVE  TypeOK' /\ (SameEpoch \/ NewEpoch)
      BY <2>4, AdmittedSteps DEF HealthInv
    <2> QED
      BY <2>1, <2>2, <2>3, <2>4 DEF Next
  <1>2. CASE SameEpoch
    <2>1. HoldersAreUsable'
      BY <1>2 DEF HealthInv, SameEpoch, HoldersAreUsable
    <2>2. OneHolder'
      BY <1>2 DEF HealthInv, SameEpoch, OneHolder
    <2> QED
      BY <1>1, <2>1, <2>2 DEF HealthInv
  <1>3. CASE NewEpoch
    <2>1. HoldersAreUsable'
      BY <1>3 DEF NewEpoch, HoldersAreUsable
    <2>2. OneHolder'
      BY <1>3 DEF NewEpoch, OneHolder
    <2> QED
      BY <1>1, <2>1, <2>2 DEF HealthInv
  <1> QED
    BY <1>1, <1>2, <1>3

LEMMA HealthHolds == Spec => []HealthInv
  <1>1. Init => HealthInv
    <2>1. ASSUME Init PROVE \A r \in Requests : ~Holds(r)
      BY <2>1 DEF Init, Holds, Idle
    <2> QED
      BY <2>1, InitTyped DEF HealthInv, HoldersAreUsable, OneHolder
  <1>2. HealthInv /\ [Next]_vars => HealthInv'
    BY HealthStep
  <1> QED
    BY <1>1, <1>2, PTL DEF Spec

(* The row, the requests and their timestamps keep their types; above all  *)
(* a free epoch never runs out.                                            *)
THEOREM HealthTyped == Spec => []TypeOK
  BY HealthHolds, PTL DEF HealthInv

(* However many requests race for the claim of an open circuit, a half-    *)
(* open row has given its epoch to one of them at most, for every number   *)
(* of requests, every cooldown and every delay between the steps of an     *)
(* admission.                                                              *)
THEOREM ProbeIsSingle == Spec => []SingleProbe
  <1>1. ASSUME HealthInv PROVE SingleProbe
    <2> DEFINE S == {r \in Requests : req[r].pc \in {"selected", "run"} /\ req[r].epoch = row.epoch}
    <2> SUFFICES ASSUME row.state = "half" PROVE Cardinality(S) <= 1
      BY DEF SingleProbe
    <2>1. \A r, s \in S : r = s
      BY <1>1 DEF HealthInv, OneHolder, Holds
    <2> HIDE DEF S
    <2>2. CASE S = {}
      BY <2>2, FS_EmptySet
    <2>3. CASE S # {}
      <3>1. PICK r : r \in S
        BY <2>3
      <3>2. S = {r}
        BY <2>1, <3>1
      <3>3. Cardinality({r}) = 1
        BY FS_Singleton
      <3> QED
        BY <3>2, <3>3
    <2> QED
      BY <2>2, <2>3
  <1> QED
    BY <1>1, HealthHolds, PTL

(* The recheck sends a request upstream only while the circuit is closed   *)
(* or when the request is its probe.                                       *)
THEOREM RunsAreUsable == Spec => RunsOnlyWhenUsable
  <1> DEFINE Usable(r) == (req[r].pc = "selected" /\ req'[r].pc = "run")
                            => row.state = "closed" \/ (row.state = "half" /\ req[r].probe)
  <1>1. ASSUME HealthInv, [Next]_vars, NEW r \in Requests, req[r].pc = "selected", req'[r].pc = "run"
        PROVE  row.state = "closed" \/ (row.state = "half" /\ req[r].probe)
    <2>1. req \in [Requests -> Request] /\ Idle.pc = "idle"
      BY <1>1 DEF HealthInv, TypeOK, Request, Idle
    <2>2. CASE \E s \in Requests : RecheckRouteLeaseRuntime(s)
      <3>1. PICK s \in Requests : RecheckRouteLeaseRuntime(s)
        BY <2>2
      <3>2. s = r
        BY <1>1, <2>1, <3>1 DEF RecheckRouteLeaseRuntime, Goto
      <3>3. row.epoch = req[r].epoch
        BY <1>1, <2>1, <3>1, <3>2 DEF RecheckRouteLeaseRuntime, Goto
      <3> QED
        BY <1>1, <3>3 DEF HealthInv, HoldersAreUsable, Holds
    <2>3. ASSUME NEW s \in Requests, Begin(s) \/ Admission(s) \/ Report(s) \/ EndSilently(s)
          PROVE  FALSE
      <3>1. req[s].pc # "selected" \/ req'[s].pc = "idle"
        BY <2>1, <2>3 DEF Begin, Admission, LoadRouteHealth, RearmLostProbe, ClaimProbe, Report,
           ReportSuccess, ReportFailure, EndSilently, Goto
      <3>2. s # r => req'[r] = req[r]
        BY <2>1, <2>3 DEF Begin, Admission, LoadRouteHealth, RearmLostProbe, ClaimProbe, Report,
           ReportSuccess, ReportFailure, EndSilently, Goto
      <3> QED
        BY <1>1, <3>1, <3>2
    <2>4. CASE Tick
      BY <1>1, <2>1, <2>4 DEF Tick, Request
    <2>5. CASE UNCHANGED vars
      BY <1>1, <2>5 DEF vars
    <2> QED
      BY <1>1, <2>2, <2>3, <2>4, <2>5 DEF Next
  <1>2. HealthInv /\ [Next]_vars => [\A r \in Requests : Usable(r)]_vars
    BY <1>1
  <1> QED
    BY <1>2, HealthHolds, PTL DEF Spec, RunsOnlyWhenUsable

-----------------------------------------------------------------------------
(* The capability snapshots. *)

\* The versions whose rows are kept end with the active one, and its rows are
\* those of the source the snapshot names.
KeptEndsWithActive ==
  /\ snap.version \in Nat
  /\ DOMAIN kept \subseteq 1..snap.version
  /\ snap.version = 0 => snap.source = NoSource
  /\ snap.version # 0 => snap.version \in DOMAIN kept /\ kept[snap.version] = snap.source

\* No index is ahead of the active version.
IndexBehind ==
  /\ DOMAIN index = Nodes
  /\ \A n \in Nodes : index[n].version \in 0..snap.version

CapInv == KeptEndsWithActive /\ IndexBehind /\ SameVersionSameSource

\* A step publishes the next version, stores the entry of a kept version or
\* none in one index, or leaves versions and indexes alone.
PublishStep ==
  /\ snap'.version = snap.version + 1
  /\ \E D \in SUBSET (DOMAIN kept \cup {snap.version + 1}) :
       /\ snap.version + 1 \in D
       /\ kept' = [v \in D |-> IF v = snap.version + 1 THEN snap'.source ELSE kept[v]]
  /\ UNCHANGED index

StoreStep ==
  /\ UNCHANGED <<snap, kept>>
  /\ \E n \in Nodes, entry \in {NoEntry} \cup {Indexed(v, kept[v]) : v \in DOMAIN kept} :
       index' = [index EXCEPT ![n] = entry]

QuietStep ==
  snap'.version = snap.version /\ snap'.source = snap.source /\ UNCHANGED <<kept, index>>

VersionStep == PublishStep \/ StoreStep \/ QuietStep

-----------------------------------------------------------------------------
LEMMA PublishRefines ==
    ASSUME KeptEndsWithActive, NEW n \in Nodes, PublishChannelCapabilitySnapshot(n)
    PROVE  VersionStep
  <1> DEFINE version == snap.version + 1
             D == {v \in DOMAIN kept \cup {version} : v >= version - 2}
  <1>1. CASE UNCHANGED <<snap, kept>>
    BY <1>1 DEF PublishChannelCapabilitySnapshot, VersionStep, QuietStep
  <1>2. CASE /\ snap' = [version |-> version, source |-> refresher[n].source, status |-> "active"]
             /\ kept' = [v \in D |-> IF v = version THEN refresher[n].source ELSE kept[v]]
    <2>1. snap'.version = version /\ snap'.source = refresher[n].source
      BY <1>2
    <2>2. version \in D
      BY DEF KeptEndsWithActive
    <2>3. D \in SUBSET (DOMAIN kept \cup {version})
      OBVIOUS
    <2>4. kept' = [v \in D |-> IF v = version THEN snap'.source ELSE kept[v]]
      BY <1>2, <2>1
    <2>5. UNCHANGED index
      BY DEF PublishChannelCapabilitySnapshot
    <2> HIDE DEF D
    <2> QED
      BY <2>1, <2>2, <2>3, <2>4, <2>5 DEF VersionStep, PublishStep
  <1> QED
    BY <1>1, <1>2 DEF PublishChannelCapabilitySnapshot

LEMMA StoreRefines ==
    ASSUME NEW n \in Nodes, StoreIndex(n)
    PROVE  VersionStep
  <1> DEFINE version == refresher[n].version
  <1>1. UNCHANGED <<snap, kept>>
    BY DEF StoreIndex, Durable
  <1>2. CASE index' = [index EXCEPT ![n] = NoEntry]
    BY <1>1, <1>2 DEF VersionStep, StoreStep
  <1>3. CASE version \in DOMAIN kept /\ index' = [index EXCEPT ![n] = Indexed(version, kept[version])]
    <2>1. Indexed(version, kept[version]) \in {Indexed(v, kept[v]) : v \in DOMAIN kept}
      BY <1>3
    <2> QED
      BY <1>1, <1>3, <2>1 DEF VersionStep, StoreStep
  <1> QED
    BY <1>2, <1>3 DEF StoreIndex

LEMMA NextIsVersionStep ==
    ASSUME KeptEndsWithActive, [CapNext]_capVars
    PROVE  VersionStep
  <1>1. CASE UNCHANGED capVars
    BY <1>1 DEF capVars, VersionStep, QuietStep
  <1>2. CASE RefreshStaleChannelCapabilities
    BY <1>2 DEF RefreshStaleChannelCapabilities, Durable, VersionStep, QuietStep
  <1>3. ASSUME NEW n \in Nodes,
               \/ SaveChannel(n) \/ DeleteChannel(n) \/ RereadChannel(n)
               \/ UpdateAbilitiesOf(n) \/ AbilitiesFail(n)
        PROVE  VersionStep
    BY <1>3 DEF SaveChannel, DeleteChannel, ChangeRow, RereadChannel, UpdateAbilitiesOf, AbilitiesFail,
       Durable, VersionStep, QuietStep
  <1>4. ASSUME NEW n \in Nodes, Dispatch(n) \/ PublishFails(n) \/ RefreshFails(n)
        PROVE  VersionStep
    BY <1>4 DEF Dispatch, PublishFails, RefreshFails, Durable, VersionStep, QuietStep
  <1>5. ASSUME NEW n \in Nodes, Restart(n)
        PROVE  VersionStep
    BY <1>5 DEF Restart, Durable, VersionStep, StoreStep
  <1>6. ASSUME NEW n \in Nodes,
               ReadChannel(n) \/ ReadAbilities(n) \/ GetChannelCapabilitySnapshotFence(n) \/ ReadSnapshots(n)
        PROVE  VersionStep
    BY <1>6 DEF ReadChannel, ReadAbilities, GetChannelCapabilitySnapshotFence, ReadSnapshots,
       Durable, VersionStep, QuietStep
  <1>7. ASSUME NEW n \in Nodes, MarkChannelCapabilityRefreshFailure(n)
        PROVE  VersionStep
    BY <1>7 DEF MarkChannelCapabilityRefreshFailure, VersionStep, QuietStep
  <1> QED
    BY <1>1, <1>2, <1>3, <1>4, <1>5, <1>6, <1>7, PublishRefines, StoreRefines DEF CapNext, Refreshes

-----------------------------------------------------------------------------
LEMMA VersionsKept ==
    ASSUME CapInv, VersionStep
    PROVE  CapInv'
  <1> USE DEF CapInv
  <1>1. CASE PublishStep
    <2> DEFINE version == snap.version + 1
    <2>1. PICK D \in SUBSET (DOMAIN kept \cup {version}) :
            version \in D /\ kept' = [v \in D |-> IF v = version THEN snap'.source ELSE kept[v]]
      BY <1>1 DEF PublishStep
    <2>2. DOMAIN kept' = D /\ kept'[version] = snap'.source /\ snap'.version = version
      BY <1>1, <2>1 DEF PublishStep
    <2>3. KeptEndsWithActive'
      BY <2>1, <2>2 DEF KeptEndsWithActive
    <2>4. IndexBehind' /\ SameVersionSameSource'
      BY <1>1, <2>2 DEF PublishStep, IndexBehind, SameVersionSameSource, KeptEndsWithActive
    <2> QED
      BY <2>3, <2>4
  <1>2. CASE StoreStep
    <2>1. KeptEndsWithActive'
      BY <1>2 DEF StoreStep, KeptEndsWithActive
    <2>2. PICK n \in Nodes, entry \in {NoEntry} \cup {Indexed(v, kept[v]) : v \in DOMAIN kept} :
            index' = [index EXCEPT ![n] = entry]
      BY <1>2 DEF StoreStep
    <2>3. /\ entry.version \in 0..snap.version
          /\ entry.version = snap.version => entry.source = snap.source
      <3>1. CASE entry = NoEntry
        BY <3>1 DEF NoEntry, KeptEndsWithActive
      <3>2. CASE entry \in {Indexed(v, kept[v]) : v \in DOMAIN kept}
        <4>1. PICK v \in DOMAIN kept : entry = Indexed(v, kept[v])
          BY <3>2
        <4>2. entry.version = v /\ entry.source = kept[v]
          BY <4>1 DEF Indexed
        <4> QED
          BY <4>2 DEF KeptEndsWithActive
      <3> QED
        BY <3>1, <3>2
    <2>4. IndexBehind' /\ SameVersionSameSource'
      BY <1>2, <2>2, <2>3 DEF StoreStep, IndexBehind, SameVersionSameSource
    <2> QED
      BY <2>1, <2>4
  <1>3. CASE QuietStep
    BY <1>3 DEF QuietStep, KeptEndsWithActive, IndexBehind, SameVersionSameSource
  <1> QED
    BY <1>1, <1>2, <1>3 DEF VersionStep

LEMMA CapInitial == CapInit => CapInv
  <1> SUFFICES ASSUME CapInit PROVE CapInv
    OBVIOUS
  <1>1. CASE source = NoSource
    <2>1. snap.version = 0 /\ snap.source = NoSource
      BY <1>1 DEF CapInit, NoSnapshot
    <2> QED
      BY <1>1, <2>1 DEF CapInit, CapInv, KeptEndsWithActive, IndexBehind, SameVersionSameSource, Indexed
  <1>2. CASE source # NoSource
    <2>1. snap.version = 1 /\ snap.source = source
      BY <1>2 DEF CapInit
    <2> QED
      BY <2>1 DEF CapInit, CapInv, KeptEndsWithActive, IndexBehind, SameVersionSameSource, Indexed
  <1> QED
    BY <1>1, <1>2

LEMMA CapInvHolds == CapSpec => []CapInv
  <1>1. CapInv /\ [CapNext]_capVars => CapInv'
    BY NextIsVersionStep, VersionsKept DEF CapInv
  <1> QED
    BY <1>1, CapInitial, PTL DEF CapSpec

(* Whichever nodes race to publish, restart or fail, an index entry that   *)
(* carries the active version was built from the rows of that version:     *)
(* a version is published once and its rows are never rewritten.           *)
THEOREM IndexMatchesVersion == CapSpec => []SameVersionSameSource
  BY CapInvHolds, PTL DEF CapInv

(* The active version never goes back, and the rows kept for a version are *)
(* never replaced by those of another source: a node that read the version *)
(* and then its rows, in two statements, has the rows of that version or   *)
(* none.                                                                   *)
RowsNeverRewritten ==
  [][/\ snap'.version >= snap.version
     /\ \A v \in DOMAIN kept \cap DOMAIN kept' : kept'[v] = kept[v]]_capVars

(* The transaction that publishes a snapshot only ever adds the rows of    *)
(* the next version and removes old ones.                                  *)
THEOREM VersionsAreImmutable == CapSpec => RowsNeverRewritten
  <1>1. ASSUME CapInv, VersionStep
        PROVE  /\ snap'.version >= snap.version
               /\ \A v \in DOMAIN kept \cap DOMAIN kept' : kept'[v] = kept[v]
    <2>0. snap.version \in Nat /\ snap.version + 1 \notin DOMAIN kept
      BY <1>1 DEF CapInv, KeptEndsWithActive
    <2>1. CASE PublishStep
      BY <2>0, <2>1 DEF PublishStep
    <2>2. CASE StoreStep \/ QuietStep
      BY <2>0, <2>2 DEF StoreStep, QuietStep
    <2> QED
      BY <1>1, <2>1, <2>2 DEF VersionStep
  <1>2. CapInv /\ [CapNext]_capVars =>
          [/\ snap'.version >= snap.version
           /\ \A v \in DOMAIN kept \cap DOMAIN kept' : kept'[v] = kept[v]]_capVars
    BY <1>1, NextIsVersionStep DEF CapInv
  <1> QED
    BY <1>2, CapInvHolds, PTL DEF CapSpec, RowsNeverRewritten

-----------------------------------------------------------------------------
(* The goroutines of a stream. *)

Reasons == {"", "done", "eof", "handler_stop", "scanner_error", "panic", "ping_fail", "timeout", "client_gone"}

ScanTypes ==
  /\ wire \in Seq({"data", "[DONE]"}) /\ handled \in Seq(Int)
  /\ queue \in [lines : Seq(Int), closed : BOOLEAN]
  /\ scanning \in {"scan", "send", "leave", "panic", "gone"}
  /\ handling \in {"wait", "lock", "call", "leave", "gone"}
  /\ pinging \in {"idle", "lock", "write", "gone"}
  /\ writer \in {"nobody", "handler", "ping"}
  /\ main \in {"select", "cancel", "close", "waiting", "returned"}
  /\ quit \in {"no", "stop", "done", "panic"}
  /\ status \in [reason : Reasons, errors : BOOLEAN, valid : BOOLEAN]

\* Who writes holds the mutex, and the caller outlives the goroutines.
Goroutines ==
  /\ writer = "handler" => handling = "call"
  /\ writer = "ping" => pinging = "write"
  /\ main = "returned" => AllGone

\* While the scanner still reads, whatever stops the stream gave a reason or is
\* the adaptor, and a normal reason is the adaptor's.
Endings ==
  /\ stopped \/ ~ctx \/ main # "select" =>
       status.reason # "" \/ quit # "no" \/ scanning \notin {"scan", "send"}
  /\ scanning \in {"scan", "send", "panic"} => ~IsNormalEnd(status) \/ quit # "no"
  /\ quit = "stop" => status.errors

\* The channel is closed by the scanner on its way out; the data goroutine
\* leaves when it is drained, or the adaptor made it leave.
Draining ==
  /\ queue.closed => scanning \in {"leave", "panic", "gone"}
  /\ handling \in {"leave", "gone"} => quit # "no" \/ (queue.closed /\ queue.lines = << >>)

\* Nobody will take the end of this stream for a good one.
Excused == quit # "no" \/ status.reason \notin {"", "done", "eof", "handler_stop"} \/ scanning = "panic"

\* Every data line was handed over, is in the channel, or is in the scanner's
\* hand, in this order.
Accounted ==
  LET lines == queue.lines
      given == {handled[k] : k \in DOMAIN handled} \cup {lines[k] : k \in DOMAIN lines}
      inHand == IF scanning = "send" THEN {Len(wire)} ELSE {}
  IN /\ given \cup inHand = {i \in DOMAIN wire : wire[i] = "data"}
     /\ given \cap inHand = {}
     /\ \A k, l \in DOMAIN handled : k < l => handled[k] < handled[l]
     /\ \A k, l \in DOMAIN lines : k < l => lines[k] < lines[l]
     /\ \A k \in DOMAIN handled, l \in DOMAIN lines : handled[k] < lines[l]

ScanInv == ScanTypes /\ Goroutines /\ Endings /\ Draining /\ (Excused \/ Accounted)

-----------------------------------------------------------------------------
LEMMA EndReasonSet ==
    ASSUME NEW s \in [reason : Reasons, errors : BOOLEAN, valid : BOOLEAN], NEW reason \in Reasons
    PROVE  /\ SetEndReason(s, reason) \in [reason : Reasons, errors : BOOLEAN, valid : BOOLEAN]
           /\ SetEndReason(s, reason).reason = IF s.reason = "" THEN reason ELSE s.reason
           /\ SetEndReason(s, reason).errors = s.errors
           /\ SetEndReason(s, reason).valid = s.valid
  BY DEF SetEndReason

LEMMA ScanInitial == ScanInit => ScanInv
  <1> SUFFICES ASSUME ScanInit PROVE ScanInv
    OBVIOUS
  <1>0. << >> \in Seq({"data", "[DONE]"}) /\ << >> \in Seq(Int) /\ DOMAIN << >> = {}
    OBVIOUS
  <1>1. ScanTypes
    <2>1. queue \in [lines : Seq(Int), closed : BOOLEAN]
      BY <1>0 DEF ScanInit
    <2>2. status \in [reason : Reasons, errors : BOOLEAN, valid : BOOLEAN]
      BY DEF ScanInit, Reasons
    <2> QED
      BY <1>0, <2>1, <2>2 DEF ScanInit, ScanTypes
  <1>2. Goroutines /\ Endings /\ Draining
    BY DEF ScanInit, Goroutines, Endings, Draining, IsNormalEnd
  <1>3. Accounted
    <2>1. queue.lines = << >> /\ handled = << >> /\ wire = << >> /\ scanning = "scan"
      BY DEF ScanInit
    <2> QED
      BY <1>0, <2>1 DEF Accounted
  <1> QED
    BY <1>1, <1>2, <1>3 DEF ScanInv

\* A step that touches neither the lines nor what the scanner holds keeps the
\* account.
LEMMA LinesUntouched ==
    ASSUME Accounted, UNCHANGED <<wire, handled>>, queue'.lines = queue.lines,
           scanning' = "send" <=> scanning = "send"
    PROVE  Accounted'
  BY DEF Accounted

-----------------------------------------------------------------------------
(* The scanner. *)

LEMMA ScanStep ==
    ASSUME ScanInv, NEW line \in {"data", "noise", "[DONE]"}, Scan(line)
    PROVE  ScanInv'
  <1> USE DEF ScanInv
  <1> DEFINE halted == stopped \/ ~ctx
  <1>1. scanning = "scan" /\ UNCHANGED <<queue, stopped>> /\ ScannerStep
    BY DEF Scan
  <1>2. halted => status.reason # "" \/ quit # "no"
    BY <1>1 DEF Endings
  <1>3. status' = IF ~halted /\ line = "[DONE]" THEN SetEndReason(status, "done") ELSE status
    BY DEF Scan
  <1>4. /\ status' \in [reason : Reasons, errors : BOOLEAN, valid : BOOLEAN]
        /\ status'.errors = status.errors
        /\ status.reason # "" => status'.reason = status.reason
        /\ status'.reason # status.reason => status'.reason = "done" /\ line = "[DONE]" /\ ~halted
    BY <1>3, EndReasonSet, ZenonT(60) DEF ScanTypes, Reasons
  <1>5. ScanTypes'
    <2>1. wire' \in Seq({"data", "[DONE]"})
      BY DEF ScanTypes, Scan
    <2>2. scanning' \in {"scan", "send", "leave", "panic", "gone"}
      BY DEF Scan
    <2> QED
      BY <1>1, <1>4, <2>1, <2>2, ZenonT(60) DEF ScanTypes, ScannerStep
  <1>6. Goroutines'
    BY <1>1 DEF Goroutines, AllGone, ScannerStep
  <1>7. Endings'
    <2>1. status'.reason # status.reason => scanning' = "leave"
      BY <1>4 DEF Scan
    <2>2. scanning' # "panic"
      BY DEF Scan
    <2>3. UNCHANGED <<stopped, ctx, main, quit>>
      BY <1>1 DEF ScannerStep
    <2>4. (stopped \/ ~ctx \/ main # "select") => status'.reason # "" \/ quit # "no"
      BY <1>1, <1>4 DEF Endings
    <2>5. scanning' \in {"scan", "send"} => ~IsNormalEnd(status') \/ quit # "no"
      BY <1>1, <2>1 DEF Endings, IsNormalEnd
    <2> QED
      BY <1>4, <2>2, <2>3, <2>4, <2>5 DEF Endings, IsNormalEnd
  <1>8. Draining'
    BY <1>1 DEF Draining, ScannerStep
  <1>9. Excused' \/ Accounted'
    <2>1. CASE Excused
      BY <1>1, <1>4, <2>1 DEF Excused, ScannerStep, ScanTypes, Endings, IsNormalEnd, Reasons
    <2>2. CASE ~Excused /\ line = "noise" /\ ~halted
      <3>1. Accounted'
        BY <1>1, <2>2, LinesUntouched DEF Scan, ScannerStep
      <3> QED
        BY <3>1
    <2>3. CASE ~Excused /\ line = "noise" /\ halted
      <3>1. Accounted'
        BY <1>1, <2>3, LinesUntouched DEF Scan, ScannerStep
      <3> QED
        BY <3>1
    <2>4. CASE ~Excused /\ line = "[DONE]"
      <3>1. wire' = Append(wire, "[DONE]") /\ scanning' = "leave" /\ UNCHANGED <<handled, queue>>
        BY <1>1, <2>4 DEF Scan, ScannerStep
      <3>2. {i \in DOMAIN wire' : wire'[i] = "data"} = {i \in DOMAIN wire : wire[i] = "data"}
        BY <3>1 DEF ScanTypes
      <3>3. Accounted'
        BY <1>1, <2>4, <3>1, <3>2 DEF Accounted
      <3> QED
        BY <3>3
    <2>5. CASE ~Excused /\ line = "data" /\ ~halted
      <3>1. wire' = Append(wire, "data") /\ scanning' = "send" /\ UNCHANGED <<handled, queue>>
        BY <1>1, <2>5 DEF Scan, ScannerStep
      <3>2. /\ {i \in DOMAIN wire' : wire'[i] = "data"} = {i \in DOMAIN wire : wire[i] = "data"} \cup {Len(wire')}
            /\ Len(wire') \notin DOMAIN wire
        BY <3>1 DEF ScanTypes
      <3>3. Accounted'
        BY <1>1, <2>5, <3>1, <3>2 DEF Accounted
      <3> QED
        BY <3>3
    <2>6. CASE ~Excused /\ line = "data" /\ halted
      <3>1. Excused
        BY <1>1, <1>2, <2>6 DEF Excused, Endings, IsNormalEnd
      <3> QED
        BY <2>6, <3>1
    <2> QED
      BY <2>1, <2>2, <2>3, <2>4, <2>5, <2>6
  <1> QED
    BY <1>5, <1>6, <1>7, <1>8, <1>9

LEMMA SendStep ==
    ASSUME ScanInv, SendData
    PROVE  ScanInv'
  <1> USE DEF ScanInv
  <1> DEFINE n == Len(wire)
  <1>1. /\ scanning = "send" /\ scanning' = "scan"
        /\ queue' = [queue EXCEPT !.lines = Append(@, n)]
        /\ UNCHANGED <<wire, stopped, status>> /\ ScannerStep
    BY DEF SendData
  <1>2. n \in Nat /\ queue.lines \in Seq(Int) /\ queue.closed = FALSE
    BY <1>1 DEF ScanTypes, Draining
  <1>3. queue'.lines = Append(queue.lines, n) /\ queue'.closed = FALSE
    BY <1>1, <1>2 DEF ScanTypes
  <1>4. ScanTypes'
    <2>1. queue' \in [lines : Seq(Int), closed : BOOLEAN]
      <3>1. Append(queue.lines, n) \in Seq(Int)
        BY <1>2
      <3> QED
        BY <1>1, <3>1 DEF ScanTypes
    <2> QED
      BY <1>1, <2>1 DEF ScanTypes, ScannerStep
  <1>5. Goroutines' /\ Endings' /\ Draining'
    BY <1>1, <1>2, <1>3 DEF Goroutines, AllGone, Endings, Draining, ScannerStep, IsNormalEnd
  <1>6. ASSUME Accounted PROVE Accounted'
    <2> DEFINE lines == queue.lines
               given == {handled[k] : k \in DOMAIN handled} \cup {lines[k] : k \in DOMAIN lines}
               data == {i \in DOMAIN wire : wire[i] = "data"}
    <2>1. /\ given \cup {n} = data /\ n \notin given
          /\ \A k, l \in DOMAIN handled : k < l => handled[k] < handled[l]
          /\ \A k, l \in DOMAIN lines : k < l => lines[k] < lines[l]
          /\ \A k \in DOMAIN handled, l \in DOMAIN lines : handled[k] < lines[l]
      BY <1>1, <1>6 DEF Accounted
    <2>2. \A i \in given : i \in Int /\ i < n
      <3>1. data \subseteq 1..n
        BY DEF ScanTypes
      <3> HIDE DEF data, given, n
      <3>2. given \subseteq data /\ n \notin given
        BY <2>1, Zenon
      <3> QED
        BY <1>2, <3>1, <3>2
    <2>3. /\ queue'.lines \in Seq(Int) /\ DOMAIN queue'.lines = DOMAIN lines \cup {Len(lines) + 1}
          /\ queue'.lines[Len(lines) + 1] = n
          /\ \A k \in DOMAIN lines : queue'.lines[k] = lines[k] /\ k < Len(lines) + 1 /\ k \in Int
          /\ Len(lines) + 1 \in Int
      BY <1>2, <1>3, SMTT(30)
    <2>4. {queue'.lines[k] : k \in DOMAIN queue'.lines} = {lines[k] : k \in DOMAIN lines} \cup {n}
      BY <2>3
    <2>5. \A k, l \in DOMAIN queue'.lines : k < l => queue'.lines[k] < queue'.lines[l]
      <3>1. \A k \in DOMAIN lines : lines[k] < n
        BY <2>2
      <3> QED
        BY <2>1, <2>3, <3>1
    <2>6. \A k \in DOMAIN handled, l \in DOMAIN queue'.lines : handled[k] < queue'.lines[l]
      <3>1. \A k \in DOMAIN handled : handled[k] < n
        BY <2>2
      <3> QED
        BY <2>1, <2>3, <3>1
    <2>7. UNCHANGED <<wire, handled>>
      BY <1>1 DEF ScannerStep
    <2>8. {handled'[k] : k \in DOMAIN handled'} \cup {queue'.lines[k] : k \in DOMAIN queue'.lines}
            = {i \in DOMAIN wire' : wire'[i] = "data"}
      <3>1. {handled'[k] : k \in DOMAIN handled'} = {handled[k] : k \in DOMAIN handled}
        BY <2>7
      <3>2. {i \in DOMAIN wire' : wire'[i] = "data"} = data
        BY <2>7
      <3> QED
        BY <2>1, <2>4, <3>1, <3>2
    <2>9. \A k, l \in DOMAIN handled' : k < l => handled'[k] < handled'[l]
      BY <2>1, <2>7
    <2>10. \A k \in DOMAIN handled', l \in DOMAIN queue'.lines : handled'[k] < queue'.lines[l]
      BY <2>6, <2>7
    <2> QED
      BY ONLY <1>1, <2>5, <2>8, <2>9, <2>10 DEF Accounted
  <1>7. Excused => Excused'
    BY <1>1 DEF Excused, ScannerStep
  <1> QED
    BY <1>4, <1>5, <1>6, <1>7

\* The other steps of the scanner end it; a line in its hand is given up only
\* in a stream that is excused.
LEMMA ScannerEnds ==
    ASSUME ScanInv,
           \/ \E error \in BOOLEAN : ScanEnds(error)
           \/ SendGivesUp \/ ScannerPanics \/ CloseData \/ ScannerLeaves
    PROVE  ScanInv'
  <1> USE DEF ScanInv
  <1>1. ScannerStep /\ UNCHANGED wire
    BY DEF ScanEnds, SendGivesUp, ScannerPanics, CloseData, ScannerLeaves
  <1>2. CASE \E error \in BOOLEAN : ScanEnds(error)
    <2>1. PICK reason \in {"scanner_error", "eof"} :
            /\ scanning = "scan" /\ scanning' = "leave"
            /\ status' = SetEndReason(status, reason) /\ UNCHANGED <<wire, queue, stopped>>
      BY <1>2 DEF ScanEnds
    <2>2. /\ status' \in [reason : Reasons, errors : BOOLEAN, valid : BOOLEAN]
          /\ status'.errors = status.errors
          /\ status'.reason = IF status.reason = "" THEN reason ELSE status.reason
      <3>1. reason \in Reasons
        BY DEF Reasons
      <3> QED
        BY <2>1, <3>1, EndReasonSet DEF ScanTypes
    <2>3. ScanTypes'
      BY <1>1, <2>1, <2>2, ZenonT(60) DEF ScanTypes, ScannerStep
    <2>4. Goroutines' /\ Endings' /\ Draining'
      BY <1>1, <2>1, <2>2 DEF Goroutines, AllGone, Endings, Draining, ScannerStep
    <2>5. Excused => Excused'
      BY <1>1, <2>1, <2>2 DEF Excused, ScannerStep
    <2>6. Accounted => Accounted'
      BY <1>1, <2>1, LinesUntouched DEF ScannerStep
    <2> QED
      BY <2>3, <2>4, <2>5, <2>6
  <1>3. CASE SendGivesUp
    <2>1. Excused'
      BY <1>1, <1>3 DEF SendGivesUp, Excused, Endings, IsNormalEnd, ScannerStep
    <2>2. ScanTypes'
      BY <1>1, <1>3, SMTT(30) DEF SendGivesUp, ScanTypes, ScannerStep
    <2>3. Goroutines' /\ Draining'
      BY <1>1, <1>3 DEF SendGivesUp, Goroutines, AllGone, Draining, ScannerStep
    <2>4. Endings'
      BY <1>1, <1>3 DEF SendGivesUp, Endings, ScannerStep, IsNormalEnd
    <2> QED
      BY <2>1, <2>2, <2>3, <2>4
  <1>4. CASE ScannerPanics
    <2>1. Excused'
      BY <1>4 DEF ScannerPanics, Excused
    <2>2. ScanTypes'
      BY <1>1, <1>4, SMTT(30) DEF ScannerPanics, ScanTypes, ScannerStep
    <2>3. Goroutines' /\ Draining'
      BY <1>1, <1>4 DEF ScannerPanics, Goroutines, AllGone, Draining, ScannerStep
    <2>4. Endings'
      BY <1>1, <1>4 DEF ScannerPanics, Endings, ScannerStep, IsNormalEnd
    <2> QED
      BY <2>1, <2>2, <2>3, <2>4
  <1>5. CASE CloseData
    <2>1. queue'.lines = queue.lines /\ queue' \in [lines : Seq(Int), closed : BOOLEAN] /\ queue'.closed
      BY <1>5 DEF CloseData, ScanTypes
    <2>2. scanning \in {"leave", "panic"} /\ UNCHANGED <<scanning, stopped, status>>
      BY <1>5 DEF CloseData
    <2>3. ScanTypes' /\ Goroutines' /\ Draining'
      BY <1>1, <2>1, <2>2 DEF ScanTypes, Goroutines, AllGone, Draining, ScannerStep
    <2>4. Endings' /\ (Excused => Excused')
      BY <1>1, <2>2 DEF Excused, ScannerStep, Endings, IsNormalEnd
    <2>5. Accounted => Accounted'
      BY <1>1, <2>1, <2>2, LinesUntouched DEF ScannerStep
    <2> QED
      BY <2>3, <2>4, <2>5
  <1>6. CASE ScannerLeaves
    <2>1. /\ scanning \in {"leave", "panic"} /\ scanning' = "gone" /\ stopped' = TRUE /\ UNCHANGED queue
          /\ status' = IF scanning = "panic" THEN SetEndReason(status, "panic") ELSE status
      BY <1>6 DEF ScannerLeaves
    <2>2. /\ status' \in [reason : Reasons, errors : BOOLEAN, valid : BOOLEAN]
          /\ status'.errors = status.errors
          /\ status'.reason = IF scanning = "panic" /\ status.reason = "" THEN "panic" ELSE status.reason
      BY <2>1, EndReasonSet, ZenonT(60) DEF ScanTypes, Reasons
    <2>3. ScanTypes'
      BY <1>1, <2>1, <2>2, ZenonT(60) DEF ScanTypes, ScannerStep
    <2>4. Goroutines' /\ Endings' /\ Draining'
      BY <1>1, <2>1, <2>2 DEF Goroutines, AllGone, Endings, Draining, ScannerStep
    <2>5. Excused => Excused'
      BY <1>1, <2>1, <2>2 DEF Excused, ScannerStep, Endings, IsNormalEnd
    <2>6. Accounted => Accounted'
      BY <1>1, <2>1, LinesUntouched DEF ScannerStep
    <2> QED
      BY <2>3, <2>4, <2>5, <2>6
  <1> QED
    BY <1>2, <1>3, <1>4, <1>5, <1>6

-----------------------------------------------------------------------------
(* The data goroutine. *)

LEMMA TakeStep ==
    ASSUME ScanInv, TakeData
    PROVE  ScanInv'
  <1> USE DEF ScanInv
  <1> DEFINE lines == queue.lines
             m == Len(handled)
  <1>1. /\ handling = "wait" /\ handling' = "lock" /\ lines # << >>
        /\ handled' = Append(handled, Head(lines))
        /\ queue' = [queue EXCEPT !.lines = Tail(@)]
        /\ UNCHANGED <<quit, writer, stopped, status>> /\ HandlerStep
    BY DEF TakeData
  <1>2. lines \in Seq(Int) /\ Len(lines) \in Nat \ {0} /\ handled \in Seq(Int) /\ m \in Nat
    BY <1>1 DEF ScanTypes
  <1>3. /\ Tail(lines) \in Seq(Int) /\ Len(Tail(lines)) = Len(lines) - 1
        /\ Head(lines) = lines[1] /\ lines[1] \in Int
        /\ \A i \in 1..(Len(lines) - 1) : Tail(lines)[i] = lines[i + 1]
    BY <1>1, <1>2
  <1>4. queue'.lines = Tail(lines) /\ queue'.closed = queue.closed
    BY <1>1 DEF ScanTypes
  <1>5. ScanTypes'
    <2>1. queue' \in [lines : Seq(Int), closed : BOOLEAN]
      BY <1>1, <1>3 DEF ScanTypes
    <2>2. handled' \in Seq(Int)
      BY <1>1, <1>2, <1>3
    <2> QED
      BY <1>1, <2>1, <2>2 DEF ScanTypes, HandlerStep
  <1>6. Goroutines' /\ Draining'
    BY <1>1, <1>4 DEF Goroutines, AllGone, Draining, HandlerStep
  <1>7. Endings' /\ (Excused => Excused')
    BY <1>1 DEF Endings, Excused, HandlerStep, IsNormalEnd
  <1>8. ASSUME Accounted PROVE Accounted'
    <2>1. /\ \A k, l \in DOMAIN handled : k < l => handled[k] < handled[l]
          /\ \A k, l \in DOMAIN lines : k < l => lines[k] < lines[l]
          /\ \A k \in DOMAIN handled, l \in DOMAIN lines : handled[k] < lines[l]
      BY <1>8 DEF Accounted
    <2>2. /\ DOMAIN handled = 1..m /\ DOMAIN handled' = 1..(m + 1)
          /\ handled'[m + 1] = lines[1] /\ \A k \in 1..m : handled'[k] = handled[k]
      BY <1>1, <1>2, <1>3
    <2>3. /\ DOMAIN lines = 1..Len(lines) /\ DOMAIN queue'.lines = 1..(Len(lines) - 1)
          /\ \A k \in 1..(Len(lines) - 1) : queue'.lines[k] = lines[k + 1]
      BY <1>2, <1>3, <1>4
    <2>4. {handled'[k] : k \in DOMAIN handled'} = {handled[k] : k \in DOMAIN handled} \cup {lines[1]}
      <3>1. 1..(m + 1) = (1..m) \cup {m + 1}
        BY <1>2
      <3> QED
        BY <2>2, <3>1
    <2>5. {lines[k] : k \in DOMAIN lines} = {queue'.lines[k] : k \in DOMAIN queue'.lines} \cup {lines[1]}
      <3>1. ASSUME NEW k \in DOMAIN lines
            PROVE  lines[k] \in {queue'.lines[j] : j \in DOMAIN queue'.lines} \cup {lines[1]}
        <4>1. CASE k = 1
          BY <4>1
        <4>2. CASE k # 1
          <5>1. k - 1 \in DOMAIN queue'.lines /\ queue'.lines[k - 1] = lines[k]
            BY <1>2, <2>3, <4>2, SMTT(30)
          <5> QED
            BY <5>1
        <4> QED
          BY <4>1, <4>2
      <3>2. ASSUME NEW k \in DOMAIN queue'.lines
            PROVE  queue'.lines[k] \in {lines[j] : j \in DOMAIN lines}
        <4>1. k + 1 \in DOMAIN lines /\ queue'.lines[k] = lines[k + 1]
          BY <1>2, <2>3, SMTT(30)
        <4> QED
          BY <4>1
      <3>3. 1 \in DOMAIN lines
        BY <1>2, <2>3
      <3> QED
        BY <3>1, <3>2, <3>3
    <2>6. \A k, l \in DOMAIN handled' : k < l => handled'[k] < handled'[l]
      <3>1. 1 \in DOMAIN lines
        BY <1>2, <2>3
      <3>2. \A k \in 1..m : handled[k] < lines[1]
        BY <2>1, <2>2, <3>1
      <3> QED
        BY <1>2, <2>1, <2>2, <3>2, SMTT(30)
    <2>7. \A k, l \in DOMAIN queue'.lines : k < l => queue'.lines[k] < queue'.lines[l]
      <3> TAKE k, l \in DOMAIN queue'.lines
      <3> HAVE k < l
      <3>0. k \in 1..(Len(lines) - 1) /\ l \in 1..(Len(lines) - 1)
        BY <2>3
      <3>1. k + 1 \in DOMAIN lines /\ l + 1 \in DOMAIN lines /\ k + 1 < l + 1
        BY <1>2, <2>3, <3>0, SMTT(30)
      <3> QED
        BY <2>1, <2>3, <3>0, <3>1
    <2>8. \A k \in DOMAIN handled', l \in DOMAIN queue'.lines : handled'[k] < queue'.lines[l]
      <3> TAKE k \in DOMAIN handled', l \in DOMAIN queue'.lines
      <3>0. l \in 1..(Len(lines) - 1)
        BY <2>3
      <3>1. 1 \in DOMAIN lines /\ l + 1 \in DOMAIN lines /\ 1 < l + 1 /\ queue'.lines[l] = lines[l + 1]
        <4>1. 1 \in 1..Len(lines) /\ l + 1 \in 1..Len(lines) /\ 1 < l + 1
          BY <1>2, <3>0
        <4> QED
          BY <2>3, <3>0, <4>1
      <3>2. CASE k = m + 1
        BY <2>1, <2>2, <3>1, <3>2
      <3>3. CASE k \in 1..m
        BY <2>1, <2>2, <3>1, <3>3
      <3> QED
        BY <1>2, <2>2, <3>2, <3>3
    <2>9. {handled'[k] : k \in DOMAIN handled'} \cup {queue'.lines[k] : k \in DOMAIN queue'.lines}
            = {handled[k] : k \in DOMAIN handled} \cup {lines[k] : k \in DOMAIN lines}
      BY <2>4, <2>5
    <2>10. UNCHANGED <<wire, scanning>>
      BY <1>1 DEF HandlerStep
    <2> QED
      BY <1>8, <2>6, <2>7, <2>8, <2>9, <2>10 DEF Accounted
  <1> QED
    BY <1>5, <1>6, <1>7, <1>8

LEMMA HandlerSteps ==
    ASSUME ScanInv,
           \/ LockForData \/ Drained \/ HandlerLeaves
           \/ \E outcome \in Outcomes : dataHandler(outcome)
    PROVE  ScanInv'
  <1> USE DEF ScanInv
  <1>1. HandlerStep /\ UNCHANGED <<queue, handled>>
    BY DEF LockForData, Drained, HandlerLeaves, dataHandler
  <1>2. Accounted => Accounted'
    BY <1>1, LinesUntouched DEF HandlerStep
  <1>3. CASE LockForData
    <2>1. ScanTypes' /\ Goroutines' /\ Draining'
      BY <1>1, <1>3 DEF LockForData, ScanTypes, Goroutines, AllGone, Draining, HandlerStep
    <2>2. UNCHANGED <<scanning, stopped, ctx, main, status, quit>>
      BY <1>1, <1>3 DEF LockForData, HandlerStep
    <2>3. Endings' /\ (Excused => Excused')
      BY <2>2 DEF Endings, Excused, IsNormalEnd
    <2> QED
      BY <1>2, <2>1, <2>3
  <1>4. CASE Drained
    <2>1. ScanTypes' /\ Goroutines' /\ Draining'
      BY <1>1, <1>4 DEF Drained, ScanTypes, Goroutines, AllGone, Draining, HandlerStep
    <2>2. UNCHANGED <<scanning, stopped, ctx, main, status, quit>>
      BY <1>1, <1>4 DEF Drained, HandlerStep
    <2>3. Endings' /\ (Excused => Excused')
      BY <2>2 DEF Endings, Excused, IsNormalEnd
    <2> QED
      BY <1>2, <2>1, <2>3
  <1>5. CASE HandlerLeaves
    <2>1. ScanTypes' /\ Goroutines' /\ Draining'
      BY <1>1, <1>5 DEF HandlerLeaves, ScanTypes, Goroutines, AllGone, Draining, HandlerStep
    <2>2. Endings' /\ (Excused => Excused')
      BY <1>1, <1>5 DEF HandlerLeaves, Endings, Draining, Excused, HandlerStep, IsNormalEnd
    <2> QED
      BY <1>2, <2>1, <2>2
  <1>6. ASSUME NEW outcome \in Outcomes, dataHandler(outcome)
        PROVE  ScanInv'
    <2>1. /\ handling = "call" /\ writer' = "nobody" /\ UNCHANGED stopped
          /\ handling' = IF outcome \in Continuing THEN "wait" ELSE "leave"
          /\ quit' = IF outcome \in Continuing THEN quit ELSE outcome
      BY <1>6 DEF dataHandler
    <2>2. /\ status' \in [reason : Reasons, errors : BOOLEAN, valid : BOOLEAN]
          /\ status.errors => status'.errors
          /\ status.reason # "" => status'.reason = status.reason
          /\ outcome \in Continuing => status'.reason = status.reason
          /\ outcome = "stop" => status'.errors
      <3>1. /\ SetEndReason(status, "handler_stop") \in [reason : Reasons, errors : BOOLEAN, valid : BOOLEAN]
            /\ SetEndReason(status, "done") \in [reason : Reasons, errors : BOOLEAN, valid : BOOLEAN]
            /\ SetEndReason(status, "panic") \in [reason : Reasons, errors : BOOLEAN, valid : BOOLEAN]
            /\ \A r \in {"handler_stop", "done", "panic"} :
                 /\ SetEndReason(status, r).errors = status.errors
                 /\ status.reason # "" => SetEndReason(status, r).reason = status.reason
        <4>1. {"handler_stop", "done", "panic"} \subseteq Reasons
          BY DEF Reasons
        <4> QED
          BY <4>1, EndReasonSet DEF ScanTypes
      <3>2. CASE outcome \in Continuing
        BY <1>6, <3>2 DEF dataHandler, Continuing, ScanTypes
      <3>3. CASE outcome = "stop"
        BY <1>6, <3>1, <3>3 DEF dataHandler, Continuing
      <3>4. CASE outcome = "done"
        BY <1>6, <3>1, <3>4 DEF dataHandler, Continuing
      <3>5. CASE outcome = "panic"
        BY <1>6, <3>1, <3>5 DEF dataHandler, Continuing
      <3> QED
        BY <1>6, <3>2, <3>3, <3>4, <3>5 DEF Outcomes
    <2>3. quit' \in {"no", "stop", "done", "panic"} /\ (outcome \notin Continuing => quit' # "no")
      BY <2>1 DEF Outcomes, ScanTypes
    <2>4. ScanTypes'
      BY <1>1, <2>1, <2>2, <2>3 DEF ScanTypes, HandlerStep
    <2>5. Goroutines' /\ Draining'
      BY <1>1, <2>1, <2>3 DEF ScanTypes, Goroutines, AllGone, Draining, HandlerStep
    <2>6. Endings'
      <3>1. CASE outcome \in Continuing
        BY <1>1, <2>1, <2>2, <3>1 DEF Endings, HandlerStep, IsNormalEnd
      <3>2. CASE outcome \notin Continuing
        BY <1>1, <2>1, <2>2, <2>3, <3>2 DEF Endings, HandlerStep, IsNormalEnd
      <3> QED
        BY <3>1, <3>2
    <2>7. Excused => Excused'
      BY <1>1, <2>1, <2>2, <2>3 DEF Excused, HandlerStep
    <2> QED
      BY <1>2, <2>4, <2>5, <2>6, <2>7
  <1> QED
    BY <1>3, <1>4, <1>5, <1>6

-----------------------------------------------------------------------------
(* Pings, the caller and the client: they never touch the lines, and what  *)
(* they set as the reason is not a normal one.                             *)

LEMMA OtherSteps ==
    ASSUME ScanInv,
           \/ ClientLeaves \/ Elapse \/ PingTick \/ Pings \/ PingPanics \/ PingTimesOut \/ Main
           \/ UNCHANGED scanVars
    PROVE  ScanInv'
  <1> USE DEF ScanInv
  <1>1. UNCHANGED <<wire, scanning, queue, handling, handled, quit>>
    BY DEF ClientLeaves, Elapse, PingTick, Pings, LockForPing, PingLeaves, PingData, PingPanics, PingTimesOut, PingStep,
       Main, SeesStop, SeesClientGone, Timeout, Wakes, Cancel, CloseBody, WaitReturns, MainStep, scanVars
  <1>2. \/ status' = status
        \/ \E reason \in {"ping_fail", "panic", "timeout", "client_gone"} : status' = SetEndReason(status, reason)
    BY DEF ClientLeaves, Elapse, PingTick, Pings, LockForPing, PingLeaves, PingData, PingPanics, PingTimesOut,
       Main, SeesStop, SeesClientGone, Timeout, Wakes, Cancel, CloseBody, WaitReturns, scanVars
  <1>3. /\ status' \in [reason : Reasons, errors : BOOLEAN, valid : BOOLEAN]
        /\ status'.errors = status.errors
        /\ status.reason # "" => status'.reason = status.reason
        /\ IsNormalEnd(status') => IsNormalEnd(status)
    <2>1. CASE status' = status
      BY <2>1 DEF ScanTypes
    <2>2. ASSUME NEW reason \in {"ping_fail", "panic", "timeout", "client_gone"}, status' = SetEndReason(status, reason)
          PROVE  /\ status' \in [reason : Reasons, errors : BOOLEAN, valid : BOOLEAN]
                 /\ status'.errors = status.errors
                 /\ status.reason # "" => status'.reason = status.reason
                 /\ IsNormalEnd(status') => IsNormalEnd(status)
      <3>1. reason \in Reasons
        BY DEF Reasons
      <3> QED
        BY <2>2, <3>1, EndReasonSet DEF ScanTypes, IsNormalEnd
    <2> QED
      BY <1>2, <2>1, <2>2
  <1>4. /\ writer' \in {"nobody", "handler", "ping"} /\ pinging' \in {"idle", "lock", "write", "gone"}
        /\ main' \in {"select", "cancel", "close", "waiting", "returned"}
    BY DEF ScanTypes, ClientLeaves, Elapse, PingTick, Pings, LockForPing, PingLeaves, PingData, PingPanics, PingTimesOut,
       PingStep, Main, SeesStop, SeesClientGone, Timeout, Wakes, Cancel, CloseBody, WaitReturns, MainStep, scanVars
  <1>5. ScanTypes'
    BY <1>1, <1>3, <1>4 DEF ScanTypes
  <1>6. Goroutines'
    BY <1>1 DEF ScanTypes, Goroutines, AllGone, ClientLeaves, Elapse, PingTick, Pings, LockForPing, PingLeaves, PingData,
       PingPanics, PingTimesOut, PingStep, Main, SeesStop, SeesClientGone, Timeout, Wakes, Cancel, CloseBody,
       WaitReturns, MainStep, scanVars
  <1>7. (stopped' \/ ~ctx' \/ main' # "select") =>
           (stopped \/ ~ctx \/ main # "select") \/ status'.reason # ""
    <2>1. CASE PingPanics \/ Timeout \/ SeesClientGone
      <3>1. \E reason \in {"panic", "timeout", "client_gone"} : status' = SetEndReason(status, reason)
        BY <2>1 DEF PingPanics, Timeout, SeesClientGone, Wakes
      <3>2. status'.reason # ""
        <4>1. PICK reason \in {"panic", "timeout", "client_gone"} : status' = SetEndReason(status, reason)
          BY <3>1
        <4>2. reason \in Reasons /\ reason # ""
          BY DEF Reasons
        <4> QED
          BY <4>1, <4>2, EndReasonSet DEF ScanTypes
      <3> QED
        BY <3>2
    <2>2. CASE SeesStop \/ Cancel \/ CloseBody \/ WaitReturns
      BY <2>2 DEF SeesStop, Cancel, CloseBody, WaitReturns
    <2>3. CASE ClientLeaves \/ Elapse \/ PingTick \/ Pings \/ PingTimesOut \/ UNCHANGED scanVars
      <3>1. UNCHANGED <<stopped, ctx, main>>
        BY <2>3 DEF ClientLeaves, Elapse, PingTick, Pings, LockForPing, PingLeaves, PingData, PingTimesOut, PingStep, scanVars
      <3> QED
        BY <3>1
    <2> QED
      BY <2>1, <2>2, <2>3 DEF Main
  <1>8. Endings'
    BY <1>1, <1>3, <1>7 DEF Endings
  <1>9. Draining'
    BY <1>1 DEF Draining
  <1>10. Excused => Excused'
    BY <1>1, <1>3 DEF Excused
  <1>11. Accounted => Accounted'
    BY <1>1, LinesUntouched
  <1> QED
    BY <1>5, <1>6, <1>8, <1>9, <1>10, <1>11

-----------------------------------------------------------------------------
LEMMA ScanInvHolds == ScanSpec => []ScanInv
  <1>1. ScanInv /\ [ScanNext]_scanVars => ScanInv'
    BY ScanStep, SendStep, ScannerEnds, TakeStep, HandlerSteps, OtherSteps
       DEF ScanNext, UpstreamSpeaks, Scanner, DataGoroutine
  <1> QED
    BY <1>1, ScanInitial, PTL DEF ScanSpec

(* A stream of any length through a channel of any capacity: when the      *)
(* caller returns, every goroutine is gone and nobody holds the mutex, and *)
(* an end that counts as good has handed every data line to the adaptor,   *)
(* in order and once, unless the adaptor itself left.                      *)
THEOREM GoodEndsAreComplete == ScanSpec => []GoodEndIsComplete
  <1>1. ASSUME ScanInv, main = "returned"
        PROVE  /\ AllGone /\ writer = "nobody"
               /\ IsNormalEnd(status) /\ ~status.errors => EveryLine(handled) \/ quit \in {"done", "panic"}
    <2> USE <1>1 DEF ScanInv
    <2>1. AllGone /\ writer = "nobody"
      BY DEF Goroutines, AllGone, ScanTypes
    <2>2. ASSUME IsNormalEnd(status), ~status.errors, quit \notin {"done", "panic"}
          PROVE  EveryLine(handled)
      <3>1. quit = "no"
        BY <2>2 DEF ScanTypes, Endings
      <3>2. Accounted /\ queue.lines = << >>
        BY <2>1, <2>2, <3>1 DEF Excused, IsNormalEnd, AllGone, Draining
      <3> QED
        BY <2>1, <3>2 DEF Accounted, EveryLine, AllGone
    <2> QED
      BY <2>1, <2>2
  <1>2. ScanInv => GoodEndIsComplete
    BY <1>1 DEF GoodEndIsComplete
  <1> QED
    BY <1>2, ScanInvHolds, PTL

-----------------------------------------------------------------------------
(* Songs and videos. *)

Statuses == {"none", "", "SUBMITTED", "IN_PROGRESS"} \cup Ended

TaskTypes ==
  /\ taskRow \in [Tasks -> [kind : {"suno", "video", "live", "mj"}, legacy : BOOLEAN, status : Statuses,
                            full : BOOLEAN, quota : Int]]
  /\ paid \in [Tasks -> Int]
  /\ billed \in [Tasks -> [times : Nat, hurt : BOOLEAN]]
  /\ job \in [Tasks -> {"IN_PROGRESS"} \cup Ended]
  /\ work \in [Workers -> [pc : {"idle", "charge", "cas", "reason", "bulk", "save", "refund", "settle", "quota"},
                           task : Tasks \cup {"none"}, from : Statuses, to : Statuses,
                           full : BOOLEAN, quota : Int]]
  /\ \A w \in Workers : work[w].pc # "idle" => work[w].task \in Tasks

At(w, t, pcs) == work[w].pc \in pcs /\ work[w].task = t

Bills(w, t) == At(w, t, {"refund", "settle", "quota"})

\* While a task is not ended its price is the one of its submission, and nobody
\* bills it.
BeforeEnd(t) ==
  taskRow[t].status \notin Ended =>
    /\ billed[t].times = 0 /\ \A w \in Workers : ~Bills(w, t)
    /\ taskRow[t].quota = IF taskRow[t].status = "none" THEN 0 ELSE Pre

\* A task that the sweep writes off, and what a goroutine that goes to update a
\* task writes as its price: nothing when it writes the task off.
Overdue(t) == taskRow[t].legacy /\ timeout /\ t \in late
Priced(w, t) == work[w].quota = Pre \/ (work[w].quota = 0 /\ work[w].to = "FAILURE" /\ Overdue(t))

\* What a goroutine at work on a song or a video knows of it.  The compared
\* status is never one of an ended task.
Working(t) ==
  \A w \in Workers :
    /\ ~At(w, t, {"charge", "reason", "save"})
    /\ At(w, t, {"cas", "bulk"}) => taskRow[t].status # "none"
    /\ At(w, t, {"cas"}) => work[w].from \notin Ended \cup {"none"} /\ work[w].to # "none" /\ Priced(w, t)
    /\ At(w, t, {"refund", "settle"}) =>
         /\ billed[t].times = 0 /\ work[w].quota = Pre /\ taskRow[t].quota = Pre
         /\ ~billed[t].hurt => paid[t] = Pre
    /\ At(w, t, {"quota"}) =>
         /\ billed[t].times = 1
         /\ ~billed[t].hurt => paid[t] = work[w].quota

\* One goroutine bills a task, and when none does the books agree.
Billing(t) ==
  /\ \A v, w \in Workers : Bills(v, t) /\ Bills(w, t) => v = w
  /\ billed[t].times <= 1
  /\ (\A w \in Workers : ~Bills(w, t)) /\ ~billed[t].hurt => paid[t] = taskRow[t].quota \/ WrittenOff(t)

Books(t) == BeforeEnd(t) /\ Working(t) /\ Billing(t)

BillInv == TaskTypes /\ \A t \in Tasks : Polled(t) => Books(t)

-----------------------------------------------------------------------------
Row == [kind : {"suno", "video", "live", "mj"}, legacy : BOOLEAN, status : Statuses, full : BOOLEAN, quota : Int]

Job == [pc : {"idle", "charge", "cas", "reason", "bulk", "save", "refund", "settle", "quota"},
        task : Tasks \cup {"none"}, from : Statuses, to : Statuses, full : BOOLEAN, quota : Int]

Busy(w, t) == work[w].pc # "idle" /\ work[w].task = t

\* Tasks grow old and the setting stays.
Aging == timeout' = timeout /\ late \subseteq late'

\* A step that leaves a task alone, and everybody who works on it, leaves its
\* books alone.
LEMMA OtherTasks ==
    ASSUME NEW t \in Tasks, Books(t), Aging,
           taskRow'[t] = taskRow[t], paid'[t] = paid[t], billed'[t] = billed[t],
           \A w \in Workers : work'[w] = work[w] \/ (~Busy(w, t) /\ ~Busy(w, t)')
    PROVE  Books(t)'
  <1>1. \A w \in Workers, pcs \in SUBSET {"charge", "cas", "reason", "bulk", "save", "refund", "settle", "quota"} :
          /\ At(w, t, pcs)' <=> At(w, t, pcs)
          /\ At(w, t, pcs) => work'[w] = work[w]
    BY DEF At, Busy
  <1>2. \A w \in Workers :
          /\ At(w, t, {"charge", "reason", "save"})' <=> At(w, t, {"charge", "reason", "save"})
          /\ At(w, t, {"cas", "bulk"})' <=> At(w, t, {"cas", "bulk"})
          /\ At(w, t, {"cas"})' <=> At(w, t, {"cas"})
          /\ At(w, t, {"refund", "settle"})' <=> At(w, t, {"refund", "settle"})
          /\ At(w, t, {"quota"})' <=> At(w, t, {"quota"})
          /\ Bills(w, t)' <=> Bills(w, t)
          /\ At(w, t, {"cas"}) \/ At(w, t, {"refund", "settle"}) \/ At(w, t, {"quota"}) => work'[w] = work[w]
    BY <1>1 DEF Bills
  <1>3. BeforeEnd(t)'
    BY <1>2 DEF Books, BeforeEnd
  <1>4. Working(t)'
    BY <1>2 DEF Books, Working, Priced, Overdue, Aging
  <1>5. Billing(t)'
    BY <1>2 DEF Books, Billing, WrittenOff, Aging
  <1> QED
    BY <1>3, <1>4, <1>5 DEF Books

\* What the step of one goroutine does to the others, and how it is typed.
LEMMA OneMoves ==
    ASSUME TaskTypes, NEW w \in Workers, NEW rec \in Job, Continue(w, rec),
           rec.pc # "idle" => rec.task \in Tasks
    PROVE  /\ work' \in [Workers -> Job] /\ work'[w] = rec
           /\ \A v \in Workers : v # w => work'[v] = work[v]
           /\ \A v \in Workers : work'[v].pc # "idle" => work'[v].task \in Tasks
  BY DEF TaskTypes, Continue, Job

LEMMA RestTyped == Rest \in Job /\ Rest.pc = "idle"
  BY DEF Rest, Job, Statuses

-----------------------------------------------------------------------------
(* Taking up a task. *)

LEMMA TaskTakenUp ==
    ASSUME BillInv, NEW w \in Workers, NEW t \in Tasks, NEW rec \in Job,
           work[w].pc = "idle", rec.task = t, Continue(w, rec),
           UNCHANGED <<taskRow, paid, billed>>, job' \in [Tasks -> {"IN_PROGRESS"} \cup Ended], Aging,
           Polled(t) => /\ rec.pc \in {"cas", "bulk"} /\ taskRow[t].status # "none"
                        /\ rec.pc = "cas" => rec.from \notin Ended \cup {"none"} /\ rec.to # "none"
                        /\ rec.quota = Pre \/ (rec.quota = 0 /\ rec.to = "FAILURE" /\ Overdue(t))
    PROVE  BillInv'
  <1>1. /\ work' \in [Workers -> Job] /\ work'[w] = rec
        /\ \A v \in Workers : v # w => work'[v] = work[v]
        /\ \A v \in Workers : work'[v].pc # "idle" => work'[v].task \in Tasks
    BY OneMoves DEF BillInv
  <1>2. TaskTypes'
    BY <1>1 DEF BillInv, TaskTypes, Job
  <1>3. ASSUME NEW u \in Tasks, Polled(u)' PROVE Books(u)'
    <2>1. Polled(u) /\ Books(u)
      BY <1>3 DEF Polled, BillInv
    <2>2. CASE u # t
      BY <1>1, <2>1, <2>2, OtherTasks DEF Busy
    <2>3. CASE u = t
      <3>0. /\ rec.pc \in {"cas", "bulk"} /\ taskRow[t].status # "none" /\ rec.task = t
            /\ rec.pc = "cas" => rec.from \notin Ended \cup {"none"} /\ rec.to # "none"
            /\ rec.quota = Pre \/ (rec.quota = 0 /\ rec.to = "FAILURE" /\ Overdue(t))
        BY <2>1, <2>3
      <3>1. \A v \in Workers : Bills(v, t)' <=> Bills(v, t)
        BY <1>1, <3>0 DEF Bills, At
      <3>2. BeforeEnd(t)' /\ Billing(t)'
        BY <2>1, <2>3, <3>1 DEF Books, BeforeEnd, Billing, WrittenOff, Aging
      <3>3. Working(t)'
        BY <1>1, <2>1, <2>3, <3>0 DEF Books, Working, At, Priced, Overdue, Aging
      <3> QED
        BY <2>3, <3>2, <3>3 DEF Books
    <2> QED
      BY <2>2, <2>3
  <1> QED
    BY <1>2, <1>3 DEF BillInv

LEMMA FoundTyped ==
    ASSUME TaskTypes, NEW t \in Tasks, NEW pc \in {"cas", "reason", "bulk", "save"}, NEW to \in Statuses,
           NEW full \in BOOLEAN
    PROVE  /\ Found(t, pc, to, full) \in Job /\ Found(t, pc, to, full).task = t
           /\ Found(t, pc, to, full).pc = pc /\ Found(t, pc, to, full).to = to
           /\ Found(t, pc, to, full).from = taskRow[t].status
           /\ Found(t, pc, to, full).quota = taskRow[t].quota
  BY DEF TaskTypes, Found, Job

\* A task that is found unfinished has the price of its submission.
LEMMA UnfinishedPrice ==
    ASSUME BillInv, NEW t \in Tasks, Polled(t), Unfinished(t)
    PROVE  taskRow[t].status \notin Ended \cup {"none"} /\ taskRow[t].quota = Pre
  BY DEF BillInv, Books, BeforeEnd, Polled, Unfinished

LEMMA Finders ==
    ASSUME BillInv, NEW w \in Workers, NEW t \in Tasks,
           \/ Poll(w, t) \/ sweepTimedOutTasks(w, t) \/ ChannelMissing(w, t)
           \/ tryRealtimeFetch(w, t) \/ RelayMidjourneyNotify(w, t)
    PROVE  BillInv'
  <1>0. /\ work[w].pc = "idle" /\ UNCHANGED <<taskRow, paid, billed, job>> /\ Aging
        /\ TaskTypes /\ job[t] \in {"IN_PROGRESS"} \cup Ended
    BY DEF Poll, updateSunoTasks, updateVideoSingleTask, runMidjourneyTaskUpdateOnce, sweepTimedOutTasks,
       ChannelMissing, tryRealtimeFetch, RelayMidjourneyNotify, On, BillInv, TaskTypes, Aging
  <1>1. \E pc \in {"cas", "reason", "bulk", "save"}, to \in Statuses, full \in BOOLEAN :
          /\ \/ Continue(w, Found(t, pc, to, full))
             \/ Continue(w, [Found(t, pc, to, full) EXCEPT !.quota = 0]) /\ to = "FAILURE" /\ Overdue(t)
          /\ Polled(t) => Unfinished(t) /\ pc \in {"cas", "bulk"} /\ to # "none"
    <2>1. /\ job[t] \in Statuses \ {"none"} /\ taskRow[t].status \in Statuses /\ "FAILURE" \in Statuses \ {"none"}
          /\ TRUE \in BOOLEAN /\ \A x : (x \in Ended) \in BOOLEAN
      <3>1. job[t] \in Statuses \ {"none"} /\ taskRow[t].status \in Statuses /\ "FAILURE" \in Statuses \ {"none"}
        BY <1>0 DEF Statuses, Ended, TaskTypes
      <3>2. \A x : (x \in Ended) \in BOOLEAN
        OBVIOUS
      <3> QED
        BY <3>1, <3>2
    <2>2. CASE updateSunoTasks(w, t)
      BY <2>1, <2>2 DEF updateSunoTasks
    <2>3. CASE updateVideoSingleTask(w, t)
      BY <2>1, <2>3 DEF updateVideoSingleTask
    <2>4. CASE runMidjourneyTaskUpdateOnce(w, t)
      <3>1. ~Polled(t)
        BY <2>4 DEF runMidjourneyTaskUpdateOnce, Polled
      <3> QED
        BY <2>1, <2>4, <3>1 DEF runMidjourneyTaskUpdateOnce
    <2>5. CASE sweepTimedOutTasks(w, t)
      BY <2>1, <2>5 DEF sweepTimedOutTasks, GetTimedOutUnfinishedTasks, Overdue
    <2>6. CASE ChannelMissing(w, t)
      BY <2>1, <2>6 DEF ChannelMissing
    <2>7. CASE tryRealtimeFetch(w, t)
      <3>1. ~Polled(t)
        BY <2>7 DEF tryRealtimeFetch, Polled
      <3> QED
        BY <2>1, <2>7, <3>1 DEF tryRealtimeFetch
    <2>8. CASE RelayMidjourneyNotify(w, t)
      <3>1. ~Polled(t)
        BY <2>8 DEF RelayMidjourneyNotify, Polled
      <3> QED
        BY <2>1, <2>8, <3>1 DEF RelayMidjourneyNotify
    <2> QED
      BY <2>2, <2>3, <2>4, <2>5, <2>6, <2>7, <2>8 DEF Poll
  <1>2. PICK pc \in {"cas", "reason", "bulk", "save"}, to \in Statuses, full \in BOOLEAN :
          /\ \/ Continue(w, Found(t, pc, to, full))
             \/ Continue(w, [Found(t, pc, to, full) EXCEPT !.quota = 0]) /\ to = "FAILURE" /\ Overdue(t)
          /\ Polled(t) => Unfinished(t) /\ pc \in {"cas", "bulk"} /\ to # "none"
    BY <1>1
  <1>3. /\ Found(t, pc, to, full) \in Job /\ Found(t, pc, to, full).task = t /\ Found(t, pc, to, full).pc = pc
        /\ Found(t, pc, to, full).to = to
        /\ Found(t, pc, to, full).from = taskRow[t].status /\ Found(t, pc, to, full).quota = taskRow[t].quota
    BY <1>0, FoundTyped
  <1>4. Polled(t) => taskRow[t].status \notin Ended \cup {"none"} /\ taskRow[t].quota = Pre
    BY <1>2, UnfinishedPrice
  <1>5. job' \in [Tasks -> {"IN_PROGRESS"} \cup Ended]
    BY <1>0 DEF TaskTypes
  <1>6. PICK rec \in Job :
          /\ Continue(w, rec) /\ rec.task = t /\ rec.pc = pc /\ rec.to = to /\ rec.from = taskRow[t].status
          /\ rec.quota = taskRow[t].quota \/ (rec.quota = 0 /\ to = "FAILURE" /\ Overdue(t))
    <2> DEFINE found == Found(t, pc, to, full)
    <2> HIDE DEF found
    <2>1. found \in Job /\ found.task = t /\ found.pc = pc /\ found.to = to /\ found.from = taskRow[t].status
      BY <1>3 DEF found
    <2>2. /\ [found EXCEPT !.quota = 0] \in Job /\ [found EXCEPT !.quota = 0].task = t
          /\ [found EXCEPT !.quota = 0].pc = pc /\ [found EXCEPT !.quota = 0].to = to
          /\ [found EXCEPT !.quota = 0].from = taskRow[t].status /\ [found EXCEPT !.quota = 0].quota = 0
      BY <2>1 DEF Job
    <2>3. CASE Continue(w, found)
      BY <1>3, <2>1, <2>3 DEF found
    <2>4. CASE Continue(w, [found EXCEPT !.quota = 0]) /\ to = "FAILURE" /\ Overdue(t)
      BY <2>2, <2>4
    <2> QED
      BY <1>2, <2>3, <2>4 DEF found
  <1> QED
    BY <1>0, <1>2, <1>4, <1>5, <1>6, TaskTakenUp

-----------------------------------------------------------------------------
(* The steps on a task that was taken up. *)

\* A step of w on its task t, which it keeps or gives up.
LEMMA OneTask ==
    ASSUME BillInv, NEW w \in Workers, NEW t \in Tasks, NEW rec \in Job,
           work[w].pc = "idle" \/ work[w].task = t, rec.pc = "idle" \/ rec.task = t, Continue(w, rec),
           taskRow' \in [Tasks -> Row], paid' \in [Tasks -> Int], billed' \in [Tasks -> [times : Nat, hurt : BOOLEAN]],
           UNCHANGED job, Aging,
           \A u \in Tasks : u # t => taskRow'[u] = taskRow[u] /\ paid'[u] = paid[u] /\ billed'[u] = billed[u],
           taskRow'[t].kind = taskRow[t].kind,
           Polled(t) => Books(t)'
    PROVE  BillInv'
  <1>1. /\ work' \in [Workers -> Job] /\ work'[w] = rec
        /\ \A v \in Workers : v # w => work'[v] = work[v]
        /\ \A v \in Workers : work'[v].pc # "idle" => work'[v].task \in Tasks
    BY OneMoves DEF BillInv
  <1>2. TaskTypes'
    BY <1>1 DEF BillInv, TaskTypes, Job, Row
  <1>3. ASSUME NEW u \in Tasks, Polled(u)' PROVE Books(u)'
    <2>1. Polled(u) /\ Books(u)
      BY <1>3 DEF Polled, BillInv
    <2>2. CASE u # t
      BY <1>1, <2>1, <2>2, OtherTasks DEF Busy
    <2> QED
      BY <2>1, <2>2
  <1> QED
    BY <1>2, <1>3 DEF BillInv

LEMMA HurtTyped ==
    ASSUME TaskTypes, NEW t \in Tasks, Hurt(t)
    PROVE  /\ billed' \in [Tasks -> [times : Nat, hurt : BOOLEAN]]
           /\ \A u \in Tasks : u # t => billed'[u] = billed[u]
           /\ billed'[t].times = billed[t].times /\ billed'[t].hurt = TRUE
  BY DEF TaskTypes, Hurt

\* Giving a task up, with its row as it is, is harmless unless the bill is due;
\* and when a statement failed the sums do not matter any more.
LEMMA GivenUp ==
    ASSUME NEW w \in Workers, NEW t \in Tasks, Books(t), work[w].task = t,
           work'[w].pc = "idle", \A v \in Workers : v # w => work'[v] = work[v],
           taskRow'[t] = taskRow[t], paid'[t] = paid[t], billed'[t].times = billed[t].times, Aging,
           \/ billed'[t].hurt
           \/ billed'[t].hurt = billed[t].hurt /\ (Bills(w, t) /\ ~billed[t].hurt => paid[t] = taskRow[t].quota)
    PROVE  Books(t)'
  <1>1. \A v \in Workers, pcs \in SUBSET {"charge", "cas", "reason", "bulk", "save", "refund", "settle", "quota"} :
          At(v, t, pcs)' => At(v, t, pcs) /\ work'[v] = work[v]
    BY DEF At
  <1>2. \A v \in Workers :
          /\ At(v, t, {"charge", "reason", "save"})' => At(v, t, {"charge", "reason", "save"})
          /\ At(v, t, {"cas", "bulk"})' => At(v, t, {"cas", "bulk"})
          /\ At(v, t, {"cas"})' => At(v, t, {"cas"}) /\ work'[v] = work[v]
          /\ At(v, t, {"refund", "settle"})' => At(v, t, {"refund", "settle"}) /\ work'[v] = work[v]
          /\ At(v, t, {"quota"})' => At(v, t, {"quota"}) /\ work'[v] = work[v]
          /\ Bills(v, t)' => Bills(v, t)
          /\ v # w => (Bills(v, t)' <=> Bills(v, t))
    BY <1>1 DEF Bills, At
  <1>3. BeforeEnd(t)'
    BY <1>2 DEF Books, BeforeEnd
  <1>4. Working(t)'
    BY <1>2 DEF Books, Working, Priced, Overdue, Aging
  <1>5. Billing(t)'
    <2>1. \A u, v \in Workers : Bills(u, t)' /\ Bills(v, t)' => u = v
      BY <1>2 DEF Books, Billing
    <2>2. ASSUME \A v \in Workers : ~Bills(v, t)', ~billed'[t].hurt
          PROVE  paid'[t] = taskRow'[t].quota \/ WrittenOff(t)'
      <3>1. CASE Bills(w, t)
        BY <2>2, <3>1
      <3>2. CASE ~Bills(w, t)
        <4>1. \A v \in Workers : ~Bills(v, t)
          BY <1>2, <2>2, <3>2
        <4> QED
          BY <2>2, <4>1 DEF Books, Billing, WrittenOff, Aging
      <3> QED
        BY <3>1, <3>2
    <2> QED
      BY <2>1, <2>2 DEF Books, Billing
  <1> QED
    BY <1>3, <1>4, <1>5 DEF Books

\* While somebody bills the task it is ended and nobody else bills it.
LEMMA SoleBiller ==
    ASSUME BillInv, NEW w \in Workers, NEW t \in Tasks, Polled(t), Bills(w, t)
    PROVE  taskRow[t].status \in Ended /\ \A v \in Workers : v # w => ~Bills(v, t)
  BY DEF BillInv, Books, BeforeEnd, Billing

LEMMA Billers ==
    ASSUME BillInv, NEW w \in Workers, RefundTaskQuota(w) \/ RecalculateTaskQuota(w)
    PROVE  BillInv'
  <1>0. /\ TaskTypes /\ work[w].task \in Tasks /\ work[w].pc \in {"refund", "settle"} /\ work[w] \in Job
        /\ UNCHANGED <<taskRow, job>> /\ work[w].quota \in Int /\ taskRow \in [Tasks -> Row] /\ Aging
    BY DEF BillInv, TaskTypes, RefundTaskQuota, RecalculateTaskQuota, On, Mine, Job, Row, Aging
  <1>t. PICK t \in Tasks, q \in Int : t = work[w].task /\ q = work[w].quota
    BY <1>0
  <1>1. /\ TaskTypes /\ work[w].pc \in {"refund", "settle"} /\ work[w] \in Job /\ work[w].task = t
        /\ UNCHANGED <<taskRow, job>> /\ work[w].quota = q /\ taskRow \in [Tasks -> Row] /\ Aging
    BY <1>0, <1>t
  <1>2. Bills(w, t) /\ At(w, t, {"refund", "settle"})
    BY <1>1 DEF Bills, At
  <1>3. CASE Continue(w, Rest) /\ UNCHANGED paid /\ (Hurt(t) \/ UNCHANGED billed)
    <2>1. /\ billed' \in [Tasks -> [times : Nat, hurt : BOOLEAN]]
          /\ \A u \in Tasks : u # t => billed'[u] = billed[u]
          /\ billed'[t].times = billed[t].times
          /\ billed'[t].hurt \/ billed'[t].hurt = billed[t].hurt
      BY <1>1, <1>3, HurtTyped DEF TaskTypes
    <2>2. work'[w] = Rest /\ \A v \in Workers : v # w => work'[v] = work[v]
      BY <1>1, <1>3, RestTyped, OneMoves
    <2>3. ASSUME Polled(t) PROVE Books(t)'
      <3>1. Books(t)
        BY <1>1, <2>3 DEF BillInv
      <3>2. ~billed[t].hurt => paid[t] = taskRow[t].quota
        BY <1>2, <3>1 DEF Books, Working
      <3> QED
        BY <1>1, <1>3, <2>1, <2>2, <3>1, <3>2, RestTyped, GivenUp
    <2> QED
      BY <1>1, <1>3, <2>1, <2>3, RestTyped, OneTask DEF TaskTypes
  <1>4. ASSUME NEW sum \in Int,
               paid' = [paid EXCEPT ![t] = paid[t] + sum - q],
               billed' = [billed EXCEPT ![t].times = @ + 1],
               Continue(w, [work[w] EXCEPT !.pc = "quota", !.quota = sum])
        PROVE  BillInv'
    <2> DEFINE rec == [work[w] EXCEPT !.pc = "quota", !.quota = sum]
    <2>1. rec \in Job /\ rec.pc = "quota" /\ rec.task = t /\ rec.quota = sum
      BY <1>1 DEF Job
    <2>2. /\ paid' \in [Tasks -> Int] /\ paid'[t] = paid[t] + sum - q /\ paid[t] \in Int
          /\ billed' \in [Tasks -> [times : Nat, hurt : BOOLEAN]]
          /\ billed'[t].times = billed[t].times + 1 /\ billed'[t].hurt = billed[t].hurt
          /\ \A u \in Tasks : u # t => paid'[u] = paid[u] /\ billed'[u] = billed[u]
      BY <1>1, <1>4 DEF TaskTypes
    <2> HIDE DEF rec
    <2>3. Continue(w, rec)
      BY <1>4 DEF rec
    <2>4. work'[w] = rec /\ \A v \in Workers : v # w => work'[v] = work[v]
      BY <1>1, <2>1, <2>3, OneMoves
    <2>5. ASSUME Polled(t) PROVE Books(t)'
      <3>1. Books(t) /\ taskRow[t].status \in Ended /\ \A v \in Workers : v # w => ~Bills(v, t)
        BY <1>1, <1>2, <2>5, SoleBiller DEF BillInv
      <3>2. billed[t].times = 0 /\ q = Pre /\ (~billed[t].hurt => paid[t] = Pre)
        BY <1>1, <1>2, <3>1 DEF Books, Working, At
      <3>3. Bills(w, t)' /\ \A v \in Workers : v # w => ~Bills(v, t)'
        BY <2>1, <2>4, <3>1 DEF Bills, At
      <3>4. BeforeEnd(t)'
        BY <1>1, <3>1 DEF BeforeEnd
      <3>5. Billing(t)'
        BY <2>2, <3>2, <3>3 DEF Billing
      <3>6. ~billed'[t].hurt => paid'[t] = sum
        BY <1>4, <2>2, <3>2, AsyncTaskAssumption
      <3>7. Working(t)'
        <4> SUFFICES ASSUME NEW v \in Workers
                     PROVE  /\ ~At(v, t, {"charge", "reason", "save"})'
                            /\ At(v, t, {"cas", "bulk"})' => taskRow'[t].status # "none"
                            /\ At(v, t, {"cas"})' => /\ work'[v].from \notin Ended \cup {"none"}
                                                     /\ work'[v].to # "none" /\ Priced(v, t)'
                            /\ ~At(v, t, {"refund", "settle"})'
                            /\ At(v, t, {"quota"})' => billed'[t].times = 1 /\ (~billed'[t].hurt => paid'[t] = work'[v].quota)
          BY DEF Working
        <4>1. CASE v = w
          BY <2>1, <2>2, <2>4, <3>2, <3>6, <4>1 DEF At
        <4>2. CASE v # w
          BY <1>1, <2>4, <3>1, <4>2 DEF At, Bills, Books, Working, Priced, Overdue, Aging
        <4> QED
          BY <4>1, <4>2
      <3> QED
        BY <3>4, <3>5, <3>7 DEF Books
    <2> QED
      BY <1>1, <2>1, <2>2, <2>3, <2>5, OneTask
  <1>5. CASE RefundTaskQuota(w)
    <2>1. CASE Hurt(t) /\ Continue(w, Rest) /\ UNCHANGED paid
      BY <1>3, <2>1
    <2>2. CASE /\ paid' = [paid EXCEPT ![t] = paid[t] - q]
               /\ billed' = [billed EXCEPT ![t].times = @ + 1]
               /\ Continue(w, [work[w] EXCEPT !.pc = "quota", !.quota = 0])
      <3>1. paid[t] - q = paid[t] + 0 - q
        BY <1>1 DEF TaskTypes
      <3>2. paid' = [paid EXCEPT ![t] = paid[t] + 0 - q]
        BY <2>2, <3>1
      <3>3. 0 \in Int
        OBVIOUS
      <3> QED
        BY <1>4, <2>2, <3>2, <3>3, Zenon
    <2> QED
      BY <1>1, <1>5, <2>1, <2>2 DEF RefundTaskQuota, Mine
  <1>6. CASE RecalculateTaskQuota(w)
    <2>1. CASE Continue(w, Rest) /\ UNCHANGED paid /\ (Hurt(t) \/ UNCHANGED billed)
      BY <1>3, <2>1
    <2>2. CASE /\ paid' = [paid EXCEPT ![t] = paid[t] + Actual - q]
               /\ billed' = [billed EXCEPT ![t].times = @ + 1]
               /\ Continue(w, [work[w] EXCEPT !.pc = "quota", !.quota = Actual])
      <3>1. Actual \in Int
        BY AsyncTaskAssumption
      <3> QED
        BY <1>4, <2>2, <3>1, Zenon
    <2> QED
      BY <1>1, <1>6, <2>1, <2>2 DEF RecalculateTaskQuota, Mine
  <1> QED
    BY <1>5, <1>6

\* The quota of the row follows the bill.
LEMMA QuotaSaved ==
    ASSUME BillInv, NEW w \in Workers, SaveQuota(w)
    PROVE  BillInv'
  <1>0. /\ TaskTypes /\ work[w].task \in Tasks /\ work[w].pc = "quota" /\ work[w] \in Job
        /\ UNCHANGED <<paid, job>> /\ Continue(w, Rest) /\ work[w].quota \in Int /\ Aging
    BY DEF BillInv, TaskTypes, SaveQuota, On, Job, Aging
  <1>t. PICK t \in Tasks, q \in Int : t = work[w].task /\ q = work[w].quota
    BY <1>0
  <1>1. Bills(w, t) /\ At(w, t, {"quota"}) /\ work[w].task = t
    BY <1>0, <1>t DEF Bills, At
  <1>2. work'[w] = Rest /\ work'[w].pc = "idle" /\ \A v \in Workers : v # w => work'[v] = work[v]
    BY <1>0, RestTyped, OneMoves
  <1>3. CASE Hurt(t) /\ UNCHANGED taskRow
    <2>1. /\ billed' \in [Tasks -> [times : Nat, hurt : BOOLEAN]]
          /\ \A u \in Tasks : u # t => billed'[u] = billed[u]
          /\ billed'[t].times = billed[t].times /\ billed'[t].hurt
      BY <1>0, <1>3, HurtTyped
    <2>2. ASSUME Polled(t) PROVE Books(t)'
      <3>1. Books(t)
        BY <2>2 DEF BillInv
      <3> QED
        BY <1>0, <1>1, <1>2, <1>3, <2>1, <3>1, GivenUp
    <2> QED
      BY <1>0, <1>t, <1>3, <2>1, <2>2, RestTyped, OneTask DEF TaskTypes, Row
  <1>4. CASE taskRow' = [taskRow EXCEPT ![t].quota = q] /\ UNCHANGED billed
    <2>1. /\ taskRow' \in [Tasks -> Row] /\ taskRow'[t].kind = taskRow[t].kind /\ taskRow'[t].legacy = taskRow[t].legacy
          /\ taskRow'[t].status = taskRow[t].status /\ taskRow'[t].quota = q
          /\ \A u \in Tasks : u # t => taskRow'[u] = taskRow[u]
      <3>1. taskRow \in [Tasks -> Row]
        BY <1>0 DEF TaskTypes, Row
      <3> QED
        BY <1>4, <3>1, SMTT(30) DEF Row
    <2>2. ASSUME Polled(t) PROVE Books(t)'
      <3>1. Books(t) /\ taskRow[t].status \in Ended /\ \A v \in Workers : v # w => ~Bills(v, t)
        BY <1>1, <2>2, SoleBiller DEF BillInv
      <3>2. billed[t].times = 1 /\ (~billed[t].hurt => paid[t] = q)
        BY <1>t, <1>1, <3>1 DEF Books, Working
      <3>3. \A v \in Workers : ~Bills(v, t)'
        BY <1>2, <3>1 DEF Bills, At
      <3>4. BeforeEnd(t)'
        BY <2>1, <3>1 DEF BeforeEnd
      <3>5. Billing(t)'
        BY <1>0, <1>4, <2>1, <3>2, <3>3 DEF Billing
      <3>6. Working(t)'
        <4>1. \A v \in Workers : ~At(v, t, {"refund", "settle"})' /\ ~At(v, t, {"quota"})'
          BY <3>3 DEF Bills, At
        <4>2. \A v \in Workers :
                /\ At(v, t, {"charge", "reason", "save"})' => At(v, t, {"charge", "reason", "save"})
                /\ At(v, t, {"cas", "bulk"})' => At(v, t, {"cas", "bulk"})
                /\ At(v, t, {"cas"})' => At(v, t, {"cas"}) /\ work'[v] = work[v]
          BY <1>2 DEF At
        <4> QED
          BY <1>0, <2>1, <3>1, <4>1, <4>2 DEF Books, Working, Priced, Overdue, Aging
      <3> QED
        BY <3>4, <3>5, <3>6 DEF Books
    <2>3. paid' \in [Tasks -> Int] /\ billed' \in [Tasks -> [times : Nat, hurt : BOOLEAN]]
      BY <1>0, <1>4 DEF TaskTypes
    <2> QED
      BY <1>0, <1>t, <1>4, <2>1, <2>2, <2>3, RestTyped, OneTask
  <1> QED
    BY <1>t, <1>3, <1>4 DEF SaveQuota, UpdateQuota, Mine

\* An update that is conditional on the status it found.
LEMMA Swapped ==
    ASSUME BillInv, NEW w \in Workers, UpdateWithStatus(w)
    PROVE  BillInv'
  <1>0. /\ TaskTypes /\ work[w].task \in Tasks /\ work[w].pc \in {"cas", "reason"} /\ work[w] \in Job
        /\ UNCHANGED <<paid, job>> /\ Aging
    BY DEF BillInv, TaskTypes, UpdateWithStatus, On, Job, Aging
  <1>t. PICK t \in Tasks : t = work[w].task
    BY <1>0
  <1>1. Polled(t) => Books(t) /\ At(w, t, {"cas"}) /\ ~Bills(w, t)
    BY <1>0, <1>t DEF BillInv, Books, Working, At, Bills
  <1>2. CASE Continue(w, Rest) /\ UNCHANGED taskRow /\ (Hurt(t) \/ UNCHANGED billed)
    <2>1. /\ billed' \in [Tasks -> [times : Nat, hurt : BOOLEAN]]
          /\ \A u \in Tasks : u # t => billed'[u] = billed[u]
          /\ billed'[t].times = billed[t].times
          /\ billed'[t].hurt \/ billed'[t].hurt = billed[t].hurt
      BY <1>0, <1>2, HurtTyped DEF TaskTypes
    <2>2. work'[w] = Rest /\ work'[w].pc = "idle" /\ \A v \in Workers : v # w => work'[v] = work[v]
      BY <1>0, <1>2, RestTyped, OneMoves
    <2>3. ASSUME Polled(t) PROVE Books(t)'
      BY <1>0, <1>t, <1>1, <1>2, <2>1, <2>2, <2>3, GivenUp
    <2> QED
      BY <1>0, <1>t, <1>2, <2>1, <2>3, RestTyped, OneTask DEF TaskTypes, Row
  <1>3. CASE /\ Swaps(w) /\ UNCHANGED billed
             /\ taskRow' = [taskRow EXCEPT ![t] = [@ EXCEPT !.status = work[w].to, !.full = work[w].full, !.quota = work[w].quota]]
             /\ Continue(w, IF Bill(w) = "idle" THEN Rest ELSE [work[w] EXCEPT !.pc = Bill(w)])
    <2> DEFINE rec == IF Bill(w) = "idle" THEN Rest ELSE [work[w] EXCEPT !.pc = Bill(w)]
    <2>1. Bill(w) \in {"idle", "refund", "settle"}
      BY DEF Bill
    <2>2. /\ rec \in Job /\ rec.pc = Bill(w)
          /\ rec.pc # "idle" => rec.task = t /\ rec.quota = work[w].quota
      <3>1. CASE Bill(w) = "idle"
        BY <3>1, RestTyped
      <3>2. CASE Bill(w) # "idle"
        BY <1>0, <1>t, <2>1, <3>2 DEF Job
      <3> QED
        BY <3>1, <3>2
    <2>3. /\ taskRow' \in [Tasks -> Row] /\ taskRow'[t].kind = taskRow[t].kind /\ taskRow'[t].legacy = taskRow[t].legacy
          /\ taskRow'[t].status = work[w].to /\ taskRow'[t].quota = work[w].quota
          /\ \A u \in Tasks : u # t => taskRow'[u] = taskRow[u]
      <3> DEFINE new == [taskRow[t] EXCEPT !.status = work[w].to, !.full = work[w].full, !.quota = work[w].quota]
      <3>1. taskRow \in [Tasks -> Row] /\ taskRow' = [taskRow EXCEPT ![t] = new]
        BY <1>0, <1>3 DEF TaskTypes, Row
      <3>2. /\ new \in Row /\ new.kind = taskRow[t].kind /\ new.legacy = taskRow[t].legacy
            /\ new.status = work[w].to /\ new.quota = work[w].quota
        BY <1>0, <3>1, ZenonT(60) DEF Row, Job
      <3> HIDE DEF new
      <3> QED
        BY <3>1, <3>2
    <2> HIDE DEF rec
    <2>4. Continue(w, rec)
      BY <1>3 DEF rec
    <2>5. work'[w] = rec /\ \A v \in Workers : v # w => work'[v] = work[v]
      BY <1>0, <2>2, <2>4, OneMoves
    <2>6. ASSUME Polled(t) PROVE Books(t)'
      <3>1. /\ taskRow[t].status \notin Ended \cup {"none"} /\ Priced(w, t) /\ work[w].to # "none"
            /\ taskRow[t].quota = Pre /\ billed[t].times = 0 /\ \A v \in Workers : ~Bills(v, t)
            /\ ~billed[t].hurt => paid[t] = Pre
        <4>1. taskRow[t].status \notin Ended \cup {"none"} /\ Priced(w, t) /\ work[w].to # "none"
          BY <1>t, <1>1, <1>3, <2>6 DEF Books, Working, Swaps, Mine
        <4> QED
          BY <1>1, <2>6, <4>1 DEF Books, BeforeEnd, Billing, WrittenOff, Ended
      <3>2. Bill(w) # "idle" => work[w].to \in Ended /\ work[w].quota = Pre
        BY <1>1, <2>6, <3>1 DEF Bill, Ended, On, At, Priced
      <3>3. /\ Bills(w, t)' <=> rec.pc # "idle"
            /\ \A v \in Workers : v # w => ~Bills(v, t)'
        BY <2>1, <2>2, <2>5, <3>1 DEF Bills, At
      <3>4. BeforeEnd(t)'
        BY <1>3, <2>2, <2>3, <3>1, <3>2, <3>3 DEF BeforeEnd, Priced, Ended
      <3>5. Billing(t)'
        BY <1>0, <1>3, <2>3, <3>1, <3>3 DEF Billing, Priced, Overdue, WrittenOff, Aging
      <3>6. Working(t)'
        <4> SUFFICES ASSUME NEW v \in Workers
                     PROVE  /\ ~At(v, t, {"charge", "reason", "save"})'
                            /\ At(v, t, {"cas", "bulk"})' => taskRow'[t].status # "none"
                            /\ At(v, t, {"cas"})' => /\ work'[v].from \notin Ended \cup {"none"}
                                                     /\ work'[v].to # "none" /\ Priced(v, t)'
                            /\ At(v, t, {"refund", "settle"})' =>
                                 /\ billed'[t].times = 0 /\ work'[v].quota = Pre /\ taskRow'[t].quota = Pre
                                 /\ ~billed'[t].hurt => paid'[t] = Pre
                            /\ ~At(v, t, {"quota"})'
          BY DEF Working
        <4>1. CASE v = w
          BY <1>0, <1>3, <2>1, <2>2, <2>3, <2>5, <3>1, <3>2, <4>1 DEF At
        <4>2. CASE v # w
          BY <1>0, <1>1, <2>3, <2>5, <2>6, <3>1, <3>3, <4>2 DEF At, Bills, Books, Working, Priced, Overdue, Aging
        <4> QED
          BY <4>1, <4>2
      <3> QED
        BY <3>4, <3>5, <3>6 DEF Books
    <2>7. paid' \in [Tasks -> Int] /\ billed' \in [Tasks -> [times : Nat, hurt : BOOLEAN]]
      BY <1>0, <1>3 DEF TaskTypes
    <2> QED
      BY <1>0, <1>t, <1>3, <2>2, <2>3, <2>4, <2>6, <2>7, OneTask
  <1> QED
    BY <1>t, <1>2, <1>3 DEF UpdateWithStatus, Mine

\* The update that asks for nothing still leaves the price alone.
LEMMA BulkUpdated ==
    ASSUME BillInv, NEW w \in Workers, TaskBulkUpdateByID(w)
    PROVE  BillInv'
  <1>0. /\ TaskTypes /\ work[w].task \in Tasks /\ work[w].pc = "bulk" /\ work[w] \in Job
        /\ UNCHANGED <<paid, billed, job>> /\ Continue(w, Rest) /\ Aging
    BY DEF BillInv, TaskTypes, TaskBulkUpdateByID, On, Job, Aging
  <1>t. PICK t \in Tasks : t = work[w].task
    BY <1>0
  <1>1. /\ taskRow' \in [Tasks -> Row] /\ taskRow'[t].kind = taskRow[t].kind /\ taskRow'[t].legacy = taskRow[t].legacy
        /\ taskRow'[t].status = "FAILURE" /\ taskRow'[t].quota = taskRow[t].quota
        /\ \A u \in Tasks : u # t => taskRow'[u] = taskRow[u]
    <2> DEFINE new == [taskRow[t] EXCEPT !.status = "FAILURE", !.full = TRUE]
    <2>1. taskRow \in [Tasks -> Row] /\ taskRow' = [taskRow EXCEPT ![t] = new]
      BY <1>0, <1>t DEF TaskBulkUpdateByID, Mine, TaskTypes, Row
    <2>2. "FAILURE" \in Statuses
      BY DEF Statuses, Ended
    <2>3. new \in Row /\ new.kind = taskRow[t].kind /\ new.legacy = taskRow[t].legacy /\ new.status = "FAILURE" /\ new.quota = taskRow[t].quota
      BY <2>1, <2>2 DEF Row
    <2> HIDE DEF new
    <2> QED
      BY <2>1, <2>3
  <1>2. work'[w] = Rest /\ work'[w].pc = "idle" /\ \A v \in Workers : v # w => work'[v] = work[v]
    BY <1>0, RestTyped, OneMoves
  <1>3. ASSUME Polled(t) PROVE Books(t)'
    <2>1. Books(t)
      BY <1>3 DEF BillInv
    <2>2. \A v \in Workers :
            /\ Bills(v, t)' <=> Bills(v, t)
            /\ At(v, t, {"charge", "reason", "save"})' => At(v, t, {"charge", "reason", "save"})
            /\ At(v, t, {"cas"})' => At(v, t, {"cas"}) /\ work'[v] = work[v]
            /\ At(v, t, {"refund", "settle"})' => At(v, t, {"refund", "settle"}) /\ work'[v] = work[v]
            /\ At(v, t, {"quota"})' => At(v, t, {"quota"}) /\ work'[v] = work[v]
      BY <1>0, <1>2 DEF At, Bills
    <2>3. BeforeEnd(t)'
      BY <1>1 DEF BeforeEnd, Ended
    <2>4. Billing(t)'
      BY <1>0, <1>1, <2>1, <2>2 DEF Books, Billing, WrittenOff, Aging
    <2>5. Working(t)'
      BY <1>0, <1>1, <2>1, <2>2 DEF Books, Working, Priced, Overdue, Aging
    <2> QED
      BY <2>3, <2>4, <2>5 DEF Books
  <1> QED
    BY <1>0, <1>t, <1>1, <1>3, RestTyped, OneTask DEF TaskTypes

-----------------------------------------------------------------------------
(* Submission, and the steps that concern Midjourney tasks only. *)

LEMMA Submitted ==
    ASSUME BillInv, NEW t \in Tasks, RelayTask(t)
    PROVE  BillInv'
  <1>0. /\ TaskTypes /\ taskRow \in [Tasks -> Row] /\ taskRow[t].status = "none"
        /\ paid' = [paid EXCEPT ![t] = Pre] /\ UNCHANGED <<job, work>> /\ Aging
    BY DEF BillInv, TaskTypes, Row, RelayTask, Aging
  <1>1. Pre \in Int /\ Pre # 0
    BY AsyncTaskAssumption
  <1>2. paid' \in [Tasks -> Int] /\ paid'[t] = Pre /\ \A u \in Tasks : u # t => paid'[u] = paid[u]
    BY <1>0, <1>1 DEF TaskTypes
  <1>3. CASE taskRow' = [taskRow EXCEPT ![t].status = "SUBMITTED", ![t].quota = Pre] /\ UNCHANGED billed
    <2>1. /\ taskRow' \in [Tasks -> Row] /\ taskRow'[t].kind = taskRow[t].kind /\ taskRow'[t].legacy = taskRow[t].legacy
          /\ taskRow'[t].status = "SUBMITTED" /\ taskRow'[t].quota = Pre
          /\ \A u \in Tasks : u # t => taskRow'[u] = taskRow[u]
      <3>1. "SUBMITTED" \in Statuses
        BY DEF Statuses
      <3> QED
        BY <1>0, <1>1, <1>3, <3>1 DEF Row
    <2>2. TaskTypes'
      BY <1>0, <1>2, <1>3, <2>1 DEF TaskTypes, Row
    <2>3. ASSUME NEW u \in Tasks, Polled(u)' PROVE Books(u)'
      <3>1. Polled(u) /\ Books(u)
        BY <2>1, <2>3 DEF Polled, BillInv
      <3>2. CASE u # t
        BY <1>0, <1>2, <1>3, <2>1, <3>1, <3>2, OtherTasks
      <3>3. CASE u = t
        <4>1. billed[t].times = 0 /\ \A w \in Workers : ~Bills(w, t)
          BY <1>0, <3>1, <3>3 DEF Books, BeforeEnd, Ended
        <4>2. \A w \in Workers : ~Bills(w, t)' /\ ~At(w, t, {"cas", "bulk"})'
          BY <1>0, <3>1, <3>3, <4>1 DEF Books, Working, Bills, At
        <4>3. BeforeEnd(t)' /\ Billing(t)'
          BY <1>2, <1>3, <2>1, <4>1, <4>2 DEF BeforeEnd, Billing
        <4>4. Working(t)'
          BY <1>0, <3>1, <3>3, <4>2 DEF Books, Working, Bills, At
        <4> QED
          BY <3>3, <4>3, <4>4 DEF Books
      <3> QED
        BY <3>2, <3>3
    <2> QED
      BY <2>2, <2>3 DEF BillInv
  <1>4. CASE Hurt(t) /\ UNCHANGED taskRow
    <2>1. /\ billed' \in [Tasks -> [times : Nat, hurt : BOOLEAN]]
          /\ \A u \in Tasks : u # t => billed'[u] = billed[u]
          /\ billed'[t].times = billed[t].times /\ billed'[t].hurt
      BY <1>0, <1>4, HurtTyped
    <2>2. TaskTypes'
      BY <1>0, <1>2, <1>4, <2>1 DEF TaskTypes
    <2>3. ASSUME NEW u \in Tasks, Polled(u)' PROVE Books(u)'
      <3>1. Polled(u) /\ Books(u)
        BY <1>4, <2>3 DEF Polled, BillInv
      <3>2. CASE u # t
        BY <1>0, <1>2, <1>4, <2>1, <3>1, <3>2, OtherTasks
      <3>3. CASE u = t
        BY <1>0, <1>4, <2>1, <3>1, <3>3 DEF Books, BeforeEnd, Billing, Working, Bills, At
      <3> QED
        BY <3>2, <3>3
    <2> QED
      BY <2>2, <2>3 DEF BillInv
  <1> QED
    BY <1>3, <1>4 DEF RelayTask

LEMMA MidjourneySteps ==
    ASSUME BillInv, NEW w \in Workers,
           \/ SettleMidjourneyTaskBilling(w) \/ SaveNotified(w)
           \/ \E t \in Tasks : PrepareMidjourneyTaskBilling(w, t)
    PROVE  BillInv'
  <1>0. TaskTypes /\ taskRow \in [Tasks -> Row] /\ work[w] \in Job /\ Pre \in Int /\ 0 \in Int /\ Aging
    <2>1. Aging
      BY DEF Aging, SettleMidjourneyTaskBilling, SaveNotified, PrepareMidjourneyTaskBilling
    <2> QED
      BY <2>1, AsyncTaskAssumption DEF BillInv, TaskTypes, Row, Job
  <1>1. CASE SettleMidjourneyTaskBilling(w)
    <2>1. work[w].pc = "charge" /\ work[w].task \in Tasks /\ Continue(w, Rest) /\ UNCHANGED job
      BY <1>0, <1>1 DEF SettleMidjourneyTaskBilling, On, TaskTypes
    <2>t. PICK t \in Tasks : t = work[w].task
      BY <2>1
    <2>2. ~Polled(t)
      BY <2>1, <2>t DEF BillInv, Books, Working, At
    <2>3. /\ taskRow' = taskRow \/ taskRow' = [taskRow EXCEPT ![t].quota = Pre] \/ taskRow' = [taskRow EXCEPT ![t].quota = 0]
          /\ paid' = paid \/ paid' = [paid EXCEPT ![t] = paid[t] + Pre]
          /\ UNCHANGED billed \/ Hurt(t)
      BY <1>1, <2>t DEF SettleMidjourneyTaskBilling, Mine
    <2>4. /\ taskRow' \in [Tasks -> Row] /\ taskRow'[t].kind = taskRow[t].kind /\ taskRow'[t].legacy = taskRow[t].legacy /\ \A u \in Tasks : u # t => taskRow'[u] = taskRow[u]
      BY <1>0, <2>3 DEF Row
    <2>5. paid' \in [Tasks -> Int] /\ \A u \in Tasks : u # t => paid'[u] = paid[u]
      BY <1>0, <2>3 DEF TaskTypes
    <2>6. /\ billed' \in [Tasks -> [times : Nat, hurt : BOOLEAN]]
          /\ \A u \in Tasks : u # t => billed'[u] = billed[u]
      BY <1>0, <2>3, HurtTyped DEF TaskTypes
    <2> QED
      BY <1>0, <2>1, <2>t, <2>2, <2>4, <2>5, <2>6, RestTyped, OneTask
  <1>2. CASE SaveNotified(w)
    <2>1. /\ work[w].pc = "save" /\ work[w].task \in Tasks /\ Continue(w, Rest)
          /\ UNCHANGED <<paid, billed, job>>
      BY <1>0, <1>2 DEF SaveNotified, On, TaskTypes
    <2>t. PICK t \in Tasks : t = work[w].task
      BY <2>1
    <2>2. ~Polled(t)
      BY <2>1, <2>t DEF BillInv, Books, Working, At
    <2>3. /\ taskRow' \in [Tasks -> Row] /\ taskRow'[t].kind = taskRow[t].kind /\ taskRow'[t].legacy = taskRow[t].legacy /\ \A u \in Tasks : u # t => taskRow'[u] = taskRow[u]
      <3> DEFINE new == [taskRow[t] EXCEPT !.status = work[w].to, !.full = work[w].full, !.quota = work[w].quota]
      <3>1. taskRow' = [taskRow EXCEPT ![t] = new]
        BY <1>2, <2>t DEF SaveNotified, Mine
      <3>2. new \in Row /\ new.kind = taskRow[t].kind /\ new.legacy = taskRow[t].legacy
        BY <1>0, ZenonT(60) DEF Row, Job
      <3> HIDE DEF new
      <3> QED
        BY <1>0, <3>1, <3>2
    <2>4. paid' \in [Tasks -> Int] /\ billed' \in [Tasks -> [times : Nat, hurt : BOOLEAN]]
      BY <1>0, <2>1 DEF TaskTypes
    <2> QED
      BY <1>0, <2>1, <2>t, <2>2, <2>3, <2>4, RestTyped, OneTask
  <1>3. ASSUME NEW t \in Tasks, PrepareMidjourneyTaskBilling(w, t) PROVE BillInv'
    <2> DEFINE rec == [Rest EXCEPT !.pc = "charge", !.task = t]
    <2>1. /\ work[w].pc = "idle" /\ Continue(w, rec) /\ UNCHANGED <<paid, billed, job>> /\ ~Polled(t)
          /\ taskRow' = [taskRow EXCEPT ![t].status = "", ![t].quota = Pre]
      BY <1>3 DEF PrepareMidjourneyTaskBilling, On, Polled
    <2>2. rec \in Job /\ rec.task = t
      BY RestTyped DEF Job
    <2> HIDE DEF rec
    <2>3. /\ taskRow' \in [Tasks -> Row] /\ taskRow'[t].kind = taskRow[t].kind /\ taskRow'[t].legacy = taskRow[t].legacy /\ \A u \in Tasks : u # t => taskRow'[u] = taskRow[u]
      <3>1. "" \in Statuses
        BY DEF Statuses
      <3> QED
        BY <1>0, <2>1, <3>1 DEF Row
    <2>4. paid' \in [Tasks -> Int] /\ billed' \in [Tasks -> [times : Nat, hurt : BOOLEAN]]
      BY <1>0, <2>1 DEF TaskTypes
    <2> QED
      BY <1>0, <2>1, <2>2, <2>3, <2>4, OneTask, ZenonT(60)
  <1> QED
    BY <1>1, <1>2, <1>3

LEMMA JobSteps ==
    ASSUME BillInv,
           \/ \E t \in Tasks : FinishJob(t) \/ PassDeadline(t)
           \/ UNCHANGED taskVars
    PROVE  BillInv'
  <1>1. UNCHANGED <<taskRow, paid, billed, work>> /\ job' \in [Tasks -> {"IN_PROGRESS"} \cup Ended] /\ Aging
    BY DEF BillInv, TaskTypes, FinishJob, PassDeadline, taskVars, Aging
  <1>2. TaskTypes'
    BY <1>1 DEF BillInv, TaskTypes
  <1>3. ASSUME NEW u \in Tasks, Polled(u)' PROVE Books(u)'
    <2>1. Polled(u) /\ Books(u)
      BY <1>1, <1>3 DEF Polled, BillInv
    <2> QED
      BY <1>1, <2>1, OtherTasks
  <1> QED
    BY <1>2, <1>3 DEF BillInv

LEMMA TaskInitial == TaskInit => BillInv
  <1> SUFFICES ASSUME TaskInit PROVE BillInv
    OBVIOUS
  <1>1. PICK kind \in [Tasks -> Kinds], legacy \in [Tasks -> BOOLEAN] :
          taskRow = [t \in Tasks |-> [kind |-> kind[t], legacy |-> legacy[t], status |-> "none", full |-> FALSE, quota |-> 0]]
    BY DEF TaskInit
  <1>2. /\ paid = [t \in Tasks |-> 0] /\ billed = [t \in Tasks |-> [times |-> 0, hurt |-> FALSE]]
        /\ work = [w \in Workers |-> Rest] /\ job = [t \in Tasks |-> "IN_PROGRESS"]
    BY DEF TaskInit
  <1>3. TaskTypes
    <2>1. taskRow \in [Tasks -> Row]
      <3>1. "none" \in Statuses /\ \A t \in Tasks : kind[t] \in {"suno", "video", "live", "mj"}
        BY AsyncTaskAssumption DEF Statuses
      <3> QED
        BY <1>1, <3>1 DEF Row
    <2>2. work \in [Workers -> Job] /\ \A w \in Workers : work[w].pc = "idle"
      BY <1>2, RestTyped
    <2> QED
      BY <1>2, <2>1, <2>2 DEF TaskTypes, Row, Job
  <1>4. ASSUME NEW t \in Tasks PROVE Books(t)
    <2>1. taskRow[t].status = "none" /\ taskRow[t].quota = 0 /\ paid[t] = 0 /\ billed[t].times = 0
      BY <1>1, <1>2
    <2>2. \A w \in Workers : work[w].pc = "idle"
      BY <1>2, RestTyped
    <2> QED
      BY <2>1, <2>2 DEF Books, BeforeEnd, Working, Billing, Bills, At
  <1> QED
    BY <1>3, <1>4 DEF BillInv

-----------------------------------------------------------------------------
LEMMA BillInvHolds == TaskSpec => []BillInv
  <1>1. BillInv /\ [TaskNext]_taskVars => BillInv'
    BY Finders, Billers, QuotaSaved, Swapped, BulkUpdated, Submitted, MidjourneySteps, JobSteps
       DEF TaskNext, Proceed
  <1> QED
    BY <1>1, TaskInitial, PTL DEF TaskSpec

(* For every number of tasks, pollers and users and every number of failed *)
(* statements: a song or a video is refunded or settled once at most, and  *)
(* while nobody works on it and no statement of it has failed, the user    *)
(* has paid what its row says.  The exception is a task from before the    *)
(* refunds that the sweep failed: its row says nothing, and the user has   *)
(* paid the charge of its submission.                                      *)
THEOREM TaskBillsHold == TaskSpec => []TaskBillHolds
  <1>1. ASSUME BillInv, NEW t \in Tasks, Polled(t)
        PROVE  /\ billed[t].times <= 1
               /\ AtRest(t) /\ ~billed[t].hurt => paid[t] = taskRow[t].quota \/ WrittenOff(t)
    BY <1>1 DEF BillInv, Books, Billing, AtRest, Mine, Bills, At
  <1>2. BillInv => TaskBillHolds
    BY <1>1 DEF TaskBillHolds, BilledOnce, QuotaMatchesCharge
  <1> QED
    BY <1>2, BillInvHolds, PTL
=============================================================================
