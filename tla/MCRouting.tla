------------------------------ MODULE MCRouting ------------------------------
(* What keeps a channel among the routes: its health circuit and its         *)
(* capability snapshot.  They share no state here, so a behaviour follows    *)
(* one of them.                                                              *)
EXTENDS RouteHealth, Capabilities

VARIABLE topic

routingVars == <<topic, vars, capVars>>

\* The part that does not move starts in one of its initial states.
RoutingInit ==
  /\ topic \in {"health", "snapshots"}
  /\ Init /\ CapInit
  /\ topic = "health" => source = NoSource

Health(A) == topic = "health" /\ A /\ UNCHANGED <<topic, capVars>>
Snapshots(A) == topic = "snapshots" /\ A /\ UNCHANGED <<topic, vars>>

RoutingNext == Health(Next) \/ Snapshots(CapNext)

(* Clients keep sending requests, database and upstream calls return and   *)
(* time passes; admission is strongly fair because a request may be        *)
(* abandoned before any one of its steps, and it is enough that some       *)
(* request gets through.  Refreshes and changes run to their end, the scan *)
(* is repeated for ever, and a queued channel gets its turn between scans. *)
(* The topic never changes, so one condition can speak of an action of     *)
(* each part.                                                              *)
RoutingSpec ==
  /\ RoutingInit /\ [][RoutingNext]_routingVars
  /\ WF_routingVars(Health(Tick) \/ Snapshots(RefreshStaleChannelCapabilities))
  /\ \A r \in Requests :
       /\ WF_routingVars(Health(Begin(r) \/ RecheckRouteLeaseRuntime(r) \/ Report(r)))
       /\ SF_routingVars(Health(LoadRouteHealth(r)))
  /\ SF_routingVars(\E r \in Requests : Health(RearmLostProbe(r)))
  /\ SF_routingVars(\E r \in Requests : Health(ClaimProbe(r)))
  /\ \A n \in Nodes :
       /\ WF_routingVars(Snapshots(Refreshes(n))) /\ SF_routingVars(Snapshots(Dispatch(n)))
       /\ WF_routingVars(Snapshots(RereadChannel(n) \/ UpdateAbilitiesOf(n)))
=============================================================================
