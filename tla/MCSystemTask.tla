---------------------------- MODULE MCSystemTask ----------------------------
(***************************************************************************)
(* Two scenes of SystemTask in one run.  In the first nodes crash and      *)
(* statements fail, while the heartbeat of a live node is never so late    *)
(* that its lease runs out (it renews several times per lease).  In the    *)
(* second heartbeats may be late and rows without a key may exist, so that *)
(* a lock is taken over from a live runner, while every statement works.   *)
(***************************************************************************)
EXTENDS SystemTask

VARIABLE timely

\* A live goroutine whose lease would run out in this tick.
HeartbeatDue == \E l \in lock : l.left = 0 /\ work[l.by][l.task] = "running"
SceneTick == Tick /\ ~(timely /\ HeartbeatDue)

SceneInit ==
  /\ Init
  /\ timely \in BOOLEAN
  /\ timely => \A t \in Tasks : status[t] = "none"
SceneNext ==
  /\ UNCHANGED timely
  /\ Next
  /\ Tick => SceneTick
  /\ ~timely => faults' = 0 /\ alive' = Runners
SceneSpec ==
  /\ SceneInit /\ [][SceneNext]_<<vars, timely>>
  /\ NodeFairness /\ WF_vars(SceneTick)

(* The database lease dedups execution across master instances: while      *)
(* heartbeats are in time no two goroutines work on tasks of the type.     *)
TimelyMeansOneHandler == timely => OneHandlerPerType
=============================================================================
