---------------------------- MODULE MCBillingRace ----------------------------
(***************************************************************************)
(* Three scenes of BillingSession in one run, each limiting the environment *)
(* in its own way:                                                         *)
(*   race     one wallet request that may stall or crash, two passes        *)
(*   contend  two requests on one wallet, token and subscription           *)
(*   fault    one request of any plan whose calls fail or lose their answer *)
(***************************************************************************)
EXTENDS MCBillingSession, FiniteSets

VARIABLE scene

first == CHOOSE r \in Requests : TRUE
Alone == \A r \in Requests \ {first} : pc[r] = "new"
NoCrash == \A r \in Requests : pc[r] # "dead"
OnePass == Cardinality({w \in Workers : worker[w].pc # "idle"}) <= 1

InScene ==
    /\ scene = "race" =>
          /\ Alone /\ faults = 0
          /\ pc[first] # "new" => sess[first].plan = <<"wallet">>
    /\ scene = "contend" =>
          /\ NoCrash /\ OnePass /\ faults = 0 /\ stalls = 0
          /\ \A r \in Requests : pc[r] # "new" =>
                sess[r].quota > 0 /\ ~sess[r].playground /\ ~sess[r].unlimited
    /\ scene = "fault" => Alone /\ NoCrash /\ OnePass /\ stalls = 0

\* The request that a scene leaves out never begins.
SceneFinished ==
    /\ scene # "contend"
    /\ pc[first] \in {"ended", "dead"} /\ row[first].status \notin Live
    /\ \A w \in Workers : worker[w].pc = "idle"
    /\ UNCHANGED vars

SceneInit == Init /\ scene \in {"race", "contend", "fault"}
SceneNext == UNCHANGED scene /\ (Next \/ SceneFinished) /\ InScene'
SceneSpec == SceneInit /\ [][SceneNext]_<<vars, scene>>
=============================================================================
