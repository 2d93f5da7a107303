---------------------------- MODULE MCRelayRoute ----------------------------
(* Instances of RelayRoute for TLC. *)
EXTENDS RelayRoute

\* One channel has two keys, so that a request may stay on it once.
MCKeys == [c \in Channels |-> IF c = CHOOSE d \in Channels : TRUE THEN {1, 2} ELSE {1}]

\* One request retries on its own list or in compact stages; the others stand for
\* the traffic it competes with.
MCPolicies ==
  [r \in Requests |-> IF r = CHOOSE q \in Requests : TRUE
                      THEN {"auto", "next_channel", "same_then_next", "compact"} ELSE {"none"}]
=============================================================================
