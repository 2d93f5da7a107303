---------------------------- MODULE Capabilities ----------------------------
(***************************************************************************)
(* How a change of a channel reaches the routes: the channels row and its  *)
(* abilities are written one after the other, a refresher projects them    *)
(* into a numbered capability snapshot, and each node keeps an index of    *)
(* the active snapshot in memory (service/route_capability.go,             *)
(* model/routing_snapshot.go, model/ability.go).  A refresher is woken by  *)
(* changes made on its own node; the master also scans all channels.       *)
(*                                                                         *)
(* One channel; a source is the pair of the numbers of the edit its row    *)
(* and the edit its abilities come from, 0 when there is none.             *)
(***************************************************************************)
EXTENDS Integers, FiniteSets

CONSTANTS
  Nodes,
  Master,      \* the node that runs the scheduled scan
  MaxChanges,  \* bound: changes of the channel
  MaxMishaps   \* bound: failed statements and restarts of nodes

ASSUME CapabilitiesAssumption ==
  /\ Master \in Nodes
  /\ MaxChanges \in Nat /\ MaxMishaps \in Nat

VARIABLES
  source,    \* <<row, abilities>> of the channel in the database
  snap,      \* the channel_capability_snapshots row
  kept,      \* version -> source of the channel_model_capabilities rows
  index,     \* the in-memory index of each node
  pending,   \* nodes whose dispatcher has the channel queued
  refresher, \* the refresh under way on each node
  editor,    \* the change under way on each node
  edits, mishaps

capVars == <<source, snap, kept, index, pending, refresher, editor, edits, mishaps>>

NoSource == <<0, 0>>
NoSnapshot == [version |-> 0, source |-> NoSource, status |-> "none"]
NoEntry == [version |-> 0, source |-> NoSource]
NoEdit == [pc |-> "idle", row |-> 0]
Resting == [pc |-> "idle", kind |-> "", source |-> NoSource, fence |-> NoEntry, version |-> 0]
Booting == [Resting EXCEPT !.pc = "channel", !.kind = "boot"]

Indexed(version, src) == [version |-> version, source |-> src]

\* The nodes are up, before the channel is added or with its first snapshot.
CapInit ==
  /\ source \in {NoSource, <<1, 1>>}
  /\ snap = IF source = NoSource THEN NoSnapshot ELSE [version |-> 1, source |-> source, status |-> "active"]
  /\ kept = [v \in 1..snap.version |-> source]
  /\ index = [n \in Nodes |-> Indexed(snap.version, source)]
  /\ pending = {}
  /\ refresher = [n \in Nodes |-> Resting]
  /\ editor = [n \in Nodes |-> NoEdit]
  /\ edits = 1 /\ mishaps = 0

Bounds == <<edits, mishaps>>
Durable == <<source, snap, kept>>

\* The hook is registered when the node has built its first index.
Started(n) == refresher[n].kind # "boot"

-----------------------------------------------------------------------------
(* Changes of the channel: the row, then its abilities, then the hook. *)

ChangeRow(n, row) ==
  /\ Started(n) /\ edits <= MaxChanges /\ editor[n].pc = "idle"
  /\ edits' = edits + 1
  /\ source' = <<row, source[2]>>
  /\ editor' = [editor EXCEPT ![n] = [pc |-> IF row = 0 THEN "abilities" ELSE "reread", row |-> row]]
  /\ UNCHANGED <<snap, kept, index, pending, refresher, mishaps>>

\* Insert, if there is no channel to begin with, or Update.
SaveChannel(n) == (edits = 1 \/ source[1] # 0) /\ ChangeRow(n, edits + 1)

DeleteChannel(n) == source[1] # 0 /\ ChangeRow(n, 0)

\* Update reads the row back, unless it is gone, before it rewrites the
\* abilities from it.
RereadChannel(n) ==
  /\ editor[n].pc = "reread"
  /\ editor' = [editor EXCEPT ![n] = [pc |-> "abilities", row |-> IF source[1] = 0 THEN @.row ELSE source[1]]]
  /\ UNCHANGED <<Durable, index, pending, refresher, Bounds>>

\* The hook follows the commit; a channel that is queued already is not queued
\* twice.
UpdateAbilitiesOf(n) ==
  /\ editor[n].pc = "abilities"
  /\ source' = <<source[1], editor[n].row>>
  /\ pending' = pending \cup {n}
  /\ editor' = [editor EXCEPT ![n] = NoEdit]
  /\ UNCHANGED <<snap, kept, index, refresher, Bounds>>

\* The second statement fails: the row is changed and nobody is told.
AbilitiesFail(n) ==
  /\ editor[n].pc = "abilities" /\ mishaps < MaxMishaps
  /\ mishaps' = mishaps + 1
  /\ editor' = [editor EXCEPT ![n] = NoEdit]
  /\ UNCHANGED <<Durable, index, pending, refresher, edits>>

-----------------------------------------------------------------------------
(* A refresh.  capabilityRefreshMu admits one per node. *)

\* What was read for the snapshot is not used any more.
Rebuilding(r) == [Resting EXCEPT !.pc = "rebuild", !.kind = r.kind]

Step(n, r) == refresher' = [refresher EXCEPT ![n] = r]

\* The dispatcher takes the channel off its queue before it refreshes it.
Dispatch(n) ==
  /\ refresher[n].pc = "idle" /\ n \in pending
  /\ pending' = pending \ {n}
  /\ Step(n, [Resting EXCEPT !.pc = "channel", !.kind = "one"])
  /\ UNCHANGED <<Durable, index, editor, Bounds>>

RefreshStaleChannelCapabilities ==
  /\ refresher[Master].pc = "idle"
  /\ Step(Master, [Resting EXCEPT !.pc = "channel", !.kind = "scan"])
  /\ UNCHANGED <<Durable, index, pending, editor, Bounds>>

\* A deleted channel needs no snapshot, only an index without it.
ReadChannel(n) ==
  LET r == refresher[n]
  IN /\ r.pc = "channel"
     /\ Step(n, IF source[1] = 0 THEN Rebuilding(r)
                ELSE [r EXCEPT !.pc = "abilities", !.source = <<source[1], 0>>])
     /\ UNCHANGED <<Durable, index, pending, editor, Bounds>>

ReadAbilities(n) ==
  LET r == refresher[n]
  IN /\ r.pc = "abilities"
     /\ Step(n, [r EXCEPT !.pc = "fence", !.source = <<@[1], source[2]>>])
     /\ UNCHANGED <<Durable, index, pending, editor, Bounds>>

\* Mutant: the fingerprint leaves the abilities out.
MutchannelCapabilitySnapshotMatches(src) == snap.status = "active" /\ snap.source[1] = src[1]

channelCapabilitySnapshotMatches(src) == snap.status = "active" /\ snap.source = src

Fence == Indexed(snap.version, snap.source)

\* The fence is read after the source; a scan skips a snapshot that matches.
GetChannelCapabilitySnapshotFence(n) ==
  LET r == refresher[n]
  IN /\ r.pc = "fence"
     /\ Step(n, IF r.kind = "scan" /\ channelCapabilitySnapshotMatches(r.source)
                THEN Rebuilding(r) ELSE [r EXCEPT !.pc = "publish", !.fence = Fence])
     /\ UNCHANGED <<Durable, index, pending, editor, Bounds>>

\* A refresh of one channel that fails ends there, a scan still rebuilds.
AfterFailure(r) == IF r.kind = "one" THEN Resting ELSE Rebuilding(r)

\* Mutant: the fence is not compared with the row.
MutPublishChannelCapabilitySnapshot(n) ==
  LET r == refresher[n]
      version == r.fence.version + 1
  IN /\ r.pc = "publish"
     /\ snap' = [version |-> version, source |-> r.source, status |-> "active"]
     /\ kept' = [v \in {v \in DOMAIN kept \cup {version} : v >= version - 2} |->
                   IF v = version THEN r.source ELSE kept[v]]
     /\ Step(n, Rebuilding(r))
     /\ UNCHANGED <<source, index, pending, editor, Bounds>>

\* One transaction: the rows of the next version, the pointer to it, and the
\* removal of the rows that are more than two versions old.
PublishChannelCapabilitySnapshot(n) ==
  LET r == refresher[n]
      version == snap.version + 1
  IN /\ r.pc = "publish"
     /\ IF r.fence = Fence
        THEN /\ snap' = [version |-> version, source |-> r.source, status |-> "active"]
             /\ kept' = [v \in {v \in DOMAIN kept \cup {version} : v >= version - 2} |->
                           IF v = version THEN r.source ELSE kept[v]]
             /\ Step(n, Rebuilding(r))
        ELSE Step(n, AfterFailure(r)) /\ UNCHANGED <<snap, kept>>
     /\ UNCHANGED <<source, index, pending, editor, Bounds>>

PublishFails(n) ==
  /\ refresher[n].pc = "publish" /\ mishaps < MaxMishaps
  /\ mishaps' = mishaps + 1
  /\ Step(n, [refresher[n] EXCEPT !.pc = "mark"])
  /\ UNCHANGED <<Durable, index, pending, editor, edits>>

\* Only a first build that failed is shown as failed; the active version of a
\* later one stays readable, and a fence that was overtaken changes nothing.
MarkChannelCapabilityRefreshFailure(n) ==
  LET r == refresher[n]
  IN /\ r.pc = "mark"
     /\ snap' = IF r.fence = Fence /\ snap.version = 0 THEN [snap EXCEPT !.status = "failed"] ELSE snap
     /\ Step(n, AfterFailure(r))
     /\ UNCHANGED <<source, kept, index, pending, editor, Bounds>>

-----------------------------------------------------------------------------
(* RebuildRouteCapabilityIndex: active versions, rows, channels. *)

ReadSnapshots(n) ==
  LET r == refresher[n]
  IN /\ r.pc = "rebuild"
     /\ Step(n, [r EXCEPT !.pc = "store", !.version = IF snap.status = "active" THEN snap.version ELSE 0])
     /\ UNCHANGED <<Durable, index, pending, editor, Bounds>>

\* The rows of that version, then the channels.  Versions whose rows are gone,
\* and channels that are gone, get no entry.
StoreIndex(n) ==
  LET r == refresher[n]
  IN /\ r.pc = "store"
     /\ index' = [index EXCEPT ![n] = IF source[1] = 0 \/ r.version \notin DOMAIN kept THEN NoEntry
                                      ELSE Indexed(r.version, kept[r.version])]
     /\ Step(n, Resting)
     /\ UNCHANGED <<Durable, pending, editor, Bounds>>

\* A read fails or the refresh runs out of time.  A scan that cannot read the
\* fence of one channel still rebuilds.
RefreshFails(n) ==
  /\ refresher[n].pc \in {"channel", "abilities", "fence", "rebuild", "store"}
  /\ mishaps < MaxMishaps
  /\ mishaps' = mishaps + 1
  /\ \/ Step(n, Resting)
     \/ refresher[n].pc = "fence" /\ Step(n, AfterFailure(refresher[n]))
  /\ UNCHANGED <<Durable, index, pending, editor, edits>>

\* A node stops, with what it had queued, and starts up again.
Restart(n) ==
  /\ mishaps < MaxMishaps
  /\ mishaps' = mishaps + 1
  /\ Step(n, Booting)
  /\ index' = [index EXCEPT ![n] = NoEntry]
  /\ pending' = pending \ {n}
  /\ editor' = [editor EXCEPT ![n] = NoEdit]
  /\ UNCHANGED <<Durable, edits>>

-----------------------------------------------------------------------------
Refreshes(n) ==
  \/ ReadChannel(n) \/ ReadAbilities(n) \/ GetChannelCapabilitySnapshotFence(n)
  \/ PublishChannelCapabilitySnapshot(n) \/ MarkChannelCapabilityRefreshFailure(n)
  \/ ReadSnapshots(n) \/ StoreIndex(n)

CapNext ==
  \/ \E n \in Nodes :
       \/ SaveChannel(n) \/ DeleteChannel(n) \/ RereadChannel(n) \/ UpdateAbilitiesOf(n) \/ AbilitiesFail(n)
       \/ Dispatch(n) \/ Refreshes(n) \/ PublishFails(n) \/ RefreshFails(n) \/ Restart(n)
  \/ RefreshStaleChannelCapabilities

CapSpec == CapInit /\ [][CapNext]_capVars

-----------------------------------------------------------------------------
(* Properties. *)

(* An index entry that carries the active version was built from the rows  *)
(* of that version: a request whose qualification finds the version        *)
(* unchanged is routed by the settings that are in force, whichever nodes  *)
(* raced to publish.                                                       *)
SameVersionSameSource ==
  \A n \in Nodes : index[n].version = snap.version => index[n].source = snap.source

(* The master ends up routing by what the database holds, also when the    *)
(* process that made the change failed or stopped before it told anybody,  *)
(* and when a refresher that had read an older source published last.      *)
MasterFollows ==
  <>[](index[Master] = IF source[1] = 0 THEN NoEntry
                       ELSE Indexed(snap.version, source))
=============================================================================
