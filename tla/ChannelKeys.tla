----------------------------- MODULE ChannelKeys -----------------------------
(***************************************************************************)
(* The status and the keys of one channel: the channels row and its        *)
(* abilities in the database, the copy of the row in the memory of one     *)
(* node, and the goroutines that pick a key, disable and enable keys,      *)
(* manage them, edit the channel or its tag and rebuild the copy           *)
(* (model/channel.go, model/channel_cache.go, controller/channel.go).      *)
(*                                                                         *)
(* channel_info is one JSON column: the marks of the disabled keys, the    *)
(* polling cursor and the way keys are picked are always written together. *)
(***************************************************************************)
EXTENDS Integers, SequencesExt

CONSTANTS
  FirstKeys,    \* the keys the channel starts with, a sequence
  OtherKeys,    \* the keys an edit brings, a sequence
  NoKey,        \* the empty using_key of a change that is not about a key
  Workers,      \* goroutines
  NoWorker,     \* nobody holds the polling lock
  MaxJobs,      \* bound: how many operations are started
  MaxDbFaults   \* bound: how many statements fail

ASSUME ChannelKeysAssumption ==
  /\ FirstKeys \in Seq(STRING) /\ OtherKeys \in Seq(STRING)
  /\ FirstKeys # <<>> /\ OtherKeys # <<>> /\ NoWorker \notin Workers
  /\ MaxJobs \in Nat /\ MaxDbFaults \in Nat

VARIABLES
  memory,   \* common.MemoryCacheEnabled
  multi,    \* channel_info.is_multi_key: several keys
  stored,   \* the channels row
  able,     \* abilities.enabled of the channel's abilities
  cached,   \* the channel in channelsIDM, or NoChannel
  keyLock,  \* who holds the polling lock of the channel
  job,      \* what each goroutine does
  pull,     \* what SyncChannelCache has read and not yet swapped in, if anything
  clean,    \* no statement failed and no writer without the lock overlapped another so far
  jobs, dbFaults

chanVars == <<memory, multi, stored, able, cached, keyLock, job, pull, clean, jobs, dbFaults>>

\* The positions an administrator may name.
Slots == 1..(Len(FirstKeys) + Len(OtherKeys))
\* MultiKeyStatusList maps the positions of the disabled keys to their marks.
AllOn == << >>
\* The channel is not in the map.
NoChannel == << >>

\* ch is the channel a goroutine loaded; live says that it is the pointer into
\* the cache; act is what it was asked to do.
NoJob == [pc |-> "idle", kind |-> "", ch |-> <<>>, live |-> FALSE, key |-> NoKey, want |-> "",
          act |-> <<>>, turn |-> FALSE]

KeysInit ==
  /\ memory \in BOOLEAN
  /\ multi \in BOOLEAN
  /\ \E mode \in {"random", "polling"} :
       stored = [status |-> "on", keys |-> IF multi THEN FirstKeys ELSE <<FirstKeys[1]>>,
                 marks |-> AllOn, poll |-> 1, mode |-> mode]
  /\ ~multi => stored.mode = "random"
  /\ able = TRUE
  /\ cached = stored
  /\ keyLock = NoWorker
  /\ job = [w \in Workers |-> NoJob]
  /\ pull = <<>>
  /\ clean = TRUE
  /\ jobs = 0 /\ dbFaults = 0

Held(w) == IF job[w].live THEN cached ELSE job[w].ch

\* Between its first and its last statement, in the order of the code.
Writing(j) == j.pc \in {"read", "save", "able", "write", "reread", "abilities", "tag", "tagged"}
\* An edit or a tag change, which take no lock, overlaps another writer.
Lockless(j) == j.kind \in {"edit", "tag"}
Overlap(js) == \E v, w \in Workers : v # w /\ Writing(js[v]) /\ Lockless(js[v]) /\ Writing(js[w])

Turn(w, j) ==
  /\ job' = [job EXCEPT ![w] = j]
  /\ clean' = (clean /\ ~Overlap(job'))

To(w, pc) == Turn(w, [job[w] EXCEPT !.pc = pc])

\* Idle goroutines are alike, so one of them stands for all.
Start(w, j) ==
  /\ job[w].pc = "idle" /\ jobs < MaxJobs
  /\ w = CHOOSE v \in Workers : job[v].pc = "idle"
  /\ jobs' = jobs + 1
  /\ Turn(w, j)
  /\ UNCHANGED <<memory, multi, stored, able, cached, keyLock, pull, dbFaults>>

\* The end of a call that may hold the lock.
Leave(w, j) ==
  /\ Turn(w, j)
  /\ keyLock' = IF keyLock = w THEN NoWorker ELSE keyLock

Rest == <<memory, multi, jobs>>

-----------------------------------------------------------------------------
(* Requests and tests pick a key. *)

\* The channel of a request, as the distributor gets it.
CacheGetChannel(w) ==
  /\ memory => cached # NoChannel
  /\ Start(w, [NoJob EXCEPT !.pc = "pick", !.kind = "request", !.live = memory,
                            !.ch = IF memory THEN <<>> ELSE stored])

\* The channel test and the balance update list the rows.
GetAllChannels(w, kind) ==
  /\ kind = "test" => stored.status # "manual"
  /\ kind = "balance" => stored.status = "on" /\ ~multi
  /\ Start(w, [NoJob EXCEPT !.pc = IF kind = "test" THEN "pick" ELSE "use", !.kind = kind, !.ch = stored])

enabledKeyIndexes(ch) == {i \in DOMAIN ch.keys : i \notin DOMAIN ch.marks}

\* Any enabled key, or the first one from the cursor on.
Candidates(ch, start) ==
  LET n == Len(ch.keys)
      s == IF start > n THEN 1 ELSE start
      on == enabledKeyIndexes(ch)
  IN IF ch.mode = "random" THEN on
     ELSE {i \in on : \A k \in on : (i - s + n) % n <= (k - s + n) % n}

\* Under the polling lock.  The cursor is read from the current channel and
\* written into the loaded one, whose channel_info is saved when there is no cache.
GetNextEnabledKey(w) ==
  LET ch == Held(w)
      current == IF memory THEN cached ELSE stored
      lost == ch.mode = "polling" /\ current = NoChannel
  IN /\ job[w].pc = "pick" /\ keyLock = NoWorker
     /\ \/ /\ ~multi
           /\ Turn(w, [job[w] EXCEPT !.pc = "use", !.key = ch.keys[1]])
           /\ UNCHANGED <<stored, cached>>
        \/ /\ multi /\ (enabledKeyIndexes(ch) = {} \/ lost)
           /\ Turn(w, NoJob)
           /\ UNCHANGED <<stored, cached>>
        \/ /\ multi /\ ~lost
           /\ \E i \in Candidates(ch, IF ch.mode = "polling" THEN current.poll ELSE 1) :
                LET next == [ch EXCEPT !.poll = IF ch.mode = "polling" THEN (i % Len(ch.keys)) + 1 ELSE @]
                IN /\ Turn(w, [job[w] EXCEPT !.pc = "use", !.key = ch.keys[i],
                                             !.ch = IF job[w].live THEN @ ELSE next])
                   /\ cached' = IF job[w].live THEN next ELSE cached
                   /\ stored' = IF ch.mode = "polling" /\ ~memory
                                THEN [stored EXCEPT !.marks = ch.marks, !.poll = next.poll, !.mode = ch.mode]
                                ELSE stored
     /\ UNCHANGED <<Rest, able, keyLock, pull, dbFaults>>

\* What the answer leads to.  A request or a failed test may disable its key, an
\* exhausted balance the channel; a test that succeeds enables what was disabled
\* automatically; an error that bans nothing ends the matter.
processChannelError(w) ==
  LET j == job[w]
      verdicts == {want \in {"auto", "on"} :
                     CASE j.kind = "test" -> j.ch.status = IF want = "auto" THEN "on" ELSE "auto"
                       [] OTHER -> want = "auto"}
  IN /\ j.pc = "use"
     /\ \/ \E want \in verdicts : Turn(w, [j EXCEPT !.pc = "status", !.want = want, !.live = FALSE, !.ch = <<>>])
        \/ Turn(w, NoJob)
     /\ UNCHANGED <<Rest, stored, able, cached, keyLock, pull, dbFaults>>

-----------------------------------------------------------------------------
(* UpdateChannelStatus: cache, row and abilities, under the polling lock. *)

\* An administrator enables or disables the channel as a whole.
UpdateChannelStatusRequest(w, want) ==
  Start(w, [NoJob EXCEPT !.pc = "status", !.kind = "manual", !.want = want])

hasEnabledMultiKey(ch, marks) == \E i \in DOMAIN ch.keys : i \notin DOMAIN marks

\* The first position of the key counts; an unknown key changes nothing.
handlerMultiKeyUpdate(ch, key, want) ==
  LET at == {i \in DOMAIN ch.keys : ch.keys[i] = key /\ \A k \in 1..(i - 1) : ch.keys[k] # key}
      marks == [i \in (IF want = "on" THEN DOMAIN ch.marks \ at ELSE DOMAIN ch.marks \cup at) |->
                  IF i \in at THEN want ELSE ch.marks[i]]
  IN CASE key = NoKey -> [ch EXCEPT !.status = want]
       [] key # NoKey /\ at = {} -> ch
       [] OTHER -> [ch EXCEPT !.marks = marks,
                              !.status = IF ~hasEnabledMultiKey(ch, marks) THEN "auto"
                                         ELSE IF want = "on" THEN "on" ELSE @]

\* Mutant: the polling lock is not taken.
MutUpdateChannelStatus(w) ==
  LET j == job[w]
  IN /\ j.pc = "status"
     /\ IF memory /\ (cached = NoChannel \/ (~multi /\ cached.status = j.want))
        THEN Turn(w, NoJob) /\ UNCHANGED <<cached, keyLock>>
        ELSE /\ To(w, "read")
             /\ UNCHANGED keyLock
             /\ cached' = IF ~memory THEN cached
                          ELSE IF multi THEN handlerMultiKeyUpdate(cached, j.key, j.want)
                          ELSE [cached EXCEPT !.status = j.want]
     /\ UNCHANGED <<Rest, stored, able, pull, dbFaults>>

UpdateChannelStatus(w) ==
  LET j == job[w]
  IN /\ j.pc = "status" /\ keyLock = NoWorker
     /\ IF memory /\ (cached = NoChannel \/ (~multi /\ cached.status = j.want))
        THEN Turn(w, NoJob) /\ UNCHANGED <<cached, keyLock>>
        ELSE /\ To(w, "read")
             /\ keyLock' = w
             /\ cached' = IF ~memory THEN cached
                          ELSE IF multi THEN handlerMultiKeyUpdate(cached, j.key, j.want)
                          ELSE [cached EXCEPT !.status = j.want]
     /\ UNCHANGED <<Rest, stored, able, pull, dbFaults>>

\* A manual change that changed something is followed by a refresh.
Returned(w, changed) ==
  IF job[w].kind = "manual" /\ changed THEN [NoJob EXCEPT !.pc = "refresh"] ELSE NoJob

\* Mutant: the abilities of a channel with several keys are left alone.
MutReadStatus(w) ==
  LET j == job[w]
      next == IF multi THEN handlerMultiKeyUpdate(stored, j.key, j.want)
              ELSE [stored EXCEPT !.status = j.want]
  IN /\ j.pc = "read"
     /\ IF stored.status = j.want THEN Leave(w, Returned(w, FALSE))
        ELSE /\ Turn(w, [j EXCEPT !.pc = "save", !.ch = next, !.turn = ~multi])
             /\ UNCHANGED keyLock
     /\ UNCHANGED <<Rest, stored, able, cached, pull, dbFaults>>

\* The row is read and the change applied to it; turn says that the abilities
\* have to follow.
ReadStatus(w) ==
  LET j == job[w]
      next == IF multi THEN handlerMultiKeyUpdate(stored, j.key, j.want)
              ELSE [stored EXCEPT !.status = j.want]
  IN /\ j.pc = "read"
     /\ IF stored.status = j.want THEN Leave(w, Returned(w, FALSE))
        ELSE /\ Turn(w, [j EXCEPT !.pc = "save", !.ch = next, !.turn = ~multi \/ next.status # stored.status])
             /\ UNCHANGED keyLock
     /\ UNCHANGED <<Rest, stored, able, cached, pull, dbFaults>>

\* The status and, for several keys, channel_info; never the keys themselves.
saveStatusState(w) ==
  LET j == job[w]
  IN /\ j.pc = "save"
     /\ stored' = [stored EXCEPT !.status = j.ch.status,
                                 !.marks = IF multi THEN j.ch.marks ELSE @,
                                 !.poll = IF multi THEN j.ch.poll ELSE @,
                                 !.mode = IF multi THEN j.ch.mode ELSE @]
     /\ IF j.turn THEN To(w, "able") /\ UNCHANGED keyLock ELSE Leave(w, Returned(w, TRUE))
     /\ UNCHANGED <<Rest, able, cached, pull, dbFaults>>

\* The deferred update of the abilities.  A failed save does not prevent it.
UpdateAbilityStatus(w) ==
  /\ job[w].pc = "able"
  /\ able' = (job[w].want = "on")
  /\ Leave(w, Returned(w, TRUE))
  /\ UNCHANGED <<Rest, stored, cached, pull, dbFaults>>

-----------------------------------------------------------------------------
(* Administration. *)

Actions == {<<a, i>> : a \in {"disable_key", "enable_key", "delete_key"}, i \in Slots}
             \cup {<<a, 1>> : a \in {"enable_all_keys", "disable_all_keys", "delete_disabled_keys"}}

\* The channel without the keys at drop, the marks renumbered.
Without(ch, drop) ==
  LET kept == SelectSeq([i \in 1..Len(ch.keys) |-> i], LAMBDA i : i \notin drop)
  IN [ch EXCEPT !.keys = [i \in 1..Len(kept) |-> ch.keys[kept[i]]],
                !.marks = [i \in {k \in 1..Len(kept) : kept[k] \notin enabledKeyIndexes(ch)} |-> ch.marks[kept[i]]]]

AutoDisabled(ch) == {i \in DOMAIN ch.keys : i \in DOMAIN ch.marks /\ ch.marks[i] = "auto"}

\* The marks with the keys at more disabled by hand.
Marked(ch, more) ==
  [i \in DOMAIN ch.marks \cup more |-> IF i \in more THEN "manual" ELSE ch.marks[i]]

\* What an action makes of the loaded channel, and when it is refused.
Managed(ch, act) ==
  CASE act[1] = "disable_key" -> [ch EXCEPT !.marks = Marked(ch, {act[2]})]
    [] act[1] = "enable_key" -> [ch EXCEPT !.marks = Restrict(@, DOMAIN @ \ {act[2]})]
    [] act[1] = "enable_all_keys" -> [ch EXCEPT !.marks = AllOn]
    [] act[1] = "disable_all_keys" -> [ch EXCEPT !.marks = Marked(ch, enabledKeyIndexes(ch))]
    [] act[1] = "delete_key" -> Without(ch, {act[2]})
    [] act[1] = "delete_disabled_keys" -> Without(ch, AutoDisabled(ch))

Refused(ch, act) ==
  CASE act[1] = "delete_key" -> Len(ch.keys) = 1
    [] act[1] = "disable_all_keys" -> enabledKeyIndexes(ch) = {}
    [] act[1] = "delete_disabled_keys" -> AutoDisabled(ch) = {}
    [] OTHER -> FALSE

\* The channel is loaded before the lock is taken.  An index out of range is
\* refused.
ManageMultiKeys(w, act) ==
  /\ multi /\ act[2] \in DOMAIN stored.keys
  /\ Start(w, [NoJob EXCEPT !.pc = "manage", !.kind = "manage", !.ch = stored, !.act = act])

ManageLocked(w) ==
  LET j == job[w]
  IN /\ j.pc = "manage" /\ keyLock = NoWorker
     /\ IF Refused(j.ch, j.act) THEN Turn(w, NoJob) /\ UNCHANGED keyLock
        ELSE To(w, "write") /\ keyLock' = w
     /\ UNCHANGED <<Rest, stored, able, cached, pull, dbFaults>>

\* An edit keeps the channel_info it loaded but for the mode, appends or replaces
\* keys, and takes no lock.
UpdateChannel(w, change) ==
  /\ change \in {"append", "mode"} => multi
  /\ Start(w, [NoJob EXCEPT !.pc = "write", !.kind = "edit", !.ch = stored, !.act = <<change>>])

\* What an edit makes of the channel it loaded; no keys are sent unless they change.
Edited(ch, change) ==
  CASE change = "append" -> [ch EXCEPT !.keys = @ \o SelectSeq(OtherKeys, LAMBDA k : k \notin ToSet(ch.keys))]
    [] change = "replace" -> [ch EXCEPT !.keys = IF multi THEN OtherKeys ELSE <<OtherKeys[1]>>]
    [] change = "mode" -> [ch EXCEPT !.keys = <<>>, !.mode = IF @ = "random" THEN "polling" ELSE "random"]
    [] change = "other" -> [ch EXCEPT !.keys = <<>>]

\* What a goroutine in front of Update is about to write.
Sent(j) == IF j.kind = "edit" THEN Edited(j.ch, j.act[1]) ELSE Managed(j.ch, j.act)

\* Update writes what is not empty: the status unless the request left it out,
\* no empty key list, and channel_info without the marks beyond the last key.
Update(w) ==
  LET j == job[w]
      ch == Sent(j)
      keys == IF ch.keys = <<>> THEN stored.keys ELSE ch.keys
  IN /\ j.pc = "write"
     /\ stored' = [status |-> IF j.kind = "edit" THEN stored.status ELSE ch.status,
                   keys |-> keys,
                   marks |-> Restrict(ch.marks, DOMAIN ch.marks \cap DOMAIN keys),
                   poll |-> ch.poll, mode |-> ch.mode]
     /\ To(w, "reread")
     /\ UNCHANGED <<Rest, able, cached, keyLock, pull, dbFaults>>

\* Update reads the row back and rewrites the abilities from it.
Reread(w) ==
  /\ job[w].pc = "reread"
  /\ Turn(w, [job[w] EXCEPT !.pc = "abilities", !.turn = (stored.status = "on")])
  /\ UNCHANGED <<Rest, stored, able, cached, keyLock, pull, dbFaults>>

UpdateAbilities(w) ==
  /\ job[w].pc = "abilities"
  /\ able' = job[w].turn
  /\ To(w, "refresh")
  /\ UNCHANGED <<Rest, stored, cached, keyLock, pull, dbFaults>>

\* A tag is enabled or disabled: the rows, then the abilities, without the lock.
ChannelByTagRequest(w, want) == Start(w, [NoJob EXCEPT !.pc = "tag", !.kind = "tag", !.want = want])

EnableOrDisableByTag(w) ==
  /\ job[w].pc = "tag"
  /\ stored' = [stored EXCEPT !.status = job[w].want]
  /\ To(w, "tagged")
  /\ UNCHANGED <<Rest, able, cached, keyLock, pull, dbFaults>>

UpdateAbilityStatusByTag(w) ==
  /\ job[w].pc = "tagged"
  /\ able' = (job[w].want = "on")
  /\ To(w, "refresh")
  /\ UNCHANGED <<Rest, stored, cached, keyLock, pull, dbFaults>>

\* A statement fails and its caller returns.  The abilities of a status change
\* are updated even when the status was not saved, and when only they fail, the
\* change counts as made.
DbStatementFails(w) ==
  LET j == job[w]
      on == j.pc = "save" /\ j.turn
  IN /\ dbFaults < MaxDbFaults
     /\ j.pc \in {"read", "save", "able", "write", "abilities", "tag", "tagged"}
     /\ dbFaults' = dbFaults + 1
     /\ clean' = FALSE
     /\ job' = [job EXCEPT ![w] = CASE on -> [j EXCEPT !.pc = "able", !.kind = ""]
                                    [] j.pc = "able" -> Returned(w, TRUE)
                                    [] OTHER -> NoJob]
     /\ keyLock' = IF keyLock = w /\ ~on THEN NoWorker ELSE keyLock
     /\ UNCHANGED <<Rest, stored, able, cached, pull>>

-----------------------------------------------------------------------------
(* InitChannelCache: read all rows, then swap the map. *)

\* The channel is in both maps, polling.
Polls(ch) == ch # NoChannel /\ ch.mode = "polling"

\* Mutant: all of the old channel_info is kept.
MutSwapped(ch) == IF Polls(ch) /\ Polls(cached) THEN [ch EXCEPT !.poll = cached.poll, !.marks = cached.marks] ELSE ch

\* The new copy keeps the polling cursor of the old one.
Swapped(ch) == IF Polls(ch) /\ Polls(cached) THEN [ch EXCEPT !.poll = cached.poll] ELSE ch

\* Goroutines that hold the old copy keep it.
Detached(js) == [w \in Workers |-> IF js[w].live THEN [js[w] EXCEPT !.live = FALSE, !.ch = cached] ELSE js[w]]

InitChannelCache(w) ==
  /\ job[w].pc = "refresh"
  /\ IF memory THEN Turn(w, [job[w] EXCEPT !.pc = "swap", !.ch = stored]) /\ UNCHANGED keyLock
     ELSE Leave(w, NoJob)
  /\ UNCHANGED <<Rest, stored, able, cached, pull, dbFaults>>

\* The error of the query is ignored: the new map is empty.
ChannelsUnread(w) ==
  /\ job[w].pc = "refresh" /\ memory /\ dbFaults < MaxDbFaults
  /\ dbFaults' = dbFaults + 1
  /\ Turn(w, [job[w] EXCEPT !.pc = "swap", !.ch = NoChannel])
  /\ UNCHANGED <<Rest, stored, able, cached, keyLock, pull>>

SwapChannels(w) ==
  /\ job[w].pc = "swap"
  /\ cached' = Swapped(job[w].ch)
  /\ job' = Detached([job EXCEPT ![w] = NoJob])
  /\ keyLock' = IF keyLock = w THEN NoWorker ELSE keyLock
  /\ UNCHANGED <<Rest, stored, able, pull, clean, dbFaults>>

\* The periodic synchronisation, never two at a time.
SyncChannelCache ==
  /\ memory /\ pull = <<>>
  /\ pull' = <<stored>>
  /\ UNCHANGED <<Rest, stored, able, cached, keyLock, job, clean, dbFaults>>

SyncUnread ==
  /\ memory /\ pull = <<>> /\ dbFaults < MaxDbFaults
  /\ pull' = <<NoChannel>>
  /\ dbFaults' = dbFaults + 1
  /\ UNCHANGED <<Rest, stored, able, cached, keyLock, job, clean>>

SyncSwap ==
  /\ pull # <<>>
  /\ cached' = Swapped(pull[1])
  /\ job' = Detached(job)
  /\ pull' = <<>>
  /\ UNCHANGED <<Rest, stored, able, keyLock, clean, dbFaults>>

-----------------------------------------------------------------------------
Begins(w) ==
  \/ CacheGetChannel(w)
  \/ \E kind \in {"test", "balance"} : GetAllChannels(w, kind)
  \/ \E want \in {"on", "manual"} : UpdateChannelStatusRequest(w, want) \/ ChannelByTagRequest(w, want)
  \/ \E act \in Actions : ManageMultiKeys(w, act)
  \/ \E change \in {"append", "replace", "mode", "other"} : UpdateChannel(w, change)

Continues(w) ==
  \/ GetNextEnabledKey(w) \/ processChannelError(w)
  \/ UpdateChannelStatus(w) \/ ReadStatus(w) \/ saveStatusState(w) \/ UpdateAbilityStatus(w)
  \/ ManageLocked(w) \/ Update(w) \/ Reread(w) \/ UpdateAbilities(w)
  \/ EnableOrDisableByTag(w) \/ UpdateAbilityStatusByTag(w)
  \/ InitChannelCache(w) \/ SwapChannels(w)

KeysNext ==
  \/ \E w \in Workers : Begins(w) \/ Continues(w) \/ DbStatementFails(w) \/ ChannelsUnread(w)
  \/ SyncChannelCache \/ SyncUnread \/ SyncSwap

KeysSpec == KeysInit /\ [][KeysNext]_chanVars

\* Handlers run to their end, and the cache is synchronised for ever.
KeysLiveSpec ==
  /\ KeysSpec
  /\ \A w \in Workers : WF_chanVars(Continues(w))
  /\ WF_chanVars(SyncChannelCache) /\ WF_chanVars(SyncSwap)

-----------------------------------------------------------------------------
(* Properties. *)

\* The keys that requests may get, and the disabled ones that a step enables.
EnabledKeys(ch) == {ch.keys[i] : i \in enabledKeyIndexes(ch)}
BroughtBack == {k \in ToSet(stored.keys) : k \notin EnabledKeys(stored) /\ k \in EnabledKeys(stored')}

\* The keys that the operation of a goroutine in front of its write is to enable.
\* An edit that sends keys may send disabled ones; and a deletion that leaves no key
\* deletes none, because an empty key list is not written, but all marks.
Asked(j) ==
  CASE j.pc = "save" /\ j.want = "on" -> {j.key}
    [] j.pc = "write" /\ j.act[1] = "enable_key" -> {j.ch.keys[j.act[2]]}
    [] j.pc = "write" /\ j.act[1] \in {"enable_all_keys", "append", "replace"} -> ToSet(j.ch.keys)
    [] j.pc = "write" /\ j.act[1] \in {"delete_key", "delete_disabled_keys"} /\ Sent(j).keys = <<>> -> ToSet(j.ch.keys)
    [] OTHER -> {}

\* The channel was loaded before the lock was taken and another writer came between.
\* A status change loads it under the lock and is never excused.
LoadedEarlier(j) ==
  j.pc \in {"pick", "write"} /\ ~j.live /\ (j.ch.keys # stored.keys \/ j.ch.marks # stored.marks)

\* The goroutine that takes the step.
Steps(w) == job'[w] # job[w]

(* A goroutine that writes channel_info, which holds the marks of all keys, *)
(* enables none but the keys it was asked to enable.  An automatic disable   *)
(* or enable of one key keeps the marks of the others whatever requests that *)
(* pick keys, administrators and other status changes do meanwhile, with or  *)
(* without the memory cache; the picking of a key and an administrator's     *)
(* disabling or deleting of another do so unless the channel was changed     *)
(* between their load and their lock.  Excepted are failed statements and    *)
(* edits, which take no lock, that overlap another writer.                   *)
KeyMarksKept ==
  [][clean => \A w \in Workers : Steps(w) /\ ~LoadedEarlier(job[w]) => BroughtBack \subseteq Asked(job[w])]_chanVars

(* Neither a pick nor a status change saves stale marks over newer ones, no  *)
(* matter when it loaded the channel: the comment on the polling lock in     *)
(* UpdateChannelStatus says so of both writers of channel_info.              *)
NoStaleKeyMarks ==
  [][clean => \A w \in Workers : Steps(w) /\ job[w].pc \in {"pick", "save"} => BroughtBack \subseteq Asked(job[w])]_chanVars

(* When nobody is writing, the abilities are enabled exactly when the      *)
(* channel is, unless a statement failed or an edit or a tag change, which *)
(* take no lock, overlapped another writer.                                *)
AbilitiesAgree ==
  clean /\ (\A w \in Workers : ~Writing(job[w])) => able = (stored.status = "on")

(* The copy in memory ends up with the status, keys and marks of the row,  *)
(* however refreshes that read before a change and swap after it, a failed *)
(* query that empties the map, other failed statements and changes of the  *)
(* copy alone are interleaved.                                             *)
CacheFollows ==
  <>[](memory => /\ cached # NoChannel
                 /\ cached.status = stored.status /\ cached.keys = stored.keys
                 /\ cached.marks = stored.marks)
=============================================================================
