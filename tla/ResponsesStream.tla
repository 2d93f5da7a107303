--------------------------- MODULE ResponsesStream ---------------------------
(***************************************************************************)
(* The two stream converters between OpenAI's formats                      *)
(* (relaykit/relayconvert/internal/oai_responses/to_oai_chat_stream_resp.go *)
(* and oai_chat/to_oai_responses_stream_resp.go), and the accumulator that *)
(* turns an upstream stream into one buffered answer.  Tools are numbers:  *)
(* tool t has item id t, call id t and name t, 0 is the empty string.      *)
(***************************************************************************)
EXTENDS ClaudeStream, FiniteSetsExt

NoIndex == -1

(* A Responses event.  Item events carry the item's id, call id and name;   *)
(* argument events carry item_id; either may carry output_index.  n is the  *)
(* delta, or all arguments of an item; output is the terminal response's.   *)
ResponsesEvent(type, out, item, tool, n) ==
  [type |-> type, out |-> out, item |-> item, tool |-> tool, n |-> n,
   output |-> << >>, incomplete |-> FALSE]
TerminalEvent(incomplete, output) ==
  [ResponsesEvent("completed", NoIndex, 0, 0, 0) EXCEPT !.output = output, !.incomplete = incomplete]
\* An entry of a response's output; a tool's call id and name are its number.
OutputEntry(kind, item, tool, n) == [kind |-> kind, item |-> item, tool |-> tool, n |-> n]

\* The value of a map, or the default of a missing key.
At(map, key, default) == IF key \in DOMAIN map THEN map[key] ELSE default
Without(map, key) == [k \in DOMAIN map \ {key} |-> map[k]]
-----------------------------------------------------------------------------
(* Responses events to chat chunks.  toolByKey points into tools, whose     *)
(* positions are the chat tool indexes plus one.                            *)
NewResponsesToChatStreamState ==
  [sentStart |-> FALSE, finalized |-> FALSE, hasSentText |-> FALSE, sawToolCall |-> FALSE,
   hasSentReasoning |-> FALSE, tools |-> << >>, toolByKey |-> << >>,
   outputIndexToKey |-> << >>, itemIDToKey |-> << >>, callIDToKey |-> << >>,
   pendingArgsByOutputIndex |-> << >>, pendingArgsByItemID |-> << >>]
NewStreamTool == [name |-> 0, args |-> 0, sent |-> FALSE, nameSent |-> FALSE, sentAt |-> 0]

\* Keys are "output:i", "item:t" and "call:t", ranked in their string order.
OutputKey(i) == <<3, i>>
ItemKey(t) == <<2, t>>
CallKey(t) == <<1, t>>
NoKey == <<0, 0>>
KeyBefore(a, b) == a[1] < b[1] \/ (a[1] = b[1] /\ a[2] < b[2])

keyForEvent(e) ==
  IF e.out # NoIndex THEN OutputKey(e.out)
  ELSE IF e.item # 0 THEN ItemKey(e.item)
  ELSE IF e.tool # 0 THEN CallKey(e.tool)
  ELSE NoKey

ensureStart(step) ==
  IF step.state.sentStart THEN step
  ELSE Step([step.state EXCEPT !.sentStart = TRUE], Append(step.events, EmptyChunk))

textDelta(step, n) ==
  IF n = 0 THEN step
  ELSE Emit(ensureStart([step EXCEPT !.state.hasSentText = TRUE]), <<[EmptyChunk EXCEPT !.text = n]>>)

reasoningDelta(step, n) ==
  IF n = 0 THEN step
  ELSE [Emit(ensureStart(step), <<[EmptyChunk EXCEPT !.think = n]>>) EXCEPT !.state.hasSentReasoning = TRUE]

(* Sends a tool's unsent arguments, and its name the first time it is       *)
(* known; nothing when both were sent.                                      *)
toolDelta(step, p, explicitDelta) ==
  LET tool == step.state.tools[p]
      argsDelta == IF explicitDelta > 0 THEN explicitDelta
                   ELSE IF tool.args > tool.sentAt THEN tool.args - tool.sentAt ELSE 0
      name == IF tool.nameSent THEN 0 ELSE tool.name
      sent == [step EXCEPT !.state.tools[p] =
                 [tool EXCEPT !.sent = TRUE, !.nameSent = @ \/ name # 0, !.sentAt = @ + argsDelta]]
  IN IF p = 0 \/ (tool.sent /\ argsDelta = 0 /\ name = 0) THEN step
     ELSE Emit([ensureStart(sent) EXCEPT !.state.sawToolCall = TRUE],
               <<[EmptyChunk EXCEPT !.tools = <<ToolCall(p - 1, name, argsDelta)>>]>>)

\* Mutated: arguments that waited under the item id are not taken.
MutBindTool(s, e, key, p) ==
  LET waiting == IF e.out = NoIndex THEN 0 ELSE At(s.pendingArgsByOutputIndex, e.out, 0)
  IN [s EXCEPT !.tools[p].args = @ + waiting,
               !.outputIndexToKey = IF e.out = NoIndex THEN @ ELSE (e.out :> key) @@ @,
               !.pendingArgsByOutputIndex = IF e.out = NoIndex THEN @ ELSE Without(@, e.out),
               !.itemIDToKey = IF e.item = 0 THEN @ ELSE (e.item :> key) @@ @,
               !.pendingArgsByItemID = IF e.item = 0 THEN @ ELSE Without(@, e.item)]

\* Binds a tool to its event's addresses and takes the arguments that waited.
BindTool(s, e, key, p) ==
  LET waiting == (IF e.out = NoIndex THEN 0 ELSE At(s.pendingArgsByOutputIndex, e.out, 0))
                 + (IF e.item = 0 THEN 0 ELSE At(s.pendingArgsByItemID, e.item, 0))
  IN [s EXCEPT !.tools[p].args = @ + waiting,
               !.outputIndexToKey = IF e.out = NoIndex THEN @ ELSE (e.out :> key) @@ @,
               !.pendingArgsByOutputIndex = IF e.out = NoIndex THEN @ ELSE Without(@, e.out),
               !.itemIDToKey = IF e.item = 0 THEN @ ELSE (e.item :> key) @@ @,
               !.pendingArgsByItemID = IF e.item = 0 THEN @ ELSE Without(@, e.item)]

AddTool(s, key) ==
  [s EXCEPT !.tools = Append(@, NewStreamTool), !.toolByKey = (key :> (Len(s.tools) + 1)) @@ @]

\* The tool of an item event, found under its key, its item id or its call id, or new.
ensureToolForEvent(s, e) ==
  LET key == keyForEvent(e)
      byItem == At(s.toolByKey, At(s.itemIDToKey, e.item, NoKey), 0)
      byCall == At(s.toolByKey, At(s.callIDToKey, e.tool, NoKey), 0)
      known == At(s.toolByKey, key, 0)
      p == IF known # 0 THEN known ELSE IF byItem # 0 THEN byItem ELSE byCall
      s1 == IF p = 0 THEN AddTool(s, key) ELSE [s EXCEPT !.toolByKey = (key :> p) @@ @]
      q == s1.toolByKey[key]
      s2 == BindTool(s1, e, key, q)
  IN IF key = NoKey THEN [state |-> s, tool |-> 0]
     ELSE [state |-> [s2 EXCEPT !.callIDToKey = IF e.tool = 0 THEN @ ELSE (e.tool :> key) @@ @,
                                !.tools[q].name = IF e.tool = 0 THEN @ ELSE e.tool],
           tool |-> q]

findToolForEvent(s, e) ==
  LET key == At(s.outputIndexToKey, e.out, At(s.itemIDToKey, e.item, NoKey))
  IN At(s.toolByKey, key, 0)

\* A tool whose arguments are done although its item was never announced.
ensureFallbackToolForEvent(s, e) ==
  LET key == IF e.out # NoIndex THEN OutputKey(e.out) ELSE IF e.item # 0 THEN ItemKey(e.item) ELSE NoKey
      s1 == IF key \in DOMAIN s.toolByKey THEN s ELSE AddTool(s, key)
  IN IF key = NoKey THEN [state |-> s, tool |-> 0]
     ELSE [state |-> BindTool(s1, e, key, s1.toolByKey[key]), tool |-> s1.toolByKey[key]]

\* An item event replaces the tool's arguments by the item's, if it has any.
ItemArguments(step, found, n) ==
  LET s == IF n = 0 THEN found.state ELSE [found.state EXCEPT !.tools[found.tool].args = n]
  IN IF found.tool = 0 THEN step ELSE toolDelta([step EXCEPT !.state = s], found.tool, 0)
toolItem(step, e) == ItemArguments(step, ensureToolForEvent(step.state, e), e.n)

toolArgumentsDelta(step, e) ==
  LET s == step.state
      p == findToolForEvent(s, e)
  IN IF e.n = 0 THEN step
     ELSE IF p # 0 THEN toolDelta([step EXCEPT !.state.tools[p].args = @ + e.n], p, e.n)
     ELSE IF e.out # NoIndex
          THEN [step EXCEPT !.state.pendingArgsByOutputIndex = (e.out :> (At(@, e.out, 0) + e.n)) @@ @]
     ELSE IF e.item # 0
          THEN [step EXCEPT !.state.pendingArgsByItemID = (e.item :> (At(@, e.item, 0) + e.n)) @@ @]
     ELSE step

flushPendingTool(step, e) ==
  LET p == findToolForEvent(step.state, e)
      fallback == ensureFallbackToolForEvent(step.state, e)
  IN IF p # 0 THEN toolDelta(step, p, 0)
     ELSE IF fallback.tool = 0 THEN step
     ELSE toolDelta([step EXCEPT !.state = fallback.state], fallback.tool, 0)

\* What the terminal response holds and no delta has sent.
terminalOutputChunks(step, output) ==
  LET Entry(s, out) ==
        IF out.kind = "message" /\ ~s.state.hasSentText THEN textDelta(s, out.n)
        ELSE IF out.kind = "reasoning" /\ ~s.state.hasSentReasoning THEN reasoningDelta(s, out.n)
        ELSE IF out.kind = "tool" THEN toolItem(s, ResponsesEvent("item", NoIndex, out.item, out.tool, out.n))
        ELSE s
  IN FoldLeft(Entry, step, output)

flushAllPendingTools(step) ==
  LET s == step.state
      keys == DOMAIN s.toolByKey \union {OutputKey(i) : i \in DOMAIN s.pendingArgsByOutputIndex}
              \union {ItemKey(t) : t \in DOMAIN s.pendingArgsByItemID}
      Flush(acc, key) ==
        LET a == IF key \in DOMAIN acc.state.toolByKey THEN acc.state ELSE AddTool(acc.state, key)
            p == a.toolByKey[key]
            out == IF key[1] = 3 THEN At(a.pendingArgsByOutputIndex, key[2], 0) ELSE 0
            item == IF key[1] = 2 THEN At(a.pendingArgsByItemID, key[2], 0) ELSE 0
        IN toolDelta([acc EXCEPT !.state =
             [a EXCEPT !.tools[p].args = @ + out + item,
                       !.pendingArgsByOutputIndex = IF key[1] = 3 THEN Without(@, key[2]) ELSE @,
                       !.pendingArgsByItemID = IF key[1] = 2 THEN Without(@, key[2]) ELSE @]], p, 0)
  IN FoldLeft(Flush, step, SetToSortSeq(keys, KeyBefore))

finalizeChat(step, incomplete) ==
  LET flushed == ensureStart(flushAllPendingTools([step EXCEPT !.state.finalized = TRUE]))
      reason == IF incomplete THEN "length" ELSE IF flushed.state.sawToolCall THEN "tool_calls" ELSE "stop"
  IN IF step.state.finalized THEN step
     ELSE Emit(flushed, <<[EmptyChunk EXCEPT !.reason = reason]>>)

ResponsesStreamEventToChatChunks(state, e) ==
  LET step == Step(state, << >>)
  IN CASE e.type = "created" -> ensureStart(step)
       [] e.type = "reasoning" -> reasoningDelta(step, e.n)
       [] e.type = "text" -> textDelta(step, e.n)
       [] e.type = "item" -> toolItem(step, e)
       [] e.type = "args" -> toolArgumentsDelta(step, e)
       [] e.type = "args_done" -> flushPendingTool(step, e)
       [] e.type = "completed" -> finalizeChat(terminalOutputChunks(step, e.output), e.incomplete)
       [] OTHER -> step

FinalizeResponsesToChatStream(state) == finalizeChat(Step(state, << >>), FALSE)
-----------------------------------------------------------------------------
(* The accumulator behind a non-streaming answer: what the stream said, to  *)
(* be used when the terminal response comes without output.                 *)
NewResponsesBufferedAccumulator ==
  [text |-> 0, reasoning |-> 0, tools |-> << >>, outputIndexToToolIdx |-> << >>,
   itemIDToToolIdx |-> << >>, pendingByOutputIndex |-> << >>, pendingByItemID |-> << >>]

findToolIndex(a, e) == At(a.outputIndexToToolIdx, e.out, At(a.itemIDToToolIdx, e.item, 0))

ensureTool(a, e) ==
  LET i == Len(a.tools) + 1
      waiting == At(a.pendingByOutputIndex, e.out, 0) + At(a.pendingByItemID, e.item, 0)
      p == findToolIndex(a, e)
  IN IF p # 0 THEN [a EXCEPT !.tools[p].tool = IF e.tool = 0 THEN @ ELSE e.tool]
     ELSE [a EXCEPT !.tools = Append(@, OutputEntry("tool", e.item, e.tool, waiting)),
                    !.outputIndexToToolIdx = IF e.out = NoIndex THEN @ ELSE (e.out :> i) @@ @,
                    !.itemIDToToolIdx = IF e.item = 0 THEN @ ELSE (e.item :> i) @@ @,
                    !.pendingByOutputIndex = Without(@, e.out), !.pendingByItemID = Without(@, e.item)]

ProcessEvent(a, e) ==
  LET p == findToolIndex(a, e)
      item == ensureTool(a, e)
  IN CASE e.type = "text" -> [a EXCEPT !.text = @ + e.n]
       [] e.type = "reasoning" -> [a EXCEPT !.reasoning = @ + e.n]
       [] e.type = "item" ->
            IF e.n = 0 THEN item ELSE [item EXCEPT !.tools[findToolIndex(item, e)].n = e.n]
       [] e.type = "args" ->
            IF p # 0 THEN [a EXCEPT !.tools[p].n = @ + e.n]
            ELSE IF e.out # NoIndex
                 THEN [a EXCEPT !.pendingByOutputIndex = (e.out :> (At(@, e.out, 0) + e.n)) @@ @]
            ELSE IF e.item # 0
                 THEN [a EXCEPT !.pendingByItemID = (e.item :> (At(@, e.item, 0) + e.n)) @@ @]
            ELSE a
       [] OTHER -> a

BuildOutput(a) ==
  (IF a.reasoning > 0 THEN <<OutputEntry("reasoning", 0, 0, a.reasoning)>> ELSE << >>)
  \o (IF a.text > 0 THEN <<OutputEntry("message", 0, 0, a.text)>> ELSE << >>) \o a.tools

SupplementResponseOutput(a, output) == IF output # << >> THEN output ELSE BuildOutput(a)
-----------------------------------------------------------------------------
(* Chat chunks to Responses events.  Text and reasoning have one output     *)
(* item each, every chat tool index has one; indexes are handed out in the  *)
(* order in which the items start.                                          *)
NewChatToResponsesStreamState ==
  [sentCreated |-> FALSE, finalized |-> FALSE, incomplete |-> FALSE, nextOutputIndex |-> 0,
   items |-> << >>, toolsByIndex |-> << >>, text |-> NoIndex, reasoning |-> NoIndex]
OutputItem(kind, tool) == [kind |-> kind, tool |-> tool, n |-> 0, done |-> FALSE]

\* A delta for the item at output index i, which is added first if it is new.
AppendDelta(step, i, kind, tool, n) ==
  LET s == step.state
      new == i = s.nextOutputIndex
      added == IF ~new THEN step
               ELSE Step([s EXCEPT !.nextOutputIndex = @ + 1, !.items = Append(@, OutputItem(kind, tool))],
                         Append(step.events, Event("item_added", i, kind, tool, 0)))
      named == [added EXCEPT !.state.items[i + 1] =
                  [@ EXCEPT !.n = @ + n, !.tool = IF tool = NoTool THEN @ ELSE tool]]
  IN IF n = 0 THEN named ELSE Emit(named, <<Event("delta", i, kind, NoTool, n)>>)

appendTextDelta(step, n) ==
  LET i == IF step.state.text = NoIndex THEN step.state.nextOutputIndex ELSE step.state.text
  IN AppendDelta([step EXCEPT !.state.text = i], i, "message", NoTool, n)

appendReasoningDelta(step, n) ==
  LET i == IF step.state.reasoning = NoIndex THEN step.state.nextOutputIndex ELSE step.state.reasoning
  IN AppendDelta([step EXCEPT !.state.reasoning = i], i, "reasoning", NoTool, n)

appendToolCallDelta(step, call) ==
  LET i == At(step.state.toolsByIndex, call.index, step.state.nextOutputIndex)
  IN AppendDelta([step EXCEPT !.state.toolsByIndex = (call.index :> i) @@ @], i, "tool", call.tool, call.args)

\* Text first, then reasoning, then the tools in the order of their chat indexes.
doneDeltaEvents(step) ==
  LET s == step.state
      started == SelectSeq(<<s.text, s.reasoning>>
                             \o [k \in 1..Cardinality(DOMAIN s.toolsByIndex) |->
                                   s.toolsByIndex[SetToSortSeq(DOMAIN s.toolsByIndex, <)[k]]],
                           LAMBDA i : i # NoIndex)
      Finish(acc, i) ==
        LET item == acc.state.items[i + 1]
        IN IF item.done THEN acc
           ELSE Emit([acc EXCEPT !.state.items[i + 1].done = TRUE],
                     <<Event("delta_done", i, item.kind, NoTool, 0),
                       Event("item_done", i, item.kind, item.tool, item.n)>>)
  IN FoldLeft(Finish, step, started)

ChatCompletionsStreamChunkToResponsesEvents(state, c) ==
  LET created == IF state.sentCreated THEN Step(state, << >>)
                 ELSE Step([state EXCEPT !.sentCreated = TRUE], <<Event("created", 0, "", NoTool, 0)>>)
      think == IF c.think = 0 THEN created ELSE appendReasoningDelta(created, c.think)
      text == IF c.text = 0 THEN think ELSE appendTextDelta(think, c.text)
      tools == FoldLeft(appendToolCallDelta, text, c.tools)
  IN IF ~c.choices THEN created
     ELSE IF c.reason = "" THEN tools
     ELSE doneDeltaEvents([tools EXCEPT !.state.incomplete = c.reason \in {"length", "content_filter"}])

\* The terminal event carries every item, in the order of its output index.
FinalizeChatCompletionsStreamToResponses(state) ==
  LET closed == doneDeltaEvents(Step(state, << >>))
      output == [i \in DOMAIN closed.state.items |->
                   OutputEntry(closed.state.items[i].kind, 0, closed.state.items[i].tool, closed.state.items[i].n)]
  IN IF state.finalized THEN Step(state, << >>)
     ELSE Emit([closed EXCEPT !.state.finalized = TRUE],
               <<[type |-> "completed", incomplete |-> state.incomplete, output |-> output]>>)
=============================================================================
