----------------------------- MODULE ClaudeStream -----------------------------
(***************************************************************************)
(* Chat completion chunks turned into the events of an Anthropic stream    *)
(* (relaykit/relayconvert/internal/oai_chat/to_claude_messages_resp.go).   *)
(* The converter is a state machine over one stream: which content block   *)
(* is open, at which index, and whether the closing events were sent.      *)
(* Text, reasoning and tool arguments are counted in pieces; a piece is    *)
(* never split or merged.                                                  *)
(***************************************************************************)
EXTENDS Integers, Sequences, SequencesExt, FiniteSets

\* Tools are numbers; a chunk that does not name its tool call carries none.
NoTool == 0

(* A chunk of the chat format: pieces of reasoning and of text, the tool    *)
(* calls it mentions, a finish reason ("" is absent) and whether it carries *)
(* usage.  Without choices it is the usage-only chunk.  The tag is a <think> *)
(* or </think> written into the text; a malformed chunk is not JSON, and a   *)
(* failed one is an error object.                                           *)
EmptyChunk == [choices |-> TRUE, think |-> 0, text |-> 0, tools |-> << >>,
               reason |-> "", usage |-> FALSE, tag |-> "", malformed |-> FALSE, failed |-> FALSE]
ToolCall(index, tool, args) == [index |-> index, tool |-> tool, args |-> args]

\* ClaudeConvertInfo, with the count of chunks converted so far.
NewClaudeState ==
  [done |-> FALSE, last |-> "none", index |-> 0, base |-> 0, off |-> 0,
   reason |-> "", usage |-> FALSE, count |-> 0]

Event(type, index, kind, tool, n) ==
  [type |-> type, index |-> index, kind |-> kind, tool |-> tool, n |-> n]
MessageStart == Event("message_start", 0, "", NoTool, 0)
BlockStart(index, kind, tool) == Event("content_block_start", index, kind, tool, 0)
BlockDelta(index, kind, n) == Event("content_block_delta", index, kind, NoTool, n)
generateStopBlock(index) == Event("content_block_stop", index, "", NoTool, 0)

\* What a conversion step returns: the new state and the events it emits.
Step(state, events) == [state |-> state, events |-> events]
Emit(step, events) == [step EXCEPT !.events = @ \o events]

(* One stop for the open text or thinking block; for tools, one for every   *)
(* offset up to the largest seen.                                           *)
stopOpenBlocks(s) ==
  CASE s.last \in {"text", "thinking"} -> <<generateStopBlock(s.index)>>
    [] s.last = "tools" -> [i \in 1..(s.off + 1) |-> generateStopBlock(s.base + i - 1)]
    [] OTHER -> << >>

\* Mutated: after several tools the next block takes the index of the second.
MutstopOpenBlocksAndAdvance(step) ==
  LET s == step.state
      next == IF s.last = "tools" THEN s.base + 1 ELSE s.index + 1
  IN IF s.last = "none" THEN step
     ELSE Step([s EXCEPT !.index = next, !.last = "none", !.base = 0, !.off = 0], step.events \o stopOpenBlocks(s))
stopOpenBlocksAndAdvance(step) ==
  LET s == step.state
      next == IF s.last = "tools" THEN s.base + s.off + 1 ELSE s.index + 1
  IN IF s.last = "none" THEN step
     ELSE Step([s EXCEPT !.index = next, !.last = "none",
                         !.base = IF s.last = "tools" THEN 0 ELSE @,
                         !.off = IF s.last = "tools" THEN 0 ELSE @],
               step.events \o stopOpenBlocks(s))

\* message_delta and message_stop; the state is done.
Closed(step) ==
  Step([step.state EXCEPT !.done = TRUE],
       step.events \o stopOpenBlocks(step.state)
         \o <<Event("message_delta", 0, step.state.reason, NoTool, 0),
              Event("message_stop", 0, "", NoTool, 0)>>)

(* The first chunk opens the message.  Of its tool calls only the first is  *)
(* taken, at index 0; reasoning wins over text; a block is opened whatever  *)
(* is open.                                                                 *)
FirstContent(step, kind, n) ==
  LET s == IF step.state.last = kind THEN step ELSE stopOpenBlocksAndAdvance(step)
      i == s.state.index
  IN Step([s.state EXCEPT !.last = kind],
          s.events \o <<BlockStart(i, kind, NoTool), BlockDelta(i, kind, n)>>)

FirstChunk(state, c) ==
  LET started == Step(state, <<MessageStart>>)
      tool == c.tools[1]
      tools == IF c.choices /\ c.tools # << >>
               THEN Step([state EXCEPT !.last = "tools", !.base = 0, !.off = 0],
                         started.events \o <<BlockStart(0, "tool_use", tool.tool)>>
                           \o IF tool.args > 0 THEN <<BlockDelta(0, "tool_use", tool.args)>> ELSE << >>)
               ELSE started
      body == IF c.choices /\ c.think > 0 THEN FirstContent(tools, "thinking", c.think)
              ELSE IF c.choices /\ c.text > 0 THEN FirstContent(tools, "text", c.text)
              ELSE tools
      finished == [body EXCEPT !.state.reason = c.reason]
  IN IF ~c.choices \/ c.reason = "" THEN body
     ELSE IF c.usage \/ state.usage THEN Closed(finished) ELSE finished

\* A chunk with tool calls: a block is opened by a name, at base plus offset.
ToolDelta(step, call) ==
  LET s == step.state
      i == s.base + call.index
      opened == IF call.tool # NoTool THEN <<BlockStart(i, "tool_use", call.tool)>> ELSE << >>
      args == IF call.args > 0 THEN <<BlockDelta(i, "tool_use", call.args)>> ELSE << >>
  IN Step([s EXCEPT !.off = IF call.index > @ THEN call.index ELSE @],
          step.events \o opened \o args)

ToolChunk(state, c) ==
  LET entered == IF state.last = "tools" THEN Step(state, << >>)
                 ELSE LET a == stopOpenBlocksAndAdvance(Step(state, << >>))
                      IN [a EXCEPT !.state.base = a.state.index, !.state.off = 0]
      calls == FoldLeft(ToolDelta, [entered EXCEPT !.state.last = "tools"], c.tools)
  IN [calls EXCEPT !.state.index = calls.state.base + calls.state.off]

\* Reasoning or text goes to the open block of its kind, or to a new one.
ContentChunk(state, kind, n) ==
  LET s == IF state.last = kind THEN Step(state, << >>)
           ELSE LET a == stopOpenBlocksAndAdvance(Step(state, << >>))
                IN Emit(a, <<BlockStart(a.state.index, kind, NoTool)>>)
  IN Emit([s EXCEPT !.state.last = kind], <<BlockDelta(s.state.index, kind, n)>>)

(* A finish reason without usage of its own is remembered and the rest of   *)
(* the chunk dropped: closing waits for a usage chunk.                      *)
StreamResponseOpenAI2Claude(state, c) ==
  LET withReason == [state EXCEPT !.reason = c.reason]
      finish == c.reason # ""
      s == IF finish THEN withReason ELSE state
      body == IF c.tools # << >> THEN ToolChunk(s, c)
              ELSE IF c.think > 0 THEN ContentChunk(s, "thinking", c.think)
              ELSE IF c.text > 0 THEN ContentChunk(s, "text", c.text)
              ELSE Step(s, << >>)
  IN IF state.done THEN Step(state, << >>)
     ELSE IF state.count = 1 THEN FirstChunk(state, c)
     ELSE IF ~c.choices
          THEN IF c.usage \/ state.usage THEN Closed(Step(state, << >>)) ELSE Step(state, << >>)
     ELSE IF finish /\ ~c.usage THEN Step(withReason, << >>)
     ELSE IF finish THEN Closed(body)
     ELSE body

FinalizeStreamResponseOpenAI2Claude(state) ==
  IF state.done THEN Step(state, << >>) ELSE Closed(Step(state, << >>))
-----------------------------------------------------------------------------
(* The client's side of the protocol, as the converter's comments state it: *)
(* one message_start; per index start, deltas of the block's kind, stop;    *)
(* one message_delta and one message_stop when every block is closed.  The  *)
(* stops of an index that was never started are counted apart.              *)
NewClaudeClient == [phase |-> "new", blocks |-> << >>, open |-> {}, stray |-> 0, bad |-> FALSE]

ClaudeEvent(client, e) ==
  LET known == {b \in DOMAIN client.blocks : client.blocks[b].index = e.index}
      b == CHOOSE x \in known : TRUE
      running == client.phase = "running"
  IN CASE e.type = "message_start" /\ client.phase = "new" -> [client EXCEPT !.phase = "running"]
       [] e.type = "content_block_start" /\ running /\ known = {} ->
            [client EXCEPT !.blocks = Append(@, [index |-> e.index, kind |-> e.kind, tool |-> e.tool, n |-> 0]),
                           !.open = @ \union {e.index}]
       [] e.type = "content_block_delta" /\ running /\ e.index \in client.open
            /\ client.blocks[b].kind = e.kind -> [client EXCEPT !.blocks[b].n = @ + e.n]
       [] e.type = "content_block_stop" /\ running /\ e.index \in client.open ->
            [client EXCEPT !.open = @ \ {e.index}]
       [] e.type = "content_block_stop" /\ running /\ known = {} -> [client EXCEPT !.stray = @ + 1]
       [] e.type = "message_delta" /\ running /\ client.open = {} -> [client EXCEPT !.phase = "closing"]
       [] e.type = "message_stop" /\ client.phase = "closing" -> [client EXCEPT !.phase = "ended"]
       [] OTHER -> [client EXCEPT !.bad = TRUE]
=============================================================================
