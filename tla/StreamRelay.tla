----------------------------- MODULE StreamRelay -----------------------------
(***************************************************************************)
(* One streamed answer on its way through the relay: an upstream of one    *)
(* format speaks, the handler of its channel converts what it says, and a  *)
(* client of another format listens.  The handlers are those of            *)
(* relay/channel/openai (native chat, chat by way of Responses and the     *)
(* reverse), relay/channel/gemini and relay/channel/claude.  They see the  *)
(* upstream's lines in order and one at a time (module StreamScanner), so  *)
(* an action here is one call of the data handler, or its end.             *)
(***************************************************************************)
EXTENDS ResponsesStream

CONSTANTS
  Pipelines,    \* the pairs <<upstream format, client format>> to consider
  MaxPieces,    \* how many pieces of content the upstream says
  MaxTools,     \* how many tools it calls
  Faults,       \* the faults it may meet: "malformed", "failed", "cut"
  Quirks        \* upstream habits that the converters do not carry, see InEnvelope

ASSUME StreamRelayAssumption ==
  /\ MaxPieces \in Nat /\ MaxTools \in Nat
  /\ Faults \subseteq {"malformed", "failed", "cut"}

VARIABLES
  pipe,      \* the pipeline of this request
  options,   \* what the client, the channel and the upstream were set to do
  said,      \* what the upstream has said
  conv,      \* the handler's converters and its other variables
  client,    \* what the client has understood, by its format's rules
  answer     \* "open", or how the handler returned: "ok" or "error"
streamVars == <<pipe, options, said, conv, client, answer>>

Upstream == pipe[1]
Client == pipe[2]

\* What the clients have heard.
NewChatClient == [think |-> 0, text |-> 0, tools |-> << >>, section |-> FALSE,
                  finished |-> FALSE, usage |-> FALSE, done |-> FALSE, bad |-> FALSE]
NewResponsesClient == [phase |-> "new", items |-> << >>, bad |-> FALSE]
NewClient == [chat |-> NewChatClient, claude |-> NewClaudeClient, responses |-> NewResponsesClient]

(* The rules of a chat stream: content before the finish reason, a tool     *)
(* named once, usage once, nothing after [DONE].                            *)
ChatEvent(heard, c) ==
  LET content == c.choices /\ (c.think > 0 \/ c.text > 0 \/ c.tools # << >>)
      Call(tools, call) ==
        (call.index :> [tool |-> IF call.tool = NoTool THEN At(tools, call.index, [tool |-> NoTool]).tool ELSE call.tool,
                        args |-> At(tools, call.index, [args |-> 0]).args + call.args]) @@ tools
      renamed == \E k \in DOMAIN c.tools : c.tools[k].tool # NoTool
                   /\ At(heard.tools, c.tools[k].index, [tool |-> NoTool]).tool # NoTool
      section == IF c.tag = "open" THEN TRUE ELSE IF c.tag = "close" THEN FALSE ELSE heard.section
  IN [heard EXCEPT !.think = @ + c.think + (IF section THEN c.text ELSE 0),
                   !.text = @ + (IF section THEN 0 ELSE c.text),
                   !.tools = FoldLeft(Call, @, c.tools),
                   !.section = section,
                   !.finished = @ \/ c.reason # "",
                   !.usage = @ \/ c.usage,
                   !.bad = @ \/ heard.done \/ (content /\ heard.finished) \/ renamed \/ (c.usage /\ heard.usage)]

(* The rules of a Responses stream: created once; per output index the item *)
(* is added, its deltas follow, it is done with what they summed up to; the *)
(* terminal event comes when every item is done and repeats them.           *)
ResponsesHears(heard, e) ==
  LET known == e.type \notin {"created", "completed"} /\ e.index + 1 \in DOMAIN heard.items
      item == heard.items[e.index + 1]
      running == heard.phase = "running"
  IN CASE e.type = "created" /\ heard.phase = "new" -> [heard EXCEPT !.phase = "running"]
       [] e.type = "item_added" /\ running /\ e.index = Len(heard.items) ->
            [heard EXCEPT !.items = Append(@, OutputItem(e.kind, e.tool))]
       [] e.type = "delta" /\ running /\ known /\ ~item.done /\ item.kind = e.kind ->
            [heard EXCEPT !.items[e.index + 1].n = @ + e.n]
       [] e.type = "delta_done" /\ running /\ known /\ ~item.done -> heard
       [] e.type = "item_done" /\ running /\ known /\ ~item.done /\ item.n = e.n ->
            [heard EXCEPT !.items[e.index + 1] = [@ EXCEPT !.done = TRUE, !.tool = e.tool]]
       [] e.type = "completed" /\ running /\ (\A i \in DOMAIN heard.items : heard.items[i].done)
            /\ e.output = [i \in DOMAIN heard.items |->
                             OutputEntry(heard.items[i].kind, 0, heard.items[i].tool, heard.items[i].n)] ->
            [heard EXCEPT !.phase = "ended"]
       [] OTHER -> [heard EXCEPT !.bad = TRUE]
-----------------------------------------------------------------------------
(* The handlers.  A relay state is the handler's variables and what the     *)
(* client heard; the operators below take one and return the next.          *)
NewConv ==
  [claude |-> NewClaudeState, toChat |-> NewResponsesToChatStreamState,
   toResponses |-> NewChatToResponsesStreamState, buffer |-> NewResponsesBufferedAccumulator,
   terminal |-> << >>, last |-> << >>, thinking |-> "none", finishReason |-> "stop", nextTool |-> 0,
   errors |-> FALSE, stopped |-> FALSE, streamErr |-> FALSE]

\* A converter's step: its new state is kept and the client is sent its events.
SendClaude(st, step) ==
  [st EXCEPT !.conv.claude = step.state, !.client.claude = FoldLeft(ClaudeEvent, @, step.events)]
SendResponses(st, step) ==
  [st EXCEPT !.conv.toResponses = step.state, !.client.responses = FoldLeft(ResponsesHears, @, step.events)]

ToClaude(st, c) == SendClaude(st, StreamResponseOpenAI2Claude(st.conv.claude, c))
ToChat(st, c) == [st EXCEPT !.client.chat = ChatEvent(@, c)]
ToResponses(st, c) == SendResponses(st, ChatCompletionsStreamChunkToResponsesEvents(st.conv.toResponses, c))
\* A chunk that the stream registry passes on to the Claude converter is counted first.
Counted(st) == [st EXCEPT !.conv.claude.count = @ + 1]
Done(st) == [st EXCEPT !.client.chat.done = TRUE]
UsageChunk == [EmptyChunk EXCEPT !.choices = FALSE, !.usage = TRUE]

(* Reasoning as text between think tags, for a channel set to do so: the    *)
(* first reasoning opens the tag, the first text after it closes it.        *)
ThinkToContent(st, c) ==
  LET opens == st.conv.thinking = "none" /\ c.think > 0
      closes == c.text > 0 /\ st.conv.thinking = "open"
      closing == IF closes THEN ToChat([st EXCEPT !.conv.thinking = "closed"],
                                      [c EXCEPT !.think = 0, !.text = 0, !.tag = "close"]) ELSE st
      plain == IF c.think > 0 THEN [c EXCEPT !.think = 0, !.text = c.think] ELSE c
  IN IF opens THEN ToChat([st EXCEPT !.conv.thinking = "open"], [c EXCEPT !.think = 0, !.text = c.think, !.tag = "open"])
     ELSE IF ~c.choices THEN ToChat(st, c)
     ELSE ToChat(closing, plain)

sendStreamData(st, c) ==
  IF ~options.thinkToContent THEN ToChat(st, c)
  ELSE IF c.malformed THEN [st EXCEPT !.conv.errors = TRUE]
  ELSE ThinkToContent(st, c)

HandleStreamFormat(st, c) ==
  IF Client = "chat" THEN sendStreamData(Counted(st), c)
  ELSE IF c.malformed THEN [Counted(st) EXCEPT !.conv.errors = TRUE]
  ELSE ToClaude([Counted(st) EXCEPT !.conv.claude.usage = @ \/ c.usage], c)

\* The last chunk, or the one a Gemini handler makes up, with the final usage.
HandleFinalResponse(st, c, containStreamUsage) ==
  IF Client = "chat"
  THEN Done(IF options.includeUsage /\ ~containStreamUsage THEN ToChat(st, UsageChunk) ELSE st)
  ELSE [ToClaude([st EXCEPT !.conv.claude.usage = TRUE], c) EXCEPT !.conv.claude.done = TRUE]

(* The native chat handler formats a chunk when the next one arrives, and   *)
(* the last one when the stream is over.                                    *)
OaiStreamData(st, c) ==
  LET formatted == IF st.conv.last = << >> THEN st ELSE HandleStreamFormat(st, st.conv.last[1])
  IN [formatted EXCEPT !.conv.last = <<c>>, !.conv.errors = @ \/ c.malformed]

OaiStreamEnd(st) ==
  LET last == IF st.conv.last = << >> THEN [EmptyChunk EXCEPT !.malformed = TRUE] ELSE st.conv.last[1]
      shouldSend == ~last.malformed
        /\ (last.usage /\ ~options.includeUsage => last.choices /\ (last.text > 0 \/ last.think > 0))
      sent == IF Client = "chat" /\ shouldSend THEN sendStreamData(st, last) ELSE st
  IN IF Client # "chat" /\ last.malformed THEN st
     ELSE HandleFinalResponse(sent, last, ~last.malformed /\ last.usage)

\* The registry's chain from Responses to chat and, for a Claude client, on to Claude.
ChatChunks(st, step) ==
  FoldLeft(LAMBDA s, c : IF Client = "chat" THEN ToChat(s, c) ELSE ToClaude(Counted(s), c),
           [st EXCEPT !.conv.toChat = step.state], step.events)

OaiResponsesToChatData(st, e) ==
  IF e.type = "malformed" THEN [st EXCEPT !.conv.errors = TRUE]
  ELSE IF e.type = "failed" THEN [st EXCEPT !.conv.streamErr = TRUE, !.conv.stopped = TRUE, !.conv.errors = TRUE]
  ELSE ChatChunks(st, ResponsesStreamEventToChatChunks(st.conv.toChat, e))

ChatFinalized(st) ==
  IF Client = "chat" THEN Done(IF options.includeUsage THEN ToChat(st, UsageChunk) ELSE st)
  ELSE SendClaude(st, FinalizeStreamResponseOpenAI2Claude(st.conv.claude))
OaiResponsesToChatEnd(st) ==
  ChatFinalized(ChatChunks([st EXCEPT !.conv.claude.usage = TRUE], FinalizeResponsesToChatStream(st.conv.toChat)))

(* The buffered handler reads up to the terminal event and answers once,    *)
(* with the terminal response's output or what the accumulator collected.   *)
BufferedData(st, e) ==
  IF e.type \in {"malformed", "failed"}
  THEN [st EXCEPT !.conv.streamErr = TRUE, !.conv.stopped = TRUE]
  ELSE [st EXCEPT !.conv.buffer = ProcessEvent(@, e),
                  !.conv.terminal = IF e.type = "completed" THEN e.output ELSE @,
                  !.conv.stopped = e.type = "completed"]

\* ResponsesResponseToChatCompletionsResponse: nameless tools are left out, and
\* text that no message has is taken from any content, reasoning included.
BufferedEnd(st) ==
  LET output == SupplementResponseOutput(st.conv.buffer, st.conv.terminal)
      Of(kind) == SelectSeq(output, LAMBDA out : out.kind = kind /\ (kind = "tool" => out.tool # NoTool))
      Total(seq) == FoldLeft(LAMBDA n, out : n + out.n, 0, seq)
      think == Total(Of("reasoning"))
      text == IF Total(Of("message")) > 0 THEN Total(Of("message")) ELSE think
      calls == [k \in DOMAIN Of("tool") |-> ToolCall(k - 1, Of("tool")[k].tool, Of("tool")[k].n)]
  IN Done(ToChat(st, [EmptyChunk EXCEPT !.think = think, !.text = text, !.tools = calls, !.reason = "stop"]))

OaiChatToResponsesData(st, c) ==
  IF c.failed THEN [st EXCEPT !.conv.streamErr = TRUE, !.conv.stopped = TRUE, !.conv.errors = TRUE]
  ELSE IF c.malformed THEN [st EXCEPT !.conv.errors = TRUE] ELSE ToResponses(st, c)

FinalizeToResponses(st) == SendResponses(st, FinalizeChatCompletionsStreamToResponses(st.conv.toResponses))

(* Gemini: whole function calls, several in a response; STOP is taken out   *)
(* of the chunk and sent as a chunk of its own, except to Claude clients.   *)
StreamResponseGeminiChat2OpenAI(g) ==
  LET thought == g.think > 0
  IN [EmptyChunk EXCEPT
        !.think = IF thought THEN g.think + g.text ELSE 0,
        !.text = IF thought THEN 0 ELSE g.text,
        !.tools = g.tools,
        !.reason = IF g.tools # << >> THEN "tool_calls"
                   ELSE IF g.reason \in {"", "STOP"} THEN "" ELSE "length"]

\* Tool calls are numbered over the whole stream.
Renumbered(st, c) == [c EXCEPT !.tools = [k \in DOMAIN @ |-> [@[k] EXCEPT !.index = st.conv.nextTool + k - 1]]]
StopResponse(st) == [EmptyChunk EXCEPT !.reason = st.conv.finishReason]

\* The first response is sent in two chunks: the names of its calls, then the rest.
GeminiChunks(st, c) ==
  IF st.conv.claude.count > 0 THEN <<c>>
  ELSE <<[EmptyChunk EXCEPT !.tools = [k \in DOMAIN c.tools |-> [c.tools[k] EXCEPT !.args = 0]]],
         IF c.tools = << >> THEN c
         ELSE [c EXCEPT !.tools = [k \in DOMAIN @ |-> [@[k] EXCEPT !.tool = NoTool]], !.reason = ""]>>

GeminiNoted(st, c) ==
  [st EXCEPT !.conv.nextTool = @ + Len(c.tools),
             !.conv.finishReason = IF c.tools # << >> THEN "tool_calls" ELSE @]

GeminiChatData(st, g) ==
  LET c == Renumbered(st, StreamResponseGeminiChat2OpenAI(g))
      chunk == IF c.tools # << >> /\ Client = "claude" THEN [c EXCEPT !.reason = ""] ELSE c
      noted == GeminiNoted(st, c)
      stop == IF g.reason = "STOP" /\ Client # "claude" THEN <<StopResponse(noted)>> ELSE << >>
  IN IF g.malformed THEN [st EXCEPT !.conv.errors = TRUE, !.conv.stopped = TRUE]
     ELSE FoldLeft(HandleStreamFormat, noted, GeminiChunks(st, chunk) \o stop)

GeminiChatEnd(st) ==
  HandleFinalResponse(st, IF Client = "claude" /\ ~st.conv.claude.done
                          THEN [StopResponse(st) EXCEPT !.usage = TRUE] ELSE UsageChunk, FALSE)

GeminiResponsesData(st, g) ==
  LET c == Renumbered(st, StreamResponseGeminiChat2OpenAI(g))
      noted == GeminiNoted(st, c)
  IN IF g.malformed THEN [st EXCEPT !.conv.errors = TRUE, !.conv.stopped = TRUE]
     ELSE FoldLeft(ToResponses, noted, IF g.reason = "STOP" THEN <<c, StopResponse(noted)>> ELSE <<c>>)

(* Claude to chat: one chunk per event, none for the end of a block or of   *)
(* the message; a tool's chat index is its block's index.                   *)
StreamResponseClaude2OpenAI(e) ==
  LET start == e.type = "content_block_start"
      delta == e.type = "content_block_delta"
  IN [EmptyChunk EXCEPT
        !.tools = IF e.kind = "tool_use" /\ (start \/ delta) THEN <<ToolCall(e.index, e.tool, e.n)>> ELSE << >>,
        !.text = IF delta /\ e.kind = "text" THEN e.n ELSE 0,
        !.think = IF delta /\ e.kind = "thinking" THEN e.n ELSE 0,
        !.reason = IF e.type = "message_delta" THEN e.kind ELSE ""]

ClaudeData(st, e) ==
  IF e.type \in {"malformed", "failed"}
  THEN [st EXCEPT !.conv.streamErr = TRUE, !.conv.stopped = TRUE, !.conv.errors = TRUE]
  ELSE IF e.type \in {"content_block_stop", "message_stop"} THEN st
  ELSE ToChat(st, StreamResponseClaude2OpenAI(e))

ClaudeEnd(st) == Done(IF options.includeUsage THEN ToChat(st, UsageChunk) ELSE st)

\* The data handler of the request's channel, and what follows the stream.
Handle(st, e) ==
  IF st.conv.stopped THEN st
  ELSE CASE pipe = <<"chat", "responses">> -> OaiChatToResponsesData(st, e)
         [] Upstream = "chat" /\ Client # "responses" -> OaiStreamData(st, e)
         [] pipe = <<"responses", "buffered">> -> BufferedData(st, e)
         [] Upstream = "responses" /\ Client # "buffered" -> OaiResponsesToChatData(st, e)
         [] pipe = <<"gemini", "responses">> -> GeminiResponsesData(st, e)
         [] Upstream = "gemini" /\ Client # "responses" -> GeminiChatData(st, e)
         [] Upstream = "claude" -> ClaudeData(st, e)

EndHandled(st) ==
  CASE Client = "responses" -> FinalizeToResponses(st)
    [] Client = "buffered" -> BufferedEnd(st)
    [] Upstream = "chat" /\ Client # "responses" -> OaiStreamEnd(st)
    [] Upstream = "responses" /\ Client # "buffered" -> OaiResponsesToChatEnd(st)
    [] Upstream = "gemini" /\ Client # "responses" -> GeminiChatEnd(st)
    [] Upstream = "claude" -> ClaudeEnd(st)

\* The native chat and the Claude handler turn a recorded error into a failure.
StreamFails(st) == st.conv.streamErr
                    \/ (st.conv.errors /\ (Upstream = "claude" \/ (Upstream = "chat" /\ Client # "responses")))
-----------------------------------------------------------------------------
(* The upstream.  It says pieces of reasoning, text and tool arguments; the *)
(* wire format of its kind decides which lines that makes.                  *)
NothingSaid == [think |-> 0, text |-> 0, tools |-> << >>, pieces |-> 0, lines |-> 0, blocks |-> 0, open |-> "", turn |-> "none",
                started |-> FALSE, finished |-> FALSE, usage |-> FALSE, fault |-> FALSE]
ToolSaid(args, announced) == [args |-> args, announced |-> announced, done |-> FALSE, left |-> FALSE]

ChatLine(act) ==
  CASE act.say = "start" -> <<EmptyChunk>>
    [] act.say = "think" -> <<[EmptyChunk EXCEPT !.think = 1]>>
    [] act.say = "text" -> <<[EmptyChunk EXCEPT !.text = 1]>>
    [] act.say = "tool" -> <<[EmptyChunk EXCEPT !.tools = <<ToolCall(act.tool - 1, act.tool, act.n)>>]>>
    [] act.say = "args" -> <<[EmptyChunk EXCEPT !.tools = <<ToolCall(act.tool - 1, NoTool, 1)>>]>>
    [] act.say = "finish" -> <<[EmptyChunk EXCEPT !.reason = act.reason, !.usage = act.n = 1]>>
    [] act.say = "usage" -> <<UsageChunk>>
    [] act.say = "failed" -> <<[EmptyChunk EXCEPT !.failed = TRUE]>>
    [] OTHER -> <<[EmptyChunk EXCEPT !.malformed = TRUE]>>

\* Tool t is output item t; its events carry the addresses this upstream gives.
ToolLine(type, t, name, n) ==
  ResponsesEvent(type, IF options.address = "item" THEN NoIndex ELSE t,
                 IF options.address = "index" THEN 0 ELSE t, name, n)
SaidOutput ==
  (IF said.think > 0 THEN <<OutputEntry("reasoning", 0, 0, said.think)>> ELSE << >>)
  \o (IF said.text > 0 THEN <<OutputEntry("message", 0, 0, said.text)>> ELSE << >>)
  \o [t \in DOMAIN said.tools |-> OutputEntry("tool", IF options.address = "index" THEN 0 ELSE t, t, said.tools[t].args)]
ResponsesLine(act) ==
  CASE act.say = "start" -> <<ResponsesEvent("created", NoIndex, 0, 0, 0)>>
    [] act.say = "think" -> <<ResponsesEvent("reasoning", NoIndex, 0, 0, 1)>>
    [] act.say = "text" -> <<ResponsesEvent("text", NoIndex, 0, 0, 1)>>
    [] act.say = "tool" -> IF act.n = 1 THEN <<ToolLine("args", act.tool, 0, 1)>>
                           ELSE <<ToolLine("item", act.tool, act.tool, 0)>>
    [] act.say = "announce" -> <<ToolLine("item", act.tool, act.tool, 0)>>
    [] act.say = "args" -> <<ToolLine("args", act.tool, 0, 1)>>
    [] act.say = "tool_done" -> <<ToolLine("args_done", act.tool, 0, 0),
                                  ToolLine("item", act.tool, act.tool, said.tools[act.tool].args)>>
    [] act.say = "finish" -> <<TerminalEvent(act.reason = "length", IF options.output THEN SaidOutput ELSE << >>)>>
    [] OTHER -> <<ResponsesEvent(act.say, NoIndex, 0, 0, 0)>>

GeminiResponse == [think |-> 0, text |-> 0, tools |-> << >>, reason |-> "", malformed |-> FALSE]
GeminiLine(act) ==
  CASE act.say = "think" -> <<[GeminiResponse EXCEPT !.think = 1]>>
    [] act.say = "text" -> <<[GeminiResponse EXCEPT !.text = 1]>>
    [] act.say = "tool" -> <<[GeminiResponse EXCEPT !.tools = <<ToolCall(0, act.tool, 1)>>]>>
    [] act.say = "finish" -> <<[GeminiResponse EXCEPT !.reason = IF act.reason = "stop" THEN "STOP" ELSE "MAX_TOKENS"]>>
    [] OTHER -> <<[GeminiResponse EXCEPT !.malformed = TRUE]>>

\* A piece of the open block's kind continues it; any other opens the next block.
ClaudeLine(act) ==
  LET kind == IF act.say = "think" THEN "thinking" ELSE IF act.say = "text" THEN "text" ELSE "tool_use"
      same == said.open = kind /\ act.say # "tool"
      stop == IF said.open = "" THEN << >> ELSE <<generateStopBlock(said.blocks - 1)>>
      index == IF same THEN said.blocks - 1 ELSE said.blocks
      start == IF same THEN << >> ELSE stop \o <<BlockStart(index, kind, act.tool)>>
  IN CASE act.say = "start" -> <<MessageStart>>
       [] act.say = "tool" -> start
       [] act.say \in {"think", "text", "args"} -> start \o <<BlockDelta(index, kind, 1)>>
       [] act.say = "finish" -> stop \o <<Event("message_delta", 0, act.reason, NoTool, 0), Event("message_stop", 0, "", NoTool, 0)>>
       [] OTHER -> <<Event(act.say, 0, "", NoTool, 0)>>

Lines(act) ==
  CASE Upstream = "chat" -> ChatLine(act)
    [] Upstream = "responses" -> ResponsesLine(act)
    [] Upstream = "gemini" -> GeminiLine(act)
    [] Upstream = "claude" -> ClaudeLine(act)

\* What an upstream of this kind can say next.
Act(say, tool, n, reason) == [say |-> say, tool |-> tool, n |-> n, reason |-> reason]
Acts ==
  {Act("start", 0, 0, "")}
  \union {Act(say, 0, 0, "") : say \in {"think", "text", "usage"}}
  \union {Act("tool", Len(said.tools) + 1, n, "") : n \in {0, 1}}
  \union {Act(say, t, 0, "") : say \in {"args", "announce", "tool_done"}, t \in DOMAIN said.tools}
  \union {Act("finish", 0, n, reason) : n \in {0, 1}, reason \in {"stop", "length"}}

CanSay(act) ==
  /\ act.say = "start" <=> (~said.started /\ Upstream # "gemini")
  /\ act.say \in {"think", "text", "tool", "args"} => ~said.finished /\ said.pieces < MaxPieces
  /\ act.say = "tool" => Len(said.tools) < MaxTools /\ (Upstream = "gemini" => act.n = 1) /\ (Upstream = "claude" => act.n = 0)
  /\ act.say = "args" => /\ Upstream # "gemini"
                         /\ ~said.tools[act.tool].done
                         /\ Upstream = "claude" => said.open = "tool_use" /\ act.tool = Len(said.tools)
  /\ act.say \in {"announce", "tool_done"} => Upstream = "responses" /\ ~said.finished /\ ~said.tools[act.tool].done
  /\ act.say = "announce" => ~said.tools[act.tool].announced
  /\ act.say = "finish" => ~said.finished /\ (act.n = 1 => Upstream = "chat")
                           /\ (Upstream = "responses" => \A t \in DOMAIN said.tools : said.tools[t].done)
  /\ act.say = "usage" => Upstream = "chat" /\ said.finished /\ ~said.usage

(* The converters do not carry everything an upstream may say.  A quirk     *)
(* that is not in Quirks is not said:                                       *)
(*  "interleaved": more arguments of a tool call that text or reasoning     *)
(*    followed, for Claude clients; anything after a call from Gemini, for  *)
(*    chat and Responses clients, since its handlers finish with each call; *)
(*  "unannounced": a tool's end before its item, for Claude clients;        *)
(*  "rethinking": reasoning after text where it becomes tagged text;        *)
(*  "usage_in_finish": usage in the finish chunk, for chat clients that did *)
(*    not ask for it.                                                       *)
InEnvelope(act) ==
  /\ "interleaved" \notin Quirks /\ said.tools # << >> =>
       /\ Client = "claude" /\ act.say = "args" => ~said.tools[act.tool].left
       /\ Client # "claude" /\ Upstream = "gemini" => act.say \notin {"think", "text", "tool"}
  /\ "unannounced" \notin Quirks /\ Client = "claude" /\ act.say = "tool_done" => said.tools[act.tool].announced
  /\ "rethinking" \notin Quirks /\ options.thinkToContent /\ act.say = "think" => said.text = 0
  /\ "usage_in_finish" \notin Quirks /\ act.say = "finish" /\ act.n = 1 /\ Client = "chat" => options.includeUsage

(* Nor does it end, for a Claude client, between a tool's arguments and its *)
(* item ("unannounced").                                                    *)
EndsInEnvelope ==
  Client = "claude" /\ "unannounced" \notin Quirks => \A t \in DOMAIN said.tools : said.tools[t].announced

NowSaid(act) ==
  LET tool == act.tool
      kind == IF act.say = "think" THEN "thinking" ELSE IF act.say = "text" THEN "text" ELSE "tool_use"
      content == act.say \in {"think", "text", "tool", "args"}
      opens == content /\ (act.say = "tool" \/ said.open # kind)
  IN [said EXCEPT
        !.started = TRUE,
        !.think = IF act.say = "think" THEN @ + 1 ELSE @,
        !.text = IF act.say = "text" THEN @ + 1 ELSE @,
        !.tools = CASE act.say \in {"think", "text"} -> [t \in DOMAIN @ |-> [@[t] EXCEPT !.left = TRUE]]
                    [] act.say = "tool" -> Append(@, ToolSaid(act.n, Upstream # "responses" \/ act.n = 0))
                    [] act.say = "args" -> [@ EXCEPT ![tool].args = @ + 1]
                    [] act.say = "announce" -> [@ EXCEPT ![tool].announced = TRUE]
                    [] act.say = "tool_done" -> [@ EXCEPT ![tool].announced = TRUE, ![tool].done = TRUE]
                    [] OTHER -> @,
        !.pieces = IF content THEN @ + 1 ELSE @,
        !.lines = IF @ < 3 THEN @ + 1 ELSE @,
        !.blocks = IF opens THEN @ + 1 ELSE @,
        !.turn = IF act.say \in {"think", "text"} /\ @ = "tools" THEN "after"
                 ELSE IF act.say = "tool" /\ @ = "none" THEN "tools"
                 ELSE IF tool # 0 /\ @ = "after" THEN "again" ELSE @,
        !.open = IF content THEN kind ELSE IF act.say = "finish" THEN "" ELSE @,
        !.finished = @ \/ act.say = "finish",
        !.usage = @ \/ act.say = "usage" \/ (act.say = "finish" /\ act.n = 1)]
-----------------------------------------------------------------------------
Options == [thinkToContent : BOOLEAN, includeUsage : BOOLEAN, address : {"both", "index", "item"}, output : BOOLEAN]

StreamInit ==
  /\ pipe \in Pipelines
  /\ options \in {o \in Options :
       /\ o.thinkToContent => Upstream \in {"chat", "gemini"} /\ Client = "chat"
       /\ o.includeUsage => Client = "chat"
       /\ Upstream # "responses" => o.address = "both" /\ o.output}
  /\ said = NothingSaid
  /\ conv = NewConv
  /\ client = NewClient
  /\ answer = "open"

Becomes(st) == conv' = st.conv /\ client' = st.client
Hear(lines) == Becomes(FoldLeft(Handle, [conv |-> conv, client |-> client], lines))

\* The upstream says something and the data handler takes its lines.
Say(act) ==
  /\ answer = "open" /\ CanSay(act) /\ InEnvelope(act)
  /\ said' = NowSaid(act)
  /\ Hear(Lines(act))
  /\ UNCHANGED <<pipe, options, answer>>

\* A line that is not JSON, or an error event in the stream.
Fault(kind) ==
  /\ kind \in Faults /\ answer = "open" /\ said.started /\ ~said.finished /\ ~said.fault
  /\ kind = "failed" => Upstream \in {"responses", "claude"} \/ pipe = <<"chat", "responses">>
  /\ said' = [said EXCEPT !.fault = TRUE]
  /\ Hear(Lines(Act(kind, 0, 0, "")))
  /\ UNCHANGED <<pipe, options, answer>>

\* The stream is over, or cut off, and the handler returns.
End ==
  LET fails == StreamFails([conv |-> conv])
  IN /\ answer = "open" /\ said.pieces > 0
     /\ said.finished \/ conv.stopped \/ "cut" \in Faults
     /\ EndsInEnvelope
     /\ answer' = IF fails THEN "error" ELSE "ok"
     /\ IF fails THEN UNCHANGED <<conv, client>> ELSE Becomes(EndHandled([conv |-> conv, client |-> client]))
     /\ UNCHANGED <<pipe, options, said>>

StreamNext == (\E act \in Acts : Say(act)) \/ (\E kind \in Faults : Fault(kind)) \/ End

StreamSpec == StreamInit /\ [][StreamNext]_streamVars
-----------------------------------------------------------------------------
(* What the client heard: reasoning, text, and its tool calls with their    *)
(* arguments, one entry for each block, item or index it was given.         *)
Total(blocks, kind) == FoldLeft(LAMBDA n, b : IF b.kind = kind THEN n + b.n ELSE n, 0, blocks)
Calls(blocks, kind) == {<<k, blocks[k].tool, blocks[k].n>> : k \in {j \in DOMAIN blocks : blocks[j].kind = kind}}
Heard ==
  LET chat == client.chat
      claude == client.claude.blocks
      items == client.responses.items
  IN CASE Client \in {"chat", "buffered"} ->
            [think |-> chat.think, text |-> chat.text,
             calls |-> {<<i, chat.tools[i].tool, chat.tools[i].args>> : i \in DOMAIN chat.tools}]
       [] Client = "claude" ->
            [think |-> Total(claude, "thinking"), text |-> Total(claude, "text"), calls |-> Calls(claude, "tool_use")]
       [] Client = "responses" ->
            [think |-> Total(items, "reasoning"), text |-> Total(items, "message"), calls |-> Calls(items, "tool")]

HeardAsSaid ==
  /\ Heard.think = said.think
  /\ Heard.text = said.text \/ (Client = "buffered" /\ said.text = 0 /\ Heard.text = said.think)
  /\ Cardinality(Heard.calls) = Len(said.tools)
  /\ \A t \in DOMAIN said.tools : \E call \in Heard.calls : call[2] = t /\ call[3] = said.tools[t].args

(* Every piece the upstream said reaches the client once: arguments that    *)
(* come before their tool are neither lost nor sent twice, and the terminal *)
(* response repeats nothing that was streamed.                              *)
AnswerComplete ==
  (answer = "ok" /\ ~conv.errors /\ \A t \in DOMAIN said.tools : said.tools[t].announced) => HeardAsSaid

(* Whether the answer of a stream that was called good is closed: by the    *)
(* finalizers of the converters and the Gemini handler wherever the         *)
(* upstream stops, and by the native chat handler when its stream has all   *)
(* its parts.  That handler gives a Claude client the closing events only   *)
(* with usage; a chat client always gets [DONE], but the finish reason only *)
(* from the upstream.                                                       *)
ClientClosed ==
  CASE Client \in {"chat", "buffered"} -> client.chat.done /\ (said.finished \/ Upstream = "responses" => client.chat.finished)
    [] Client = "claude" -> client.claude.phase = "ended" \/ (Upstream = "chat" /\ (~said.finished \/ ~said.usage))
    [] Client = "responses" -> client.responses.phase = "ended"

\* A native chat stream that ended with its second chunk, for a Claude client.
ShortNative == pipe = <<"chat", "claude">> /\ said.lines < 3 /\ answer = "ok"

(* The client can parse what it is sent: at every moment the events follow  *)
(* the rules of its format, whatever the upstream's format, its way of      *)
(* naming tools, the order in which it mixes reasoning, text and tools, and *)
(* the point at which it stops; and an answer that is called good is        *)
(* closed.  A Claude client's rules are broken in two cases: it is sent     *)
(* stops of blocks that were never started when tools are called again      *)
(* after text that followed a tool, for stopOpenBlocks counts the new tools *)
(* from the first of the stream; and the native handler, which counts no    *)
(* chunk for the last one, starts the message again when there are two.     *)
StreamWellFormed ==
  (~conv.errors /\ ~ShortNative) =>
    /\ ~client.chat.bad /\ ~client.claude.bad /\ ~client.responses.bad
    /\ client.claude.stray > 0 => said.turn = "again"
    /\ answer = "ok" => ClientClosed

(* Not kept by the code, see the README.                                    *)
(* An error that was recorded while the stream was read fails the attempt,  *)
(* as the native handler's comment has it: "A scanner/adapter error is a    *)
(* failed upstream attempt even when the scanner reached EOF".              *)
ErrorIsFailure == (conv.errors /\ answer # "open") => answer = "error"

(* Not kept by the code, see the README.                                    *)
(* A good answer leaves no block of a Claude client open.                   *)
ClaudeBlocksClosed == (answer = "ok" /\ ~conv.errors /\ Client = "claude") => client.claude.open = {}
=============================================================================
