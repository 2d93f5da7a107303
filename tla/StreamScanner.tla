---------------------------- MODULE StreamScanner ----------------------------
(***************************************************************************)
(* StreamScannerHandler (relay/helper/stream_scanner.go): the goroutines   *)
(* that read one upstream stream.  The scanner reads lines from the body   *)
(* and puts data lines into a bounded channel, the data goroutine takes    *)
(* them and calls the adaptor's handler, another goroutine pings the       *)
(* client, and the caller waits for the end, a timeout or the client's     *)
(* leaving, then cleans up and waits for all of them.  How the stream      *)
(* ended is kept in a StreamStatus whose reason is set once.               *)
(***************************************************************************)
EXTENDS Integers, Sequences

CONSTANTS
  Capacity,   \* how many lines dataChan holds, 10 in the code
  MaxLines,   \* bound: how many data lines the upstream sends
  Panics      \* the goroutines that may panic: "scanner", "handler", "ping"

ASSUME StreamScannerAssumption ==
  /\ Capacity \in Nat \ {0} /\ MaxLines \in Nat
  /\ Panics \subseteq {"scanner", "handler", "ping"}

VARIABLES
  wire,     \* the data lines, and [DONE], that the scanner has read
  body,     \* whether the body is open
  scanning, \* where the scanner goroutine is
  queue,    \* dataChan: the lines in it, by position, and whether it is closed
  handling, \* where the data goroutine is
  handled,  \* the lines handed to the adaptor, by position
  quit,     \* how the adaptor left before the channel was drained
  pinging,  \* where the ping goroutine is
  writer,   \* who holds writeMutex
  main,     \* where the caller is
  stopped,  \* whether stopChan is closed
  ctx,      \* whether the context of the goroutines is live
  connected,   \* whether the client is connected
  ticker,   \* whether a line was heard within the timeout, or it is "due"
  status    \* StreamStatus: the end reason and whether an error was recorded;
            \* and RelayInfo's validOutput

scanVars == <<wire, body, scanning, queue, handling, handled, quit,
              pinging, writer, main, stopped, ctx, connected, ticker, status>>

ScanInit ==
  /\ wire = << >> /\ body = "open" /\ scanning = "scan"
  /\ queue = [lines |-> << >>, closed |-> FALSE]
  /\ handling = "wait" /\ handled = << >> /\ quit = "no"
  /\ pinging \in {"idle", "gone"}   \* pings may be turned off
  /\ writer = "nobody" /\ main = "select" /\ stopped = FALSE /\ ctx = TRUE /\ connected = TRUE /\ ticker = "running"
  /\ status = [reason |-> "", errors |-> FALSE, valid |-> FALSE]

\* Only the first reason is kept.
SetEndReason(s, reason) == IF s.reason = "" THEN [s EXCEPT !.reason = reason] ELSE s
IsNormalEnd(s) == s.reason \in {"done", "eof", "handler_stop"}
-----------------------------------------------------------------------------
ClientLeaves ==
  /\ connected /\ main = "select"
  /\ connected' = FALSE
  /\ UNCHANGED <<wire, body, scanning, queue, handling, handled, quit, pinging, writer, main, stopped, ctx, ticker, status>>
-----------------------------------------------------------------------------
(* The scanner goroutine. *)
ScannerStep == UNCHANGED <<body, handling, handled, quit, pinging, writer, main, ctx, connected>>

(* scanner.Scan returns the next line, when the upstream sends one; its     *)
(* buffer may hold one after the body was closed.  A comment, an event name *)
(* or an empty line is "noise" and is passed over.  Any line resets the      *)
(* ticker.                                                                  *)
Scan(line) ==
  LET halted == stopped \/ ~ctx
  IN /\ scanning = "scan" /\ (line # "noise" => Len(wire) < MaxLines)
     /\ wire' = IF line = "noise" THEN wire ELSE Append(wire, line)
     /\ scanning' = IF halted \/ line = "[DONE]" THEN "leave" ELSE IF line = "data" THEN "send" ELSE "scan"
     /\ status' = IF ~halted /\ line = "[DONE]" THEN SetEndReason(status, "done") ELSE status
     /\ ticker' = IF halted THEN ticker ELSE "running"
     /\ UNCHANGED <<queue, stopped>> /\ ScannerStep

\* It returns false: at the end of the body, on an error, or because cleanup closed it.
ScanEnds(error) ==
  /\ scanning = "scan" /\ (body = "closed" => error)
  /\ status' = SetEndReason(status, IF error THEN "scanner_error" ELSE "eof")
  /\ scanning' = "leave"
  /\ UNCHANGED <<wire, queue, stopped, ticker>> /\ ScannerStep

SendData ==
  /\ scanning = "send" /\ Len(queue.lines) < Capacity
  /\ queue' = [queue EXCEPT !.lines = Append(@, Len(wire))]
  /\ scanning' = "scan"
  /\ UNCHANGED <<wire, stopped, ticker, status>> /\ ScannerStep

SendGivesUp ==
  /\ scanning = "send" /\ (stopped \/ ~ctx)
  /\ scanning' = "leave"
  /\ UNCHANGED <<wire, queue, stopped, ticker, status>> /\ ScannerStep

ScannerPanics ==
  /\ "scanner" \in Panics /\ scanning \in {"scan", "send"}
  /\ scanning' = "panic"
  /\ UNCHANGED <<wire, queue, stopped, ticker, status>> /\ ScannerStep

\* The deferred function: close(dataChan), then recover, stop and wg.Done.
CloseData ==
  /\ scanning \in {"leave", "panic"} /\ ~queue.closed
  /\ queue' = [queue EXCEPT !.closed = TRUE]
  /\ UNCHANGED <<wire, scanning, stopped, ticker, status>> /\ ScannerStep

ScannerLeaves ==
  /\ scanning \in {"leave", "panic"} /\ queue.closed
  /\ status' = IF scanning = "panic" THEN SetEndReason(status, "panic") ELSE status
  /\ stopped' = TRUE /\ scanning' = "gone"
  /\ UNCHANGED <<wire, queue, ticker>> /\ ScannerStep
-----------------------------------------------------------------------------
(* The data goroutine. *)
HandlerStep == UNCHANGED <<wire, body, scanning, pinging, main, ctx, connected, ticker>>

TakeData ==
  /\ handling = "wait" /\ queue.lines # << >>
  /\ handled' = Append(handled, Head(queue.lines))
  /\ queue' = [queue EXCEPT !.lines = Tail(@)]
  /\ handling' = "lock"
  /\ UNCHANGED <<quit, writer, stopped, status>> /\ HandlerStep

LockForData ==
  /\ handling = "lock" /\ writer = "nobody"
  /\ writer' = "handler" /\ handling' = "call"
  /\ UNCHANGED <<queue, handled, quit, stopped, status>> /\ HandlerStep

(* The adaptor's handler returns: it accepted the line, recorded a soft     *)
(* error (after accepting a part, or not), stopped the stream with an       *)
(* error, or called it done.  Only a soft error keeps the line from         *)
(* counting as output.                                                      *)
Continuing == {"ok", "error", "partly"}
dataHandler(outcome) ==
  /\ handling = "call"
  /\ writer' = "nobody"
  /\ status' = CASE outcome = "ok" -> [status EXCEPT !.valid = TRUE]
                 [] outcome = "error" -> [status EXCEPT !.errors = TRUE]
                 [] outcome = "partly" -> [status EXCEPT !.errors = TRUE, !.valid = TRUE]
                 [] outcome = "stop" -> [SetEndReason(status, "handler_stop") EXCEPT !.errors = TRUE, !.valid = TRUE]
                 [] outcome = "done" -> [SetEndReason(status, "done") EXCEPT !.valid = TRUE]
                 [] outcome = "panic" -> SetEndReason(status, "panic")
  /\ handling' = IF outcome \in Continuing THEN "wait" ELSE "leave"
  /\ quit' = IF outcome \in Continuing THEN quit ELSE outcome
  /\ UNCHANGED <<queue, handled, stopped>> /\ HandlerStep
Outcomes == Continuing \union {"stop", "done"} \union (IF "handler" \in Panics THEN {"panic"} ELSE {})

\* Mutated: the data goroutine leaves as soon as the stream is stopped.
MutDrained ==
  /\ handling = "wait" /\ (stopped \/ queue.closed)
  /\ handling' = "leave"
  /\ UNCHANGED <<queue, handled, quit, writer, stopped, status>> /\ HandlerStep
\* The channel is closed and drained.
Drained ==
  /\ handling = "wait" /\ queue.lines = << >> /\ queue.closed
  /\ handling' = "leave"
  /\ UNCHANGED <<queue, handled, quit, writer, stopped, status>> /\ HandlerStep

HandlerLeaves ==
  /\ handling = "leave"
  /\ stopped' = TRUE /\ handling' = "gone"
  /\ UNCHANGED <<queue, handled, quit, writer, status>> /\ HandlerStep
-----------------------------------------------------------------------------
(* The ping goroutine. *)
PingStep == UNCHANGED <<wire, body, scanning, queue, handling, handled, quit, main, ctx, connected, ticker>>

\* A tick is taken before cleanup at the latest; one that waits in the ticker's
\* buffer then is a goroutine that waits for the lock here.
PingTick ==
  /\ pinging = "idle" /\ main = "select"
  /\ pinging' = "lock"
  /\ UNCHANGED <<writer, stopped, status>> /\ PingStep

LockForPing ==
  /\ pinging = "lock" /\ writer = "nobody"
  /\ pinging' = "write" /\ writer' = "ping"
  /\ UNCHANGED <<stopped, status>> /\ PingStep

\* A ping that fails ends the pings, not the stream.
PingData(ok) ==
  /\ pinging = "write" /\ (ok => connected)
  /\ writer' = "nobody" /\ pinging' = IF ok THEN "idle" ELSE "gone"
  /\ status' = IF ok THEN status ELSE SetEndReason(status, "ping_fail")
  /\ UNCHANGED stopped /\ PingStep

PingPanics ==
  /\ "ping" \in Panics /\ pinging = "write"
  /\ status' = SetEndReason(status, "panic")
  /\ writer' = "nobody" /\ pinging' = "gone" /\ stopped' = TRUE
  /\ PingStep

PingLeaves ==
  /\ pinging = "idle" /\ (~ctx \/ stopped \/ ~connected)
  /\ pinging' = "gone"
  /\ UNCHANGED <<writer, stopped, status>> /\ PingStep

\* maxPingDuration is over.
PingTimesOut ==
  /\ pinging = "idle"
  /\ pinging' = "gone"
  /\ UNCHANGED <<writer, stopped, status>> /\ PingStep
-----------------------------------------------------------------------------
(* The caller.  The timeout is not measured: any wait for a line may turn   *)
(* out to be too long for it, a wait for a slow client on a full channel    *)
(* included.                                                                *)
MainStep == UNCHANGED <<wire, scanning, queue, handling, handled, quit, pinging, writer, connected, ticker>>

\* A whole timeout has passed without a line.
Elapse ==
  /\ main = "select" /\ ticker = "running"
  /\ ticker' = "due"
  /\ UNCHANGED <<wire, body, scanning, queue, handling, handled, quit, pinging, writer, main, stopped, ctx, connected, status>>

Wakes(reason) ==
  /\ main = "select"
  /\ main' = "cancel"
  /\ status' = IF reason = "" THEN status ELSE SetEndReason(status, reason)
  /\ UNCHANGED <<body, stopped, ctx>> /\ MainStep

Timeout == ticker = "due" /\ Wakes("timeout")
SeesStop == stopped /\ Wakes("")
SeesClientGone == ~connected /\ Wakes("client_gone")

\* cleanup, statement by statement, up to wg.Wait.
Cancel ==
  /\ main = "cancel" /\ main' = "close"
  /\ ctx' = FALSE /\ stopped' = TRUE
  /\ UNCHANGED <<body, status>> /\ MainStep

\* Mutated: cleanup forgets the body, on which the scanner may be blocked.
MutCloseBody ==
  /\ main = "close" /\ main' = "waiting"
  /\ UNCHANGED <<body, stopped, ctx, status>> /\ MainStep
CloseBody ==
  /\ main = "close" /\ main' = "waiting"
  /\ body' = "closed"
  /\ UNCHANGED <<stopped, ctx, status>> /\ MainStep

AllGone == scanning = "gone" /\ handling = "gone" /\ pinging = "gone"
WaitReturns ==
  /\ main = "waiting" /\ AllGone /\ main' = "returned"
  /\ UNCHANGED <<body, stopped, ctx, status>> /\ MainStep

\* Whether the upstream ever says more is not up to the scanner.
UpstreamSpeaks == (\E line \in {"data", "noise", "[DONE]"} : Scan(line)) \/ (\E error \in BOOLEAN : ScanEnds(error))
Scanner == (body = "closed" /\ ScanEnds(TRUE)) \/ SendData \/ SendGivesUp \/ CloseData \/ ScannerLeaves
DataGoroutine == TakeData \/ LockForData \/ Drained \/ HandlerLeaves \/ \E outcome \in Outcomes : dataHandler(outcome)
Pings == LockForPing \/ PingLeaves \/ \E ok \in BOOLEAN : PingData(ok)
Main == SeesStop \/ SeesClientGone \/ Timeout \/ Cancel \/ CloseBody \/ WaitReturns

ScanNext ==
  \/ UpstreamSpeaks \/ ClientLeaves \/ Elapse
  \/ Scanner \/ ScannerPanics \/ DataGoroutine \/ PingTick \/ Pings \/ PingPanics
  \/ PingTimesOut \/ Main

(* Goroutines are scheduled, a write ends by its deadline at the latest and *)
(* time passes: the ticker fires when it is not reset any more, which is    *)
(* one of the ways for the caller to go on.  The data goroutine gets        *)
(* writeMutex although pings compete for it: sync.Mutex serves a starving   *)
(* waiter first.                                                            *)
ScanSpec ==
  /\ ScanInit /\ [][ScanNext]_scanVars
  /\ WF_scanVars(Scanner) /\ SF_scanVars(DataGoroutine) /\ WF_scanVars(Pings) /\ WF_scanVars(Main) /\ WF_scanVars(Elapse)
-----------------------------------------------------------------------------
\* These are the positions of the data lines that the scanner has read, each
\* once and in order.
EveryLine(lines) ==
  /\ {lines[k] : k \in DOMAIN lines} = {i \in DOMAIN wire : wire[i] = "data"}
  /\ \A k, l \in DOMAIN lines : k < l => lines[k] < lines[l]

(* An end that the controller and the logs call good (a normal reason, no   *)
(* error) left no line behind: the adaptor was given every data line of the *)
(* stream in order, unless it called the stream done itself or panicked.    *)
(* And when the caller returns, no goroutine can use its context any more.  *)
GoodEndIsComplete ==
  main = "returned" =>
    /\ AllGone /\ writer = "nobody"
    /\ IsNormalEnd(status) /\ ~status.errors => EveryLine(handled) \/ quit \in {"done", "panic"}

\* The upstream was heard of within the timeout while the caller waits.
LineInTime == main = "select" /\ ticker = "running"

(* Not kept by the code, see the README.                                    *)
(* A comment of the image handler: "Only trust completedImages when         *)
(* upstream finished the stream (done/eof)"; a stop by the adaptor (a       *)
(* failed client write) is to be told apart from these by the reason.       *)
DoneIsHandled ==
  main = "returned" /\ status.reason \in {"done", "eof"} => EveryLine(handled) \/ quit = "done"

(* Not kept by the code, see the README.                                    *)
(* A comment of MarkValidOutput says that it "is set only after a stream    *)
(* adapter accepts a payload": the line that first counts as output is not  *)
(* one that stopped the stream with an error.                               *)
OutputIsAccepted == [][status'.valid /\ ~status.valid => quit' # "stop"]_scanVars
=============================================================================
