------------------------------ MODULE MCAnswers ------------------------------
(* How an answer reaches its client: streamed (the goroutines that read the   *)
(* stream, the conversion of what they read) or polled as a task.  The parts  *)
(* meet in values that each of them leaves open (a line is accepted or not,   *)
(* an upstream ends or goes silent), so a behaviour follows one of them.      *)
EXTENDS StreamRelay, StreamScanner, AsyncTask

VARIABLE topic

answerVars == <<topic, streamVars, scanVars, taskVars>>

MCPipelines ==
  {<<"chat", "chat">>, <<"chat", "claude">>, <<"chat", "responses">>,
   <<"responses", "chat">>, <<"responses", "claude">>, <<"responses", "buffered">>,
   <<"gemini", "chat">>, <<"gemini", "claude">>, <<"gemini", "responses">>, <<"claude", "chat">>}

\* The parts that do not move start in one of their initial states.  Tasks
\* that never time out are songs, and those from before the refunds are videos.
AnswersInit ==
  /\ topic \in {"goroutines", "conversion", "tasks"}
  /\ StreamInit /\ ScanInit /\ TaskInit
  /\ topic # "goroutines" => pinging = "gone"
  /\ topic # "conversion" => pipe = <<"chat", "claude">>
  /\ topic # "tasks" => \A t \in Tasks : taskRow[t].kind = "mj"
  /\ \A t \in Tasks : /\ ~timeout => ~taskRow[t].legacy /\ taskRow[t].kind = "suno"
                      /\ taskRow[t].legacy => taskRow[t].kind = "video"

Goroutines(A) == topic = "goroutines" /\ A /\ UNCHANGED <<topic, streamVars, taskVars>>
Conversion(A) == topic = "conversion" /\ A /\ UNCHANGED <<topic, scanVars, taskVars>>
Polling(A) == topic = "tasks" /\ A /\ UNCHANGED <<topic, streamVars, scanVars>>

AnswersNext == Goroutines(ScanNext) \/ Conversion(StreamNext) \/ Polling(TaskNext)

(* The fairness of StreamScanner and of AsyncTask.  The topic never changes, *)
(* so one condition can speak of an action of each part.                     *)
AnswersSpec ==
  /\ AnswersInit /\ [][AnswersNext]_answerVars
  /\ WF_answerVars(Goroutines(Pings)) /\ WF_answerVars(Goroutines(Elapse))
  /\ \A t \in Tasks :
       /\ WF_answerVars(Goroutines(Scanner) \/ Polling(PassDeadline(t)))
       /\ SF_answerVars(Goroutines(DataGoroutine) \/ Polling(\E w \in Pollers : sweepTimedOutTasks(w, t)))
  /\ \A w \in Pollers : WF_answerVars(Goroutines(Main) \/ Polling(Proceed(w)))

(* The caller of the goroutines returns, whatever the client and the        *)
(* adaptor do: none of the four waits for another for ever.  Only an        *)
(* upstream that is heard of again and again, be it by comments that keep   *)
(* the connection open, keeps it waiting: every line resets the ticker.     *)
HandlerReturns == []<>LineInTime \/ (topic = "goroutines" ~> main = "returned")
=============================================================================
