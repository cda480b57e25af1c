---------------------------- MODULE WorkerStream ----------------------------
(***************************************************************************)
(* One thread of the pool and the worker it drives, at the level of the    *)
(* byte streams between them: `Request`s on the worker's stdin, and on the *)
(* single pipe its stdout and stderr share, the case's own output mixed    *)
(* with the control frames.  The `drain` thread cuts the pipe into lines   *)
(* for a channel, and `run_case` reads the channel against a deadline.     *)
(*                                                                         *)
(* The pipe is a sequence of chunks, each of one writer's call and one     *)
(* unit long.  A chunk ends a line or not; `read_line` takes a frame for a *)
(* control frame only when it starts a line.                               *)
(***************************************************************************)
EXTENDS Naturals, Sequences, SequencesExt

CONSTANTS NCases,     \* cases leased to this thread, in this order
          Prints,     \* the kinds of output cases produce
          MaxPrints,  \* how many chunks one case prints
          MsgLens,    \* lengths of the message after an end frame
          MaxFaults   \* how many times a worker dies or hangs

PrintKinds == {"line",       \* a line of text
               "text",       \* text with no newline
               "junk",       \* a line that is not UTF-8
               "late", "lateText", "lateJunk"}   \* the same, after the end frame

\* Output that reaches the pipe when its case has ended.
LateKinds == {"late", "lateText", "lateJunk"}

ASSUME StreamAssumption ==
  /\ NCases \in Nat /\ MaxPrints \in Nat /\ MaxFaults \in Nat
  /\ Prints \subseteq PrintKinds
  /\ MsgLens \subseteq {0, 1}

Case == 1..NCases
Quit == 0   \* the QUIT request

VARIABLES
  worker,     \* the process: idle in read_from, running a case, ...
  current,    \* the case it is running
  stdin,      \* requests it has not read
  pipe,       \* chunks the drain thread has not read
  reader,     \* the drain thread: "reading" or "ended"
  channel,    \* lines the runner has not received
  runner,     \* run_case: "lease" between cases, "wait" inside one
  next,       \* the next case to lease
  output,     \* run_case's `output`
  results,    \* the results of the cases so far, in lease order
  printed,    \* history: what each case printed
  completed,  \* history: the cases whose end frame was written in full
  delivered,  \* history: the cases whose end frame reached the channel
  faults

vars == <<worker, current, stdin, pipe, reader, channel, runner, next,
          output, results, printed, completed, delivered, faults>>

thread  == <<runner, next, output, results>>
history == <<printed, completed, delivered>>

Init ==
  /\ worker = "idle" /\ current = Quit
  /\ stdin = <<>> /\ pipe = <<>>
  /\ reader = "reading" /\ channel = <<>>
  /\ runner = "lease" /\ next = 1 /\ output = <<>> /\ results = <<>>
  /\ printed = [c \in Case |-> <<>>] /\ completed = {} /\ delivered = {}
  /\ faults = 0

Chunk(k, c) == [kind |-> k, of |-> c, len |-> 0]
EndFrame(c, n) == [kind |-> "end", of |-> c, len |-> n]

(***************************************************************************)
(* The worker: `serve` and `run_one`.                                      *)
(***************************************************************************)
Up == worker \in {"idle", "running", "ending", "hung"}

\* A RUN request is read and its start frame written.
ReadRun ==
  /\ worker = "idle" /\ stdin # <<>> /\ Head(stdin) # Quit
  /\ worker' = "running"
  /\ current' = Head(stdin)
  /\ stdin' = Tail(stdin)
  /\ pipe' = Append(pipe, Chunk("start", current'))
  /\ UNCHANGED <<reader, channel, thread, history, faults>>

ReadQuit ==
  /\ worker = "idle" /\ stdin # <<>> /\ Head(stdin) = Quit
  /\ worker' = "gone"
  /\ stdin' = Tail(stdin)
  /\ UNCHANGED <<current, pipe, reader, channel, thread, history, faults>>

\* The case, or the kernel underneath it, prints.
CasePrints ==
  /\ worker = "running"
  /\ Len(printed[current]) < MaxPrints
  /\ \E k \in Prints \ LateKinds :
       /\ pipe' = Append(pipe, Chunk(k, current))
       /\ printed' = [printed EXCEPT ![current] = Append(@, Chunk(k, current))]
  /\ UNCHANGED <<worker, current, stdin, reader, channel, thread, completed,
                 delivered, faults>>

\* The handler returns or panics: `write_to` writes the end frame's line,
\* and is done when there is no message.
WriteEnd ==
  /\ worker = "running"
  /\ \E n \in MsgLens :
       /\ pipe' = Append(pipe, EndFrame(current, n))
       /\ worker' = IF n = 0 THEN "idle" ELSE "ending"
       /\ completed' = IF n = 0 THEN completed \cup {current} ELSE completed
  /\ UNCHANGED <<current, stdin, reader, channel, thread, printed, delivered,
                 faults>>

\* Otherwise the message follows, in a write of its own.
WriteMessage ==
  /\ worker = "ending"
  /\ worker' = "idle"
  /\ pipe' = Append(pipe, Chunk("message", current))
  /\ completed' = completed \cup {current}
  /\ UNCHANGED <<current, stdin, reader, channel, thread, printed, delivered,
                 faults>>

\* The cases the worker that runs c was leased, c included.
Mates(c) ==
  {d \in Case : d <= c /\ \A j \in d..(c - 1) : results[j].status = "ended"}

\* Output of a case reaches the pipe late: a thread it left behind prints, or
\* a buffer it filled is flushed, at any byte and of any bytes.
Straggle ==
  /\ Up
  /\ \E k \in Prints \cap LateKinds, c \in Mates(next) :
       /\ c \in completed \/ (c = current /\ worker = "ending")
       /\ Len(printed[c]) < MaxPrints
       /\ pipe' = Append(pipe, Chunk(k, c))
       /\ printed' = [printed EXCEPT ![c] = Append(@, Chunk(k, c))]
  /\ UNCHANGED <<worker, current, stdin, reader, channel, thread, completed,
                 delivered, faults>>

Dies ==
  /\ Up /\ faults < MaxFaults
  /\ worker' = "gone"
  /\ faults' = faults + 1
  /\ UNCHANGED <<current, stdin, pipe, reader, channel, thread, history>>

Hangs ==
  /\ worker = "running" /\ faults < MaxFaults
  /\ worker' = "hung"
  /\ faults' = faults + 1
  /\ UNCHANGED <<current, stdin, pipe, reader, channel, thread, history>>

(***************************************************************************)
(* The drain thread: `read_line` in a loop.                                *)
(***************************************************************************)
IsJunk(chunk)   == chunk.kind \in {"junk", "lateJunk"}
EndsLine(chunk) == IsJunk(chunk) \/ chunk.kind \in {"line", "late", "start", "end"}
Line(kind, chunks) == [kind |-> kind, chunks |-> chunks]

\* How many chunks make up the next line: none yet when no newline has come,
\* unless the worker is gone, when what is left is a line of its own.
LineLen ==
  LET cut == SelectInSeq(pipe, EndsLine)
  IN  IF cut = 0 /\ worker = "gone" THEN Len(pipe) ELSE cut

\* A frame is a control frame only at the start of a line; an end frame also
\* takes as many units of the pipe as it declares.
Control == LineLen = 1 /\ pipe[1].kind \in {"start", "end"}
Taken   == IF Control THEN 1 + pipe[1].len ELSE LineLen

Send(line, n) ==
  /\ channel' = Append(channel, line)
  /\ pipe' = SubSeq(pipe, n + 1, Len(pipe))

DrainFrame ==
  /\ reader = "reading" /\ Control /\ Len(pipe) >= Taken
  /\ Send(Line(pipe[1].kind, SubSeq(pipe, 1, Taken)), Taken)
  /\ delivered' = IF pipe[1].kind = "end" THEN delivered \cup {pipe[1].of} ELSE delivered
  /\ UNCHANGED <<worker, current, stdin, reader, thread, printed, completed, faults>>

DrainOutput ==
  /\ reader = "reading" /\ LineLen > 0 /\ ~Control
  /\ \A i \in 1..LineLen : ~IsJunk(pipe[i])
  /\ Send(Line("output", SubSeq(pipe, 1, LineLen)), LineLen)
  /\ UNCHANGED <<worker, current, stdin, reader, thread, history, faults>>

\* A line that is not UTF-8, or an end frame whose message never comes.
DrainError ==
  /\ reader = "reading"
  /\ \/ \E i \in 1..LineLen : IsJunk(pipe[i])
     \/ Control /\ Len(pipe) < Taken /\ worker = "gone"
  /\ reader' = "ended"
  /\ Send(Line("error", <<>>), LineLen)
  /\ UNCHANGED <<worker, current, stdin, thread, history, faults>>

DrainEnds ==
  /\ reader = "reading" /\ pipe = <<>> /\ worker = "gone"
  /\ reader' = "ended"
  /\ UNCHANGED <<worker, current, stdin, pipe, channel, thread, history, faults>>

(***************************************************************************)
(* The runner: `run_case` and the loop of `serve` around it.               *)
(***************************************************************************)
\* Mutant: the lines of one case stay in the buffer for the next.
ReportKeepsOutput(status, by, got) ==
  /\ results' = Append(results, [of |-> next, status |-> status, by |-> by,
                                 output |-> got])
  /\ next' = next + 1
  /\ runner' = "lease"
  /\ UNCHANGED output

Report(status, by, got) ==
  /\ results' = Append(results, [of |-> next, status |-> status, by |-> by,
                                 output |-> got])
  /\ next' = next + 1
  /\ runner' = "lease"
  /\ output' = <<>>

\* Mutant: the worker and what is left in its pipe are kept.
SameWorker ==
  /\ reader' = "reading" /\ channel' = <<>>
  /\ UNCHANGED <<worker, current, stdin, pipe>>

\* The old streams are dropped and a fresh worker takes over.
FreshWorker ==
  /\ worker' = "idle" /\ current' = Quit
  /\ stdin' = <<>> /\ pipe' = <<>>
  /\ reader' = "reading" /\ channel' = <<>>

\* run_case fails with this error: the case is reported and the worker replaced.
Fails(error) == Report(error, Quit, <<>>) /\ FreshWorker /\ UNCHANGED <<history, faults>>
Crash == Fails("crashed")

\* Mutant: the bound on the cases is off by one.
SendRunPastEnd ==
  /\ runner = "lease" /\ next <= NCases + 1
  /\ worker # "gone"
  /\ stdin' = Append(stdin, next)
  /\ runner' = "wait"
  /\ UNCHANGED <<worker, current, pipe, reader, channel, next, output,
                 results, history, faults>>

SendRun ==
  /\ runner = "lease" /\ next <= NCases
  /\ worker # "gone"
  /\ stdin' = Append(stdin, next)
  /\ runner' = "wait"
  /\ UNCHANGED <<worker, current, pipe, reader, channel, next, output,
                 results, history, faults>>

SendFails ==
  /\ runner = "lease" /\ next <= NCases
  /\ worker = "gone"
  /\ Crash

Receiving(kind) ==
  /\ runner = "wait" /\ channel # <<>>
  /\ Head(channel).kind = kind

\* An output line is collected and a start frame skipped.
ReceiveLine ==
  /\ \/ Receiving("output") /\ output' = output \o Head(channel).chunks
     \/ Receiving("start") /\ UNCHANGED output
  /\ channel' = Tail(channel)
  /\ UNCHANGED <<worker, current, stdin, pipe, reader, runner, next, results,
                 history, faults>>

ReceiveEnd ==
  /\ Receiving("end")
  /\ Report("ended", Head(channel).chunks[1].of, output)
  /\ channel' = Tail(channel)
  /\ UNCHANGED <<worker, current, stdin, pipe, reader, history, faults>>

ReceiveError == Receiving("error") /\ Crash

\* Mutant: the end of the stream overtakes the lines before it.
DisconnectedEarly == runner = "wait" /\ reader = "ended" /\ Crash

Disconnected ==
  /\ runner = "wait" /\ channel = <<>> /\ reader = "ended"
  /\ Crash

\* Mutant: the deadline is armed again at every wakeup.
TimedOutRearms ==
  runner = "wait" /\ channel = <<>> /\ reader = "reading" /\ UNCHANGED vars

\* Mutant: the deadline is looked at before the channel.
TimedOutFirst == runner = "wait" /\ Fails("overran")

\* The deadline passes, whatever the worker is doing and whatever is in the
\* pipe; `recv_timeout` gives up only when it finds the channel empty.
TimedOut ==
  /\ runner = "wait" /\ channel = <<>> /\ reader = "reading"
  /\ Fails("overran")

\* `shutdown` after the last case.
SendQuit ==
  /\ runner = "lease" /\ next > NCases
  /\ stdin' = Append(stdin, Quit)
  /\ runner' = "stopped"
  /\ UNCHANGED <<worker, current, pipe, reader, channel, next, output,
                 results, history, faults>>

Finished == runner = "stopped" /\ worker = "gone" /\ UNCHANGED vars

WorkerStep == ReadRun \/ ReadQuit \/ WriteEnd \/ WriteMessage
DrainStep  == DrainFrame \/ DrainOutput \/ DrainError \/ DrainEnds
RunnerStep ==
  \/ SendRun \/ SendFails
  \/ ReceiveLine \/ ReceiveEnd \/ ReceiveError \/ Disconnected \/ TimedOut
  \/ SendQuit

Next ==
  \/ WorkerStep \/ CasePrints \/ Straggle \/ Dies \/ Hangs
  \/ DrainStep
  \/ RunnerStep
  \/ Finished

Spec == Init /\ [][Next]_vars

\* Every thread is scheduled, and a case that is not hung finishes.
FairSpec ==
  Spec /\ WF_vars(WorkerStep) /\ WF_vars(DrainStep) /\ WF_vars(RunnerStep)

(***************************************************************************)
(* Properties.                                                             *)
(***************************************************************************)
\* The streams carry only what their writers write.
Chunks == [kind: PrintKinds \cup {"start", "end", "message"},
           of: Case, len: {0, 1}]
TypeOK ==
  /\ worker \in {"idle", "running", "ending", "hung", "gone"}
  /\ current \in Case \cup {Quit}
  /\ \A i \in DOMAIN stdin : stdin[i] \in Case \cup {Quit}
  /\ \A i \in DOMAIN pipe : pipe[i] \in Chunks
  /\ reader \in {"reading", "ended"}
  /\ \A i \in DOMAIN channel :
       channel[i].kind \in {"output", "start", "end", "error"}
  /\ runner \in {"lease", "wait", "stopped"}
  /\ next \in 1..(NCases + 1)
  /\ \A i \in DOMAIN output : output[i] \in Chunks
  /\ Len(results) = next - 1
  /\ faults \in 0..MaxFaults

\* The result of a case is the one its own end frame carries, never a late
\* frame of the case before it: the worker that was given up on is gone with
\* its streams, whatever it still had in them.
ResultFromOwnFrame ==
  \A i \in DOMAIN results :
    results[i].status = "ended" => results[i].by = results[i].of

\* "the runner treats anything else as output from the case currently running"
\* (protocol.rs): a case that ended is reported with what it printed before its
\* end frame, whole and in order, whoever runs first among worker, drain and
\* runner; and with nothing else but its own start frame, when that was behind
\* an unfinished line, and what cases before it on the same worker left behind.
InTime(chunk) == chunk.kind \in {"line", "text"}
Kept(s) == FlattenSeq([i \in DOMAIN s |-> IF InTime(s[i]) THEN <<s[i]>> ELSE <<>>])
OutputAttributed ==
  \A i \in DOMAIN results : results[i].status = "ended" =>
    /\ Kept(results[i].output) = Kept(printed[i])
    /\ \A j \in DOMAIN results[i].output :
         LET chunk == results[i].output[j]
         IN  IF chunk.of = i THEN InTime(chunk) \/ chunk.kind = "start"
             ELSE chunk.of \in Mates(i)

\* "a case's output needs no separate synchronization to be attributed
\* correctly" (protocol.rs): what is reported for a case is its own.
OutputIsOwn ==
  \A i \in DOMAIN results : results[i].status = "ended" =>
    \A j \in DOMAIN results[i].output : results[i].output[j].of = i

\* A case that finished is reported as it ended or as overrun, even if the worker
\* dies before its end frame is read, as long as no case of its worker wrote
\* part of a line or bytes that are no text.
Tidy(c)  == \A i \in DOMAIN printed[c] : printed[c][i].kind \in {"line", "late"}
Clean(c) == \A d \in Mates(c) : Tidy(d)
EndedIsReported ==
  \A i \in DOMAIN results :
    (results[i].status = "crashed" /\ Clean(i)) => i \notin completed

\* Once its end frame is in the channel a case is reported as it ended, whatever
\* comes first of the deadline, the worker's death and the end of its stream,
\* and whatever was printed.
FrameBeatsDeadline ==
  \A i \in DOMAIN results : results[i].status # "ended" => i \notin delivered

\* "every control line starts with CONTROL_PREFIX, and the runner treats
\* anything else as output" (protocol.rs): the end frame of the case waited for
\* is on its way as a frame, whatever was printed.
EveryFrameFound ==
  runner = "wait" /\ next \in completed =>
    \/ \E i \in DOMAIN pipe : pipe[i].kind = "end"
    \/ \E i \in DOMAIN channel : channel[i].kind = "end"

\* A leased case gets its result, whatever the worker does (Runner::timeout).
LeaseAnswered == (runner = "wait") ~> (runner = "lease")

============================================================================
