------------------------- MODULE WorkerStreamProofs -------------------------
(***************************************************************************)
(* Proofs about module WorkerStream: whatever cases print, whenever        *)
(* workers die or hang, and whoever runs first among the worker, the drain *)
(* thread and the runner.                                                  *)
(***************************************************************************)
EXTENDS WorkerStream, TLAPS, WellFoundedInduction, SequenceTheorems

Lines == [kind : {"output", "start", "end", "error"}, chunks : Seq(Chunks)]
Result == [of : Case, status : {"ended", "crashed", "overran"}, by : Case \cup {Quit},
           output : Seq(Chunks)]

Types ==
  /\ worker \in {"idle", "running", "ending", "hung", "gone"}
  /\ current \in Case \cup {Quit}
  /\ stdin \in Seq(Case \cup {Quit})
  /\ pipe \in Seq(Chunks)
  /\ reader \in {"reading", "ended"}
  /\ channel \in Seq(Lines)
  /\ runner \in {"lease", "wait", "stopped"}
  /\ next \in 1..(NCases + 1)
  /\ output \in Seq(Chunks)
  /\ results \in Seq(Result)
  /\ Len(results) = next - 1
  /\ printed \in [Case -> Seq(Chunks)]
  /\ completed \subseteq Case /\ delivered \subseteq Case
  /\ faults \in 0..MaxFaults

InPipe(i, kind) == i \in 1..Len(pipe) /\ pipe[i].kind = kind
InChannel(i, kind) == i \in 1..Len(channel) /\ channel[i].kind = kind

\* A chunk no case of a clean worker writes.
Spoils(chunk) == IsJunk(chunk) \/ chunk.kind \in {"text", "lateText"}

\* One request at a time, and the worker runs the case that is waited for.  A
\* worker may still be writing the message of the case before it.
Requests ==
  /\ runner = "wait" => next \in Case
  /\ runner = "lease" => stdin = <<>>
  /\ \A i \in 1..Len(stdin) : stdin[i] # Quit =>
       /\ runner = "wait" /\ stdin = <<next>>
       /\ worker \in {"idle", "ending", "gone"}
  /\ worker \in {"running", "hung"} =>
       runner = "wait" /\ current = next /\ stdin = <<>> /\ next \notin completed
  /\ worker = "ending" =>
       \/ runner = "wait" /\ current = next /\ stdin = <<>>
       \/ /\ next > 1 /\ current = next - 1 /\ results[next - 1].status = "ended"
          /\ runner = "wait" => stdin = <<next>>

\* A case is complete when it has ended and is waited for, or was.
Completed ==
  /\ \A c \in completed : c <= next
  /\ next \in completed =>
       runner = "wait" /\ stdin = <<>> /\ worker \in {"idle", "gone"}

\* The streams hold at most one end frame, the one of the case waited for.
Ended == runner = "wait" /\ stdin = <<>> /\ worker \in {"ending", "idle", "gone"}

Frames ==
  /\ \A i : InPipe(i, "end") => Ended /\ pipe[i].of = next
  /\ \A i : InChannel(i, "end") =>
       Ended /\ channel[i].chunks # <<>> /\ channel[i].chunks[1].of = next
  /\ \A i, j : InPipe(i, "end") /\ InPipe(j, "end") => i = j
  /\ \A i, j : InChannel(i, "end") /\ InChannel(j, "end") => i = j
  /\ \A i, j : ~(InPipe(i, "end") /\ InChannel(j, "end"))

\* An end frame that reached the channel is there until the case is reported.
Delivered ==
  /\ \A c \in delivered : c <= next
  /\ next \in delivered => Ended /\ \E i : InChannel(i, "end")

\* Text without a newline and bytes that are no text are of a worker that is
\* not clean.
Untidy == \A j \in 1..Len(pipe) : Spoils(pipe[j]) => ~Clean(next)

\* The drain thread stops for an error, which the runner then finds, or at the
\* end of the stream of a worker that is gone.
Stops ==
  /\ \A j : InChannel(j, "error") =>
       /\ reader = "ended"
       /\ \/ ~Clean(next)
          \/ /\ runner = "wait" /\ worker = "gone" /\ next \notin completed
             /\ \A i : ~InChannel(i, "end")
       /\ \A i : InChannel(i, "end") => i < j
  /\ reader = "ended" =>
       (\E j : InChannel(j, "error")) \/ (pipe = <<>> /\ worker = "gone")

\* The end frame of a case whose worker is clean starts a line, and its message
\* follows.
Begins ==
  /\ worker = "running" /\ Clean(next) => pipe = <<>> \/ EndsLine(pipe[Len(pipe)])
  /\ \A i : InPipe(i, "end") /\ i > 1 /\ Clean(next) => EndsLine(pipe[i - 1])
  /\ \A i : InPipe(i, "end") /\ next \in completed => i + pipe[i].len <= Len(pipe)
  /\ \A i \in 1..Len(pipe) : pipe[i].len = 1 => pipe[i].kind = "end"

\* The end frame of such a case, when it is complete, is still to be found.
Found ==
  (/\ runner = "wait" /\ Clean(next)
   /\ next \in completed \/ (worker = "ending" /\ current = next))
    => (\E i : InPipe(i, "end")) \/ (\E i : InChannel(i, "end"))

Answers ==
  \A i \in 1..Len(results) :
    /\ results[i].of = i
    /\ results[i].status = "ended" => results[i].by = i
    /\ results[i].status = "crashed" /\ Clean(i) => i \notin completed
    /\ results[i].status # "ended" => i \notin delivered

IndInv ==
  /\ Types /\ Requests /\ Completed /\ Frames /\ Delivered
  /\ Untidy /\ Stops /\ Begins /\ Found /\ Answers

(***************************************************************************)
(* Sequences, position by position.                                        *)
(***************************************************************************)
LEMMA Grow ==
  ASSUME NEW S, NEW s \in Seq(S), NEW e \in S
  PROVE  /\ Append(s, e) \in Seq(S)
         /\ Len(Append(s, e)) = Len(s) + 1 /\ Len(s) \in Nat
         /\ \A i \in 1..Len(s) : Append(s, e)[i] = s[i]
         /\ Append(s, e)[Len(s) + 1] = e
  OBVIOUS

LEMMA Shrink ==
  ASSUME NEW S, NEW s \in Seq(S), s # <<>>
  PROVE  /\ Head(s) \in S /\ Head(s) = s[1] /\ Tail(s) \in Seq(S)
         /\ Len(Tail(s)) = Len(s) - 1 /\ Len(s) \in Nat \ {0}
         /\ \A i \in 1..(Len(s) - 1) : Tail(s)[i] = s[i + 1]
  OBVIOUS

LEMMA Cut ==
  ASSUME NEW S, NEW s \in Seq(S), NEW n \in 0..Len(s)
  PROVE  /\ SubSeq(s, n + 1, Len(s)) \in Seq(S)
         /\ Len(SubSeq(s, n + 1, Len(s))) = Len(s) - n /\ Len(s) \in Nat
         /\ \A i \in 1..(Len(s) - n) : SubSeq(s, n + 1, Len(s))[i] = s[i + n]
<1>1. Len(s) \in Nat /\ \A i \in 1..Len(s) : s[i] \in S
  OBVIOUS
<1>2. \A i \in (n + 1)..Len(s) : s[i] \in S
  BY <1>1
<1>3. SubSeq(s, n + 1, Len(s)) \in Seq(S)
  BY <1>2, <1>1, SubSeqProperties
<1> QED
  BY <1>1, <1>3

LEMMA Front1 ==
  ASSUME NEW S, NEW s \in Seq(S), NEW n \in 0..Len(s)
  PROVE  /\ SubSeq(s, 1, n) \in Seq(S)
         /\ Len(SubSeq(s, 1, n)) = n
         /\ \A i \in 1..n : SubSeq(s, 1, n)[i] = s[i]
<1>1. Len(s) \in Nat /\ \A i \in 1..n : s[i] \in S
  OBVIOUS
<1>2. SubSeq(s, 1, n) \in Seq(S)
  BY <1>1, SubSeqProperties
<1> QED
  BY <1>1, <1>2

LEMMA Least ==
  ASSUME NEW T, T \subseteq Nat, T # {}
  PROVE  Min(T) \in T /\ \A y \in T : Min(T) <= y
<1>1. PICK x \in T : \A y \in T : ~(<<y, x>> \in OpToRel(<, Nat))
  BY NatLessThanWellFounded, WFMin
<1>2. \A y \in T : x <= y
  <2>1. SUFFICES ASSUME NEW y \in T, ~(x <= y) PROVE FALSE
    OBVIOUS
  <2>2. x \in Nat /\ y \in Nat /\ y < x
    BY <2>1
  <2>3. <<y, x>> \in Nat \X Nat /\ <<y, x>>[1] < <<y, x>>[2]
    BY <2>2
  <2>4. <<y, x>> \in OpToRel(<, Nat)
    BY <2>3 DEF OpToRel
  <2> QED
    BY <1>1, <2>4
<1> QED
  BY <1>2 DEF Min

\* The next line ends with the first chunk that ends one; with none, and the
\* worker gone, it is all that is left.
LEMMA LineLenFacts ==
  ASSUME pipe \in Seq(Chunks)
  PROVE  /\ LineLen \in 0..Len(pipe) /\ Len(pipe) \in Nat
         /\ \A i \in 1..Len(pipe) : i < LineLen => ~EndsLine(pipe[i])
         /\ LineLen > 0 => EndsLine(pipe[LineLen]) \/ worker = "gone"
         /\ LineLen = 0 => \A i \in 1..Len(pipe) : ~EndsLine(pipe[i])
<1> DEFINE I == {i \in 1..Len(pipe) : EndsLine(pipe[i])}
           cut == SelectInSeq(pipe, EndsLine)
<1>0. Len(pipe) \in Nat
  OBVIOUS
<1>1. cut = IF I # {} THEN Min(I) ELSE 0
  BY DEF SelectInSeq
<1>2. LineLen = IF cut = 0 /\ worker = "gone" THEN Len(pipe) ELSE cut
  BY DEF LineLen
<1>3. CASE I = {}
  <2>1. \A i \in 1..Len(pipe) : ~EndsLine(pipe[i])
    BY <1>3
  <2>2. cut = 0
    BY <1>1, <1>3
  <2> HIDE DEF I, cut
  <2> QED
    BY <1>0, <1>2, <2>1, <2>2
<1>4. CASE I # {}
  <2>1. I \subseteq Nat
    BY <1>0
  <2>2. cut \in I /\ \A y \in I : cut <= y
    BY <1>1, <1>4, <2>1, Least
  <2>3. cut \in 1..Len(pipe) /\ EndsLine(pipe[cut])
    BY <2>2
  <2>4. \A i \in 1..Len(pipe) : i < cut => ~EndsLine(pipe[i])
    <3>1. \A i \in 1..Len(pipe) : EndsLine(pipe[i]) => cut <= i
      BY <2>2
    <3> HIDE DEF cut
    <3> QED
      BY <1>0, <2>3, <3>1
  <2>5. LineLen = cut
    BY <1>0, <1>2, <2>3
  <2> HIDE DEF I, cut
  <2> QED
    BY <1>0, <2>3, <2>4, <2>5
<1> QED
  BY <1>3, <1>4

(***************************************************************************)
(* What a step does to the streams.                                        *)
(***************************************************************************)
LEMMA PipeGrows ==
  ASSUME IndInv, NEW e \in Chunks, pipe' = Append(pipe, e)
  PROVE  /\ pipe' \in Seq(Chunks) /\ pipe' # <<>>
         /\ Len(pipe) \in Nat /\ Len(pipe') = Len(pipe) + 1
         /\ pipe'[Len(pipe) + 1] = e
         /\ \A i \in 1..Len(pipe) : pipe'[i] = pipe[i]
         /\ \A i, k : InPipe(i, k)' <=> InPipe(i, k) \/ (i = Len(pipe) + 1 /\ e.kind = k)
         /\ \A i, k : InPipe(i, k) => i \in 1..Len(pipe)
<1>1. pipe \in Seq(Chunks)
  BY DEF IndInv, Types
<1>2. /\ pipe' \in Seq(Chunks) /\ Len(pipe) \in Nat /\ Len(pipe') = Len(pipe) + 1
      /\ pipe'[Len(pipe) + 1] = e /\ \A i \in 1..Len(pipe) : pipe'[i] = pipe[i]
  BY <1>1, Grow
<1>3. pipe' # <<>>
  BY <1>2
<1>4. \A i, k : InPipe(i, k)' <=> InPipe(i, k) \/ (i = Len(pipe) + 1 /\ e.kind = k)
  <2>1. \A i : i \in 1..(Len(pipe) + 1) <=> i \in 1..Len(pipe) \/ i = Len(pipe) + 1
    BY <1>2
  <2> QED
    BY <1>2, <2>1 DEF InPipe
<1> QED
  BY <1>2, <1>3, <1>4 DEF InPipe

LEMMA PipeCut ==
  ASSUME IndInv, NEW n \in 0..Len(pipe), pipe' = SubSeq(pipe, n + 1, Len(pipe))
  PROVE  /\ pipe' \in Seq(Chunks)
         /\ Len(pipe) \in Nat /\ Len(pipe') = Len(pipe) - n
         /\ \A i \in 1..Len(pipe') : i + n \in 1..Len(pipe) /\ pipe'[i] = pipe[i + n]
         /\ \A i, k : InPipe(i, k)' => i \in Nat /\ InPipe(i + n, k)
         /\ \A i, k : InPipe(i, k) => i <= n \/ (i - n \in 1..Len(pipe') /\ InPipe(i - n, k)')
<1>1. pipe \in Seq(Chunks)
  BY DEF IndInv, Types
<1>2. /\ pipe' \in Seq(Chunks) /\ Len(pipe) \in Nat /\ Len(pipe') = Len(pipe) - n
      /\ \A i \in 1..(Len(pipe) - n) : pipe'[i] = pipe[i + n]
  BY <1>1, Cut
<1>3. \A i \in 1..Len(pipe') : i \in Nat /\ i + n \in 1..Len(pipe) /\ pipe'[i] = pipe[i + n]
  BY <1>2
<1>4. \A i, k : InPipe(i, k)' => i \in Nat /\ InPipe(i + n, k)
  BY <1>3 DEF InPipe
<1>5. \A i \in 1..Len(pipe) : i <= n \/ (i - n \in 1..Len(pipe') /\ (i - n) + n = i)
  BY <1>2
<1>6. \A i, k : InPipe(i, k) => i <= n \/ (i - n \in 1..Len(pipe') /\ InPipe(i - n, k)')
  BY <1>3, <1>5 DEF InPipe
<1> QED
  BY <1>2, <1>3, <1>4, <1>6

LEMMA ChannelGrows ==
  ASSUME IndInv, NEW e \in Lines, channel' = Append(channel, e)
  PROVE  /\ channel' \in Seq(Lines) /\ channel' # <<>>
         /\ Len(channel) \in Nat /\ Len(channel') = Len(channel) + 1
         /\ channel'[Len(channel) + 1] = e
         /\ \A i \in 1..Len(channel) : channel'[i] = channel[i]
         /\ \A i, k : InChannel(i, k)' <=> InChannel(i, k) \/ (i = Len(channel) + 1 /\ e.kind = k)
         /\ \A i, k : InChannel(i, k) => i \in 1..Len(channel)
<1>1. channel \in Seq(Lines)
  BY DEF IndInv, Types
<1>2. /\ channel' \in Seq(Lines) /\ Len(channel) \in Nat /\ Len(channel') = Len(channel) + 1
      /\ channel'[Len(channel) + 1] = e /\ \A i \in 1..Len(channel) : channel'[i] = channel[i]
  BY <1>1, Grow
<1>3. channel' # <<>>
  BY <1>2
<1>4. \A i, k : InChannel(i, k)' <=> InChannel(i, k) \/ (i = Len(channel) + 1 /\ e.kind = k)
  <2>1. \A i : i \in 1..(Len(channel) + 1) <=> i \in 1..Len(channel) \/ i = Len(channel) + 1
    BY <1>2
  <2> QED
    BY <1>2, <2>1 DEF InChannel
<1> QED
  BY <1>2, <1>3, <1>4 DEF InChannel

LEMMA ChannelTail ==
  ASSUME IndInv, channel # <<>>, channel' = Tail(channel)
  PROVE  /\ channel' \in Seq(Lines) /\ Head(channel) \in Lines /\ Head(channel) = channel[1]
         /\ InChannel(1, Head(channel).kind)
         /\ \A i, k : InChannel(i, k)' => i \in Nat \ {0} /\ InChannel(i + 1, k)
                                         /\ channel'[i] = channel[i + 1]
         /\ \A i, k : InChannel(i, k) => i = 1 \/ (i - 1 \in Nat /\ InChannel(i - 1, k)')
<1>1. channel \in Seq(Lines)
  BY DEF IndInv, Types
<1>2. /\ Head(channel) \in Lines /\ Head(channel) = channel[1] /\ channel' \in Seq(Lines)
      /\ Len(channel') = Len(channel) - 1 /\ Len(channel) \in Nat \ {0}
      /\ \A i \in 1..(Len(channel) - 1) : channel'[i] = channel[i + 1]
  BY <1>1, Shrink
<1>3. \A i \in 1..Len(channel') :
        i \in Nat \ {0} /\ i + 1 \in 1..Len(channel) /\ channel'[i] = channel[i + 1]
  BY <1>2
<1>4. \A i, k : InChannel(i, k)' => i \in Nat \ {0} /\ InChannel(i + 1, k)
                                     /\ channel'[i] = channel[i + 1]
  BY <1>3 DEF InChannel
<1>5. \A i \in 1..Len(channel) :
        i = 1 \/ (i - 1 \in Nat /\ i - 1 \in 1..Len(channel') /\ (i - 1) + 1 = i)
  BY <1>2
<1>6. \A i, k : InChannel(i, k) => i = 1 \/ (i - 1 \in Nat /\ InChannel(i - 1, k)')
  BY <1>3, <1>5 DEF InChannel
<1>7. InChannel(1, Head(channel).kind)
  BY <1>2 DEF InChannel
<1> QED
  BY <1>2, <1>4, <1>6, <1>7

LEMMA ChunkLens ==
  ASSUME IndInv
  PROVE  \A i \in 1..Len(pipe) : pipe[i] \in Chunks /\ pipe[i].len \in {0, 1}
<1>1. pipe \in Seq(Chunks)
  BY DEF IndInv, Types
<1>2. \A i \in 1..Len(pipe) : pipe[i] \in Chunks
  BY <1>1
<1>3. \A ch \in Chunks : ch.len \in {0, 1}
  BY DEF Chunks
<1> QED
  BY <1>2, <1>3

LEMMA PipeSame ==
  ASSUME UNCHANGED pipe
  PROVE  \A i, k : InPipe(i, k)' <=> InPipe(i, k)
BY DEF InPipe

LEMMA ChannelSame ==
  ASSUME UNCHANGED channel
  PROVE  \A i, k : InChannel(i, k)' <=> InChannel(i, k)
BY DEF InChannel

LEMMA MatesFacts ==
  ASSUME NEW c
  PROVE  /\ Mates(c) \subseteq Case
         /\ c \in Case => c \in Mates(c)
<1>1. c \in Case => c \in Nat /\ c..(c - 1) = {}
  BY StreamAssumption DEF Case
<1> QED
  BY <1>1 DEF Mates

LEMMA CleanSame ==
  ASSUME UNCHANGED <<printed, results>>
  PROVE  \A c : Mates(c)' = Mates(c) /\ (Clean(c)' <=> Clean(c))
<1>1. \A c : Tidy(c)' <=> Tidy(c)
  BY DEF Tidy
<1>2. \A c : Mates(c)' = Mates(c)
  BY DEF Mates
<1> QED
  BY <1>1, <1>2 DEF Clean

LEMMA UntidyGrows ==
  ASSUME IndInv, NEW e \in Chunks, pipe' = Append(pipe, e), UNCHANGED next,
         Clean(next)' => Clean(next), Spoils(e) => ~Clean(next)'
  PROVE  Untidy'
<1>1. /\ Len(pipe) \in Nat /\ Len(pipe') = Len(pipe) + 1 /\ pipe'[Len(pipe) + 1] = e
      /\ \A i \in 1..Len(pipe) : pipe'[i] = pipe[i]
  BY PipeGrows
<1>2. \A j \in 1..Len(pipe') : j \in 1..Len(pipe) \/ j = Len(pipe) + 1
  BY <1>1
<1>3. \A j \in 1..Len(pipe) : Spoils(pipe[j]) => ~Clean(next)
  BY DEF IndInv, Untidy, Spoils, IsJunk
<1>4. \A j \in 1..Len(pipe') : Spoils(pipe'[j]) => ~Clean(next)'
  BY <1>1, <1>2, <1>3
<1> QED
  BY <1>4 DEF Untidy, Spoils, IsJunk

LEMMA UntidyCut ==
  ASSUME IndInv, NEW n \in 0..Len(pipe), pipe' = SubSeq(pipe, n + 1, Len(pipe)),
         UNCHANGED <<printed, results, next>>
  PROVE  Untidy'
<1>1. \A j \in 1..Len(pipe') : j + n \in 1..Len(pipe) /\ pipe'[j] = pipe[j + n]
  BY PipeCut
<1>2. \A j \in 1..Len(pipe) : Spoils(pipe[j]) => ~Clean(next)
  BY DEF IndInv, Untidy, Spoils, IsJunk
<1>3. Clean(next)' <=> Clean(next)
  BY CleanSame
<1>4. \A j \in 1..Len(pipe') : Spoils(pipe'[j]) => ~Clean(next)'
  BY <1>1, <1>2, <1>3
<1> QED
  BY <1>4 DEF Untidy, Spoils, IsJunk

LEMMA InitStep == Init => IndInv
<1> SUFFICES ASSUME Init PROVE IndInv
  OBVIOUS
<1>1. \A i, k : ~InPipe(i, k) /\ ~InChannel(i, k)
  BY DEF Init, InPipe, InChannel
<1>2. NCases \in Nat /\ MaxFaults \in Nat
  BY StreamAssumption
<1>3. Types
  BY <1>2 DEF Init, Types, Case
<1>4. Requests /\ Completed
  BY <1>2 DEF Init, Requests, Completed
<1>5. Frames /\ Delivered /\ Untidy /\ Stops /\ Begins /\ Found /\ Answers
  BY <1>1 DEF Init, Frames, Delivered, Untidy, Spoils, IsJunk, Stops, Begins, Found, Answers
<1> QED
  BY <1>3, <1>4, <1>5 DEF IndInv

(***************************************************************************)
(* The worker's steps.                                                     *)
(***************************************************************************)
LEMMA ReadRunStep ==
  ASSUME IndInv, ReadRun
  PROVE  IndInv'
<1>1. /\ worker = "idle" /\ stdin # <<>> /\ Head(stdin) # Quit /\ worker' = "running"
      /\ current' = Head(stdin) /\ stdin' = Tail(stdin)
      /\ pipe' = Append(pipe, Chunk("start", current'))
      /\ UNCHANGED <<reader, channel, runner, next, output, results, printed, completed, delivered, faults>>
  BY DEF ReadRun, thread, history
<1>2. stdin = <<next>> /\ runner = "wait" /\ next \in Case
  <2>1. stdin \in Seq(Case \cup {Quit})
    BY DEF IndInv, Types
  <2>2. 1 \in 1..Len(stdin) /\ stdin[1] = Head(stdin)
    BY <1>1, <2>1
  <2> QED
    BY <1>1, <2>2 DEF IndInv, Requests
<1>3. current' = next /\ stdin' = <<>>
  BY <1>1, <1>2
<1> DEFINE e == Chunk("start", next)
<1>4. e \in Chunks /\ e.kind = "start" /\ e.len = 0 /\ pipe' = Append(pipe, e)
  BY <1>1, <1>2, <1>3 DEF Chunks, Chunk
<1> HIDE DEF e
<1>5. /\ \A i : ~InPipe(i, "end") /\ ~InChannel(i, "end")
      /\ next \notin completed
  BY <1>1, <1>2 DEF IndInv, Frames, Ended, Completed
<1>6. /\ \A i, k : InChannel(i, k)' <=> InChannel(i, k)
      /\ \A c : Clean(c)' <=> Clean(c)
  BY <1>1, ChannelSame, CleanSame
<1>7. /\ pipe' \in Seq(Chunks) /\ Len(pipe) \in Nat /\ Len(pipe') = Len(pipe) + 1
      /\ pipe'[Len(pipe) + 1] = e /\ \A i \in 1..Len(pipe) : pipe'[i] = pipe[i]
      /\ \A i, k : InPipe(i, k)' <=> InPipe(i, k) \/ (i = Len(pipe) + 1 /\ k = "start")
  BY <1>4, PipeGrows
<1>8. Types'
  BY <1>1, <1>2, <1>3, <1>7 DEF IndInv, Types
<1>9. Requests' /\ Completed'
  BY <1>1, <1>2, <1>3, <1>5 DEF IndInv, Requests, Completed
<1>10. Frames'
  BY <1>5, <1>6, <1>7 DEF Frames
<1>11. Untidy' /\ Delivered'
  <2>1. ~Spoils(e)
    BY <1>4 DEF Spoils, IsJunk
  <2>2. next \notin delivered /\ \A c \in delivered : c <= next
    BY <1>5 DEF IndInv, Delivered
  <2> QED
    BY <1>1, <1>4, <1>6, <2>1, <2>2, UntidyGrows DEF Delivered
<1>12. Stops'
  BY <1>1, <1>5, <1>6 DEF IndInv, Stops
<1>13. Begins'
  <2>1. EndsLine(pipe[Len(pipe)])'
    BY <1>4, <1>7 DEF EndsLine, IsJunk
  <2>2. \A i \in 1..Len(pipe') : pipe'[i].len = 1 => pipe'[i].kind = "end"
    BY <1>4, <1>7 DEF IndInv, Begins
  <2> QED
    BY <1>5, <1>7, <2>1, <2>2 DEF Begins
<1>14. Found'
  BY <1>1, <1>5 DEF Found
<1>15. Answers'
  BY <1>1, <1>6 DEF IndInv, Answers
<1> QED
  BY <1>8, <1>9, <1>10, <1>11, <1>12, <1>13, <1>14, <1>15 DEF IndInv

LEMMA ReadQuitStep ==
  ASSUME IndInv, ReadQuit
  PROVE  IndInv'
<1>1. /\ worker = "idle" /\ stdin # <<>> /\ Head(stdin) = Quit /\ worker' = "gone"
      /\ stdin' = Tail(stdin)
      /\ UNCHANGED <<current, pipe, reader, channel, runner, next, output, results, printed,
                     completed, delivered, faults>>
  BY DEF ReadQuit, thread, history
<1>2. /\ stdin \in Seq(Case \cup {Quit}) /\ stdin' \in Seq(Case \cup {Quit})
      /\ 1 \in 1..Len(stdin) /\ stdin[1] = Quit
      /\ \A i \in 1..Len(stdin') : i + 1 \in 1..Len(stdin) /\ stdin'[i] = stdin[i + 1]
  BY <1>1 DEF IndInv, Types
<1>3. next \in Nat /\ Quit # next
  BY DEF IndInv, Types, Quit
<1>4. \A i \in 1..Len(stdin) : stdin[i] = Quit
  BY <1>2, <1>3 DEF IndInv, Requests
<1>5. next \notin completed /\ \A i : ~InPipe(i, "end") /\ ~InChannel(i, "end")
  BY <1>1 DEF IndInv, Completed, Frames, Ended
<1>6. /\ \A i, k : InPipe(i, k)' <=> InPipe(i, k)
      /\ \A i, k : InChannel(i, k)' <=> InChannel(i, k)
      /\ \A c : Clean(c)' <=> Clean(c)
  BY <1>1, PipeSame, ChannelSame, CleanSame
<1>7. Types'
  BY <1>1, <1>2 DEF IndInv, Types
<1>8. Requests' /\ Completed'
  BY <1>1, <1>2, <1>4, <1>5 DEF IndInv, Requests, Completed
<1>9. Frames' /\ Delivered' /\ Untidy' /\ Stops'
  <2>1. Frames' /\ Delivered'
    BY <1>1, <1>5, <1>6 DEF IndInv, Frames, Delivered
  <2>2. Untidy'
    BY <1>1, <1>6 DEF IndInv, Untidy, Spoils, IsJunk
  <2> QED
    BY <1>1, <1>5, <1>6, <2>1, <2>2 DEF IndInv, Stops
<1>10. Begins' /\ Found'
  BY <1>1, <1>5, <1>6 DEF IndInv, Begins, Found
<1>11. Answers'
  BY <1>1, <1>6 DEF IndInv, Answers
<1> QED
  BY <1>7, <1>8, <1>9, <1>10, <1>11 DEF IndInv

\* A whole line leaves every worker as clean as it was; another chunk spoils the
\* worker of the case that wrote it.
LEMMA CleanPrinted ==
  ASSUME IndInv, NEW c \in Case, NEW e \in Chunks,
         printed' = [printed EXCEPT ![c] = Append(@, e)], UNCHANGED results
  PROVE  /\ printed' \in [Case -> Seq(Chunks)]
         /\ \A d : Clean(d)' <=> Clean(d) /\ (c \in Mates(d) => e.kind \in {"line", "late"})
<1>1. printed \in [Case -> Seq(Chunks)]
  BY DEF IndInv, Types
<1>2. printed[c] \in Seq(Chunks) /\ printed'[c] = Append(printed[c], e)
      /\ \A d \in Case : d # c => printed'[d] = printed[d]
  BY <1>1
<1>3. /\ printed'[c] \in Seq(Chunks) /\ Len(printed[c]) \in Nat
      /\ Len(printed'[c]) = Len(printed[c]) + 1 /\ printed'[c][Len(printed[c]) + 1] = e
      /\ \A i \in 1..Len(printed[c]) : printed'[c][i] = printed[c][i]
  BY <1>2, Grow
<1>4. /\ DOMAIN printed[c] = 1..Len(printed[c]) /\ DOMAIN printed'[c] = 1..Len(printed'[c])
      /\ \A i : i \in 1..Len(printed'[c]) <=> i \in 1..Len(printed[c]) \/ i = Len(printed[c]) + 1
  BY <1>2, <1>3
<1>5. Tidy(c)' <=> Tidy(c) /\ e.kind \in {"line", "late"}
  BY <1>3, <1>4 DEF Tidy
<1>6. \A d \in Case : d # c => (Tidy(d)' <=> Tidy(d))
  BY <1>2 DEF Tidy
<1>7. printed' \in [Case -> Seq(Chunks)]
  BY <1>1, <1>3
<1>8. \A d : Mates(d)' = Mates(d) /\ Mates(d) \subseteq Case
  BY MatesFacts DEF Mates
<1>9. \A d : Clean(d)' <=> \A m \in Mates(d) : Tidy(m)'
  BY <1>8 DEF Clean
<1> QED
  BY <1>5, <1>6, <1>7, <1>8, <1>9 DEF Clean

LEMMA CasePrintsStep ==
  ASSUME IndInv, CasePrints
  PROVE  IndInv'
<1>1. PICK k \in Prints \ LateKinds :
        /\ pipe' = Append(pipe, Chunk(k, current))
        /\ printed' = [printed EXCEPT ![current] = Append(@, Chunk(k, current))]
  BY DEF CasePrints
<1>2. /\ worker = "running"
      /\ UNCHANGED <<worker, current, stdin, reader, channel, runner, next, output, results,
                     completed, delivered, faults>>
  BY DEF CasePrints, thread
<1>3. /\ runner = "wait" /\ current = next /\ next \in Case /\ stdin = <<>>
      /\ next \notin completed
  BY <1>2 DEF IndInv, Requests
<1> DEFINE e == Chunk(k, current)
<1>4. e \in Chunks /\ e.kind = k /\ e.len = 0 /\ k \in {"line", "text", "junk"}
  BY <1>3, StreamAssumption DEF Chunks, Chunk, PrintKinds, LateKinds
<1>5. pipe' = Append(pipe, e) /\ printed' = [printed EXCEPT ![current] = Append(@, e)]
  BY <1>1
<1> HIDE DEF e
<1>6. /\ pipe' \in Seq(Chunks) /\ Len(pipe) \in Nat /\ Len(pipe') = Len(pipe) + 1
      /\ pipe'[Len(pipe) + 1] = e /\ \A i \in 1..Len(pipe) : pipe'[i] = pipe[i]
      /\ \A i, kk : InPipe(i, kk)' <=> InPipe(i, kk) \/ (i = Len(pipe) + 1 /\ kk = k)
  BY <1>4, <1>5, PipeGrows
<1>7. /\ printed' \in [Case -> Seq(Chunks)]
      /\ \A d : Clean(d)' <=> Clean(d) /\ (next \in Mates(d) => k = "line")
      /\ next \in Mates(next)
  BY <1>2, <1>3, <1>4, <1>5, CleanPrinted, MatesFacts
<1>8. \A i, kk : InChannel(i, kk)' <=> InChannel(i, kk)
  BY <1>2, ChannelSame
<1>9. \A i : ~InPipe(i, "end") /\ ~InChannel(i, "end")
  BY <1>2 DEF IndInv, Frames, Ended
<1>10. \A i : ~InPipe(i, "end")' /\ ~InChannel(i, "end")'
  BY <1>4, <1>6, <1>8, <1>9
<1>11. Types'
  BY <1>2, <1>6, <1>7 DEF IndInv, Types
<1>12. Requests' /\ Completed'
  BY <1>2 DEF IndInv, Requests, Completed
<1>13. Frames'
  BY <1>10 DEF Frames
<1>14. Untidy' /\ Delivered'
  <2>1. Spoils(e) => k # "line"
    BY <1>4 DEF Spoils, IsJunk
  <2>2. next \notin delivered /\ \A c \in delivered : c <= next
    BY <1>9 DEF IndInv, Delivered
  <2> QED
    BY <1>2, <1>4, <1>5, <1>7, <2>1, <2>2, UntidyGrows DEF Delivered
<1>15. Stops'
  BY <1>2, <1>3, <1>7, <1>8, <1>10 DEF IndInv, Stops
<1>16. Begins'
  <2>1. Clean(next)' => EndsLine(pipe[Len(pipe)])'
    BY <1>2, <1>3, <1>4, <1>6, <1>7 DEF EndsLine, IsJunk
  <2>2. \A i \in 1..Len(pipe') : pipe'[i].len = 1 => pipe'[i].kind = "end"
    BY <1>4, <1>6 DEF IndInv, Begins
  <2> QED
    BY <1>10, <2>1, <2>2 DEF Begins
<1>17. Found'
  BY <1>2, <1>3 DEF Found
<1>18. Answers'
  BY <1>2, <1>7 DEF IndInv, Answers
<1> QED
  BY <1>11, <1>12, <1>13, <1>14, <1>15, <1>16, <1>17, <1>18 DEF IndInv

LEMMA WriteEndStep ==
  ASSUME IndInv, WriteEnd
  PROVE  IndInv'
<1>1. PICK n \in MsgLens :
        /\ pipe' = Append(pipe, EndFrame(current, n))
        /\ worker' = IF n = 0 THEN "idle" ELSE "ending"
        /\ completed' = IF n = 0 THEN completed \cup {current} ELSE completed
  BY DEF WriteEnd
<1>2. /\ worker = "running"
      /\ UNCHANGED <<current, stdin, reader, channel, runner, next, output, results, printed, delivered, faults>>
  BY DEF WriteEnd, thread
<1>3. /\ runner = "wait" /\ current = next /\ next \in Case /\ stdin = <<>>
      /\ next \notin completed
  BY <1>2 DEF IndInv, Requests
<1> DEFINE e == EndFrame(current, n)
<1>4. e \in Chunks /\ e.kind = "end" /\ e.len = n /\ e.of = next /\ n \in {0, 1}
  BY <1>3, StreamAssumption DEF Chunks, EndFrame
<1>5. pipe' = Append(pipe, e)
  BY <1>1
<1> HIDE DEF e
<1>6. /\ pipe' \in Seq(Chunks) /\ Len(pipe) \in Nat /\ Len(pipe') = Len(pipe) + 1
      /\ pipe'[Len(pipe) + 1] = e /\ \A i \in 1..Len(pipe) : pipe'[i] = pipe[i]
      /\ \A i, kk : InPipe(i, kk)' <=> InPipe(i, kk) \/ (i = Len(pipe) + 1 /\ kk = "end")
      /\ \A i, kk : InPipe(i, kk) => i \in 1..Len(pipe)
  BY <1>4, <1>5, PipeGrows
<1>7. \A d : Clean(d)' <=> Clean(d)
  BY <1>2, CleanSame
<1>8. \A i, kk : InChannel(i, kk)' <=> InChannel(i, kk)
  BY <1>2, ChannelSame
<1>9. \A i : ~InPipe(i, "end") /\ ~InChannel(i, "end")
  BY <1>2 DEF IndInv, Frames, Ended
<1>10. \A i : (InPipe(i, "end")' <=> i = Len(pipe) + 1) /\ ~InChannel(i, "end")'
  BY <1>6, <1>8, <1>9
<1>11. worker' \in {"idle", "ending"} /\ Ended'
  BY <1>1, <1>2, <1>3 DEF Ended
<1>12. Types'
  BY <1>1, <1>2, <1>3, <1>6 DEF IndInv, Types
<1>13. Requests' /\ Completed'
  <2>1. next \in Nat /\ \A c \in completed : c <= next
    BY DEF IndInv, Completed, Types
  <2>2. \A c \in completed' : c <= next
    BY <1>1, <1>3, <2>1
  <2>3. next \in completed' => worker' = "idle"
    BY <1>1, <1>3
  <2> QED
    BY <1>2, <1>3, <1>11, <2>2, <2>3 DEF IndInv, Requests, Completed
<1>14. Frames'
  BY <1>2, <1>4, <1>6, <1>10, <1>11 DEF Frames
<1>15. Untidy' /\ Delivered'
  <2>1. ~Spoils(e)
    BY <1>4 DEF Spoils, IsJunk
  <2>2. next \notin delivered /\ \A c \in delivered : c <= next
    BY <1>9 DEF IndInv, Delivered
  <2> QED
    BY <1>2, <1>4, <1>5, <1>7, <2>1, <2>2, UntidyGrows DEF Delivered
<1>16. Stops'
  <2>1. \A j : InChannel(j, "error") => ~Clean(next)
    BY <1>2 DEF IndInv, Stops
  <2>2. reader = "ended" => \E j : InChannel(j, "error")
    BY <1>2 DEF IndInv, Stops
  <2> QED
    BY <1>2, <1>7, <1>8, <1>10, <2>1, <2>2 DEF IndInv, Stops
<1>17. Begins'
  <2>1. Clean(next) /\ Len(pipe) + 1 > 1 => EndsLine(pipe[Len(pipe)])
    BY <1>2, <1>6 DEF IndInv, Begins
  <2>2. Clean(next) /\ Len(pipe) + 1 > 1 => EndsLine(pipe'[(Len(pipe) + 1) - 1])
    BY <1>6, <2>1
  <2>3. next \in completed' => n = 0
    BY <1>1, <1>3
  <2>4. \A i \in 1..Len(pipe') : pipe'[i].len = 1 => pipe'[i].kind = "end"
    BY <1>4, <1>6 DEF IndInv, Begins
  <2>5. \A i : InPipe(i, "end")' /\ i > 1 /\ Clean(next)' => EndsLine(pipe'[i - 1])
    BY <1>2, <1>7, <1>10, <2>2
  <2>6. \A i : InPipe(i, "end")' /\ next' \in completed' => i + pipe'[i].len <= Len(pipe')
    BY <1>2, <1>4, <1>6, <1>10, <2>3
  <2> QED
    BY <1>11, <2>4, <2>5, <2>6 DEF Begins, EndsLine, IsJunk
<1>18. Found'
  BY <1>10 DEF Found
<1>19. Answers'
  <2>1. Len(results) = next - 1 /\ next \in Nat
    BY DEF IndInv, Types
  <2>2. \A i \in 1..Len(results) : i # next
    BY <2>1
  <2> QED
    BY <1>1, <1>2, <1>3, <1>7, <2>2 DEF IndInv, Answers
<1> QED
  BY <1>12, <1>13, <1>14, <1>15, <1>16, <1>17, <1>18, <1>19 DEF IndInv

LEMMA WriteMessageStep ==
  ASSUME IndInv, WriteMessage
  PROVE  IndInv'
<1>1. /\ worker = "ending" /\ worker' = "idle"
      /\ pipe' = Append(pipe, Chunk("message", current))
      /\ completed' = completed \cup {current}
      /\ UNCHANGED <<current, stdin, reader, channel, runner, next, output, results, printed, delivered, faults>>
  BY DEF WriteMessage, thread
<1>2. \/ runner = "wait" /\ current = next /\ stdin = <<>> /\ next \in Case
      \/ /\ next > 1 /\ current = next - 1 /\ results[next - 1].status = "ended"
         /\ runner = "wait" => stdin = <<next>>
  BY <1>1 DEF IndInv, Requests
<1>3. /\ next \in 1..(NCases + 1) /\ NCases \in Nat /\ Len(results) = next - 1
      /\ next \notin completed /\ \A c \in completed : c <= next
  BY <1>1, StreamAssumption DEF IndInv, Types, Completed
<1>4. current \in Case /\ current <= next
  BY <1>2, <1>3 DEF Case
<1> DEFINE e == Chunk("message", current)
<1>5. e \in Chunks /\ e.kind = "message" /\ e.len = 0 /\ pipe' = Append(pipe, e)
  BY <1>1, <1>4 DEF Chunks, Chunk
<1> HIDE DEF e
<1>6. /\ pipe' \in Seq(Chunks) /\ Len(pipe) \in Nat /\ Len(pipe') = Len(pipe) + 1
      /\ pipe'[Len(pipe) + 1] = e /\ \A i \in 1..Len(pipe) : pipe'[i] = pipe[i]
      /\ \A i, kk : InPipe(i, kk)' <=> InPipe(i, kk) \/ (i = Len(pipe) + 1 /\ kk = "message")
      /\ \A i, kk : InPipe(i, kk) => i \in 1..Len(pipe)
  BY <1>5, PipeGrows
<1>7. \A d : Clean(d)' <=> Clean(d)
  BY <1>1, CleanSame
<1>8. \A i, kk : InChannel(i, kk)' <=> InChannel(i, kk)
  BY <1>1, ChannelSame
<1>9. \A i : (InPipe(i, "end")' <=> InPipe(i, "end"))
             /\ (InPipe(i, "end") => pipe'[i] = pipe[i])
  BY <1>6
<1>10. next \in completed' => runner = "wait" /\ current = next /\ stdin = <<>>
  BY <1>1, <1>2, <1>3
<1>11. Types'
  BY <1>1, <1>4, <1>6 DEF IndInv, Types
<1>12. Requests'
  BY <1>1 DEF IndInv, Requests
<1>13. Completed'
  BY <1>1, <1>3, <1>4, <1>10 DEF Completed
<1>14. Frames'
  BY <1>1, <1>8, <1>9 DEF IndInv, Frames, Ended
<1>15. Untidy' /\ Delivered'
  <2>1. ~Spoils(e)
    BY <1>5 DEF Spoils, IsJunk
  <2>2. Untidy'
    BY <1>1, <1>5, <1>7, <2>1, UntidyGrows
  <2> QED
    BY <1>1, <1>8, <2>2 DEF IndInv, Delivered, Ended
<1>16. Stops'
  <2>1. \A j : InChannel(j, "error") => ~Clean(next)
    BY <1>1 DEF IndInv, Stops
  <2>2. reader = "ended" => \E j : InChannel(j, "error")
    BY <1>1 DEF IndInv, Stops
  <2> QED
    BY <1>1, <1>7, <1>8, <2>1, <2>2 DEF IndInv, Stops
<1>17. Begins'
  <2>1. \A i : InPipe(i, "end")' /\ i > 1 /\ Clean(next)' => EndsLine(pipe'[i - 1])
    <3>1. \A i : InPipe(i, "end") /\ i > 1 => pipe'[i - 1] = pipe[i - 1]
      BY <1>6
    <3> QED
      BY <1>1, <1>7, <1>9, <3>1 DEF IndInv, Begins
  <2>2. \A i \in 1..Len(pipe) : pipe[i].len \in {0, 1}
    BY ChunkLens
  <2>3. \A i : InPipe(i, "end")' => i + pipe'[i].len <= Len(pipe')
    BY <1>6, <1>9, <2>2
  <2>4. \A i \in 1..Len(pipe') : pipe'[i].len = 1 => pipe'[i].kind = "end"
    BY <1>5, <1>6 DEF IndInv, Begins
  <2> QED
    BY <1>1, <2>1, <2>3, <2>4 DEF Begins, EndsLine, IsJunk
<1>18. Found'
  BY <1>1, <1>7, <1>8, <1>9, <1>10 DEF IndInv, Found
<1>19. Answers'
  <2>1. \A i \in 1..Len(results) : i = current => results[i].status = "ended"
    BY <1>2, <1>3
  <2> QED
    BY <1>1, <1>7, <2>1 DEF IndInv, Answers
<1> QED
  BY <1>11, <1>12, <1>13, <1>14, <1>15, <1>16, <1>17, <1>18, <1>19 DEF IndInv

LEMMA StraggleStep ==
  ASSUME IndInv, Straggle
  PROVE  IndInv'
<1>1. PICK k \in Prints \cap LateKinds, c \in Mates(next) :
        /\ pipe' = Append(pipe, Chunk(k, c))
        /\ printed' = [printed EXCEPT ![c] = Append(@, Chunk(k, c))]
  BY DEF Straggle
<1>2. UNCHANGED <<worker, current, stdin, reader, channel, runner, next, output, results,
                  completed, delivered, faults>>
  BY DEF Straggle, thread
<1>a. c \in Case /\ k \in LateKinds
  BY MatesFacts
<1> DEFINE e == Chunk(k, c)
<1>3. /\ e \in Chunks /\ e.kind = k /\ e.len = 0
      /\ pipe' = Append(pipe, e) /\ printed' = [printed EXCEPT ![c] = Append(@, e)]
  BY <1>1, <1>a DEF Chunks, Chunk, PrintKinds, LateKinds
<1> HIDE DEF e
<1>4. /\ pipe' \in Seq(Chunks) /\ Len(pipe) \in Nat /\ Len(pipe') = Len(pipe) + 1
      /\ pipe'[Len(pipe) + 1] = e /\ \A i \in 1..Len(pipe) : pipe'[i] = pipe[i]
      /\ \A i, kk : InPipe(i, kk)' <=> InPipe(i, kk) \/ (i = Len(pipe) + 1 /\ kk = k)
      /\ \A i, kk : InPipe(i, kk) => i \in 1..Len(pipe)
  BY <1>3, PipeGrows
<1>5. /\ printed' \in [Case -> Seq(Chunks)]
      /\ \A d : Clean(d)' => Clean(d)
      /\ Clean(next)' <=> Clean(next) /\ k = "late"
  <2>1. \A d : Clean(d)' <=> Clean(d) /\ (c \in Mates(d) => e.kind \in {"line", "late"})
    BY <1>2, <1>3, <1>a, CleanPrinted
  <2>2. k \in {"line", "late"} <=> k = "late"
    BY <1>a DEF LateKinds
  <2> QED
    BY <1>2, <1>3, <1>a, <2>1, <2>2, CleanPrinted
<1>6. \A i, kk : InChannel(i, kk)' <=> InChannel(i, kk)
  BY <1>2, ChannelSame
<1>7. \A i : (InPipe(i, "end")' <=> InPipe(i, "end"))
             /\ (InPipe(i, "end") => pipe'[i] = pipe[i])
  BY <1>4, <1>a DEF LateKinds
<1>8. Clean(next)' => Clean(next)
  BY <1>5
<1>9. /\ \A i : InPipe(i, "end") => runner = "wait"
      /\ worker = "running" => runner = "wait"
  BY DEF IndInv, Frames, Ended, Requests
<1>10. Types'
  BY <1>2, <1>4, <1>5 DEF IndInv, Types
<1>11. Requests' /\ Completed'
  BY <1>2 DEF IndInv, Requests, Completed
<1>12. Frames'
  BY <1>2, <1>6, <1>7 DEF IndInv, Frames, Ended
<1>13. Untidy' /\ Delivered'
  <2>1. Spoils(e) => k # "late"
    BY <1>3 DEF Spoils, IsJunk
  <2>2. Untidy'
    BY <1>2, <1>3, <1>5, <2>1, UntidyGrows
  <2> QED
    BY <1>2, <1>6, <2>2 DEF IndInv, Delivered, Ended
<1>14. Stops'
  <2>1. worker # "gone"
    BY DEF Straggle, Up
  <2>2. reader = "ended" => \E j : InChannel(j, "error")
    BY <2>1 DEF IndInv, Stops
  <2> QED
    BY <1>2, <1>6, <1>8, <2>2 DEF IndInv, Stops
<1>15. Begins'
  <2>1. \A i : InPipe(i, "end")' /\ i > 1 /\ Clean(next)' => EndsLine(pipe'[i - 1])
    <3>1. \A i : InPipe(i, "end") /\ i > 1 => pipe'[i - 1] = pipe[i - 1]
      BY <1>4
    <3> QED
      BY <1>2, <1>7, <1>8, <1>9, <3>1 DEF IndInv, Begins
  <2>2. Clean(next)' => EndsLine(pipe'[Len(pipe')])
    BY <1>3, <1>4, <1>5 DEF EndsLine, IsJunk
  <2>3. \A i : InPipe(i, "end")' /\ next' \in completed' => i + pipe'[i].len <= Len(pipe')
    <3>1. \A i : InPipe(i, "end") /\ next \in completed => i + pipe[i].len <= Len(pipe)
      BY DEF IndInv, Begins
    <3>2. \A i \in 1..Len(pipe) : pipe[i].len \in {0, 1}
      BY ChunkLens
    <3> QED
      BY <1>2, <1>4, <1>7, <3>1, <3>2
  <2>4. \A i \in 1..Len(pipe') : pipe'[i].len = 1 => pipe'[i].kind = "end"
    BY <1>3, <1>4 DEF IndInv, Begins
  <2> QED
    BY <2>1, <2>2, <2>3, <2>4 DEF Begins, EndsLine, IsJunk
<1>16. Found'
  BY <1>2, <1>6, <1>7, <1>8 DEF IndInv, Found
<1>17. Answers'
  BY <1>2, <1>5 DEF IndInv, Answers
<1> QED
  BY <1>10, <1>11, <1>12, <1>13, <1>14, <1>15, <1>16, <1>17 DEF IndInv

LEMMA FaultStep ==
  ASSUME IndInv, Dies \/ Hangs
  PROVE  IndInv'
<1>1. /\ worker' = "gone" \/ (worker' = "hung" /\ worker = "running")
      /\ faults < MaxFaults /\ faults' = faults + 1 /\ worker # "gone"
      /\ UNCHANGED <<current, stdin, pipe, reader, channel, runner, next, output, results,
                     printed, completed, delivered>>
  BY DEF Dies, Hangs, Up, thread, history
<1>2. /\ \A i, k : InPipe(i, k)' <=> InPipe(i, k)
      /\ \A i, k : InChannel(i, k)' <=> InChannel(i, k)
      /\ \A c : Clean(c)' <=> Clean(c)
  BY <1>1, PipeSame, ChannelSame, CleanSame
<1>3. Types'
  BY <1>1, StreamAssumption DEF IndInv, Types
<1>4. Requests' /\ Completed'
  BY <1>1 DEF IndInv, Requests, Completed
<1>5. Frames' /\ Untidy' /\ Delivered'
  BY <1>1, <1>2 DEF IndInv, Frames, Ended, Untidy, Spoils, IsJunk, Delivered
<1>6. Stops'
  BY <1>1, <1>2 DEF IndInv, Stops
<1>7. Begins' /\ Found'
  BY <1>1, <1>2 DEF IndInv, Begins, Found, EndsLine, IsJunk
<1>8. Answers'
  BY <1>1, <1>2 DEF IndInv, Answers
<1> QED
  BY <1>3, <1>4, <1>5, <1>6, <1>7, <1>8 DEF IndInv

(***************************************************************************)
(* The drain thread's steps.                                               *)
(***************************************************************************)
outside == <<worker, current, stdin, thread, printed, completed, faults>>

\* Taking a prefix of the pipe leaves what follows as it was.
LEMMA DrainKeeps ==
  ASSUME IndInv, NEW n \in 0..Len(pipe), pipe' = SubSeq(pipe, n + 1, Len(pipe)),
         UNCHANGED outside
  PROVE  /\ Requests' /\ Completed' /\ Begins' /\ Untidy'
         /\ UNCHANGED delivered => Answers'
         /\ \A i, k : InPipe(i, k)' =>
              i \in Nat \ {0} /\ InPipe(i + n, k) /\ pipe'[i] = pipe[i + n]
<1>1. UNCHANGED <<worker, current, stdin, runner, next, output, results, printed, completed, faults>>
  BY DEF outside, thread
<1>2. /\ pipe' \in Seq(Chunks) /\ Len(pipe) \in Nat /\ Len(pipe') = Len(pipe) - n
      /\ \A i \in 1..Len(pipe') : i + n \in 1..Len(pipe) /\ pipe'[i] = pipe[i + n]
      /\ \A i, k : InPipe(i, k)' => i \in Nat /\ InPipe(i + n, k)
  BY PipeCut
<1>3. \A i, k : InPipe(i, k)' => i \in 1..Len(pipe')
  BY DEF InPipe
<1>4. \A i, k : InPipe(i, k)' => i \in Nat \ {0} /\ InPipe(i + n, k) /\ pipe'[i] = pipe[i + n]
  BY <1>2, <1>3
<1>5. \A c : Clean(c)' <=> Clean(c)
  BY <1>1, CleanSame
<1>6. Requests' /\ Completed'
  BY <1>1 DEF IndInv, Requests, Completed
<1>7. UNCHANGED delivered => Answers'
  BY <1>1, <1>5 DEF IndInv, Answers
<1>9. Untidy'
  BY <1>1, UntidyCut
<1>8. Begins'
  <2>1. worker' = "running" /\ Clean(next)' => pipe' = <<>> \/ EndsLine(pipe'[Len(pipe')])
    <3>1. pipe' = <<>> \/ (pipe # <<>> /\ pipe'[Len(pipe')] = pipe[Len(pipe)])
      <4>1. pipe' = <<>> \/ Len(pipe') \in 1..Len(pipe')
        BY <1>2
      <4>2. Len(pipe') + n = Len(pipe) /\ (Len(pipe') \in 1..Len(pipe') => Len(pipe) # 0)
        BY <1>2
      <4>3. Len(pipe') \in 1..Len(pipe') => pipe'[Len(pipe')] = pipe[Len(pipe') + n]
        BY <1>2
      <4>4. Len(pipe) # 0 => pipe # <<>>
        OBVIOUS
      <4> QED
        BY <4>1, <4>2, <4>3, <4>4
    <3>2. worker = "running" /\ Clean(next) => pipe = <<>> \/ EndsLine(pipe[Len(pipe)])
      BY DEF IndInv, Begins
    <3> QED
      BY <1>1, <1>5, <3>1, <3>2
  <2>2. \A i : InPipe(i, "end")' /\ i > 1 /\ Clean(next)' => EndsLine(pipe'[i - 1])
    <3>1. SUFFICES ASSUME NEW i, InPipe(i, "end")', i > 1, Clean(next)'
                   PROVE  EndsLine(pipe'[i - 1])
      OBVIOUS
    <3>2. i \in 1..Len(pipe') /\ InPipe(i + n, "end")
      BY <3>1, <1>3, <1>4
    <3>3. i + n > 1 /\ pipe'[i - 1] = pipe[(i + n) - 1]
      BY <1>2, <3>1, <3>2
    <3>4. Clean(next)
      BY <1>1, <1>5, <3>1
    <3> QED
      BY <3>2, <3>3, <3>4 DEF IndInv, Begins
  <2>3. \A i : InPipe(i, "end")' /\ next' \in completed' => i + pipe'[i].len <= Len(pipe')
    <3>1. SUFFICES ASSUME NEW i, InPipe(i, "end")', next \in completed
                   PROVE  i + pipe'[i].len <= Len(pipe')
      BY <1>1
    <3>2. i \in 1..Len(pipe') /\ InPipe(i + n, "end") /\ pipe'[i] = pipe[i + n]
      BY <3>1, <1>3, <1>4
    <3>3. (i + n) + pipe[i + n].len <= Len(pipe)
      BY <3>1, <3>2 DEF IndInv, Begins
    <3>4. pipe[i + n].len \in {0, 1}
      BY <1>2, <3>2, ChunkLens
    <3>5. \A l \in {0, 1} : (i + n) + l <= Len(pipe) => i + l <= Len(pipe')
      BY <1>2, <3>2
    <3> QED
      BY <3>2, <3>3, <3>4, <3>5
  <2>4. \A i \in 1..Len(pipe') : pipe'[i].len = 1 => pipe'[i].kind = "end"
    BY <1>2 DEF IndInv, Begins
  <2> QED
    BY <2>1, <2>2, <2>3, <2>4 DEF Begins, EndsLine, IsJunk
<1> QED
  BY <1>4, <1>6, <1>7, <1>8, <1>9

\* A line that is no end frame leaves the one there is where it is.
LEMMA CutKeeps ==
  ASSUME IndInv, NEW n \in 0..Len(pipe), pipe' = SubSeq(pipe, n + 1, Len(pipe)),
         UNCHANGED outside,
         \A i : InChannel(i, "end")' <=> InChannel(i, "end"),
         \A i : InChannel(i, "end") => channel'[i] = channel[i]
  PROVE  Frames' /\ (UNCHANGED delivered => Delivered')
<1>1. UNCHANGED <<worker, current, stdin, runner, next, output, results, printed, completed, faults>>
  BY DEF outside, thread
<1>2. \A i, k : InPipe(i, k)' => i \in Nat \ {0} /\ InPipe(i + n, k) /\ pipe'[i] = pipe[i + n]
  BY DrainKeeps
<1>3. n \in Nat
  BY DEF IndInv, Types
<1>4. Frames'
  <2>1. \A i : InPipe(i, "end")' => Ended' /\ pipe'[i].of = next'
    BY <1>1, <1>2, ZenonT(40) DEF IndInv, Frames, Ended
  <2>2. \A i : InChannel(i, "end")' =>
          Ended' /\ channel'[i].chunks # <<>> /\ channel'[i].chunks[1].of = next'
    BY <1>1 DEF IndInv, Frames, Ended
  <2>3. \A i, j : InPipe(i, "end")' /\ InPipe(j, "end")' => i = j
    <3>1. \A i, j : InPipe(i, "end")' /\ InPipe(j, "end")' =>
            i \in Nat /\ j \in Nat /\ i + n = j + n
      BY <1>2 DEF IndInv, Frames
    <3>2. \A i, j \in Nat : i + n = j + n => i = j
      BY <1>3
    <3> QED
      BY <3>1, <3>2
  <2>4. /\ \A i, j : InChannel(i, "end")' /\ InChannel(j, "end")' => i = j
        /\ \A i, j : ~(InPipe(i, "end")' /\ InChannel(j, "end")')
    BY <1>2 DEF IndInv, Frames
  <2> QED
    BY <2>1, <2>2, <2>3, <2>4 DEF Frames
<1>5. UNCHANGED delivered => Delivered'
  BY <1>1 DEF IndInv, Delivered, Ended
<1> QED
  BY <1>4, <1>5

LEMMA DrainFrameStep ==
  ASSUME IndInv, DrainFrame
  PROVE  IndInv'
<1> PICK n : n = Taken
  OBVIOUS
<1> DEFINE e == Line(pipe[1].kind, SubSeq(pipe, 1, n))
<1>1. /\ reader = "reading" /\ reader' = reader /\ LineLen = 1 /\ pipe[1].kind \in {"start", "end"}
      /\ n = 1 + pipe[1].len /\ Len(pipe) >= n
      /\ channel' = Append(channel, e) /\ pipe' = SubSeq(pipe, n + 1, Len(pipe))
      /\ delivered' = IF pipe[1].kind = "end" THEN delivered \cup {pipe[1].of} ELSE delivered
      /\ UNCHANGED outside
  BY DEF DrainFrame, Send, Control, Taken, outside
<1>2. UNCHANGED <<worker, current, stdin, runner, next, output, results, printed, completed, faults>>
  BY <1>1 DEF outside, thread
<1>3. pipe \in Seq(Chunks) /\ Len(pipe) \in Nat /\ 1 \in 1..Len(pipe)
  BY <1>1, LineLenFacts DEF IndInv, Types
<1>4. /\ pipe[1].len \in {0, 1} /\ (pipe[1].kind = "start" => pipe[1].len = 0)
      /\ InPipe(1, pipe[1].kind)
  BY <1>3, ChunkLens DEF IndInv, Begins, InPipe
<1>5. n \in 0..Len(pipe) /\ n \in 1..2 /\ (pipe[1].kind = "start" => n = 1)
  BY <1>1, <1>3, <1>4
<1>6. /\ SubSeq(pipe, 1, n) \in Seq(Chunks) /\ SubSeq(pipe, 1, n) # <<>>
      /\ SubSeq(pipe, 1, n)[1] = pipe[1]
  <2>1. /\ SubSeq(pipe, 1, n) \in Seq(Chunks) /\ Len(SubSeq(pipe, 1, n)) = n
        /\ \A i \in 1..n : SubSeq(pipe, 1, n)[i] = pipe[i]
    BY <1>3, <1>5, Front1
  <2> QED
    BY <1>5, <2>1
<1>7. /\ e \in Lines /\ e.kind = pipe[1].kind /\ e.chunks # <<>> /\ e.chunks[1] = pipe[1]
  BY <1>1, <1>6 DEF Lines, Line
<1> HIDE DEF e
<1>8. /\ Requests' /\ Completed' /\ Begins' /\ Untidy' /\ (UNCHANGED delivered => Answers')
      /\ \A i, k : InPipe(i, k)' => i \in Nat \ {0} /\ InPipe(i + n, k) /\ pipe'[i] = pipe[i + n]
  BY <1>1, <1>5, DrainKeeps
<1>9. /\ pipe' \in Seq(Chunks)
      /\ \A i, k : InPipe(i, k) => i <= n \/ (i - n \in 1..Len(pipe') /\ InPipe(i - n, k)')
  BY <1>1, <1>5, PipeCut
<1>10. /\ channel' \in Seq(Lines) /\ Len(channel) \in Nat
       /\ channel'[Len(channel) + 1] = e /\ \A i \in 1..Len(channel) : channel'[i] = channel[i]
       /\ \A i, k : InChannel(i, k)' <=> InChannel(i, k) \/ (i = Len(channel) + 1 /\ e.kind = k)
       /\ \A i, k : InChannel(i, k) => i \in 1..Len(channel)
  BY <1>1, <1>7, ChannelGrows
<1>11. \A c : Clean(c)' <=> Clean(c)
  BY <1>2, CleanSame
<1>13. Stops'
  BY <1>1, <1>7, <1>10 DEF IndInv, Stops
<1>14. CASE pipe[1].kind = "start"
  <2>1. /\ n = 1 /\ ~InPipe(1, "end")
        /\ \A i : InChannel(i, "end")' <=> InChannel(i, "end")
    BY <1>5, <1>7, <1>10, <1>14 DEF InPipe
  <2>2. \A i : InPipe(i, "end") => InPipe(i - 1, "end")'
    <3>1. \A i : InPipe(i, "end") => i \in 1..Len(pipe) /\ i # 1
      BY <2>1 DEF InPipe
    <3>2. \A i : InPipe(i, "end") => ~(i <= n)
      BY <1>3, <2>1, <3>1
    <3> QED
      BY <1>9, <2>1, <3>2
  <2>3. \A i : InChannel(i, "end") => channel'[i] = channel[i]
    BY <1>10
  <2>a. delivered' = delivered
    BY <1>1, <1>14
  <2>4. Frames' /\ Delivered'
    BY <1>1, <1>5, <2>1, <2>3, <2>a, CutKeeps
  <2>5. Found'
    BY <1>2, <1>11, <2>1, <2>2 DEF IndInv, Found
  <2>6. Types'
    BY <1>1, <1>2, <1>9, <1>10, <2>a DEF IndInv, Types
  <2> QED
    BY <1>8, <1>13, <2>4, <2>5, <2>6, <2>a DEF IndInv
<1>15. CASE pipe[1].kind = "end"
  <2>1. InPipe(1, "end")
    BY <1>4, <1>15
  <2>2. /\ Ended /\ pipe[1].of = next /\ \A i : InPipe(i, "end") => i = 1
        /\ \A i : ~InChannel(i, "end")
    BY <2>1 DEF IndInv, Frames
  <2>3. \A j \in Nat \ {0} : j + n # 1
    BY <1>5
  <2>4. \A i : ~InPipe(i, "end")'
    BY <1>8, <2>2, <2>3
  <2>5. \A i : InChannel(i, "end")' <=> i = Len(channel) + 1
    BY <1>7, <1>10, <1>15, <2>2
  <2>6. Frames'
    BY <1>2, <1>7, <1>10, <2>2, <2>4, <2>5 DEF Frames, Ended
  <2>7. Found'
    BY <2>5 DEF Found
  <2>8. delivered' = delivered \cup {next} /\ next \in Case
    BY <1>1, <1>15, <2>2 DEF IndInv, Requests, Ended
  <2>9. Types'
    BY <1>1, <1>2, <1>9, <1>10, <2>8 DEF IndInv, Types
  <2>10. Delivered'
    <3>1. next \in Nat /\ \A c \in delivered : c <= next
      BY DEF IndInv, Types, Delivered
    <3>2. \A c \in delivered' : c <= next'
      BY <1>2, <2>8, <3>1
    <3>3. PICK m : m = Len(channel) + 1
      OBVIOUS
    <3>4. InChannel(m, "end")'
      BY <2>5, <3>3
    <3> QED
      BY <1>2, <2>2, <3>2, <3>4 DEF Delivered, Ended
  <2>11. Answers'
    <3>1. \A i \in 1..Len(results) : i # next
      BY DEF IndInv, Types
    <3> QED
      BY <1>2, <1>11, <2>8, <3>1 DEF IndInv, Answers
  <2> QED
    BY <1>8, <1>13, <2>6, <2>7, <2>9, <2>10, <2>11 DEF IndInv
<1> QED
  BY <1>1, <1>14, <1>15

LEMMA DrainOutputStep ==
  ASSUME IndInv, DrainOutput
  PROVE  IndInv'
<1> PICK n : n = LineLen
  OBVIOUS
<1> DEFINE e == Line("output", SubSeq(pipe, 1, n))
<1>1. /\ reader = "reading" /\ reader' = reader /\ n > 0 /\ ~Control
      /\ channel' = Append(channel, e) /\ pipe' = SubSeq(pipe, n + 1, Len(pipe))
      /\ UNCHANGED outside /\ delivered' = delivered
  BY DEF DrainOutput, Send, outside, history
<1>2. UNCHANGED <<worker, current, stdin, runner, next, output, results, printed, completed, faults>>
  BY <1>1 DEF outside, thread
<1>3. /\ pipe \in Seq(Chunks) /\ Len(pipe) \in Nat /\ n \in 0..Len(pipe)
      /\ \A i \in 1..Len(pipe) : i < n => ~EndsLine(pipe[i])
  BY LineLenFacts DEF IndInv, Types
<1>4. e \in Lines /\ e.kind = "output"
  <2>1. SubSeq(pipe, 1, n) \in Seq(Chunks)
    BY <1>3, Front1
  <2> QED
    BY <2>1 DEF Lines, Line
<1> HIDE DEF e
<1>5. /\ Requests' /\ Completed' /\ Begins' /\ Answers' /\ Untidy'
  BY <1>1, <1>3, DrainKeeps
<1>6. /\ pipe' \in Seq(Chunks)
      /\ \A i, k : InPipe(i, k) => i <= n \/ (i - n \in 1..Len(pipe') /\ InPipe(i - n, k)')
  BY <1>1, <1>3, PipeCut
<1>7. /\ channel' \in Seq(Lines) /\ Len(channel) \in Nat
      /\ \A i \in 1..Len(channel) : channel'[i] = channel[i]
      /\ \A i, k : InChannel(i, k)' <=> InChannel(i, k) \/ (i = Len(channel) + 1 /\ e.kind = k)
      /\ \A i, k : InChannel(i, k) => i \in 1..Len(channel)
  BY <1>1, <1>4, ChannelGrows
<1>8. \A c : Clean(c)' <=> Clean(c)
  BY <1>2, CleanSame
<1>9. /\ \A i : InChannel(i, "end")' <=> InChannel(i, "end")
      /\ \A i : InChannel(i, "error")' <=> InChannel(i, "error")
      /\ \A i : InChannel(i, "end") => channel'[i] = channel[i]
  BY <1>4, <1>7
<1>10. Types'
  BY <1>1, <1>2, <1>6, <1>7 DEF IndInv, Types
<1>11. Frames' /\ Delivered'
  BY <1>1, <1>3, <1>9, CutKeeps
<1>12. Stops'
  BY <1>1, <1>9 DEF IndInv, Stops
<1>13. Clean(next) => \A i : InPipe(i, "end") => i > n
  <2>1. SUFFICES ASSUME Clean(next), NEW i, InPipe(i, "end"), ~(i > n)
                 PROVE  FALSE
    OBVIOUS
  <2>2. i \in 1..Len(pipe) /\ EndsLine(pipe[i]) /\ pipe[i].kind = "end"
    BY <2>1 DEF InPipe, EndsLine, IsJunk
  <2>3. i = n
    BY <1>3, <2>1, <2>2
  <2>4. CASE i = 1
    BY <1>1, <2>2, <2>3, <2>4 DEF Control
  <2>5. CASE i > 1
    <3>1. EndsLine(pipe[i - 1])
      BY <2>1, <2>5 DEF IndInv, Begins
    <3>2. i - 1 \in 1..Len(pipe) /\ i - 1 < n
      BY <1>3, <2>2, <2>3, <2>5
    <3> QED
      BY <1>3, <3>1, <3>2
  <2> QED
    BY <1>3, <2>2, <2>4, <2>5
<1>14. Found'
  <2>1. Clean(next) => \A i : InPipe(i, "end") => InPipe(i - n, "end")'
    <3>1. \A i : InPipe(i, "end") => i \in Nat
      BY <1>3 DEF InPipe
    <3>2. \A i \in Nat : i > n => ~(i <= n)
      BY <1>3
    <3> QED
      BY <1>6, <1>13, <3>1, <3>2
  <2> QED
    BY <1>2, <1>8, <1>9, <2>1 DEF IndInv, Found
<1> QED
  BY <1>5, <1>10, <1>11, <1>12, <1>14 DEF IndInv

LEMMA DrainErrorStep ==
  ASSUME IndInv, DrainError
  PROVE  IndInv'
<1> PICK n : n = LineLen
  OBVIOUS
<1> DEFINE e == Line("error", <<>>)
<1>1. /\ reader = "reading" /\ reader' = "ended"
      /\ channel' = Append(channel, e) /\ pipe' = SubSeq(pipe, n + 1, Len(pipe))
      /\ UNCHANGED outside /\ delivered' = delivered
  BY DEF DrainError, Send, outside, history
<1>2. UNCHANGED <<worker, current, stdin, runner, next, output, results, printed, completed, faults>>
  BY <1>1 DEF outside, thread
<1>3. pipe \in Seq(Chunks) /\ Len(pipe) \in Nat /\ n \in 0..Len(pipe)
  BY LineLenFacts DEF IndInv, Types
<1>4. e \in Lines /\ e.kind = "error"
  BY DEF Lines, Line
<1> HIDE DEF e
<1>5. /\ Requests' /\ Completed' /\ Begins' /\ Answers' /\ Untidy'
  BY <1>1, <1>3, DrainKeeps
<1>6. pipe' \in Seq(Chunks)
  BY <1>1, <1>3, PipeCut
<1>7. /\ channel' \in Seq(Lines) /\ Len(channel) \in Nat
      /\ \A i \in 1..Len(channel) : channel'[i] = channel[i]
      /\ \A i, k : InChannel(i, k)' <=> InChannel(i, k) \/ (i = Len(channel) + 1 /\ e.kind = k)
      /\ \A i, k : InChannel(i, k) => i \in 1..Len(channel)
  BY <1>1, <1>4, ChannelGrows
<1>8. \A c : Clean(c)' <=> Clean(c)
  BY <1>2, CleanSame
<1>9. /\ \A i : InChannel(i, "end")' <=> InChannel(i, "end")
      /\ \A i : InChannel(i, "end") => channel'[i] = channel[i]
      /\ \E j : InChannel(j, "error")'
  <2>1. PICK m : m = Len(channel) + 1
    OBVIOUS
  <2>2. InChannel(m, "error")'
    BY <1>4, <1>7, <2>1
  <2>3. \A i : InChannel(i, "end")' <=> InChannel(i, "end")
    BY <1>4, <1>7
  <2> QED
    BY <1>7, <2>2, <2>3
<1>10. Types'
  BY <1>1, <1>2, <1>6, <1>7 DEF IndInv, Types
<1>11. Frames' /\ Delivered'
  BY <1>1, <1>3, <1>9, CutKeeps
<1>12. ~Clean(next) \/ (/\ runner = "wait" /\ worker = "gone" /\ next \notin completed
                        /\ \A i : ~InChannel(i, "end"))
  <2>1. CASE \E i \in 1..LineLen : IsJunk(pipe[i])
    <3>1. PICK i \in 1..n : IsJunk(pipe[i])
      BY <2>1
    <3>2. i \in 1..Len(pipe) /\ Spoils(pipe[i])
      BY <1>3, <3>1 DEF Spoils, IsJunk
    <3> QED
      BY <3>2 DEF IndInv, Untidy, Spoils, IsJunk
  <2>2. CASE Control /\ Len(pipe) < Taken /\ worker = "gone"
    <3>1. n = 1 /\ Taken = 1 + pipe[1].len /\ Len(pipe) < 1 + pipe[1].len
      BY <2>2 DEF Control, Taken
    <3>2. 1 \in 1..Len(pipe) /\ pipe[1].len \in {0, 1}
      BY <1>3, <3>1, ChunkLens
    <3>3. pipe[1].len = 1 /\ ~(1 + pipe[1].len <= Len(pipe))
      BY <1>3, <3>1, <3>2
    <3>4. InPipe(1, "end")
      BY <3>2, <3>3 DEF IndInv, Begins, InPipe
    <3>5. next \notin completed
      BY <3>3, <3>4 DEF IndInv, Begins
    <3> QED
      BY <2>2, <3>4, <3>5 DEF IndInv, Frames, Ended
  <2> QED
    BY <2>1, <2>2 DEF DrainError
<1>13. Stops'
  <2>1. \A j : ~InChannel(j, "error")
    BY <1>1 DEF IndInv, Stops
  <2>2. \A j : InChannel(j, "error")' => j = Len(channel) + 1
    BY <1>7, <2>1
  <2>3. \A i : InChannel(i, "end")' => i < Len(channel) + 1
    BY <1>7, <1>9
  <2>4. Clean(next)' <=> Clean(next)
    BY <1>2, <1>8
  <2> QED
    BY <1>1, <1>2, <1>9, <1>12, <2>2, <2>3, <2>4 DEF Stops
<1>14. Found'
  BY <1>2, <1>8, <1>12 DEF Found
<1> QED
  BY <1>5, <1>10, <1>11, <1>13, <1>14 DEF IndInv

LEMMA DrainEndsStep ==
  ASSUME IndInv, DrainEnds
  PROVE  IndInv'
<1>1. /\ reader' = "ended" /\ pipe = <<>> /\ worker = "gone" /\ reader = "reading"
      /\ UNCHANGED <<worker, current, stdin, pipe, channel, runner, next, output, results, printed,
                     completed, delivered, faults>>
  BY DEF DrainEnds, thread, history
<1>2. /\ \A i, k : InPipe(i, k)' <=> InPipe(i, k)
      /\ \A i, k : InChannel(i, k)' <=> InChannel(i, k)
      /\ \A c : Clean(c)' <=> Clean(c)
  BY <1>1, PipeSame, ChannelSame, CleanSame
<1>3. Types' /\ Requests' /\ Completed'
  BY <1>1 DEF IndInv, Types, Requests, Completed
<1>4. Frames' /\ Untidy' /\ Delivered'
  BY <1>1, <1>2 DEF IndInv, Frames, Ended, Untidy, Spoils, IsJunk, Delivered
<1>5. Stops'
  BY <1>1, <1>2 DEF IndInv, Stops
<1>6. Begins' /\ Found'
  BY <1>1, <1>2 DEF IndInv, Begins, Found, EndsLine, IsJunk
<1>7. Answers'
  BY <1>1, <1>2 DEF IndInv, Answers
<1> QED
  BY <1>3, <1>4, <1>5, <1>6, <1>7 DEF IndInv

(***************************************************************************)
(* The runner's steps.                                                     *)
(***************************************************************************)
\* A case is reported.
LEMMA Reported ==
  ASSUME IndInv, next \in Case, NEW r \in Result, results' = Append(results, r),
         next' = next + 1
  PROVE  /\ results' \in Seq(Result) /\ next' \in 1..(NCases + 1) /\ Len(results') = next' - 1
         /\ next' > 1 /\ next' - 1 = next /\ next' \notin completed /\ next' \notin delivered
         /\ \A c \in completed \cup delivered : c <= next'
         /\ \A i \in 1..Len(results') : i \in 1..Len(results) \/ i = next
         /\ \A i \in 1..Len(results) : results'[i] = results[i] /\ i \in Case
         /\ results'[next] = r
<1>1. /\ results \in Seq(Result) /\ Len(results) = next - 1 /\ next \in 1..NCases /\ NCases \in Nat
      /\ \A c \in completed \cup delivered : c <= next /\ c \in Nat
  BY StreamAssumption DEF IndInv, Types, Completed, Delivered, Case
<1>2. /\ results' \in Seq(Result) /\ Len(results') = Len(results) + 1
      /\ results'[Len(results) + 1] = r /\ \A i \in 1..Len(results) : results'[i] = results[i]
  BY <1>1, Grow
<1>3. Len(results) + 1 = next /\ Len(results') = next
  BY <1>1, <1>2
<1>4. /\ next' \in 1..(NCases + 1) /\ Len(results') = next' - 1
      /\ next' > 1 /\ next' - 1 = next /\ next' \notin completed /\ next' \notin delivered
      /\ \A c \in completed \cup delivered : c <= next'
  BY <1>1, <1>3
<1>5. \A i \in 1..next : i \in 1..Len(results) \/ i = next
  BY <1>1
<1>6. \A i \in 1..Len(results) : i \in Case
  BY <1>1 DEF Case
<1> QED
  BY <1>2, <1>3, <1>4, <1>5, <1>6

\* Which worker ran the cases so far is settled; with one more ended, its worker
\* is the next case's too, and as clean or not.
LEMMA MatesReported ==
  ASSUME IndInv, next \in Case, NEW r \in Result, results' = Append(results, r),
         next' = next + 1, UNCHANGED printed
  PROVE  /\ \A c \in 1..next : Mates(c)' = Mates(c) /\ (Clean(c)' <=> Clean(c))
         /\ r.status = "ended" => Mates(next) \subseteq Mates(next)'
         /\ r.status = "ended" /\ Clean(next)' => Clean(next)
<1> PICK m : m = next
  OBVIOUS
<1>1. /\ m \in Nat /\ m \in Case /\ Len(results) = m - 1 /\ NCases \in Nat
      /\ results'[m] = r /\ \A i \in 1..Len(results) : results'[i] = results[i]
  BY Reported, StreamAssumption DEF Case
<1>2. \A d \in Case : Tidy(d)' <=> Tidy(d)
  BY DEF Tidy
<1>3. \A c \in 1..m : Mates(c)' = Mates(c)
  <2>1. SUFFICES ASSUME NEW c \in 1..m, NEW d \in Case
                 PROVE  \A j \in d..(c - 1) : results'[j] = results[j]
    BY DEF Mates
  <2>2. \A j \in d..(c - 1) : j \in 1..Len(results)
    BY <1>1 DEF Case
  <2> QED
    BY <1>1, <2>2
<1>4. \A c \in 1..m : Clean(c)' <=> Clean(c)
  <2>1. \A c : Mates(c) \subseteq Case
    BY MatesFacts
  <2>2. \A c : Clean(c)' <=> \A d \in Mates(c)' : Tidy(d)'
    BY DEF Clean
  <2> QED
    BY <1>2, <1>3, <2>1, <2>2 DEF Clean
<1>5. r.status = "ended" => Mates(m) \subseteq Mates(m + 1)'
  <2>1. SUFFICES ASSUME r.status = "ended", NEW d \in Mates(m)
                 PROVE  d \in Mates(m + 1)'
    OBVIOUS
  <2>2. d \in Case /\ d <= m /\ \A j \in d..(m - 1) : results[j].status = "ended"
    BY <2>1 DEF Mates
  <2>3. \A j \in d..m : j = m \/ (j \in d..(m - 1) /\ j \in 1..Len(results))
    BY <1>1, <2>2 DEF Case
  <2>4. \A j \in d..m : results'[j].status = "ended"
    BY <1>1, <2>1, <2>2, <2>3
  <2>5. d <= m + 1 /\ (m + 1) - 1 = m
    BY <1>1, <2>2 DEF Case
  <2> QED
    BY <2>2, <2>4, <2>5 DEF Mates
<1>6. r.status = "ended" /\ Clean(m + 1)' => Clean(m)
  <2>1. Clean(m + 1)' <=> \A d \in Mates(m + 1)' : Tidy(d)'
    BY DEF Clean
  <2>2. Mates(m) \subseteq Case
    BY MatesFacts
  <2> QED
    BY <1>2, <1>5, <2>1, <2>2 DEF Clean
<1>7. (Clean(next)' <=> Clean(m + 1)') /\ Mates(next)' = Mates(m + 1)'
  BY DEF Clean, Mates
<1> QED
  BY <1>3, <1>4, <1>5, <1>6, <1>7

LEMMA FailsStep ==
  ASSUME IndInv, next \in Case, next \notin delivered, NEW error \in {"crashed", "overran"},
         error = "crashed" /\ Clean(next) => next \notin completed, Fails(error)
  PROVE  IndInv'
<1> DEFINE r == [of |-> next, status |-> error, by |-> Quit, output |-> <<>>]
<1>1. /\ results' = Append(results, r) /\ next' = next + 1 /\ runner' = "lease" /\ output' = <<>>
      /\ worker' = "idle" /\ current' = Quit /\ stdin' = <<>> /\ pipe' = <<>>
      /\ reader' = "reading" /\ channel' = <<>>
      /\ UNCHANGED <<printed, completed, delivered, faults>>
  BY DEF Fails, Report, FreshWorker, history
<1>2. r \in Result /\ r.of = next /\ r.status = error /\ r.status # "ended"
  BY DEF Result
<1> HIDE DEF r
<1>3. /\ results' \in Seq(Result) /\ next' \in 1..(NCases + 1) /\ Len(results') = next' - 1
      /\ next' \notin completed /\ next' \notin delivered
      /\ \A c \in completed \cup delivered : c <= next'
      /\ \A i \in 1..Len(results') : i \in 1..Len(results) \/ i = next
      /\ \A i \in 1..Len(results) : results'[i] = results[i] /\ i \in Case
      /\ results'[next] = r
  BY <1>1, <1>2, Reported
<1>4. \A i, k : ~InPipe(i, k)' /\ ~InChannel(i, k)'
  BY <1>1 DEF InPipe, InChannel
<1>5. \A c \in 1..next : Clean(c)' <=> Clean(c)
  BY <1>1, <1>2, MatesReported
<1>6. Types'
  BY <1>1, <1>3 DEF IndInv, Types
<1>7. Requests' /\ Completed'
  BY <1>1, <1>3 DEF Requests, Completed
<1>8. Frames' /\ Delivered' /\ Untidy' /\ Stops'
  BY <1>1, <1>3, <1>4 DEF Frames, Delivered, Untidy, Spoils, IsJunk, Stops
<1>9. Begins' /\ Found'
  BY <1>1, <1>4 DEF Begins, Found
<1>10. Answers'
  <2>0. next \in Nat /\ Len(results) = next - 1
    BY DEF IndInv, Types
  <2>1. \A i \in 1..Len(results) :
          /\ results'[i].of = i /\ (results'[i].status = "ended" => results'[i].by = i)
          /\ results'[i].status = "crashed" /\ Clean(i)' => i \notin completed'
          /\ results'[i].status # "ended" => i \notin delivered'
    <3>1. \A i \in 1..Len(results) : Clean(i)' <=> Clean(i)
      BY <1>5, <2>0
    <3> QED
      BY <1>1, <1>3, <3>1 DEF IndInv, Answers
  <2>3. PICK n : n = next
    OBVIOUS
  <2>2. Clean(n)' <=> Clean(n)
    BY <1>5, <2>0, <2>3
  <2>4. /\ results'[n].of = n /\ results'[n].status # "ended"
        /\ results'[n].status = "crashed" /\ Clean(n)' => n \notin completed'
        /\ n \notin delivered'
    BY <1>1, <1>2, <1>3, <2>2, <2>3
  <2> QED
    BY <1>3, <2>1, <2>3, <2>4 DEF Answers
<1> QED
  BY <1>6, <1>7, <1>8, <1>9, <1>10 DEF IndInv

LEMMA SendRunStep ==
  ASSUME IndInv, SendRun
  PROVE  IndInv'
<1>1. /\ runner = "lease" /\ next <= NCases /\ worker # "gone"
      /\ stdin' = Append(stdin, next) /\ runner' = "wait"
      /\ UNCHANGED <<worker, current, pipe, reader, channel, next, output, results, printed,
                     completed, delivered, faults>>
  BY DEF SendRun, history
<1>2. next \in Case
  BY <1>1, StreamAssumption DEF IndInv, Types, Case
<1>3. /\ next \notin completed /\ next \notin delivered /\ worker \in {"idle", "ending"}
      /\ \A i : ~InPipe(i, "end") /\ ~InChannel(i, "end")
  BY <1>1 DEF IndInv, Types, Requests, Completed, Frames, Delivered, Ended
<1>4. stdin' = <<next>>
  BY <1>1 DEF IndInv, Requests
<1>5. /\ \A i, k : InPipe(i, k)' <=> InPipe(i, k)
      /\ \A i, k : InChannel(i, k)' <=> InChannel(i, k)
      /\ \A c : Clean(c)' <=> Clean(c)
  BY <1>1, PipeSame, ChannelSame, CleanSame
<1>6. Types'
  BY <1>1, <1>2, <1>4 DEF IndInv, Types
<1>7. Requests' /\ Completed'
  <2>1. next # Quit /\ \A i \in 1..Len(stdin') : stdin'[i] = next
    BY <1>2, <1>4, StreamAssumption DEF Case, Quit
  <2> QED
    BY <1>1, <1>2, <1>3, <1>4, <2>1 DEF IndInv, Requests, Completed
<1>8. Frames' /\ Delivered' /\ Untidy' /\ Stops'
  <2>1. Frames' /\ Delivered'
    BY <1>1, <1>3, <1>5 DEF IndInv, Frames, Delivered
  <2>2. Untidy'
    BY <1>1, <1>5 DEF IndInv, Untidy, Spoils, IsJunk
  <2> QED
    BY <1>1, <1>3, <1>5, <2>1, <2>2 DEF IndInv, Stops
<1>9. Begins'
  BY <1>1, <1>3, <1>5 DEF IndInv, Begins
<1>10. Found'
  <2>1. worker = "ending" => current # next
    BY <1>1 DEF IndInv, Requests, Types
  <2> QED
    BY <1>1, <1>3, <2>1 DEF Found
<1>11. Answers'
  BY <1>1, <1>5 DEF IndInv, Answers
<1> QED
  BY <1>6, <1>7, <1>8, <1>9, <1>10, <1>11 DEF IndInv

LEMMA SendQuitStep ==
  ASSUME IndInv, SendQuit
  PROVE  IndInv'
<1>1. /\ runner = "lease" /\ stdin' = Append(stdin, Quit) /\ runner' = "stopped"
      /\ UNCHANGED <<worker, current, pipe, reader, channel, next, output, results, printed,
                     completed, delivered, faults>>
  BY DEF SendQuit, history
<1>2. /\ next \notin completed /\ next \notin delivered
      /\ \A i : ~InPipe(i, "end") /\ ~InChannel(i, "end")
  BY <1>1 DEF IndInv, Completed, Frames, Delivered, Ended
<1>3. stdin' = <<Quit>>
  BY <1>1 DEF IndInv, Requests
<1>4. /\ \A i, k : InPipe(i, k)' <=> InPipe(i, k)
      /\ \A i, k : InChannel(i, k)' <=> InChannel(i, k)
      /\ \A c : Clean(c)' <=> Clean(c)
  BY <1>1, PipeSame, ChannelSame, CleanSame
<1>5. Types'
  BY <1>1, <1>3 DEF IndInv, Types
<1>6. Requests' /\ Completed'
  BY <1>1, <1>2, <1>3 DEF IndInv, Requests, Completed
<1>7. Frames' /\ Delivered' /\ Untidy' /\ Stops'
  <2>1. Frames' /\ Delivered'
    BY <1>1, <1>2, <1>4 DEF IndInv, Frames, Delivered
  <2>2. Untidy'
    BY <1>1, <1>4 DEF IndInv, Untidy, Spoils, IsJunk
  <2> QED
    BY <1>1, <1>2, <1>4, <2>1, <2>2 DEF IndInv, Stops
<1>8. Begins' /\ Found'
  BY <1>1, <1>2, <1>4 DEF IndInv, Begins, Found, Requests
<1>9. Answers'
  BY <1>1, <1>4 DEF IndInv, Answers
<1> QED
  BY <1>5, <1>6, <1>7, <1>8, <1>9 DEF IndInv

LEMMA ReceiveLineStep ==
  ASSUME IndInv, ReceiveLine
  PROVE  IndInv'
<1>1. /\ runner = "wait" /\ channel # <<>> /\ Head(channel).kind \in {"output", "start"}
      /\ output' = output \o Head(channel).chunks \/ output' = output
      /\ channel' = Tail(channel)
      /\ UNCHANGED <<worker, current, stdin, pipe, reader, runner, next, results, printed,
                     completed, delivered, faults>>
  BY DEF ReceiveLine, Receiving, history
<1>2. /\ channel' \in Seq(Lines) /\ Head(channel) \in Lines
      /\ InChannel(1, Head(channel).kind)
      /\ \A i, k : InChannel(i, k)' => i \in Nat \ {0} /\ InChannel(i + 1, k)
                                      /\ channel'[i] = channel[i + 1]
      /\ \A i, k : InChannel(i, k) => i = 1 \/ (i - 1 \in Nat /\ InChannel(i - 1, k)')
  BY <1>1, ChannelTail
<1>3. ~InChannel(1, "end") /\ ~InChannel(1, "error")
  BY <1>1, <1>2 DEF InChannel
<1>4. /\ (\E j : InChannel(j, "end")) <=> (\E j : InChannel(j, "end")')
      /\ (\E j : InChannel(j, "error")) <=> (\E j : InChannel(j, "error")')
  BY <1>2, <1>3
<1>5. /\ \A i, k : InPipe(i, k)' <=> InPipe(i, k)
      /\ \A c : Clean(c)' <=> Clean(c)
  BY <1>1, PipeSame, CleanSame
<1>6. Types'
  <2>1. output' \in Seq(Chunks)
    <3>1. output \in Seq(Chunks) /\ Head(channel).chunks \in Seq(Chunks)
      BY <1>2 DEF IndInv, Types, Lines
    <3> QED
      BY <1>1, <3>1, ConcatProperties
  <2> QED
    BY <1>1, <1>2, <2>1 DEF IndInv, Types
<1>7. Requests' /\ Completed'
  BY <1>1 DEF IndInv, Requests, Completed
<1>8. Frames'
  <2>1. \A i, j : InChannel(i, "end")' /\ InChannel(j, "end")' => i = j
    <3>1. \A i, j : InChannel(i, "end")' /\ InChannel(j, "end")' =>
            i \in Nat /\ j \in Nat /\ i + 1 = j + 1
      BY <1>2 DEF IndInv, Frames
    <3>2. \A i, j \in Nat : i + 1 = j + 1 => i = j
      OBVIOUS
    <3> QED
      BY <3>1, <3>2
  <2>2. \A i : InChannel(i, "end")' =>
          Ended' /\ channel'[i].chunks # <<>> /\ channel'[i].chunks[1].of = next'
    <3>1. \A i : InChannel(i, "end") =>
            Ended /\ channel[i].chunks # <<>> /\ channel[i].chunks[1].of = next
      BY DEF IndInv, Frames
    <3>2. Ended' <=> Ended
      BY <1>1 DEF Ended
    <3>3. next' = next
      BY <1>1
    <3> QED
      BY <1>2, <3>1, <3>2, <3>3
  <2> QED
    BY <1>1, <1>4, <1>5, <2>1, <2>2 DEF IndInv, Frames, Ended
<1>9. Untidy' /\ Delivered'
  <2>1. Untidy'
    BY <1>1, <1>5 DEF IndInv, Untidy, Spoils, IsJunk
  <2> QED
    BY <1>1, <1>4, <2>1 DEF IndInv, Delivered, Ended
<1>10. Stops'
  <2>1. SUFFICES ASSUME NEW j, InChannel(j, "error")', NEW i, InChannel(i, "end")'
                 PROVE  i < j
    BY <1>1, <1>2, <1>4, <1>5 DEF IndInv, Stops
  <2>2. i \in Nat /\ j \in Nat /\ i + 1 < j + 1
    BY <1>2, <2>1 DEF IndInv, Stops
  <2> QED
    BY <2>2
<1>11. Begins'
  BY <1>1, <1>5 DEF IndInv, Begins, EndsLine, IsJunk
<1>12. Found'
  BY <1>1, <1>4, <1>5 DEF IndInv, Found
<1>13. Answers'
  BY <1>1, <1>5 DEF IndInv, Answers
<1> QED
  BY <1>6, <1>7, <1>8, <1>9, <1>10, <1>11, <1>12, <1>13 DEF IndInv

LEMMA ReceiveEndStep ==
  ASSUME IndInv, ReceiveEnd
  PROVE  IndInv'
<1> DEFINE r == [of |-> next, status |-> "ended", by |-> Head(channel).chunks[1].of,
                 output |-> output]
<1>1. /\ runner = "wait" /\ channel # <<>> /\ Head(channel).kind = "end"
      /\ results' = Append(results, r) /\ next' = next + 1 /\ runner' = "lease" /\ output' = <<>>
      /\ channel' = Tail(channel)
      /\ UNCHANGED <<worker, current, stdin, pipe, reader, printed, completed, delivered, faults>>
  BY DEF ReceiveEnd, Receiving, Report, history
<1>2. /\ channel' \in Seq(Lines) /\ Head(channel) = channel[1] /\ InChannel(1, "end")
      /\ \A i, k : InChannel(i, k)' => i \in Nat \ {0} /\ InChannel(i + 1, k)
  BY <1>1, ChannelTail
<1>3. /\ Ended /\ channel[1].chunks[1].of = next
      /\ \A i : InChannel(i, "end") => i = 1
      /\ \A i : ~InPipe(i, "end")
  BY <1>2 DEF IndInv, Frames
<1>4. next \in Case /\ stdin = <<>>
  BY <1>1, <1>3 DEF IndInv, Requests, Ended
<1>5. r \in Result /\ r.of = next /\ r.status = "ended" /\ r.by = next
  BY <1>2, <1>3, <1>4 DEF Result, IndInv, Types
<1> HIDE DEF r
<1>6. /\ results' \in Seq(Result) /\ next' \in 1..(NCases + 1) /\ Len(results') = next' - 1
      /\ next' > 1 /\ next' - 1 = next /\ next' \notin completed /\ next' \notin delivered
      /\ \A c \in completed \cup delivered : c <= next'
      /\ \A i \in 1..Len(results') : i \in 1..Len(results) \/ i = next
      /\ \A i \in 1..Len(results) : results'[i] = results[i] /\ i \in Case
      /\ results'[next] = r
  BY <1>1, <1>4, <1>5, Reported
<1>7. /\ \A i, k : InPipe(i, k)' <=> InPipe(i, k)
      /\ \A c \in 1..next : Clean(c)' <=> Clean(c)
      /\ Clean(next)' => Clean(next)
  BY <1>1, <1>4, <1>5, PipeSame, MatesReported
<1>8. \A i : ~InChannel(i, "end")'
  <2>1. \A i \in Nat \ {0} : i + 1 # 1
    OBVIOUS
  <2> QED
    BY <1>2, <1>3, <2>1
<1>9. Types'
  BY <1>1, <1>2, <1>6 DEF IndInv, Types
<1>10. Requests' /\ Completed'
  <2>1. worker = "ending" => current = next
    BY <1>1, <1>3, <1>4 DEF IndInv, Requests
  <2> QED
    BY <1>1, <1>3, <1>4, <1>5, <1>6, <2>1 DEF Requests, Completed, Ended
<1>11. Frames' /\ Delivered' /\ Untidy'
  <2>1. Untidy'
    BY <1>1, <1>7 DEF IndInv, Untidy, Spoils, IsJunk
  <2> QED
    BY <1>1, <1>3, <1>6, <1>7, <1>8, <2>1 DEF Frames, Delivered
<1>12. Stops'
  <2>1. \A j : InChannel(j, "error") => reader = "ended" /\ ~Clean(next) /\ j # 1
    BY <1>2 DEF IndInv, Stops, InChannel
  <2>2. \A j : InChannel(j, "error")' => reader' = "ended" /\ ~Clean(next)'
    BY <1>1, <1>2, <1>7, <2>1
  <2>3. (\E j : InChannel(j, "error")) => \E j : InChannel(j, "error")'
    BY <1>1, <2>1, ChannelTail
  <2> QED
    BY <1>1, <1>8, <2>2, <2>3 DEF IndInv, Stops
<1>13. Begins' /\ Found'
  BY <1>1, <1>3, <1>7 DEF IndInv, Begins, Found, Ended
<1>14. Answers'
  <2>1. \A i \in 1..Len(results) :
          /\ results'[i].of = i /\ (results'[i].status = "ended" => results'[i].by = i)
          /\ results'[i].status = "crashed" /\ Clean(i)' => i \notin completed'
          /\ results'[i].status # "ended" => i \notin delivered'
    <3>1. \A i \in 1..Len(results) : i \in 1..next
      BY DEF IndInv, Types
    <3> QED
      BY <1>1, <1>6, <1>7, <3>1 DEF IndInv, Answers
  <2> QED
    BY <1>5, <1>6, <2>1 DEF Answers
<1> QED
  BY <1>9, <1>10, <1>11, <1>12, <1>13, <1>14 DEF IndInv

\* With a case complete on a clean worker its end frame is there, the drain
\* thread gets through to it, and no error comes first; and what is in the
\* channel the runner receives before it learns of anything else.
LEMMA NothingLost ==
  ASSUME IndInv,
         \/ SendFails \/ ReceiveError \/ Disconnected
  PROVE  /\ next \in Case /\ Crash /\ next \notin delivered
         /\ Clean(next) => next \notin completed
<1>1. CASE SendFails
  <2>1. next \in Case
    BY <1>1, StreamAssumption DEF SendFails, IndInv, Types, Case
  <2> QED
    BY <1>1, <2>1 DEF SendFails, IndInv, Completed, Delivered, Ended
<1>2. CASE ReceiveError
  <2>1. runner = "wait" /\ channel # <<>> /\ Head(channel).kind = "error" /\ Crash
    BY <1>2 DEF ReceiveError, Receiving
  <2>2. InChannel(1, "error")
    <3>1. channel \in Seq(Lines)
      BY DEF IndInv, Types
    <3>2. Head(channel) = channel[1] /\ 1 \in 1..Len(channel)
      BY <2>1, <3>1
    <3> QED
      BY <2>1, <3>2 DEF InChannel
  <2>3. \A i : ~InChannel(i, "end")
    <3>1. \A i : InChannel(i, "end") => i < 1 /\ i \in 1..Len(channel)
      BY <2>2 DEF IndInv, Stops, InChannel
    <3>2. Len(channel) \in Nat
      BY DEF IndInv, Types
    <3> QED
      BY <3>1, <3>2
  <2> QED
    BY <2>1, <2>2, <2>3 DEF IndInv, Stops, Requests, Delivered
<1>3. CASE Disconnected
  <2>1. runner = "wait" /\ channel = <<>> /\ reader = "ended" /\ Crash /\ next \in Case
    BY <1>3 DEF Disconnected, IndInv, Requests
  <2>2. \A i, k : ~InChannel(i, k)
    BY <2>1 DEF InChannel
  <2>3. pipe = <<>>
    BY <2>1, <2>2 DEF IndInv, Stops
  <2>4. \A i : ~InPipe(i, "end")
    BY <2>3 DEF InPipe
  <2> QED
    BY <2>1, <2>2, <2>4 DEF IndInv, Found, Delivered
<1> QED
  BY <1>1, <1>2, <1>3

LEMMA NextStep == IndInv /\ [Next]_vars => IndInv'
<1> SUFFICES ASSUME IndInv, [Next]_vars PROVE IndInv'
  OBVIOUS
<1>1. CASE WorkerStep
  BY <1>1, ReadRunStep, ReadQuitStep, WriteEndStep, WriteMessageStep DEF WorkerStep
<1>2. CASE CasePrints \/ Straggle \/ Dies \/ Hangs
  BY <1>2, CasePrintsStep, StraggleStep, FaultStep
<1>3. CASE DrainStep
  BY <1>3, DrainFrameStep, DrainOutputStep, DrainErrorStep, DrainEndsStep DEF DrainStep
<1>4. CASE RunnerStep
  <2>1. CASE SendFails \/ ReceiveError \/ Disconnected
    BY <2>1, NothingLost, FailsStep DEF Crash
  <2>2. CASE TimedOut
    <3>1. /\ runner = "wait" /\ next \in Case /\ Fails("overran")
          /\ \A i : ~InChannel(i, "end")
      BY <2>2 DEF TimedOut, IndInv, Requests, InChannel
    <3>2. next \notin delivered
      BY <3>1 DEF IndInv, Delivered
    <3> QED
      BY <3>1, <3>2, FailsStep
  <2> QED
    BY <1>4, <2>1, <2>2, SendRunStep, SendQuitStep, ReceiveLineStep, ReceiveEndStep DEF RunnerStep
<1>5. CASE Finished \/ UNCHANGED vars
  <2>1. UNCHANGED vars
    BY <1>5 DEF Finished
  <2>2. UNCHANGED <<worker, current, stdin, pipe, reader, channel, runner, next, output, results,
                    printed, completed, delivered, faults>>
    BY <2>1 DEF vars
  <2>3. /\ \A i, k : InPipe(i, k)' <=> InPipe(i, k)
        /\ \A i, k : InChannel(i, k)' <=> InChannel(i, k)
        /\ \A c : Clean(c)' <=> Clean(c)
    BY <2>2, PipeSame, ChannelSame, CleanSame
  <2>4. Types' /\ Requests' /\ Completed'
    BY <2>2 DEF IndInv, Types, Requests, Completed
  <2>5. Frames' /\ Delivered' /\ Untidy' /\ Stops'
    BY <2>2, <2>3 DEF IndInv, Frames, Delivered, Ended, Untidy, Spoils, IsJunk, Stops
  <2>6. Begins' /\ Found' /\ Answers'
    BY <2>2, <2>3 DEF IndInv, Begins, EndsLine, IsJunk, Found, Answers
  <2> QED
    BY <2>4, <2>5, <2>6 DEF IndInv
<1> QED
  BY <1>1, <1>2, <1>3, <1>4, <1>5 DEF Next

\* The streams of one worker, in every state, for any number of cases.
THEOREM StreamInvariance == Spec => []IndInv
<1>1. Init => IndInv
  BY InitStep
<1>2. IndInv /\ [Next]_vars => IndInv'
  BY NextStep
<1> QED
  BY <1>1, <1>2, PTL DEF Spec

\* run_case reports a case as its own end frame says, never by a frame of an
\* earlier one, whatever was printed late and whichever worker died.
THEOREM FramesMatchCases == Spec => []ResultFromOwnFrame
<1>1. IndInv => ResultFromOwnFrame
  <2> SUFFICES ASSUME IndInv PROVE ResultFromOwnFrame
    OBVIOUS
  <2>1. DOMAIN results = 1..Len(results)
    BY DEF IndInv, Types
  <2> QED
    BY <2>1 DEF IndInv, Answers, ResultFromOwnFrame
<1> QED
  BY <1>1, StreamInvariance, PTL

\* A case that wrote its end frame in full is never reported as a crash, even if
\* its worker dies before the frame is read or another thread prints late, as
\* long as every case its worker ran wrote whole lines of text.  (The deadline may
\* still come first: then it is reported as overrun.)
THEOREM EndedCasesReported == Spec => []EndedIsReported
<1>1. IndInv => EndedIsReported
  <2> SUFFICES ASSUME IndInv PROVE EndedIsReported
    OBVIOUS
  <2>1. DOMAIN results = 1..Len(results)
    BY DEF IndInv, Types
  <2>2. \A i \in 1..Len(results) : results[i].of = i
    BY DEF IndInv, Answers
  <2> QED
    BY <2>1, <2>2 DEF IndInv, Answers, EndedIsReported
<1> QED
  BY <1>1, StreamInvariance, PTL

\* Once the end frame is in the channel the case is reported as ended: neither the
\* deadline of `recv_timeout` nor the end of the stream overtakes it, whatever any
\* case printed.
THEOREM DeliveredFramesCount == Spec => []FrameBeatsDeadline
<1>1. IndInv => FrameBeatsDeadline
  <2> SUFFICES ASSUME IndInv PROVE FrameBeatsDeadline
    OBVIOUS
  <2>1. DOMAIN results = 1..Len(results)
    BY DEF IndInv, Types
  <2> QED
    BY <2>1 DEF IndInv, Answers, FrameBeatsDeadline
<1> QED
  BY <1>1, StreamInvariance, PTL

\* The streams carry only what their writers write.
THEOREM StreamTypeCorrect == Spec => []TypeOK
<1>1. IndInv => TypeOK
  <2> SUFFICES ASSUME IndInv PROVE TypeOK
    OBVIOUS
  <2>1. /\ \A i \in DOMAIN stdin : stdin[i] \in Case \cup {Quit}
        /\ \A i \in DOMAIN pipe : pipe[i] \in Chunks
        /\ \A i \in DOMAIN output : output[i] \in Chunks
    BY DEF IndInv, Types
  <2>2. \A i \in DOMAIN channel : channel[i].kind \in {"output", "start", "end", "error"}
    <3>1. \A i \in DOMAIN channel : channel[i] \in Lines
      BY DEF IndInv, Types
    <3> QED
      BY <3>1 DEF Lines
  <2> QED
    BY <2>1, <2>2 DEF IndInv, Types, TypeOK
<1> QED
  BY <1>1, StreamInvariance, PTL
=============================================================================
