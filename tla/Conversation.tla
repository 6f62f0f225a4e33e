---------------------------- MODULE Conversation -----------------------------
(***************************************************************************)
(* One response of an agent, from the graph to the screen. The graph says  *)
(* text and calls tools; astream turns its chunks into events; the route   *)
(* writes them to the connection; the CLI reads them, asks the user for    *)
(* approvals and has the renderer draw them.                               *)
(*                                                                         *)
(* /stream is the outer connection. While the user is asked, and while the *)
(* answer runs on /resume, the inner one, the CLI does not read the outer. *)
(*                                                                         *)
(* A piece of text is a line of the screen. Formatting, headlines, usage   *)
(* figures and the session event (Sessions) are left out.                  *)
(***************************************************************************)
EXTENDS Integers, Sequences, FiniteSets, SequencesExt

CONSTANTS
  Words,         \* pieces of text
  MaxWords,      \* bound: words of a response
  Calls,         \* bound: the tool calls of a response, by number
  MaxWire,       \* bound: events on their way
  Rows,          \* rows of the live frame (_live_budget)
  None

ASSUME ConversationAssumption ==
  /\ Calls \subseteq Nat /\ IsFiniteSet(Calls)
  /\ None \notin Calls /\ None \notin {"running", "done"}
  /\ MaxWords \in Nat /\ Rows \in Nat \ {0}

VARIABLES
  mode,      \* how the model streams: "cumulative" chunks or "delta"s
  terminal,  \* console.is_terminal
  graph,     \* external: [pc, text, call]: text is what this message has so far
  previous,  \* previous_content of the message that is streamed
  wire,      \* the events on each connection
  cli,       \* "prompt", "outer" or "inner" (reading), "asking", "gone"
  screen,    \* the renderer: see Blank
  received,  \* history: text and calls given to the renderer
  spoken,    \* history: text the model has said
  ambiguous, \* history: a delta began with all the text before it
  late       \* history: calls whose line had left the frame before their output

vars == <<mode, terminal, graph, previous, wire, cli, screen, received, spoken, ambiguous, late>>

Word(w)   == [kind |-> "word", of |-> w]
Call(c)   == [kind |-> "call", of |-> c]
Output(c) == [kind |-> "output", of |-> c]
Event(type, of) == [type |-> type, of |-> of]

-----------------------------------------------------------------------------
(* The renderer *)

\* segments: a run has its call, a text its words. runs: the state of each call.
\* live: there is a Live frame; drawn: _last_frame is set; frame: what it shows;
\* scrolled: what has been printed for good.
Blank == [segments |-> <<>>, runs |-> [c \in Calls |-> None],
          live |-> FALSE, drawn |-> FALSE, frame |-> <<>>, scrolled |-> <<>>]

Text(words) == [call |-> None, words |-> words]
Run(c)      == [call |-> c, words |-> <<>>]
IsText(segment) == segment.call = None

\* What a segment looks like: _tool_line, and _output_line once it is done
Lines(s, segment) ==
  IF IsText(segment) THEN [i \in DOMAIN segment.words |-> Word(segment.words[i])]
  ELSE <<Call(segment.call)>> \o (IF s.runs[segment.call] = "running" THEN <<>> ELSE <<Output(segment.call)>>)

Frame(s, segments) == FlattenSeq([i \in DOMAIN segments |-> Lines(s, segments[i])])

\* One turn of _commit_overflow: a run leaves the frame as a whole, of a text
\* some of the first lines.
Excess(s) == Len(Frame(s, s.segments)) + 1 - Rows

CommitHead(s) ==
  IF Excess(s) <= 0 \/ s.segments = <<>> THEN {s}
  ELSE LET head == Head(s.segments)
           rest == Tail(s.segments)
           n == Len(head.words)
       IN IF ~IsText(head)
            THEN {[s EXCEPT !.scrolled = @ \o Lines(s, head), !.segments = rest]}
            ELSE {[s EXCEPT !.scrolled = @ \o Lines(s, Text(SubSeq(head.words, 1, cut))),
                            !.segments = IF cut = n THEN rest
                                         ELSE <<Text(SubSeq(head.words, cut + 1, n))>> \o rest] :
                    cut \in 1 .. IF n = 1 THEN 1 ELSE n - 1}

\* There are no more segments than words and calls.
CommitOverflow(s) ==
  LET after[turns \in 0 .. MaxWords + Cardinality(Calls)] ==
        IF turns = 0 THEN {s} ELSE UNION {CommitHead(t) : t \in after[turns - 1]}
  IN  after[MaxWords + Cardinality(Calls)]

\* _refresh(force=True), or when the last frame is old enough
Draw(s) ==
  {[t EXCEPT !.live = TRUE, !.drawn = TRUE, !.frame = Frame(t, t.segments)] : t \in CommitOverflow(s)}

Refresh(s) == Draw(s) \union (IF s.drawn THEN {s} ELSE {})

\* Mutant: stopping the frame without a last refresh
FlushStale(s) ==
  IF ~s.live THEN {s}
  ELSE {[s EXCEPT !.live = FALSE, !.frame = <<>>, !.scrolled = @ \o s.frame]}

\* _flush_live: the frame stays where it is.
FlushLive(s) ==
  IF ~s.live THEN {s}
  ELSE {[t EXCEPT !.live = FALSE, !.frame = <<>>, !.scrolled = @ \o t.frame] : t \in Draw(s)}

Printed(s, piece) == [s EXCEPT !.scrolled = Append(@, piece)]

OnAssistant(s, words) ==
  IF ~terminal THEN {[s EXCEPT !.scrolled = @ \o Lines(s, Text(words))]}
  ELSE Refresh(IF s.segments # <<>> /\ IsText(Last(s.segments))
                 THEN [s EXCEPT !.segments[Len(s.segments)].words = @ \o words]
                 ELSE [s EXCEPT !.segments = Append(@, Text(words))])

OnToolCall(s, c) ==
  LET t == [s EXCEPT !.runs[c] = "running", !.segments = Append(@, Run(c))]
  IN  IF terminal THEN Draw(t) ELSE {Printed(t, Call(c))}

\* Mutant: an output is only drawn.
OnToolOutputDrawn(s, c) ==
  LET t == [s EXCEPT !.runs[c] = "done"]
  IN  IF terminal THEN Draw(t) ELSE {t}

OnToolOutput(s, c) ==
  LET t == [s EXCEPT !.runs[c] = "done"]
  IN  IF terminal THEN Draw(t) ELSE {Printed(t, Output(c))}

OnUsage(s) == IF s.live THEN Draw(s) ELSE {s}

ShowError(s)      == FlushLive(s)
FinishResponse(s) == FlushLive(s)

\* After an error, the end of the response
GiveUp(s) == UNION {FinishResponse(t) : t \in ShowError(s)}

\* render_event: an approval_required that comes here is an unknown event.
RenderEvent(s, e) ==
  CASE e.type = "assistant"   -> OnAssistant(s, e.of)
    [] e.type = "tool_call"   -> OnToolCall(s, e.of)
    [] e.type = "tool_output" -> OnToolOutput(s, e.of)
    [] e.type = "usage"       -> OnUsage(s)
    [] e.type = "error"       -> ShowError(s)
    [] OTHER                  -> {s}

-----------------------------------------------------------------------------
(* The graph, astream and the routes *)

Connection == IF cli = "inner" THEN "inner" ELSE "outer"

\* The server runs the graph for the connection the CLI reads.
Streaming == cli \in {"outer", "inner"} /\ Len(wire[Connection]) < MaxWire
Send(events) == wire' = [wire EXCEPT ![Connection] = @ \o events]

\* Mutant: every chunk is new text.
DeltaOfDeltas(before, content) == content

\* astream: what a chunk adds to the text of its message
Delta(before, content) ==
  IF IsPrefix(before, content) THEN SubSeq(content, Len(before) + 1, Len(content)) ELSE content

Say(new) ==
  /\ Streaming /\ graph.pc = "model" /\ Len(spoken) + Len(new) <= MaxWords
  /\ LET text == graph.text \o new
         content == IF mode = "cumulative" THEN text ELSE new
         delta == Delta(previous, content)
     IN  /\ graph' = [graph EXCEPT !.text = text]
         /\ previous' = previous \o delta
         /\ Send(IF delta = <<>> THEN <<>> ELSE <<Event("assistant", delta)>>)
         /\ ambiguous' = (ambiguous \/ (mode = "delta" /\ previous # <<>> /\ IsPrefix(previous, new)))
  /\ spoken' = spoken \o new
  /\ UNCHANGED <<mode, terminal, cli, screen, received, late>>

CallTool ==
  /\ Streaming /\ graph.pc = "model"
  /\ \E c \in Calls : /\ c > graph.call /\ \A d \in Calls : d > graph.call => c <= d
                      /\ graph' = [graph EXCEPT !.pc = "tool", !.call = c]
                      /\ Send(<<Event("tool_call", c)>>)
  /\ UNCHANGED <<mode, terminal, previous, cli, screen, received, spoken, ambiguous, late>>

\* The middleware interrupts the graph before the tool runs; the astream of the
\* connection is over.
InterruptTool ==
  /\ Streaming /\ graph.pc = "tool"
  /\ graph' = [graph EXCEPT !.pc = "interrupted"]
  /\ Send(<<Event("approval_required", graph.call), Event("usage", None), Event("end", None)>>)
  /\ UNCHANGED <<mode, terminal, previous, cli, screen, received, spoken, ambiguous, late>>

\* The tool, or the rejection, answers; the next message has another id.
ToolAnswers ==
  /\ Streaming /\ graph.pc \in {"tool", "decided"}
  /\ graph' = [graph EXCEPT !.pc = "model", !.text = <<>>] /\ previous' = <<>>
  /\ Send(<<Event("tool_output", graph.call)>>)
  /\ UNCHANGED <<mode, terminal, cli, screen, received, spoken, ambiguous, late>>

EndTurn ==
  /\ Streaming /\ graph.pc = "model"
  /\ graph' = [graph EXCEPT !.pc = "idle"]
  /\ Send(<<Event("usage", None), Event("end", None)>>)
  /\ UNCHANGED <<mode, terminal, previous, cli, screen, received, spoken, ambiguous, late>>

\* Mutant: an exception nobody hears of
FailSilently ==
  /\ Streaming /\ graph.pc \in {"model", "tool", "decided"}
  /\ graph' = [graph EXCEPT !.pc = "idle"]
  /\ Send(IF cli = "outer" THEN <<Event("error", None), Event("end", None)>> ELSE <<>>)
  /\ UNCHANGED <<mode, terminal, previous, cli, screen, received, spoken, ambiguous, late>>

\* An exception out of astream: an error event on /stream, whose generator
\* catches it, and a broken connection on /resume, whose generator does not.
Fail ==
  /\ Streaming /\ graph.pc \in {"model", "tool", "decided"}
  /\ graph' = [graph EXCEPT !.pc = "idle"]
  /\ Send(IF cli = "outer" THEN <<Event("error", None), Event("end", None)>>
          ELSE <<Event("broken", None)>>)
  /\ UNCHANGED <<mode, terminal, previous, cli, screen, received, spoken, ambiguous, late>>

-----------------------------------------------------------------------------
(* The CLI *)

Silent == [c \in {"outer", "inner"} |-> <<>>]

\* do_stream up to the first event
Submit ==
  /\ cli = "prompt" /\ cli' = "outer"
  /\ screen' = Blank
  /\ graph' = [pc |-> "model", text |-> <<>>, call |-> 0] /\ previous' = <<>>
  /\ received' = <<>> /\ spoken' = <<>> /\ ambiguous' = FALSE /\ late' = {}
  /\ UNCHANGED <<mode, terminal, wire>>

\* The renderer has the next event of the connection.
Content(e) ==
  CASE e.type = "assistant" -> [i \in DOMAIN e.of |-> Word(e.of[i])]
    [] e.type = "tool_call" -> <<Call(e.of)>>
    [] OTHER -> <<>>

ReadEvent ==
  /\ cli \in {"outer", "inner"} /\ wire[cli] # <<>>
  /\ LET e == Head(wire[cli])
     IN  /\ e.type \notin {"end", "broken"} /\ ~(cli = "outer" /\ e.type = "approval_required")
         /\ screen' \in RenderEvent(screen, e)
         /\ received' = received \o Content(e)
         /\ late' = IF e.type = "tool_output" /\ Run(e.of) \notin Range(screen.segments)
                      THEN late \union {e.of} ELSE late
  /\ wire' = [wire EXCEPT ![cli] = Tail(@)]
  /\ UNCHANGED <<mode, terminal, graph, previous, cli, spoken, ambiguous>>

\* approval_required is answered only on the outer connection.
AskUser ==
  /\ cli = "outer" /\ wire[cli] # <<>> /\ Head(wire[cli]).type = "approval_required"
  /\ cli' = "asking"
  /\ wire' = [wire EXCEPT !["outer"] = Tail(@)]
  /\ UNCHANGED <<mode, terminal, graph, previous, screen, received, spoken, ambiguous, late>>

\* One decision for each action: _build_approval_decisions, POST /resume
Decide ==
  /\ cli = "asking" /\ cli' = "inner"
  /\ graph' = [graph EXCEPT !.pc = "decided"]
  /\ UNCHANGED <<mode, terminal, previous, wire, screen, received, spoken, ambiguous, late>>

ReadEnd ==
  /\ cli \in {"outer", "inner"} /\ wire[cli] # <<>> /\ Head(wire[cli]).type = "end"
  /\ wire' = [wire EXCEPT ![cli] = Tail(@)]
  /\ IF cli = "inner" THEN cli' = "outer" /\ UNCHANGED screen
     ELSE cli' = "prompt" /\ screen' \in FinishResponse(screen)
  /\ UNCHANGED <<mode, terminal, graph, previous, received, spoken, ambiguous, late>>

\* An HTTPError or a KeyboardInterrupt, wherever the CLI is: what is on the wire
\* is lost and the graph is cancelled.
Cut ==
  /\ cli \in {"outer", "inner", "asking"}
  /\ cli' = "prompt" /\ screen' \in GiveUp(screen)
  /\ graph' = [graph EXCEPT !.pc = "idle"] /\ wire' = Silent
  /\ UNCHANGED <<mode, terminal, previous, received, spoken, ambiguous, late>>

ReadBroken == cli = "inner" /\ wire[cli] # <<>> /\ Head(wire[cli]).type = "broken" /\ Cut

\* ctrl-D at the question: nothing catches the EOFError.
EndOfInput ==
  /\ cli = "asking"
  /\ cli' = "gone" /\ screen' \in FinishResponse(screen)
  /\ graph' = [graph EXCEPT !.pc = "idle"] /\ wire' = Silent
  /\ UNCHANGED <<mode, terminal, previous, received, spoken, ambiguous, late>>

\* cmdloop: ctrl-D at the prompt, "EOF". A cancelled prompt (show_error: there is
\* no frame) comes back.
EndOfPrompt ==
  /\ cli = "prompt"
  /\ cli' = "gone" /\ screen' \in FinishResponse(screen)
  /\ UNCHANGED <<mode, terminal, graph, previous, wire, received, spoken, ambiguous, late>>

\* onecmd: "exit", "quit", or a command that leaves. Other commands, unknown ones
\* and blank lines change nothing here; any other line is for the agent (Submit).
Exit ==
  /\ cli = "prompt" /\ cli' = "gone"
  /\ UNCHANGED <<mode, terminal, graph, previous, wire, screen, received, spoken, ambiguous, late>>

-----------------------------------------------------------------------------
Init ==
  /\ mode \in {"cumulative", "delta"} /\ terminal \in BOOLEAN
  /\ graph = [pc |-> "idle", text |-> <<>>, call |-> 0] /\ previous = <<>>
  /\ wire = Silent /\ cli = "prompt" /\ screen = Blank
  /\ received = <<>> /\ spoken = <<>> /\ ambiguous = FALSE /\ late = {}

Answering ==
  \/ \E new \in {<<w>> : w \in Words} \union (Words \X Words) : Say(new)
  \/ CallTool \/ InterruptTool \/ ToolAnswers \/ EndTurn \/ Fail

Reading == ReadEvent \/ AskUser \/ ReadEnd \/ ReadBroken

Next == Answering \/ Reading \/ Submit \/ Decide \/ Cut \/ EndOfInput \/ EndOfPrompt \/ Exit

\* The agent goes on and the CLI reads on: neither the server nor the CLI stops
\* by itself, and the model and the tools answer. The user may not.
Spec == Init /\ [][Next]_vars /\ WF_vars(Answering) /\ WF_vars(Reading)

-----------------------------------------------------------------------------
(* Properties *)

Shown == screen.scrolled \o screen.frame
Plain(pieces) ==
  FlattenSeq([i \in DOMAIN pieces |-> IF pieces[i].kind = "output" THEN <<>> ELSE <<pieces[i]>>])

\* The renderer keeps the promise of Transcript: with the throttle, the frame
\* that overflows, the error in the middle and the nested answer, what has come
\* in is shown once and in order, and all of it when the response is over
\* (rich_renderer.py:196-330).
T == INSTANCE Transcript WITH
       Pieces <- {Word(w) : w \in Words} \union {Call(c) : c \in Calls},
       said   <- received,
       screen <- Plain(Shown),
       open   <- cli \notin {"prompt", "gone"}

ShowsTranscript == T!Spec

UnderItsCall(pieces, c) ==
  \E i \in 2 .. Len(pieces) :
    /\ \A j \in 1 .. Len(pieces) : pieces[j] = Output(c) <=> j = i
    /\ terminal => pieces[i - 1] = Call(c)

\* The output of a tool is shown once, right under its call, unless the call has
\* scrolled off the live frame while it was running (rich_renderer.py:231-248,
\* 289-295).
OutputsUnderTheirCalls ==
  \A c \in Calls :
    (cli = "prompt" /\ screen.runs[c] = "done" /\ c \notin late) => UnderItsCall(Shown, c)

TextOf(events) ==
  FlattenSeq([i \in DOMAIN events |-> IF events[i].type = "assistant" THEN events[i].of ELSE <<>>])
WordsOf(pieces) ==
  FlattenSeq([i \in DOMAIN pieces |-> IF pieces[i].kind = "word" THEN <<pieces[i].of>> ELSE <<>>])

\* What the model has said so far is received or on its way, once and in order,
\* whether it streams the text so far or what is new, with tools and approvals in
\* between (agent_loop.py:655-667), unless a delta begins with all before it.
Arrived == WordsOf(received) \o TextOf(wire["outer"]) \o TextOf(wire["inner"])
TextArrives ==
  (cli \in {"outer", "inner", "asking"} /\ ~ambiguous) => Arrived = spoken

\* The CLI does not wait for a connection that says no more: a response ends, or
\* asks the user, also with two connections open and one of them broken
\* (interactive.py:190-230, resume.py:70-74).
ResponseEnds == (cli \in {"outer", "inner"}) ~> (cli \in {"prompt", "asking"})

\* The comment of astream: compared with the accumulated text, "an identical
\* consecutive delta is never sliced to nothing" (agent_loop.py:658-660).
DeltasArrive ==
  cli \in {"outer", "inner", "asking"} => Arrived = spoken
=============================================================================
