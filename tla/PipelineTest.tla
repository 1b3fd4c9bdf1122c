----------------------------- MODULE PipelineTest -----------------------------
(***************************************************************************)
(* The dry run of the AI pipeline (pages/plugins.tsx, TestPipelineDialog):  *)
(* the server walks through the plugins and streams an event before and     *)
(* after each (api/pipeline.py), the network cuts the stream wherever it    *)
(* likes, and the page puts the events together again and shows a list of   *)
(* steps.  Either side may end it: the server fails or dies, the user       *)
(* closes the dialog, or the page hears nothing for a minute.               *)
(*                                                                         *)
(* On the wire an event is two halves and a blank line.                     *)
(***************************************************************************)
EXTENDS Naturals, FiniteSets, Sequences, SequencesExt

CONSTANTS
    Steps,      \* plugins in the pipeline
    MaxRuns     \* bound: tests started

ASSUME PipelineTestAssumption == Steps \in Nat \ {0} /\ MaxRuns \in Nat

\* How a plugin fares: switched off, without provider, or called, and then
\* failing, passing, or passing and ending the pipeline.
Fates == {"disabled", "no provider", "fails", "passes", "ends"}
Servers == {"off", "called", "starting", "between", "running", "closed"}

VARIABLES
    fates,      \* what settings and AI have in store for each plugin
    settings,   \* the user has settings
    server,     \* where the generator is,
    at,         \* with which plugin,
    executed,   \* and how many it has run
    wire,       \* sent and not read
    buffer,     \* read and not understood
    loading,    \* the test goes on
    view,       \* the steps, the summary and the error shown
    runs        \* tests started

pipelineVars == <<fates, settings, server, at, executed, wire, buffer, loading, view, runs>>
generator == <<fates, settings, server, at, executed>>

Nothing == [steps |-> <<>>, done |-> FALSE, executed |-> 0, error |-> FALSE]

PipelineInit ==
    /\ fates = [i \in 1 .. Steps |-> "disabled"] /\ settings = TRUE
    /\ server = "off" /\ at = 1 /\ executed = 0
    /\ wire = <<>> /\ buffer = <<>>
    /\ loading = FALSE /\ view = Nothing /\ runs = 0

-----------------------------------------------------------------------------
(* The server.                                                              *)
Event(kind, i) == [kind |-> kind, i |-> i]
BlankLine == [half |-> 0, of |-> Event("", 0)]
Send(e) == wire' = wire \o <<[half |-> 1, of |-> e], [half |-> 2, of |-> e], BlankLine>>

Serving(where) == server = where /\ UNCHANGED <<fates, settings, buffer, loading, view, runs>>

Respond ==
    /\ Serving("called")
    /\ server' = "starting"
    /\ UNCHANGED <<at, executed, wire>>

SendInit ==
    /\ Serving("starting")
    /\ Send(Event("init", Steps))
    /\ server' = "between" /\ at' = 1 /\ executed' = 0

SendError ==    \* no provider at all, or the database fails
    /\ Serving("starting")
    /\ Send(Event("error", 0))
    /\ server' = "closed"
    /\ UNCHANGED <<at, executed>>

SkipPlugin ==   \* without settings this is the end
    /\ Serving("between") /\ at <= Steps
    /\ ~settings \/ fates[at] = "disabled"
    /\ Send(Event("skip", at))
    /\ at' = IF settings THEN at + 1 ELSE Steps + 1
    /\ UNCHANGED <<server, executed>>

BeginPlugin ==
    /\ Serving("between") /\ at <= Steps
    /\ settings /\ fates[at] # "disabled"
    /\ Send(Event("step", at))
    /\ server' = "running"
    /\ UNCHANGED <<at, executed>>

EndPlugin ==
    /\ Serving("running")
    /\ Send(Event(CASE fates[at] = "no provider" -> "skip"
                    [] fates[at] = "fails" -> "failure"
                    [] OTHER -> "success", at))
    /\ executed' = IF fates[at] = "no provider" THEN executed ELSE executed + 1
    /\ at' = IF fates[at] = "ends" THEN Steps + 1 ELSE at + 1
    /\ server' = "between"

SendDone ==
    /\ Serving("between") /\ at > Steps
    /\ Send(Event("done", executed))
    /\ server' = "closed"
    /\ UNCHANGED <<at, executed>>

-----------------------------------------------------------------------------
(* The page: parseSSE on what is complete, handleSSEEvent on each event.    *)
Take(parsed, piece) ==
    IF piece # BlankLine THEN [parsed EXCEPT !.block = Append(@, piece)]
    ELSE [block |-> <<>>,
          events |-> IF Len(parsed.block) = 2 THEN Append(parsed.events, parsed.block[1].of) ELSE parsed.events]

Parsed(pieces) == FoldLeft(Take, [block |-> <<>>, events |-> <<>>], pieces)

SetStep(v, i, status) ==
    [v EXCEPT !.steps = [j \in 1 .. Len(@) |-> IF j = i THEN status ELSE @[j]]]

Handle(v, e) ==
    CASE e.kind = "init"    -> [v EXCEPT !.steps = [i \in 1 .. e.i |-> "pending"]]
      [] e.kind = "step"    -> SetStep(v, e.i, "running")
      [] e.kind = "skip"    -> SetStep(v, e.i, "skipped")
      [] e.kind = "success" -> SetStep(v, e.i, "done")
      [] e.kind = "failure" -> SetStep(v, e.i, "error")
      [] e.kind = "done"    -> [v EXCEPT !.done = TRUE, !.executed = e.i]
      [] e.kind = "error"   -> [v EXCEPT !.done = TRUE, !.error = TRUE]

\* Mutant: plugins are counted from zero.
BugRunTest ==
    /\ ~loading /\ runs < MaxRuns
    /\ loading' = TRUE /\ view' = Nothing /\ buffer' = <<>> /\ wire' = <<>>
    /\ server' = "called" /\ at' = 0 /\ executed' = 0
    /\ fates' \in [1 .. Steps -> Fates] /\ settings' \in BOOLEAN
    /\ runs' = runs + 1

RunTest ==
    /\ ~loading /\ runs < MaxRuns
    /\ loading' = TRUE /\ view' = Nothing /\ buffer' = <<>> /\ wire' = <<>>
    /\ server' = "called" /\ at' = 1 /\ executed' = 0
    /\ fates' \in [1 .. Steps -> Fates] /\ settings' \in BOOLEAN
    /\ runs' = runs + 1

\* Mutant: what was read of an unfinished event is forgotten.
BugRead ==
    /\ loading
    /\ \E n \in 1 .. Len(wire) :
          LET parsed == Parsed(SubSeq(wire, 1, n)) IN
          /\ wire' = SubSeq(wire, n + 1, Len(wire))
          /\ buffer' = parsed.block
          /\ view' = FoldLeft(Handle, view, parsed.events)
    /\ UNCHANGED <<generator, loading, runs>>

Read ==     \* any number of pieces at a time
    /\ loading
    /\ \E n \in 1 .. Len(wire) :
          LET parsed == Parsed(buffer \o SubSeq(wire, 1, n)) IN
          /\ wire' = SubSeq(wire, n + 1, Len(wire))
          /\ buffer' = parsed.block
          /\ view' = FoldLeft(Handle, view, parsed.events)
    /\ UNCHANGED <<generator, loading, runs>>

ReadEnd ==  \* what is left in the buffer is an event, too
    /\ loading /\ server = "closed" /\ wire = <<>>
    /\ view' = FoldLeft(Handle, view, Parsed(Append(buffer, BlankLine)).events)
    /\ buffer' = <<>> /\ loading' = FALSE
    /\ UNCHANGED <<generator, wire, runs>>

\* Mutant: the steps stay as they are.
BugInterrupted(error) ==
    /\ loading
    /\ view' = [view EXCEPT !.error = @ \/ error]
    /\ loading' = FALSE /\ buffer' = <<>> /\ wire' = <<>> /\ server' = "off"
    /\ UNCHANGED <<fates, settings, at, executed, runs>>

\* The steps are marked as no longer running; of an abort no error is shown.
Interrupted(error) ==
    /\ loading
    /\ view' = [view EXCEPT !.error = @ \/ error,
                            !.steps = [i \in 1 .. Len(@) |-> IF @[i] = "running" THEN "error" ELSE @[i]]]
    /\ loading' = FALSE /\ buffer' = <<>> /\ wire' = <<>> /\ server' = "off"
    /\ UNCHANGED <<fates, settings, at, executed, runs>>

Break == server # "off" /\ Interrupted(TRUE)    \* refused, or the connection is gone
Close == Interrupted(FALSE)                     \* handleClose

\* Mutant: the timeout is cleared with the first event.
BugTimeout ==
    /\ server \notin {"off", "called", "closed"} /\ wire = <<>> /\ view.steps = <<>>
    /\ Interrupted(FALSE)

Timeout ==
    /\ server \notin {"off", "called", "closed"} /\ wire = <<>>
    /\ Interrupted(FALSE)

PipelineNext ==
    \/ RunTest
    \/ Respond \/ SendInit \/ SendError \/ SkipPlugin \/ BeginPlugin \/ EndPlugin \/ SendDone
    \/ Read \/ ReadEnd \/ Break \/ Close \/ Timeout

(* A request is answered or fails, and the page goes on with what it has;    *)
(* of the stream and the plugins nothing is assumed.                        *)
PipelineFairness ==
    WF_pipelineVars(Respond \/ (server = "called" /\ Break) \/ Read \/ ReadEnd \/ Timeout)

PipelineSpec == PipelineInit /\ [][PipelineNext]_pipelineVars
-----------------------------------------------------------------------------
(* The variables have their types.                                          *)
PipelineTypeOK ==
    /\ fates \in [1 .. Steps -> Fates] /\ settings \in BOOLEAN
    /\ server \in Servers /\ at \in 1 .. Steps + 1 /\ executed \in 0 .. Steps
    /\ loading \in BOOLEAN /\ runs \in 0 .. MaxRuns
    /\ view.steps = <<>> \/ view.steps \in [1 .. Steps -> {"pending", "running", "skipped", "done", "error"}]
    /\ view.done \in BOOLEAN /\ view.error \in BOOLEAN /\ view.executed \in 0 .. Steps

(* When the test is over, however it ended, no step is shown as running     *)
(* ("so the UI doesn't show stale running state").                          *)
NoStepLeftRunning ==
    ~loading => \A i \in DOMAIN view.steps : view.steps[i] # "running"

(* A finished test shows what became of each plugin and how many ran,       *)
(* however the stream was cut.                                              *)
LastStep == IF ~settings THEN 1
            ELSE IF \E i \in 1 .. Steps : fates[i] = "ends"
                 THEN CHOOSE i \in 1 .. Steps : fates[i] = "ends" /\ \A j \in 1 .. i - 1 : fates[j] # "ends"
                 ELSE Steps
Result(i) ==
    IF i > LastStep THEN "pending"
    ELSE IF ~settings \/ fates[i] \in {"disabled", "no provider"} THEN "skipped"
    ELSE IF fates[i] = "fails" THEN "error" ELSE "done"

FinishedTestsShowResults ==
    view.done /\ ~view.error =>
        /\ view.steps = [i \in 1 .. Steps |-> Result(i)]
        /\ view.executed = Cardinality({i \in 1 .. Steps : Result(i) \in {"done", "error"}})

(* The dialog can be used again: a test ends, even if the server falls      *)
(* silent.                                                                  *)
EveryTestEnds == loading ~> ~loading
=============================================================================
