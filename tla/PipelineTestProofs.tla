------------------------- MODULE PipelineTestProofs -------------------------
(***************************************************************************)
(* The dry run of the pipeline, for any number of plugins and tests, any    *)
(* fates of the plugins and any cutting of the stream: no step is left      *)
(* running, and a finished test shows what became of each plugin.           *)
(*                                                                         *)
(* The argument: the events that are sent and not yet handled, told to the  *)
(* page as it is now, give the view of a page that has heard everything     *)
(* (Told).  The server's steps change it by one event each; reading does    *)
(* not change it at all.                                                    *)
(***************************************************************************)
EXTENDS PipelineTest, FiniteSetTheorems, SequenceTheorems, TLAPS

(* The events the server sends; two of them end a test.                     *)
Events ==
    {Event("init", Steps), Event("error", 0)}
    \cup {Event("done", i) : i \in 0 .. Steps}
    \cup {Event(kind, i) : kind \in {"step", "skip", "success", "failure"}, i \in 1 .. Steps}
Final == {"done", "error"}

(* What can be on the wire, and what the page makes of it.                  *)
Lines == [half : {1, 2}, of : Events]
Pieces == Lines \cup {BlankLine}
Reading == [block : Seq(Lines), events : Seq(Events)]
Statuses == {"pending", "running", "skipped", "done", "error"}
Views == [steps : {<<>>} \cup [1 .. Steps -> Statuses],
          done : BOOLEAN, executed : 0 .. Steps, error : BOOLEAN]

(* What there is to read, the events in it, and the view they lead to.      *)
Heard == Parsed(buffer \o wire)
Pending == Heard.events
Told == FoldLeft(Handle, view, Pending)

(* The plugins the server has run, and the steps as it has told them.       *)
Ran == {i \in 1 .. Steps : i < at /\ Result(i) \in {"done", "error"}}
Shown == [i \in 1 .. Steps |->
            IF i < at THEN Result(i)
            ELSE IF i = at /\ server = "running" THEN "running" ELSE "pending"]

(* The buffer is what is left of an event, the wire brings the rest of it,  *)
(* and nothing follows the end.                                             *)
StreamOK ==
    /\ buffer \in Seq(Lines) /\ wire \in Seq(Pieces)
    /\ Parsed(buffer).block = buffer /\ Parsed(buffer).events = <<>>
    /\ Heard.block = <<>>
    /\ \A k \in 1 .. Len(Pending) : Pending[k].kind \in Final => k = Len(Pending) /\ server = "closed"

(* The server has not passed the end of the pipeline.                       *)
GeneratorOK ==
    /\ fates \in [1 .. Steps -> Fates] /\ settings \in BOOLEAN
    /\ server \in Servers /\ at \in 1 .. Steps + 1
    /\ loading \in BOOLEAN /\ runs \in 0 .. MaxRuns
    /\ server \in {"called", "starting"} => at = 1
    /\ server \in {"between", "running"} => at <= LastStep \/ at = Steps + 1
    /\ server = "running" => at <= Steps /\ settings /\ fates[at] # "disabled"
    /\ executed = Cardinality(Ran)

(* While the test goes on, what is told is what the server has done.        *)
ToldOK ==
    /\ server # "off"
    /\ server \in {"called", "starting"} => view = Nothing /\ Pending = <<>>
    /\ server \in {"between", "running"} => Told.steps = Shown /\ ~ Told.done /\ ~ Told.error
    /\ server = "closed" =>
          /\ Told.done
          /\ \/ Told.error /\ Told.steps = <<>>
             \/ ~ Told.error /\ at > Steps /\ Told.steps = Shown /\ Told.executed = executed
    /\ view.done => Pending = <<>>

(* After it nothing is left to read.                                        *)
OverOK ==
    /\ server \in {"off", "closed"}
    /\ wire = <<>> /\ buffer = <<>>
    /\ NoStepLeftRunning /\ FinishedTestsShowResults

PipelineInv ==
    /\ view \in Views
    /\ StreamOK /\ GeneratorOK
    /\ loading => ToldOK
    /\ ~loading => OverOK
-----------------------------------------------------------------------------
Parsing == INSTANCE FoldFacts WITH op <- Take
Handling == INSTANCE FoldFacts WITH op <- Handle

\* The folds of the instances are the folds of the model.
LEMMA ParsingFold ==
    \A base, s : Parsing!FoldLeft(Take, base, s) = FoldLeft(Take, base, s)
BY Zenon DEF FoldLeft, MapThenFoldSet, Max, Parsing!FoldLeft, Parsing!MapThenFoldSet, Parsing!Max
\* So are those of the view.
LEMMA HandlingFold ==
    \A base, s : Handling!FoldLeft(Handle, base, s) = FoldLeft(Handle, base, s)
BY Zenon DEF FoldLeft, MapThenFoldSet, Max, Handling!FoldLeft, Handling!MapThenFoldSet, Handling!Max

\* A line is not the blank line, and carries an event.
LEMMA PieceFacts ==
    /\ BlankLine \notin Lines
    /\ \A x \in Pieces : x # BlankLine => x \in Lines
    /\ \A x \in Lines : x.of \in Events
    /\ \A e \in Events, h \in {1, 2} : [half |-> h, of |-> e] \in Lines
    /\ <<>> \in Seq(Lines) /\ <<>> \in Seq(Events)
<1>1. BlankLine \notin Lines
  BY DEF Lines, BlankLine
<1>2. \A e \in Events, h \in {1, 2} : [half |-> h, of |-> e] \in Lines
  BY DEF Lines
<1>3. \A x \in Lines : x.of \in Events
  BY DEF Lines
<1>4. QED
  BY <1>1, <1>2, <1>3 DEF Pieces

\* What Take makes of a line, and of a blank line.
LEMMA TakeFields ==
    ASSUME NEW v \in Reading, NEW x
    PROVE  /\ x # BlankLine => Take(v, x).block = Append(v.block, x) /\ Take(v, x).events = v.events
           /\ x = BlankLine => Take(v, x).block = <<>>
           /\ x = BlankLine /\ Len(v.block) = 2 => Take(v, x).events = Append(v.events, v.block[1].of)
           /\ x = BlankLine /\ Len(v.block) # 2 => Take(v, x).events = v.events
BY DEF Take, Reading

\* The parts of what has been read.
LEMMA ReadingFields ==
    /\ \A v \in Reading : v.block \in Seq(Lines) /\ v.events \in Seq(Events)
BY DEF Reading

\* An element after two sequences is one after the second.
LEMMA AppendToConcat ==
    \A s, t \in Seq(Events), e \in Events : Append(s \o t, e) = s \o Append(t, e)
<1> SUFFICES ASSUME NEW s \in Seq(Events), NEW t \in Seq(Events), NEW e \in Events
             PROVE  Append(s \o t, e) = s \o Append(t, e)
  OBVIOUS
<1> QED
  OBVIOUS

\* Taking a piece keeps the type of what has been read.
LEMMA TakeType ==
    ASSUME NEW v \in Reading, NEW x \in Pieces
    PROVE  Take(v, x) \in Reading
<1>1. v.block \in Seq(Lines) /\ v.events \in Seq(Events)
  BY ReadingFields
<1> SUFFICES Take(v, x).block \in Seq(Lines) /\ Take(v, x).events \in Seq(Events)
  <2>1. Take(v, x) = [block |-> Take(v, x).block, events |-> Take(v, x).events]
    BY DEF Take, Reading
  <2>2. QED
    BY <2>1 DEF Reading
<1>2. CASE x # BlankLine
  <2>1. Append(v.block, x) \in Seq(Lines)
    BY <1>1, <1>2, PieceFacts
  <2>2. QED
    BY <1>1, <1>2, <2>1, TakeFields
<1>3. CASE x = BlankLine
  <2>1. ASSUME Len(v.block) = 2
        PROVE  Append(v.events, v.block[1].of) \in Seq(Events)
    <3>1. v.block[1] \in Lines
      BY <1>1, <2>1
    <3>2. QED
      BY <1>1, <3>1, PieceFacts
  <2>2. Take(v, x).block = <<>> /\ <<>> \in Seq(Lines)
    BY <1>3, TakeFields
  <2>3. Take(v, x).events \in Seq(Events)
    <3>1. CASE Len(v.block) = 2
      BY <1>3, <2>1, <3>1, TakeFields
    <3>2. CASE Len(v.block) # 2
      BY <1>1, <1>3, <3>2, TakeFields
    <3>3. QED
      BY <3>1, <3>2
  <2>4. QED
    BY <2>2, <2>3
<1>4. QED
  BY <1>2, <1>3

NothingRead == [block |-> <<>>, events |-> <<>>]

\* What the folds' facts say of Parsed.
LEMMA ParsedFacts ==
    /\ Parsed(<<>>) = NothingRead
    /\ \A s \in Seq(Pieces) :
          /\ Parsed(s) \in Reading
          /\ \A x \in Pieces : Parsed(Append(s, x)) = Take(Parsed(s), x)
          /\ \A t \in Seq(Pieces) : Parsed(s \o t) = FoldLeft(Take, Parsed(s), t)
<1>1. \A s : Parsed(s) = Parsing!FoldLeft(Take, NothingRead, s)
  BY ParsingFold DEF Parsed, NothingRead
<1>2. NothingRead \in Reading
  BY PieceFacts DEF Reading, NothingRead
<1>3. Parsing!FoldLeft(Take, NothingRead, <<>>) = NothingRead
  BY Parsing!FoldLeftEmpty
<1>4. ASSUME NEW s \in Seq(Pieces)
      PROVE  /\ Parsing!FoldLeft(Take, NothingRead, s) \in Reading
             /\ \A x \in Pieces :
                   Parsing!FoldLeft(Take, NothingRead, Append(s, x))
                   = Take(Parsing!FoldLeft(Take, NothingRead, s), x)
             /\ \A t \in Seq(Pieces) :
                   Parsing!FoldLeft(Take, NothingRead, s \o t)
                   = Parsing!FoldLeft(Take, Parsing!FoldLeft(Take, NothingRead, s), t)
  <2>1. Parsing!FoldLeft(Take, NothingRead, s) \in Reading
    BY <1>2, TakeType, Parsing!FoldLeftType
  <2>2. ASSUME NEW x \in Pieces
        PROVE  Parsing!FoldLeft(Take, NothingRead, Append(s, x))
               = Take(Parsing!FoldLeft(Take, NothingRead, s), x)
    BY Parsing!FoldLeftAppend
  <2>3. ASSUME NEW t \in Seq(Pieces)
        PROVE  Parsing!FoldLeft(Take, NothingRead, s \o t)
               = Parsing!FoldLeft(Take, Parsing!FoldLeft(Take, NothingRead, s), t)
    BY Parsing!FoldLeftConcat
  <2>4. QED
    BY <2>1, <2>2, <2>3
<1>5. QED
  BY <1>1, <1>3, <1>4, ParsingFold

\* What is left of an event is kept as it was read.
LEMMA ParsedBlock ==
    ASSUME NEW s \in Seq(Pieces)
    PROVE  /\ Parsed(Parsed(s).block).block = Parsed(s).block
           /\ Parsed(Parsed(s).block).events = <<>>
<1> DEFINE Kept == {v \in Reading : Parsed(v.block).block = v.block /\ Parsed(v.block).events = <<>>}
<1>1. NothingRead \in Kept
  BY ParsedFacts, PieceFacts DEF Reading, NothingRead
<1>2. ASSUME NEW v \in Kept, NEW x \in Pieces
      PROVE  Take(v, x) \in Kept
  <2> DEFINE b == v.block
             p == Parsed(b)
  <2>1. v \in Reading /\ b \in Seq(Lines)
    BY ReadingFields
  <2>2. p \in Reading /\ p.block = b /\ p.events = <<>> /\ b \in Seq(Pieces)
    <3>1. b \in Seq(Pieces)
      BY <2>1 DEF Pieces
    <3>2. QED
      BY <3>1, ParsedFacts
  <2>3. CASE x # BlankLine
    <3>1. Parsed(Append(b, x)) = Take(p, x)
      BY <2>2, ParsedFacts
    <3>2. Take(p, x).block = Append(b, x) /\ Take(p, x).events = <<>>
      BY <2>2, <2>3, TakeFields
    <3>3. Take(v, x).block = Append(b, x)
      BY <2>1, <2>3, TakeFields
    <3>4. QED
      BY <2>1, <3>1, <3>2, <3>3, TakeType
  <2>4. CASE x = BlankLine
    <3>1. Take(v, x).block = <<>>
      BY <2>1, <2>4, TakeFields
    <3>2. QED
      BY <2>1, <3>1, TakeType, ParsedFacts DEF NothingRead
  <2>5. QED
    BY <2>3, <2>4
<1> HIDE DEF Kept
<1>3. Parsing!FoldLeft(Take, NothingRead, s) \in Kept
  BY <1>1, <1>2, Parsing!FoldLeftType
<1>4. Parsed(s) \in Kept
  BY <1>3, ParsingFold DEF Parsed, NothingRead
<1>5. QED
  BY <1>4 DEF Kept

\* The cuts make no difference: what was understood, and then the rest read
\* after what was left over, are all there is.
LEMMA ParsedInParts ==
    ASSUME NEW a \in Seq(Pieces), NEW b \in Seq(Pieces)
    PROVE  /\ Parsed(a \o b).block = Parsed(Parsed(a).block \o b).block
           /\ Parsed(a \o b).events = Parsed(a).events \o Parsed(Parsed(a).block \o b).events
<1> DEFINE p == Parsed(a)
           left == Parsed(p.block)
           Alike == {uv \in Reading \X Reading :
                        /\ uv[1].block = uv[2].block
                        /\ uv[1].events = p.events \o uv[2].events}
<1>1. p \in Reading /\ p.block \in Seq(Lines) /\ p.events \in Seq(Events)
  BY ParsedFacts, ReadingFields
<1>2. p.block \in Seq(Pieces)
  BY <1>1 DEF Pieces
<1>3. left \in Reading /\ left.block = p.block /\ left.events = <<>>
  BY <1>2, ParsedBlock, ParsedFacts
<1>4. Parsed(a \o b) = FoldLeft(Take, p, b) /\ Parsed(p.block \o b) = FoldLeft(Take, left, b)
  BY <1>2, ParsedFacts
<1>5. <<p, left>> \in Alike
  <2>1. p.events \o <<>> = p.events
    BY <1>1, ConcatEmptySeq
  <2>2. QED
    BY <1>1, <1>3, <2>1
<1>6. ASSUME NEW u, NEW v, NEW x \in Pieces, <<u, v>> \in Alike
      PROVE  <<Take(u, x), Take(v, x)>> \in Alike
  <2>1. /\ u \in Reading /\ v \in Reading /\ u.block = v.block /\ u.events = p.events \o v.events
    BY <1>6
  <2>2. Take(u, x) \in Reading /\ Take(v, x) \in Reading
    BY <2>1, TakeType
  <2>3. Take(u, x).block = Take(v, x).block
    <3>1. CASE x = BlankLine
      BY <2>1, <3>1, TakeFields
    <3>2. CASE x # BlankLine
      <4>1. Take(u, x).block = Append(u.block, x) /\ Take(v, x).block = Append(v.block, x)
        BY <2>1, <3>2, TakeFields
      <4>2. QED
        BY <2>1, <4>1
    <3>3. QED
      BY <3>1, <3>2
  <2>4. Take(u, x).events = p.events \o Take(v, x).events
    <3>1. CASE x = BlankLine /\ Len(u.block) = 2
      <4> DEFINE e == u.block[1].of
      <4>1. e \in Events
        <5>1. u.block[1] \in Lines
          BY <2>1, <3>1, ReadingFields
        <5>2. QED
          BY <5>1, PieceFacts
      <4>2. Take(u, x).events = Append(u.events, e) /\ Take(v, x).events = Append(v.events, e)
        BY <2>1, <3>1, TakeFields DEF e
      <4> HIDE DEF e, p
      <4>3. p.events \in Seq(Events) /\ v.events \in Seq(Events)
        BY <1>1, <2>1, ReadingFields
      <4>4. Append(p.events \o v.events, e) = p.events \o Append(v.events, e)
        <5> HIDE DEF e, p
        <5>1. QED
          BY <4>1, <4>3, AppendToConcat, Zenon
      <4>5. QED
        BY <2>1, <4>2, <4>4
    <3>2. CASE ~ (x = BlankLine /\ Len(u.block) = 2)
      BY <2>1, <3>2, TakeFields
    <3>3. QED
      BY <3>1, <3>2
  <2>5. QED
    BY <2>2, <2>3, <2>4
<1> HIDE DEF Alike, left, p
<1>7. <<Parsing!FoldLeft(Take, p, b), Parsing!FoldLeft(Take, left, b)>> \in Alike
  BY <1>5, <1>6, Parsing!FoldLeftRelated
<1>8. <<FoldLeft(Take, p, b), FoldLeft(Take, left, b)>> \in Alike
  BY <1>7, ParsingFold
<1>9. QED
  BY <1>3, <1>4, <1>8 DEF Alike, p

\* An event that is sent is one more to be understood.
LEMMA ParsedEvent ==
    ASSUME NEW w \in Seq(Pieces), Parsed(w).block = <<>>, NEW e \in Events
    PROVE  LET sent == w \o <<[half |-> 1, of |-> e], [half |-> 2, of |-> e], BlankLine>>
           IN  Parsed(sent).block = <<>> /\ Parsed(sent).events = Append(Parsed(w).events, e)
<1> DEFINE one == [half |-> 1, of |-> e]
           two == [half |-> 2, of |-> e]
           w1 == Append(w, one)
           w2 == Append(w1, two)
<1>1. one \in Lines /\ two \in Lines /\ one # BlankLine /\ two # BlankLine
  BY PieceFacts
<1>2. one \in Pieces /\ two \in Pieces /\ BlankLine \in Pieces
  BY <1>1 DEF Pieces
<1>3. w \o <<one, two, BlankLine>> = Append(w2, BlankLine)
  BY <1>2
<1>4. w1 \in Seq(Pieces) /\ w2 \in Seq(Pieces)
  BY <1>2
<1>5. Parsed(w) \in Reading /\ Parsed(w1) \in Reading /\ Parsed(w2) \in Reading
  BY <1>4, ParsedFacts
<1>6. Parsed(w1).block = <<one>> /\ Parsed(w1).events = Parsed(w).events
  <2>1. Parsed(w1) = Take(Parsed(w), one)
    BY <1>2, ParsedFacts
  <2>2. QED
    BY <1>1, <1>5, <2>1, TakeFields
<1> HIDE DEF w1
<1>7. Parsed(w2).block = <<one, two>> /\ Parsed(w2).events = Parsed(w).events
  <2>1. Parsed(w2) = Take(Parsed(w1), two)
    BY <1>2, <1>4, ParsedFacts
  <2>2. Take(Parsed(w1), two).block = Append(<<one>>, two) /\ Take(Parsed(w1), two).events = Parsed(w).events
    BY <1>1, <1>5, <1>6, TakeFields
  <2>3. QED
    BY <2>1, <2>2
<1> HIDE DEF w2
<1>8. Parsed(Append(w2, BlankLine)) = Take(Parsed(w2), BlankLine)
  BY <1>2, <1>4, ParsedFacts
<1>9. Take(Parsed(w2), BlankLine).block = <<>> /\ Take(Parsed(w2), BlankLine).events = Append(Parsed(w).events, e)
  <2>1. Len(<<one, two>>) = 2 /\ <<one, two>>[1] = one
    OBVIOUS
  <2>2. Len(Parsed(w2).block) = 2 /\ Parsed(w2).block[1] = one /\ one.of = e
    BY <1>7, <2>1
  <2>3. Take(Parsed(w2), BlankLine).events = Append(Parsed(w2).events, Parsed(w2).block[1].of)
    BY <1>5, <2>2, TakeFields
  <2>4. QED
    BY <1>5, <1>7, <2>2, <2>3, TakeFields
<1>10. QED
  BY <1>3, <1>8, <1>9

\* handleSSEEvent keeps the type of the view.
LEMMA HandleType ==
    ASSUME NEW v \in Views, NEW e \in Events
    PROVE  Handle(v, e) \in Views
<1>1. v.steps = <<>> \/ v.steps \in [1 .. Steps -> Statuses]
  BY DEF Views
<1>2. ASSUME NEW i, NEW status \in Statuses
      PROVE  SetStep(v, i, status) \in Views
  BY <1>1, PipelineTestAssumption DEF SetStep, Views
<1>3. PICK steps \in {<<>>} \cup [1 .. Steps -> Statuses], done \in BOOLEAN,
           ran \in 0 .. Steps, error \in BOOLEAN :
           v = [steps |-> steps, done |-> done, executed |-> ran, error |-> error]
  BY DEF Views
<1>4. CASE e = Event("init", Steps)
  <2>1. Handle(v, e) = [v EXCEPT !.steps = [i \in 1 .. Steps |-> "pending"]]
    BY <1>4 DEF Handle, Event
  <2>2. QED
    BY <2>1 DEF Views, Statuses
<1>5. CASE e = Event("error", 0)
  <2>1. Handle(v, e) = [v EXCEPT !.done = TRUE, !.error = TRUE]
    BY <1>5 DEF Handle, Event
  <2>2. QED
    BY <2>1 DEF Views
<1>6. ASSUME NEW i \in 0 .. Steps, e = Event("done", i)
      PROVE  Handle(v, e) \in Views
  <2>1. Handle(v, e) = [v EXCEPT !.done = TRUE, !.executed = i]
    BY <1>6 DEF Handle, Event
  <2>2. QED
    BY <2>1 DEF Views
<1>7. ASSUME NEW kind \in {"step", "skip", "success", "failure"}, NEW i \in 1 .. Steps, e = Event(kind, i)
      PROVE  Handle(v, e) \in Views
  <2>1. \E status \in Statuses : Handle(v, e) = SetStep(v, i, status)
    BY <1>7 DEF Handle, Event, Statuses
  <2>2. QED
    BY <1>2, <2>1
<1>8. QED
  BY <1>4, <1>5, <1>6, <1>7 DEF Events

\* What each event changes of the view.
LEMMA HandleFields ==
    ASSUME NEW v \in Views
    PROVE  /\ \A i : LET w == Handle(v, Event("init", i)) IN
                w.steps = [j \in 1 .. i |-> "pending"] /\ (w.done <=> v.done) /\ (w.error <=> v.error)
           /\ \A i : LET w == Handle(v, Event("done", i)) IN
                w.done /\ w.executed = i /\ w.steps = v.steps /\ (w.error <=> v.error)
           /\ \A i : LET w == Handle(v, Event("error", i)) IN
                w.done /\ w.error /\ w.steps = v.steps
BY DEF Handle, Event, Views

\* The events of a plugin set the status of its step, ...
LEMMA HandleStep ==
    ASSUME NEW v, NEW i
    PROVE  /\ Handle(v, Event("step", i)) = SetStep(v, i, "running")
           /\ Handle(v, Event("skip", i)) = SetStep(v, i, "skipped")
           /\ Handle(v, Event("success", i)) = SetStep(v, i, "done")
           /\ Handle(v, Event("failure", i)) = SetStep(v, i, "error")
BY DEF Handle, Event

\* ... and nothing else.
LEMMA SetStepFields ==
    ASSUME NEW v \in Views, NEW i \in 1 .. Steps, NEW status, v.steps \in [1 .. Steps -> Statuses]
    PROVE  /\ SetStep(v, i, status).steps = [v.steps EXCEPT ![i] = status]
           /\ SetStep(v, i, status).done <=> v.done
           /\ SetStep(v, i, status).error <=> v.error
<1>1. (SetStep(v, i, status).done <=> v.done) /\ (SetStep(v, i, status).error <=> v.error)
  BY DEF SetStep, Views
<1>2. Len(v.steps) = Steps
  BY PipelineTestAssumption
<1>3. SetStep(v, i, status).steps = [j \in 1 .. Len(v.steps) |-> IF j = i THEN status ELSE v.steps[j]]
  BY DEF SetStep, Views
<1>4. QED
  BY <1>1, <1>2, <1>3

\* The view after one more event.
LEMMA HandlingAppend ==
    ASSUME NEW v, NEW s \in Seq(Events), NEW e \in Events
    PROVE  FoldLeft(Handle, v, Append(s, e)) = Handle(FoldLeft(Handle, v, s), e)
<1>1. Handling!FoldLeft(Handle, v, Append(s, e)) = FoldLeft(Handle, v, Append(s, e))
  BY HandlingFold, Zenon
<1>2. Handling!FoldLeft(Handle, v, s) = FoldLeft(Handle, v, s)
  BY HandlingFold, Zenon
<1>3. Handling!FoldLeft(Handle, v, Append(s, e)) = Handle(Handling!FoldLeft(Handle, v, s), e)
  BY Handling!FoldLeftAppend
<1>4. QED
  BY <1>1, <1>2, <1>3, Zenon

\* What the folds' facts say of the view.
LEMMA HandlingFacts ==
    /\ \A v : FoldLeft(Handle, v, <<>>) = v
    /\ \A v, s, t : s \in Seq(Events) /\ t \in Seq(Events) =>
          FoldLeft(Handle, v, s \o t) = FoldLeft(Handle, FoldLeft(Handle, v, s), t)
    /\ \A v, s : v \in Views /\ s \in Seq(Events) => FoldLeft(Handle, v, s) \in Views
<1>1. \A v : Handling!FoldLeft(Handle, v, <<>>) = v
  BY Handling!FoldLeftEmpty
<1>2. \A v, s, t : s \in Seq(Events) /\ t \in Seq(Events) =>
         Handling!FoldLeft(Handle, v, s \o t) = Handling!FoldLeft(Handle, Handling!FoldLeft(Handle, v, s), t)
  BY Handling!FoldLeftConcat
<1>4. \A v, s : v \in Views /\ s \in Seq(Events) => Handling!FoldLeft(Handle, v, s) \in Views
  BY HandleType, Handling!FoldLeftType
<1>5. \A v : FoldLeft(Handle, v, <<>>) = v
  BY <1>1, HandlingFold
<1>6. \A v, s, t : s \in Seq(Events) /\ t \in Seq(Events) =>
         FoldLeft(Handle, v, s \o t) = FoldLeft(Handle, FoldLeft(Handle, v, s), t)
  BY <1>2, HandlingFold
<1>8. \A v, s : v \in Views /\ s \in Seq(Events) => FoldLeft(Handle, v, s) \in Views
  BY <1>4, HandlingFold
<1>9. QED
  BY <1>5, <1>6, <1>8

\* A test that no event has ended is not over.
LEMMA NotYetDone ==
    ASSUME NEW v, ~ v.done, v \in Views, NEW s \in Seq({e \in Events : e.kind \notin Final})
    PROVE  ~ FoldLeft(Handle, v, s).done
<1> DEFINE Open == {u \in Views : ~ u.done}
           Going == {e \in Events : e.kind \notin Final}
<1>1. ASSUME NEW u \in Open, NEW e \in Going
      PROVE  Handle(u, e) \in Open
  <2>1. Handle(u, e) \in Views
    BY HandleType
  <2>2. \/ e = Event("init", Steps)
        \/ \E kind \in {"step", "skip", "success", "failure"}, i \in 1 .. Steps : e = Event(kind, i)
    BY DEF Events, Event, Final
  <2>3. Handle(u, e).done <=> u.done
    <3>1. CASE e = Event("init", Steps)
      BY <3>1, HandleFields
    <3>2. ASSUME NEW i, NEW status
          PROVE  SetStep(u, i, status).done <=> u.done
      BY DEF SetStep, Views
    <3>3. ASSUME NEW kind \in {"step", "skip", "success", "failure"}, NEW i \in 1 .. Steps, e = Event(kind, i)
          PROVE  Handle(u, e).done <=> u.done
      <4>1. \/ Handle(u, e) = SetStep(u, i, "running")
            \/ Handle(u, e) = SetStep(u, i, "skipped")
            \/ Handle(u, e) = SetStep(u, i, "done")
            \/ Handle(u, e) = SetStep(u, i, "error")
        BY <3>3 DEF Handle, Event
      <4>2. QED
        BY <3>2, <4>1
    <3>4. QED
      BY <2>2, <3>1, <3>3
  <2>4. QED
    BY <2>1, <2>3
<1> HIDE DEF Open, Going
<1>2. v \in Open /\ s \in Seq(Going)
  BY DEF Open, Going
<1>3. Handling!FoldLeft(Handle, v, s) \in Open
  BY <1>1, <1>2, Handling!FoldLeftType
<1>4. QED
  BY <1>3, HandlingFold DEF Open

-----------------------------------------------------------------------------
\* Where the pipeline ends: before it no plugin ends it.
LEMMA LastStepFacts ==
    ASSUME fates \in [1 .. Steps -> Fates]
    PROVE  /\ LastStep \in 1 .. Steps
           /\ ~settings => LastStep = 1
           /\ settings => \A j \in 1 .. LastStep - 1 : fates[j] # "ends"
           /\ settings /\ LastStep # Steps => fates[LastStep] = "ends"
<1>1. CASE ~settings
  BY <1>1, PipelineTestAssumption DEF LastStep
<1>2. CASE settings /\ ~ \E i \in 1 .. Steps : fates[i] = "ends"
  BY <1>2, PipelineTestAssumption DEF LastStep
<1>3. CASE settings /\ \E i \in 1 .. Steps : fates[i] = "ends"
  <2> DEFINE First(i) == fates[i] = "ends" /\ \A j \in 1 .. i - 1 : fates[j] # "ends"
  <2>1. \E i \in 1 .. Steps : First(i)
    <3> SUFFICES ASSUME \A i \in 1 .. Steps : ~ First(i)
                 PROVE  FALSE
      OBVIOUS
    <3> DEFINE T == {n \in Nat : \A k \in 1 .. Steps : k <= n => fates[k] # "ends"}
    <3>1. 0 \in T
      OBVIOUS
    <3>2. ASSUME NEW n \in T
          PROVE  n + 1 \in T
      <4>1. n + 1 \in 1 .. Steps => fates[n + 1] # "ends"
        <5> SUFFICES ASSUME n + 1 \in 1 .. Steps, fates[n + 1] = "ends"
                     PROVE  FALSE
          OBVIOUS
        <5>1. \A j \in 1 .. (n + 1) - 1 : fates[j] # "ends"
          BY PipelineTestAssumption
        <5>2. QED
          BY <5>1
      <4>2. \A k \in 1 .. Steps : k <= n + 1 => k <= n \/ k = n + 1
        BY PipelineTestAssumption
      <4>3. QED
        BY <4>1, <4>2
    <3>3. T \in SUBSET Nat
      OBVIOUS
    <3> HIDE DEF T
    <3>4. T = Nat
      BY <3>1, <3>2, <3>3, Parsing!NatSetInduction
    <3> USE DEF T
    <3>5. \A k \in 1 .. Steps : fates[k] # "ends"
      BY <3>4, PipelineTestAssumption
    <3>6. QED
      BY <1>3, <3>5
  <2>2. LastStep = CHOOSE i \in 1 .. Steps : First(i)
    BY <1>3 DEF LastStep
  <2> HIDE DEF First
  <2>3. LastStep \in 1 .. Steps /\ First(LastStep)
    BY <2>1, <2>2
  <2>4. QED
    BY <1>3, <2>3 DEF First
<1>4. QED
  BY <1>1, <1>2, <1>3

\* What becomes of a plugin, case by case.
LEMMA ResultFacts ==
    ASSUME fates \in [1 .. Steps -> Fates]
    PROVE  \A i \in 1 .. Steps :
              /\ Result(i) \in {"pending", "skipped", "error", "done"}
              /\ i > LastStep => Result(i) = "pending"
              /\ i <= LastStep /\ (~settings \/ fates[i] \in {"disabled", "no provider"}) => Result(i) = "skipped"
              /\ i <= LastStep /\ settings /\ fates[i] = "fails" => Result(i) = "error"
              /\ i <= LastStep /\ settings /\ fates[i] \in {"passes", "ends"} => Result(i) = "done"
<1> SUFFICES ASSUME NEW i \in 1 .. Steps
             PROVE  /\ Result(i) \in {"pending", "skipped", "error", "done"}
                    /\ i > LastStep => Result(i) = "pending"
                    /\ i <= LastStep /\ (~settings \/ fates[i] \in {"disabled", "no provider"}) => Result(i) = "skipped"
                    /\ i <= LastStep /\ settings /\ fates[i] = "fails" => Result(i) = "error"
                    /\ i <= LastStep /\ settings /\ fates[i] \in {"passes", "ends"} => Result(i) = "done"
  OBVIOUS
<1>1. LastStep \in 1 .. Steps /\ fates[i] \in Fates /\ (i > LastStep <=> ~ (i <= LastStep))
  BY LastStepFacts, PipelineTestAssumption
<1>2. QED
  BY <1>1 DEF Result, Fates

\* The results depend on nothing but what the settings and the AI have in store.
LEMMA SameResults ==
    ASSUME UNCHANGED <<fates, settings>>
    PROVE  LastStep' = LastStep /\ \A i : Result(i)' = Result(i)
BY DEF LastStep, Result

\* A plugin's events are events, and end nothing.
LEMMA StepEvents ==
    ASSUME NEW kind \in {"step", "skip", "success", "failure"}, NEW i \in 1 .. Steps
    PROVE  Event(kind, i) \in Events /\ Event(kind, i).kind \notin Final
<1>1. Event(kind, i) \in Events
  BY DEF Events
<1>2. QED
  BY <1>1 DEF Event, Final

\* The derived parts of the invariant have their types.
LEMMA StreamFacts ==
    ASSUME view \in Views, buffer \in Seq(Lines), wire \in Seq(Pieces)
    PROVE  /\ buffer \in Seq(Pieces) /\ buffer \o wire \in Seq(Pieces)
           /\ Heard \in Reading /\ Pending \in Seq(Events)
           /\ Told \in Views
<1>1. buffer \in Seq(Pieces)
  BY DEF Pieces
<1>2. buffer \o wire \in Seq(Pieces)
  BY <1>1, ConcatProperties
<1>3. Heard \in Reading
  BY <1>2, ParsedFacts DEF Heard
<1>4. Pending \in Seq(Events)
  BY <1>3, ReadingFields DEF Pending
<1>5. QED
  BY <1>1, <1>2, <1>3, <1>4, HandlingFacts DEF Told

\* An event that is sent is the next to be told, and the test is not over.
LEMMA Sending ==
    ASSUME PipelineInv, server \in {"starting", "between", "running"},
           NEW e \in Events, Send(e), UNCHANGED <<buffer, loading, view>>,
           e.kind \in Final => server' = "closed"
    PROVE  /\ view' \in Views /\ StreamOK' /\ loading /\ loading' /\ ~ view'.done
           /\ Told' = Handle(Told, e)
           /\ Told \in Views
<1>1. loading /\ ToldOK /\ StreamOK /\ view \in Views
  BY DEF PipelineInv, OverOK
<1>2. /\ buffer \in Seq(Pieces) /\ buffer \o wire \in Seq(Pieces) /\ wire \in Seq(Pieces)
      /\ Heard \in Reading /\ Pending \in Seq(Events) /\ Told \in Views
  BY <1>1, StreamFacts DEF StreamOK
<1>3. ~ view.done
  <2>1. view.done => Told = view
    BY <1>1, HandlingFacts DEF ToldOK, Told
  <2>2. QED
    BY <1>1, <2>1 DEF ToldOK, Nothing
<1> DEFINE three == <<[half |-> 1, of |-> e], [half |-> 2, of |-> e], BlankLine>>
<1>4. three \in Seq(Pieces) /\ wire' = wire \o three
  BY PieceFacts DEF Pieces, Send
<1>5. Parsed((buffer \o wire) \o three).block = <<>> /\ Parsed((buffer \o wire) \o three).events = Append(Pending, e)
  BY <1>1, <1>2, ParsedEvent DEF StreamOK, Heard, Pending
<1> HIDE DEF three
<1>6. wire' \in Seq(Pieces) /\ buffer' \o wire' = (buffer \o wire) \o three
  BY <1>2, <1>4, ConcatProperties, ConcatAssociative
<1>7. Heard'.block = <<>> /\ Pending' = Append(Pending, e)
  BY <1>5, <1>6 DEF Heard, Pending
<1>8. Told' = Handle(Told, e)
  <2>1. Told' = FoldLeft(Handle, view, Append(Pending, e))
    BY <1>7 DEF Told
  <2>2. FoldLeft(Handle, view, Append(Pending, e)) = Handle(FoldLeft(Handle, view, Pending), e)
    <3>1. Pending \in Seq(Events) /\ e \in Events
      BY <1>2
    <3>2. QED
      BY <3>1, HandlingAppend
  <2>3. QED
    BY <2>1, <2>2 DEF Told
<1>9. ASSUME NEW k \in 1 .. Len(Pending'), Pending'[k].kind \in Final
      PROVE  k = Len(Pending') /\ server' = "closed"
  <2>1. Len(Pending') = Len(Pending) + 1 /\ Len(Pending) \in Nat
    BY <1>2, <1>7
  <2>2. CASE k <= Len(Pending)
    <3>1. k \in 1 .. Len(Pending) /\ Pending'[k] = Pending[k]
      BY <1>2, <1>7, <2>1, <2>2
    <3>2. QED
      BY <1>1, <1>9, <3>1 DEF StreamOK
  <2>3. CASE k = Len(Pending) + 1
    <3>1. Pending'[k] = e
      BY <1>2, <1>7, <2>3
    <3>2. QED
      BY <1>9, <2>1, <2>3, <3>1
  <2>4. QED
    BY <2>1, <2>2, <2>3
<1>10. StreamOK'
  BY <1>1, <1>6, <1>7, <1>9 DEF StreamOK
<1>11. QED
  BY <1>1, <1>2, <1>3, <1>8, <1>10

\* How many plugins have run.
LEMMA RanFacts ==
    /\ IsFiniteSet(Ran) /\ Cardinality(Ran) \in 0 .. Steps
    /\ at = 1 => Cardinality(Ran) = 0
<1>1. Ran \subseteq 1 .. Steps /\ IsFiniteSet(1 .. Steps) /\ Cardinality(1 .. Steps) = Steps
  BY FS_Interval, PipelineTestAssumption DEF Ran
<1>2. IsFiniteSet(Ran) /\ Cardinality(Ran) <= Steps /\ Cardinality(Ran) \in Nat
  BY <1>1, FS_Subset, FS_CardinalityType
<1>3. at = 1 => Ran = {}
  BY PipelineTestAssumption DEF Ran
<1>4. QED
  BY <1>2, <1>3, FS_EmptySet, PipelineTestAssumption

\* The statuses the server has told of are statuses.
LEMMA ShownType ==
    ASSUME GeneratorOK
    PROVE  Shown \in [1 .. Steps -> Statuses]
BY ResultFacts DEF GeneratorOK, Shown, Statuses

-----------------------------------------------------------------------------
(* One lemma for each step.                                                 *)
LEMMA RunTestStep ==
    ASSUME PipelineInv, RunTest
    PROVE  PipelineInv'
<1>1. /\ loading' /\ view' = Nothing /\ buffer' = <<>> /\ wire' = <<>>
      /\ server' = "called" /\ at' = 1 /\ executed' = 0
      /\ fates' \in [1 .. Steps -> Fates] /\ settings' \in BOOLEAN
      /\ runs' = runs + 1 /\ runs < MaxRuns /\ runs \in 0 .. MaxRuns
  BY DEF RunTest, PipelineInv, GeneratorOK
<1>2. Parsed(<<>>).block = <<>> /\ Parsed(<<>>).events = <<>>
  BY ParsedFacts DEF NothingRead
<1>3. Heard'.block = <<>> /\ Pending' = <<>>
  <2>1. <<>> \o <<>> = <<>>
    OBVIOUS
  <2>2. QED
    BY <1>1, <1>2, <2>1 DEF Heard, Pending
<1>4. StreamOK'
  <2>1. Parsed(buffer').block = <<>> /\ Parsed(buffer').events = <<>>
    BY <1>1, <1>2
  <2>2. \A k \in 1 .. Len(Pending') : FALSE
    BY <1>3
  <2>3. buffer' \in Seq(Lines) /\ wire' \in Seq(Pieces)
    BY <1>1
  <2>4. QED
    BY <1>1, <1>3, <2>1, <2>2, <2>3 DEF StreamOK
<1>5. view' \in Views
  BY <1>1, PipelineTestAssumption DEF Nothing, Views
<1>6. GeneratorOK'
  <2>1. Cardinality(Ran') = 0
    <3>1. Ran' = {}
      BY <1>1, PipelineTestAssumption DEF Ran
    <3>2. QED
      BY <3>1, FS_EmptySet
  <2>2. QED
    BY <1>1, <2>1, PipelineTestAssumption DEF GeneratorOK, Servers
<1>7. ToldOK'
  BY <1>1, <1>3 DEF ToldOK
<1>8. QED
  BY <1>1, <1>4, <1>5, <1>6, <1>7 DEF PipelineInv

\* The server answers: nothing is sent yet.
LEMMA RespondStep ==
    ASSUME PipelineInv, Respond
    PROVE  PipelineInv'
<1>1. /\ server = "called" /\ server' = "starting"
      /\ UNCHANGED <<fates, settings, at, executed, wire, buffer, loading, view, runs>>
  BY DEF Respond, Serving
<1>2. loading /\ loading' /\ ToldOK
  BY <1>1 DEF PipelineInv, OverOK
<1>3. Heard' = Heard /\ Pending' = Pending /\ Ran' = Ran
  BY <1>1, SameResults DEF Heard, Pending, Ran
<1>4. StreamOK'
  BY <1>1, <1>3 DEF PipelineInv, StreamOK
<1>5. GeneratorOK'
  BY <1>1, <1>3 DEF PipelineInv, GeneratorOK, Servers
<1>6. ToldOK'
  BY <1>1, <1>2, <1>3 DEF ToldOK
<1>7. QED
  BY <1>1, <1>2, <1>4, <1>5, <1>6 DEF PipelineInv

\* The list of steps is sent, all of them pending.
LEMMA SendInitStep ==
    ASSUME PipelineInv, SendInit
    PROVE  PipelineInv'
<1> DEFINE e == Event("init", Steps)
<1>1. /\ server = "starting" /\ server' = "between" /\ at' = 1 /\ executed' = 0 /\ Send(e)
      /\ UNCHANGED <<fates, settings, buffer, loading, view, runs>>
  BY DEF SendInit, Serving
<1>2. e \in Events /\ e.kind \notin Final
  BY DEF Events, Event, Final
<1> HIDE DEF e
<1>3. /\ view' \in Views /\ StreamOK' /\ loading /\ loading' /\ ~ view'.done
      /\ Told' = Handle(Told, e) /\ Told \in Views
  BY <1>1, <1>2, Sending
<1>4. /\ GeneratorOK /\ view = Nothing /\ Told = view /\ at = 1
  <2>1. GeneratorOK /\ view = Nothing /\ Pending = <<>> /\ at = 1
    BY <1>1, <1>3 DEF PipelineInv, ToldOK, GeneratorOK
  <2>2. QED
    BY <2>1, HandlingFacts DEF Told
<1>5. Told'.steps = [i \in 1 .. Steps |-> "pending"] /\ ~ Told'.done /\ ~ Told'.error
  BY <1>3, <1>4, HandleFields DEF e, Nothing
<1>6. Shown' = [i \in 1 .. Steps |-> "pending"]
  BY <1>1, PipelineTestAssumption DEF Shown
<1>7. GeneratorOK'
  <2>1. LastStep' \in 1 .. Steps
    BY <1>1, <1>4, SameResults, LastStepFacts DEF GeneratorOK
  <2>2. Ran' = {}
    BY <1>1, PipelineTestAssumption DEF Ran
  <2>3. QED
    BY <1>1, <1>4, <2>1, <2>2, FS_EmptySet, PipelineTestAssumption DEF GeneratorOK, Servers
<1>8. ToldOK'
  BY <1>1, <1>3, <1>5, <1>6 DEF ToldOK
<1>9. QED
  BY <1>3, <1>7, <1>8 DEF PipelineInv

\* The server gives up before the first step.
LEMMA SendErrorStep ==
    ASSUME PipelineInv, SendError
    PROVE  PipelineInv'
<1> DEFINE e == Event("error", 0)
<1>1. /\ server = "starting" /\ server' = "closed" /\ Send(e)
      /\ UNCHANGED <<fates, settings, at, executed, buffer, loading, view, runs>>
  BY DEF SendError, Serving
<1>2. e \in Events
  BY DEF Events
<1> HIDE DEF e
<1>3. /\ view' \in Views /\ StreamOK' /\ loading /\ loading' /\ ~ view'.done
      /\ Told' = Handle(Told, e) /\ Told \in Views
  BY <1>1, <1>2, Sending
<1>4. /\ GeneratorOK /\ view = Nothing /\ Told = view
  <2>1. GeneratorOK /\ view = Nothing /\ Pending = <<>>
    BY <1>1, <1>3 DEF PipelineInv, ToldOK
  <2>2. QED
    BY <2>1, HandlingFacts DEF Told
<1>5. Told'.steps = <<>> /\ Told'.done /\ Told'.error
  BY <1>3, <1>4, HandleFields DEF e, Nothing
<1>6. GeneratorOK'
  <2>1. Ran' = Ran
    BY <1>1, SameResults DEF Ran
  <2>2. QED
    BY <1>1, <1>4, <2>1 DEF GeneratorOK, Servers
<1>7. ToldOK'
  BY <1>1, <1>3, <1>5 DEF ToldOK
<1>8. QED
  BY <1>3, <1>6, <1>7 DEF PipelineInv

\* A plugin's step has the status the event tells; the others keep theirs.
LEMMA TellingAStep ==
    ASSUME PipelineInv, server \in {"between", "running"}, at <= Steps,
           NEW e \in Events, NEW status, Told' = Handle(Told, e), Handle(Told, e) = SetStep(Told, at, status),
           Shown' = [Shown EXCEPT ![at] = status]
    PROVE  Told'.steps = Shown' /\ ~ Told'.done /\ ~ Told'.error
<1>1. loading /\ ToldOK /\ GeneratorOK /\ StreamOK /\ view \in Views
  BY DEF PipelineInv, OverOK
<1>2. Told \in Views /\ Told.steps = Shown /\ ~ Told.done /\ ~ Told.error
  BY <1>1, StreamFacts DEF StreamOK, ToldOK
<1>3. at \in 1 .. Steps
  BY <1>1 DEF GeneratorOK
<1>4. Told.steps \in [1 .. Steps -> Statuses]
  BY <1>1, <1>2, ShownType
<1> DEFINE w == SetStep(Told, at, status)
<1>5. w.steps = [Told.steps EXCEPT ![at] = status] /\ (w.done <=> Told.done) /\ (w.error <=> Told.error)
  <2>1. \A v \in Views : v.steps \in [1 .. Steps -> Statuses] =>
           \A i \in 1 .. Steps : SetStep(v, i, status).steps = [v.steps EXCEPT ![i] = status]
    BY SetStepFields
  <2>2. \A v \in Views : v.steps \in [1 .. Steps -> Statuses] =>
           \A i \in 1 .. Steps : /\ (SetStep(v, i, status).done <=> v.done)
                                  /\ (SetStep(v, i, status).error <=> v.error)
    BY SetStepFields
  <2>3. QED
    BY <1>2, <1>3, <1>4, <2>1, <2>2
<1>6. Told' = w
  OBVIOUS
<1> HIDE DEF w
<1>7. QED
  BY <1>2, <1>5, <1>6

\* A plugin is skipped; without settings it is the last.
LEMMA SkipPluginStep ==
    ASSUME PipelineInv, SkipPlugin
    PROVE  PipelineInv'
<1> DEFINE e == Event("skip", at)
<1>1. /\ server = "between" /\ server' = "between" /\ at <= Steps /\ Send(e)
      /\ ~settings \/ fates[at] = "disabled"
      /\ at' = IF settings THEN at + 1 ELSE Steps + 1
      /\ UNCHANGED <<fates, settings, executed, buffer, loading, view, runs>>
  BY DEF SkipPlugin, Serving
<1>2. at \in 1 .. Steps /\ at <= LastStep /\ GeneratorOK
  BY <1>1, PipelineTestAssumption DEF PipelineInv, GeneratorOK
<1>3. e \in Events /\ e.kind \notin Final
  BY <1>2 DEF Events, Event, Final
<1> HIDE DEF e
<1>4. /\ view' \in Views /\ StreamOK' /\ loading /\ loading' /\ ~ view'.done
      /\ Told' = Handle(Told, e) /\ Told \in Views
  BY <1>1, <1>3, Sending
<1>5. /\ LastStep' = LastStep /\ LastStep \in 1 .. Steps
      /\ ~settings => LastStep = 1
      /\ settings /\ LastStep # Steps => fates[LastStep] = "ends"
      /\ Result(at) = "skipped" /\ \A i \in 1 .. Steps : i > LastStep => Result(i) = "pending"
      /\ \A i : Result(i)' = Result(i)
  BY <1>1, <1>2, SameResults, LastStepFacts, ResultFacts DEF GeneratorOK
<1>6. at' \in 1 .. Steps + 1 /\ (at' <= LastStep \/ at' = Steps + 1) /\ at' > at
  BY <1>1, <1>2, <1>5, PipelineTestAssumption
<1>7. \A i \in 1 .. Steps : i < at' /\ i > at => Result(i) = "pending"
  BY <1>1, <1>2, <1>5
<1>8. Shown' = [Shown EXCEPT ![at] = "skipped"]
  <2>1. Shown' = [i \in 1 .. Steps |-> IF i < at' THEN Result(i) ELSE "pending"]
    BY <1>1, <1>5 DEF Shown
  <2>2. Shown = [i \in 1 .. Steps |-> IF i < at THEN Result(i) ELSE "pending"]
    BY <1>1 DEF Shown
  <2>3. QED
    BY <1>2, <1>5, <1>6, <1>7, <2>1, <2>2, PipelineTestAssumption
<1>9. Ran' = Ran
  BY <1>2, <1>5, <1>6, <1>7 DEF Ran
<1>10. GeneratorOK'
  BY <1>1, <1>2, <1>5, <1>6, <1>9 DEF GeneratorOK
<1>11. Handle(Told, e) = SetStep(Told, at, "skipped")
  BY <1>2, <1>4, HandleStep DEF e
<1>12. ToldOK'
  BY <1>1, <1>3, <1>4, <1>8, <1>11, TellingAStep DEF ToldOK
<1>13. QED
  BY <1>4, <1>10, <1>12 DEF PipelineInv

\* A plugin starts.
LEMMA BeginPluginStep ==
    ASSUME PipelineInv, BeginPlugin
    PROVE  PipelineInv'
<1> DEFINE e == Event("step", at)
<1>1. /\ server = "between" /\ server' = "running" /\ at <= Steps /\ Send(e)
      /\ settings /\ fates[at] # "disabled"
      /\ UNCHANGED <<fates, settings, at, executed, buffer, loading, view, runs>>
  BY DEF BeginPlugin, Serving
<1>2. at \in 1 .. Steps /\ at <= LastStep /\ GeneratorOK
  BY <1>1, PipelineTestAssumption DEF PipelineInv, GeneratorOK
<1>3. e \in Events /\ e.kind \notin Final
  BY <1>2 DEF Events, Event, Final
<1> HIDE DEF e
<1>4. /\ view' \in Views /\ StreamOK' /\ loading /\ loading' /\ ~ view'.done
      /\ Told' = Handle(Told, e) /\ Told \in Views
  BY <1>1, <1>3, Sending
<1>5. LastStep' = LastStep /\ \A i : Result(i)' = Result(i)
  BY <1>1, SameResults
<1>6. Shown' = [Shown EXCEPT ![at] = "running"]
  <2>1. Shown' = [i \in 1 .. Steps |-> IF i < at THEN Result(i) ELSE IF i = at THEN "running" ELSE "pending"]
    BY <1>1, <1>5 DEF Shown
  <2>2. Shown = [i \in 1 .. Steps |-> IF i < at THEN Result(i) ELSE "pending"]
    BY <1>1 DEF Shown
  <2>3. QED
    BY <1>2, <2>1, <2>2, PipelineTestAssumption
<1>7. GeneratorOK'
  <2>1. Ran' = Ran
    BY <1>1, <1>5 DEF Ran
  <2>2. QED
    BY <1>1, <1>2, <1>5, <2>1 DEF GeneratorOK, Servers
<1>8. Handle(Told, e) = SetStep(Told, at, "running")
  BY <1>2, <1>4, HandleStep DEF e
<1>9. ToldOK'
  BY <1>1, <1>3, <1>4, <1>6, <1>8, TellingAStep DEF ToldOK
<1>10. QED
  BY <1>4, <1>7, <1>9 DEF PipelineInv

\* A plugin ends, and with it maybe the pipeline: what comes after it stays pending.
LEMMA EndPluginStep ==
    ASSUME PipelineInv, EndPlugin
    PROVE  PipelineInv'
<1> DEFINE kind == CASE fates[at] = "no provider" -> "skip" [] fates[at] = "fails" -> "failure" [] OTHER -> "success"
           e == Event(kind, at)
<1>1. /\ server = "running" /\ server' = "between" /\ Send(e)
      /\ executed' = IF fates[at] = "no provider" THEN executed ELSE executed + 1
      /\ at' = IF fates[at] = "ends" THEN Steps + 1 ELSE at + 1
      /\ UNCHANGED <<fates, settings, buffer, loading, view, runs>>
  BY DEF EndPlugin, Serving
<1> HIDE DEF e, kind
<1>2. /\ at \in 1 .. Steps /\ at <= LastStep /\ GeneratorOK /\ settings
      /\ fates[at] \in {"no provider", "fails", "passes", "ends"}
  <2>1. GeneratorOK /\ at \in 1 .. Steps /\ at <= LastStep /\ settings /\ fates[at] # "disabled"
    <3>1. GeneratorOK
      BY DEF PipelineInv
    <3>2. at \in 1 .. Steps + 1 /\ at <= Steps /\ (at <= LastStep \/ at = Steps + 1) /\ settings /\ fates[at] # "disabled"
      BY <1>1, <3>1 DEF GeneratorOK
    <3>3. QED
      BY <3>1, <3>2, PipelineTestAssumption
  <2>2. fates[at] \in Fates
    BY <2>1 DEF GeneratorOK
  <2>3. QED
    BY <2>1, <2>2 DEF Fates
<1>3. \/ fates[at] = "no provider" /\ e = Event("skip", at)
      \/ fates[at] = "fails" /\ e = Event("failure", at)
      \/ fates[at] \in {"passes", "ends"} /\ e = Event("success", at)
  BY <1>2 DEF e, kind
<1>4. e \in Events /\ e.kind \notin Final
  BY <1>2, <1>3, StepEvents
<1>5. /\ view' \in Views /\ StreamOK' /\ loading /\ loading' /\ ~ view'.done
      /\ Told' = Handle(Told, e) /\ Told \in Views
  BY <1>1, <1>4, Sending
<1>6. /\ LastStep' = LastStep /\ LastStep \in 1 .. Steps
      /\ \A j \in 1 .. LastStep - 1 : fates[j] # "ends"
      /\ LastStep # Steps => fates[LastStep] = "ends"
      /\ \A i \in 1 .. Steps : i > LastStep => Result(i) = "pending"
      /\ \A i : Result(i)' = Result(i)
  BY <1>1, <1>2, SameResults, LastStepFacts, ResultFacts DEF GeneratorOK
<1>7. Result(at) = CASE fates[at] = "no provider" -> "skipped" [] fates[at] = "fails" -> "error" [] OTHER -> "done"
  BY <1>2, ResultFacts DEF GeneratorOK
<1>8. Handle(Told, e) = SetStep(Told, at, Result(at))
  <2>1. CASE fates[at] = "no provider"
    BY <1>2, <1>3, <1>5, <1>7, <2>1, HandleStep
  <2>2. CASE fates[at] = "fails"
    BY <1>2, <1>3, <1>5, <1>7, <2>2, HandleStep
  <2>3. CASE fates[at] \in {"passes", "ends"}
    BY <1>2, <1>3, <1>5, <1>7, <2>3, HandleStep
  <2>4. QED
    BY <1>2, <2>1, <2>2, <2>3
<1>9. fates[at] = "ends" => at = LastStep
  BY <1>2, <1>6, PipelineTestAssumption
<1>10. at < LastStep \/ fates[at] = "ends" \/ LastStep = Steps
  <2>1. at < LastStep \/ at = LastStep
    <3>1. at \in 1 .. Steps /\ at <= LastStep /\ LastStep \in 1 .. Steps
      BY <1>2, <1>6
    <3>2. QED
      BY <3>1, PipelineTestAssumption
  <2>2. at = LastStep => fates[at] = "ends" \/ LastStep = Steps
    BY <1>6
  <2>3. QED
    BY <2>1, <2>2
<1>11. at' = at + 1 \/ (at' = Steps + 1 /\ at = LastStep)
  <2>1. CASE fates[at] = "ends"
    BY <1>1, <1>9, <2>1
  <2>2. CASE fates[at] # "ends"
    BY <1>1, <2>2
  <2>3. QED
    BY <2>1, <2>2
<1>12. at' \in 1 .. Steps + 1 /\ (at' <= LastStep \/ at' = Steps + 1) /\ at' > at
  <2>1. LastStep \in 1 .. Steps /\ at \in 1 .. Steps /\ at <= LastStep
    BY <1>2, <1>6
  <2>2. CASE fates[at] = "ends"
    BY <1>1, <2>1, <2>2, PipelineTestAssumption
  <2>3. CASE fates[at] # "ends"
    <3>1. at' = at + 1 /\ (at < LastStep \/ LastStep = Steps)
      BY <1>1, <1>10, <2>3
    <3>2. QED
      BY <2>1, <3>1, PipelineTestAssumption
  <2>4. QED
    BY <2>2, <2>3
<1>13. ASSUME NEW i \in 1 .. Steps, i < at', i > at
       PROVE  Result(i) = "pending"
  <2>1. i > LastStep
    <3>1. at \in 1 .. Steps /\ LastStep \in 1 .. Steps
      BY <1>2, <1>6
    <3>2. QED
      BY <1>11, <1>13, <3>1, PipelineTestAssumption
  <2>2. QED
    BY <1>6, <2>1
<1>14. Shown' = [Shown EXCEPT ![at] = Result(at)]
  <2>1. Shown' = [i \in 1 .. Steps |-> IF i < at' THEN Result(i) ELSE "pending"]
    BY <1>1, <1>6 DEF Shown
  <2>2. Shown = [i \in 1 .. Steps |-> IF i < at THEN Result(i) ELSE IF i = at THEN "running" ELSE "pending"]
    BY <1>1 DEF Shown
  <2>3. QED
    <3>1. at \in 1 .. Steps /\ at' \in 1 .. Steps + 1 /\ at' > at
      BY <1>2, <1>12
    <3>2. QED
      BY <1>13, <2>1, <2>2, <3>1, PipelineTestAssumption
<1>15. executed' = Cardinality(Ran')
  <2>1. at \in 1 .. Steps /\ at' \in 1 .. Steps + 1 /\ at' > at
    BY <1>2, <1>12
  <2>2. Ran' = {i \in 1 .. Steps : i < at' /\ Result(i) \in {"done", "error"}}
    BY <1>6 DEF Ran
  <2>3. CASE fates[at] = "no provider"
    <3>1. Result(at) = "skipped"
      BY <1>7, <2>3
    <3>2. Ran' = Ran
      BY <1>13, <2>1, <2>2, <3>1, PipelineTestAssumption DEF Ran
    <3>3. QED
      BY <1>1, <1>2, <2>3, <3>2 DEF GeneratorOK
  <2>4. CASE fates[at] # "no provider"
    <3>1. Result(at) \in {"done", "error"}
      BY <1>2, <1>7, <2>4
    <3>2. at \notin Ran
      BY <2>1, PipelineTestAssumption DEF Ran
    <3>3. Ran' = Ran \cup {at}
      BY <1>13, <2>1, <2>2, <3>1, PipelineTestAssumption DEF Ran
    <3>4. Cardinality(Ran \cup {at}) = Cardinality(Ran) + 1
      BY <3>2, RanFacts, FS_AddElement, Zenon
    <3>5. QED
      BY <1>1, <1>2, <2>4, <3>3, <3>4 DEF GeneratorOK
  <2>5. QED
    BY <2>3, <2>4
<1>16. GeneratorOK'
  BY <1>1, <1>2, <1>6, <1>12, <1>15 DEF GeneratorOK, Servers
<1>17. ToldOK'
  <2>1. Told'.steps = Shown' /\ ~ Told'.done /\ ~ Told'.error
    <3>1. at <= Steps /\ server \in {"between", "running"}
      <4>1. at \in 1 .. Steps
        BY <1>2
      <4>2. at <= Steps
        BY <4>1, PipelineTestAssumption
      <4>3. QED
        BY <1>1, <4>2
    <3>2. QED
      BY <1>4, <1>5, <1>8, <1>14, <3>1, TellingAStep
  <2>2. QED
    BY <1>1, <1>5, <2>1 DEF ToldOK
<1>18. QED
  BY <1>5, <1>16, <1>17 DEF PipelineInv

\* The server is done: everything it ran is told.
LEMMA SendDoneStep ==
    ASSUME PipelineInv, SendDone
    PROVE  PipelineInv'
<1> DEFINE e == Event("done", executed)
<1>1. /\ server = "between" /\ server' = "closed" /\ at > Steps /\ Send(e)
      /\ UNCHANGED <<fates, settings, at, executed, buffer, loading, view, runs>>
  BY DEF SendDone, Serving
<1>2. GeneratorOK /\ executed \in 0 .. Steps
  BY RanFacts DEF PipelineInv, GeneratorOK
<1>3. e \in Events
  BY <1>2 DEF Events
<1> HIDE DEF e
<1>4. /\ view' \in Views /\ StreamOK' /\ loading /\ loading' /\ ~ view'.done
      /\ Told' = Handle(Told, e) /\ Told \in Views
  BY <1>1, <1>3, Sending
<1>5. Told.steps = Shown /\ ~ Told.done /\ ~ Told.error
  BY <1>1, <1>4 DEF PipelineInv, ToldOK
<1>6. \A i : Result(i)' = Result(i)
  BY <1>1, SameResults
<1>7. Shown' = Shown
  BY <1>1, <1>2, <1>6, PipelineTestAssumption DEF Shown, GeneratorOK
<1>8. Told'.done /\ Told'.executed = executed /\ Told'.steps = Shown /\ ~ Told'.error
  BY <1>4, <1>5, HandleFields DEF e
<1>9. GeneratorOK'
  <2>1. Ran' = Ran
    BY <1>1, <1>6 DEF Ran
  <2>2. QED
    BY <1>1, <1>2, <2>1 DEF GeneratorOK, Servers
<1>10. ToldOK'
  BY <1>1, <1>4, <1>7, <1>8 DEF ToldOK
<1>11. QED
  BY <1>4, <1>9, <1>10 DEF PipelineInv

\* Two sequences of events after each other: the first, ...
LEMMA FirstPart ==
    ASSUME NEW s \in Seq(Events), NEW t \in Seq(Events), NEW k \in 1 .. Len(s)
    PROVE  /\ k \in 1 .. Len(s \o t) /\ (s \o t)[k] = s[k] /\ s[k] \in Events
           /\ t # <<>> => k # Len(s \o t)
<1>1. Len(s \o t) = Len(s) + Len(t) /\ Len(s) \in Nat /\ Len(t) \in Nat
  OBVIOUS
<1>2. k \in 1 .. Len(s \o t)
  BY <1>1
<1>3. (s \o t)[k] = s[k] /\ s[k] \in Events
  OBVIOUS
<1>4. t # <<>> => Len(t) > 0
  BY <1>1
<1>5. QED
  BY <1>1, <1>2, <1>3, <1>4

\* ... the second, ...
LEMMA SecondPart ==
    ASSUME NEW s \in Seq(Events), NEW t \in Seq(Events), NEW k \in 1 .. Len(t)
    PROVE  /\ Len(s) + k \in 1 .. Len(s \o t) /\ (s \o t)[Len(s) + k] = t[k]
           /\ Len(s) + k = Len(s \o t) => k = Len(t)
<1>1. Len(s \o t) = Len(s) + Len(t) /\ Len(s) \in Nat /\ Len(t) \in Nat
  OBVIOUS
<1>2. Len(s) + k \in 1 .. Len(s \o t) /\ (Len(s) + k = Len(s \o t) => k = Len(t))
  BY <1>1
<1>3. (s \o t)[Len(s) + k] = t[k]
  OBVIOUS
<1>4. QED
  BY <1>2, <1>3

\* ... and neither.
LEMMA NoParts ==
    ASSUME NEW s \in Seq(Events), NEW t \in Seq(Events), s \o t = <<>>
    PROVE  s = <<>> /\ t = <<>>
OBVIOUS

\* Three cuts of the wire.
LEMMA PiecesInThree ==
    ASSUME NEW s \in Seq(Pieces), NEW t \in Seq(Pieces), NEW u \in Seq(Pieces)
    PROVE  (s \o t) \o u = s \o (t \o u)
OBVIOUS

\* Reading moves events from the pending to the handled, wherever the wire is cut,
\* and a test is only over when nothing is pending.
LEMMA ReadStep ==
    ASSUME PipelineInv, Read
    PROVE  PipelineInv'
<1>1. PICK n \in 1 .. Len(wire) :
         LET parsed == Parsed(buffer \o SubSeq(wire, 1, n)) IN
         /\ wire' = SubSeq(wire, n + 1, Len(wire))
         /\ buffer' = parsed.block
         /\ view' = FoldLeft(Handle, view, parsed.events)
  BY DEF Read
<1>2. loading /\ UNCHANGED <<fates, settings, server, at, executed, loading, runs>>
  BY DEF Read, generator
<1>3. view \in Views /\ StreamOK /\ GeneratorOK /\ ToldOK
  BY <1>2 DEF PipelineInv
<1> DEFINE a == SubSeq(wire, 1, n)
           b == SubSeq(wire, n + 1, Len(wire))
           p == Parsed(buffer \o a)
           q == Parsed(p.block \o b)
<1>4. /\ buffer \in Seq(Pieces) /\ wire \in Seq(Pieces) /\ Heard \in Reading /\ Pending \in Seq(Events)
      /\ Told \in Views
  BY <1>3, StreamFacts DEF StreamOK
<1>5. a \in Seq(Pieces) /\ b \in Seq(Pieces) /\ a \o b = wire
  BY <1>4
<1>6. wire' = b /\ buffer' = p.block /\ view' = FoldLeft(Handle, view, p.events)
  BY <1>1
<1> HIDE DEF a, b
<1>7. buffer \o a \in Seq(Pieces) /\ (buffer \o a) \o b = buffer \o wire
  <2>1. buffer \o a \in Seq(Pieces)
    BY <1>4, <1>5, ConcatProperties
  <2>2. (buffer \o a) \o b = buffer \o (a \o b)
    BY <1>4, <1>5, PiecesInThree, Zenon
  <2>3. QED
    BY <1>5, <2>1, <2>2
<1>8. p \in Reading /\ p.block \in Seq(Lines) /\ p.block \in Seq(Pieces) /\ p.events \in Seq(Events)
  <2>1. p \in Reading /\ p.block \in Seq(Lines) /\ p.events \in Seq(Events)
    BY <1>7, ParsedFacts, ReadingFields
  <2>2. QED
    BY <2>1 DEF Pieces
<1>9. q.block = <<>> /\ Pending = p.events \o q.events
  <2>1. Parsed(buffer \o wire).block = q.block /\ Parsed(buffer \o wire).events = p.events \o q.events
    BY <1>5, <1>7, ParsedInParts
  <2>2. QED
    BY <1>3, <2>1 DEF StreamOK, Heard, Pending
<1>10. q.events \in Seq(Events)
  <2>1. p.block \o b \in Seq(Pieces)
    BY <1>5, <1>8, ConcatProperties
  <2>2. QED
    BY <2>1, ParsedFacts, ReadingFields
<1>11. Heard'.block = <<>> /\ Pending' = q.events
  BY <1>6, <1>9 DEF Heard, Pending
<1>12. Parsed(buffer').block = buffer' /\ Parsed(buffer').events = <<>>
  <2>1. Parsed(p.block).block = p.block /\ Parsed(p.block).events = <<>>
    BY <1>7, ParsedBlock
  <2>2. QED
    BY <1>6, <2>1
<1> HIDE DEF p, q
<1>13. Told' = Told
  <2>1. FoldLeft(Handle, view, p.events \o q.events) = FoldLeft(Handle, FoldLeft(Handle, view, p.events), q.events)
    BY <1>8, <1>10, HandlingFacts
  <2>2. QED
    BY <1>6, <1>9, <1>11, <2>1 DEF Told
<1>14. view' \in Views
  BY <1>3, <1>6, <1>8, HandlingFacts
<1>15. ASSUME NEW k \in 1 .. Len(p.events)
       PROVE  /\ k \in 1 .. Len(Pending) /\ Pending[k] = p.events[k] /\ p.events[k] \in Events
              /\ q.events # <<>> => k # Len(Pending)
  <2> DEFINE both == p.events \o q.events
  <2>1. /\ k \in 1 .. Len(both) /\ both[k] = p.events[k] /\ p.events[k] \in Events
        /\ q.events # <<>> => k # Len(both)
    BY <1>8, <1>10, FirstPart, Zenon
  <2>2. QED
    BY <1>9, <2>1
<1>16. ASSUME NEW k \in 1 .. Len(q.events), q.events[k].kind \in Final
       PROVE  k = Len(q.events) /\ server = "closed"
  <2> DEFINE m == Len(p.events) + k
  <2>1. m \in 1 .. Len(Pending) /\ Pending[m] = q.events[k] /\ (m = Len(Pending) => k = Len(q.events))
    BY <1>8, <1>9, <1>10, SecondPart, Zenon
  <2> HIDE DEF m
  <2>2. m = Len(Pending) /\ server = "closed"
    BY <1>3, <1>16, <2>1 DEF StreamOK
  <2>3. QED
    BY <2>1, <2>2
<1>17. StreamOK'
  <2>1. buffer' \in Seq(Lines) /\ wire' \in Seq(Pieces)
    BY <1>5, <1>6, <1>8
  <2>2. QED
    BY <1>2, <1>11, <1>12, <1>16, <2>1 DEF StreamOK
<1>18. GeneratorOK' /\ Shown' = Shown
  <2>1. LastStep' = LastStep /\ \A i : Result(i)' = Result(i)
    BY <1>2, SameResults
  <2>2. Ran' = Ran /\ Shown' = Shown
    BY <1>2, <2>1 DEF Ran, Shown
  <2>3. QED
    BY <1>2, <1>3, <2>1, <2>2 DEF GeneratorOK
<1>19. ASSUME view'.done
       PROVE  q.events = <<>>
  <2> SUFFICES ASSUME q.events # <<>>
               PROVE  FALSE
    OBVIOUS
  <2>1. ~ view.done
    <3>1. Pending # <<>>
      BY <1>8, <1>9, <1>10, NoParts
    <3>2. QED
      BY <1>3, <3>1 DEF ToldOK
  <2>2. ASSUME NEW k \in 1 .. Len(p.events)
        PROVE  p.events[k] \in {e \in Events : e.kind \notin Final}
    <3>1. k \in 1 .. Len(Pending) /\ k # Len(Pending) /\ Pending[k] = p.events[k] /\ p.events[k] \in Events
      BY <1>15
    <3>2. QED
      BY <1>3, <3>1 DEF StreamOK
  <2>3. p.events \in Seq({e \in Events : e.kind \notin Final})
    BY <1>8, <2>2
  <2>4. QED
    BY <1>3, <1>6, <1>19, <2>1, <2>3, NotYetDone
<1>20. ToldOK'
  <2>1. server \in {"called", "starting"} => view' = Nothing /\ q.events = <<>>
    <3> SUFFICES ASSUME server \in {"called", "starting"}
                 PROVE  view' = Nothing /\ q.events = <<>>
      OBVIOUS
    <3>1. Pending = <<>> /\ view = Nothing
      BY <1>3 DEF ToldOK
    <3>2. p.events = <<>> /\ q.events = <<>>
      BY <1>8, <1>9, <1>10, <3>1, NoParts, Zenon
    <3>3. QED
      BY <1>6, <3>1, <3>2, HandlingFacts
  <2>2. QED
    BY <1>2, <1>3, <1>11, <1>13, <1>18, <1>19, <2>1 DEF ToldOK
<1>21. QED
  BY <1>2, <1>14, <1>17, <1>18, <1>20 DEF PipelineInv

\* When all is told, the view shows what was told.
LEMMA AllTold ==
    ASSUME PipelineInv, loading, Pending = <<>>
    PROVE  view = Told
BY HandlingFacts DEF Told

\* When the end has been told, no step is running, and without an error all results are told.
LEMMA ToldIsOver ==
    ASSUME PipelineInv, loading, Told.done
    PROVE  /\ \A i \in DOMAIN Told.steps : Told.steps[i] # "running"
           /\ ~ Told.error =>
                /\ Told.steps = [i \in 1 .. Steps |-> Result(i)]
                /\ Told.executed = Cardinality({i \in 1 .. Steps : Result(i) \in {"done", "error"}})
<1>1. ToldOK /\ GeneratorOK
  BY DEF PipelineInv
<1>2. server = "closed"
  <2>1. server \in {"called", "starting"} => Told = Nothing
    BY <1>1, HandlingFacts DEF ToldOK, Told
  <2>2. QED
    BY <1>1, <2>1 DEF ToldOK, GeneratorOK, Servers, Nothing
<1>3. CASE Told.error /\ Told.steps = <<>>
  BY <1>3
<1>4. CASE ~ Told.error /\ at > Steps /\ Told.steps = Shown /\ Told.executed = executed
  <2>1. at = Steps + 1
    BY <1>1, <1>4, PipelineTestAssumption DEF GeneratorOK
  <2>2. Shown = [i \in 1 .. Steps |-> Result(i)]
    BY <2>1, PipelineTestAssumption DEF Shown
  <2>3. Ran = {i \in 1 .. Steps : Result(i) \in {"done", "error"}}
    BY <2>1, PipelineTestAssumption DEF Ran
  <2>4. \A i \in 1 .. Steps : Result(i) # "running"
    BY <1>1, ResultFacts DEF GeneratorOK
  <2>5. QED
    BY <1>1, <1>4, <2>2, <2>3, <2>4 DEF GeneratorOK
<1>5. QED
  BY <1>1, <1>2, <1>3, <1>4 DEF ToldOK

\* At the end of the stream nothing is left of an event, and the view shows what was told.
LEMMA ReadEndStep ==
    ASSUME PipelineInv, ReadEnd
    PROVE  PipelineInv'
<1>1. /\ loading /\ server = "closed" /\ wire = <<>>
      /\ view' = FoldLeft(Handle, view, Parsed(Append(buffer, BlankLine)).events)
      /\ buffer' = <<>> /\ ~ loading' /\ loading' \in BOOLEAN
      /\ UNCHANGED <<fates, settings, server, at, executed, wire, runs>>
  BY DEF ReadEnd, generator
<1>2. view \in Views /\ StreamOK /\ GeneratorOK /\ ToldOK
  BY <1>1 DEF PipelineInv
<1>3. buffer \in Seq(Pieces) /\ Heard \in Reading /\ buffer \o wire = buffer /\ BlankLine \in Pieces
  <2>1. buffer \in Seq(Pieces) /\ Heard \in Reading
    BY <1>2, StreamFacts DEF StreamOK
  <2>2. buffer \o <<>> = buffer
    BY <2>1, ConcatEmptySeq
  <2>3. QED
    BY <1>1, <2>1, <2>2 DEF Pieces
<1>4. Heard = Parsed(buffer) /\ buffer = <<>> /\ Pending = <<>>
  BY <1>2, <1>3 DEF StreamOK, Heard, Pending
<1>5. Parsed(Append(buffer, BlankLine)).events = <<>>
  <2>1. Parsed(Append(buffer, BlankLine)) = Take(Heard, BlankLine)
    BY <1>3, <1>4, ParsedFacts
  <2>2. Len(Heard.block) # 2
    BY <1>2 DEF StreamOK
  <2>3. Take(Heard, BlankLine).events = Heard.events
    BY <1>3, <2>2, TakeFields
  <2>4. QED
    BY <1>4, <2>1, <2>3 DEF Pending
<1>6. view' = view /\ view = Told
  BY <1>1, <1>4, <1>5, AllTold, HandlingFacts
<1>7. Told.done
  BY <1>1, <1>2 DEF ToldOK
<1>8. /\ \A i \in DOMAIN view.steps : view.steps[i] # "running"
      /\ ~ view.error =>
           /\ view.steps = [i \in 1 .. Steps |-> Result(i)]
           /\ view.executed = Cardinality({i \in 1 .. Steps : Result(i) \in {"done", "error"}})
  BY <1>1, <1>6, <1>7, ToldIsOver
<1>9. LastStep' = LastStep /\ \A i : Result(i)' = Result(i)
  BY <1>1, SameResults
<1>10. GeneratorOK'
  <2>1. Ran' = Ran
    BY <1>1, <1>9 DEF Ran
  <2>2. QED
    BY <1>1, <1>2, <1>9, <2>1 DEF GeneratorOK
<1>11. StreamOK'
  <2>1. Parsed(buffer') = Heard /\ buffer' \o wire' = buffer
    BY <1>1, <1>3, <1>4
  <2>2. Heard' = Heard /\ Pending' = Pending
    BY <1>4, <2>1 DEF Heard, Pending
  <2>3. QED
    BY <1>1, <1>2, <1>4, <2>1, <2>2 DEF StreamOK
<1>12. NoStepLeftRunning' /\ FinishedTestsShowResults'
  BY <1>6, <1>8, <1>9 DEF NoStepLeftRunning, FinishedTestsShowResults
<1>13. QED
  BY <1>1, <1>2, <1>6, <1>10, <1>11, <1>12 DEF PipelineInv, OverOK

\* A test broken off: the running step is marked, and one that is done stays as it is.
LEMMA InterruptedStep ==
    ASSUME PipelineInv, NEW error \in BOOLEAN, Interrupted(error)
    PROVE  PipelineInv'
<1> DEFINE shown == [i \in 1 .. Len(view.steps) |-> IF view.steps[i] = "running" THEN "error" ELSE view.steps[i]]
<1>1. /\ loading /\ ~ loading' /\ loading' \in BOOLEAN /\ buffer' = <<>> /\ wire' = <<>> /\ server' = "off"
      /\ view' = [view EXCEPT !.error = @ \/ error, !.steps = shown]
      /\ UNCHANGED <<fates, settings, at, executed, runs>>
  BY DEF Interrupted
<1>2. view \in Views /\ StreamOK /\ GeneratorOK /\ ToldOK
  BY <1>1 DEF PipelineInv
<1>3. /\ view.steps = <<>> \/ view.steps \in [1 .. Steps -> Statuses]
      /\ view.done \in BOOLEAN /\ view.executed \in 0 .. Steps /\ view.error \in BOOLEAN
  BY <1>2 DEF Views
<1>4. /\ shown = <<>> \/ shown \in [1 .. Steps -> Statuses]
      /\ \A i \in DOMAIN shown : shown[i] # "running"
  <2>1. CASE view.steps = <<>>
    BY <2>1
  <2>2. CASE view.steps \in [1 .. Steps -> Statuses]
    <3>1. Len(view.steps) = Steps
      BY <2>2, PipelineTestAssumption
    <3>2. QED
      BY <2>2, <3>1 DEF Statuses
  <2>3. QED
    BY <1>3, <2>1, <2>2
<1>5. /\ view'.steps = shown /\ (view'.done <=> view.done) /\ view'.executed = view.executed
      /\ view'.error <=> view.error \/ error
  BY <1>1, <1>2 DEF Views
<1>6. view' \in Views
  BY <1>1, <1>2, <1>3, <1>4 DEF Views
<1>7. LastStep' = LastStep /\ \A i : Result(i)' = Result(i)
  BY <1>1, SameResults
<1>8. NoStepLeftRunning'
  BY <1>4, <1>5 DEF NoStepLeftRunning
<1>9. FinishedTestsShowResults'
  <2> SUFFICES ASSUME view.done, ~ view.error
               PROVE  /\ shown = [i \in 1 .. Steps |-> Result(i)]
                      /\ view.executed = Cardinality({i \in 1 .. Steps : Result(i) \in {"done", "error"}})
    BY <1>5, <1>7 DEF FinishedTestsShowResults
  <2>1. view = Told
    BY <1>1, <1>2, AllTold DEF ToldOK
  <2>2. /\ \A i \in DOMAIN view.steps : view.steps[i] # "running"
        /\ view.steps = [i \in 1 .. Steps |-> Result(i)]
        /\ view.executed = Cardinality({i \in 1 .. Steps : Result(i) \in {"done", "error"}})
    BY <1>1, <2>1, ToldIsOver
  <2>3. Len(view.steps) = Steps
    BY <2>2, PipelineTestAssumption
  <2>4. shown = view.steps
    BY <2>2, <2>3
  <2>5. QED
    BY <2>2, <2>4
<1>10. GeneratorOK'
  <2>1. Ran' = Ran
    BY <1>1, <1>7 DEF Ran
  <2>2. QED
    BY <1>1, <1>2, <1>7, <2>1 DEF GeneratorOK, Servers
<1>11. StreamOK'
  <2>1. Parsed(<<>>).block = <<>> /\ Parsed(<<>>).events = <<>> /\ <<>> \o <<>> = <<>>
    BY ParsedFacts DEF NothingRead
  <2>2. Heard'.block = <<>> /\ Pending' = <<>>
    BY <1>1, <2>1 DEF Heard, Pending
  <2>3. Parsed(buffer').block = <<>> /\ Parsed(buffer').events = <<>>
    BY <1>1, <2>1
  <2>4. \A k \in 1 .. Len(Pending') : FALSE
    BY <2>2
  <2>5. buffer' \in Seq(Lines) /\ wire' \in Seq(Pieces)
    BY <1>1
  <2>6. QED
    BY <1>1, <2>2, <2>3, <2>4, <2>5 DEF StreamOK
<1>12. QED
  BY <1>1, <1>6, <1>8, <1>9, <1>10, <1>11 DEF PipelineInv, OverOK

\* Every step keeps the invariant.
LEMMA PipelineStep ==
    ASSUME PipelineInv, [PipelineNext]_pipelineVars
    PROVE  PipelineInv'
<1>1. CASE UNCHANGED pipelineVars
  <2>1. LastStep' = LastStep /\ \A i : Result(i)' = Result(i)
    BY <1>1, SameResults DEF pipelineVars
  <2>2. Heard' = Heard /\ Pending' = Pending /\ Told' = Told
    BY <1>1 DEF pipelineVars, Heard, Pending, Told
  <2>3. Ran' = Ran /\ Shown' = Shown
    BY <1>1, <2>1 DEF pipelineVars, Ran, Shown
  <2>4. StreamOK => StreamOK'
    BY <1>1, <2>2 DEF pipelineVars, StreamOK
  <2>5. GeneratorOK => GeneratorOK'
    BY <1>1, <2>1, <2>3 DEF pipelineVars, GeneratorOK
  <2>6. ToldOK => ToldOK'
    BY <1>1, <2>2, <2>3 DEF pipelineVars, ToldOK
  <2>7. OverOK => OverOK'
    BY <1>1, <2>1 DEF pipelineVars, OverOK, NoStepLeftRunning, FinishedTestsShowResults
  <2>8. QED
    BY <1>1, <2>4, <2>5, <2>6, <2>7 DEF pipelineVars, PipelineInv
<1>2. CASE Break
  BY <1>2, InterruptedStep DEF Break
<1>3. CASE Close
  BY <1>3, InterruptedStep DEF Close
<1>4. CASE Timeout
  BY <1>4, InterruptedStep DEF Timeout
<1>5. QED
  BY <1>1, <1>2, <1>3, <1>4, RunTestStep, RespondStep, SendInitStep, SendErrorStep, SkipPluginStep,
     BeginPluginStep, EndPluginStep, SendDoneStep, ReadStep, ReadEndStep DEF PipelineNext

\* Before the first test.
LEMMA PipelineStart ==
    ASSUME PipelineInit
    PROVE  PipelineInv
<1>1. /\ fates = [i \in 1 .. Steps |-> "disabled"] /\ settings = TRUE
      /\ server = "off" /\ at = 1 /\ executed = 0 /\ wire = <<>> /\ buffer = <<>>
      /\ loading = FALSE /\ view = Nothing /\ runs = 0
  BY DEF PipelineInit
<1>2. GeneratorOK
  <2>1. Cardinality(Ran) = 0
    BY <1>1, RanFacts
  <2>2. fates \in [1 .. Steps -> Fates]
    BY <1>1 DEF Fates
  <2>3. QED
    <3>1. at \in 1 .. Steps + 1 /\ runs \in 0 .. MaxRuns
      BY <1>1, PipelineTestAssumption
    <3>2. server \in Servers /\ loading \in BOOLEAN /\ settings \in BOOLEAN
      BY <1>1 DEF Servers
    <3>3. server \notin {"called", "starting", "between", "running"}
      BY <1>1
    <3>4. executed = Cardinality(Ran)
      BY <1>1, <2>1
    <3>5. QED
      BY <2>2, <3>1, <3>2, <3>3, <3>4 DEF GeneratorOK
<1>3. StreamOK
  <2>1. Parsed(<<>>).block = <<>> /\ Parsed(<<>>).events = <<>> /\ <<>> \o <<>> = <<>>
    BY ParsedFacts DEF NothingRead
  <2>2. Heard.block = <<>> /\ Pending = <<>>
    BY <1>1, <2>1 DEF Heard, Pending
  <2>3. \A k \in 1 .. Len(Pending) : FALSE
    BY <2>2
  <2>4. QED
    BY <1>1, <2>1, <2>2, <2>3 DEF StreamOK
<1>4. view \in Views
  BY <1>1, PipelineTestAssumption DEF Nothing, Views
<1>5. NoStepLeftRunning /\ FinishedTestsShowResults
  BY <1>1 DEF NoStepLeftRunning, FinishedTestsShowResults, Nothing
<1>6. QED
  BY <1>1, <1>2, <1>3, <1>4, <1>5 DEF PipelineInv, OverOK

(* What is sent and not read, told to the page, gives what the server has    *)
(* done so far: the invariant of a test, for any number of plugins.         *)
THEOREM PipelineInvHolds == PipelineSpec => []PipelineInv
<1>1. PipelineInit => PipelineInv
  BY PipelineStart
<1>2. PipelineInv /\ [PipelineNext]_pipelineVars => PipelineInv'
  BY PipelineStep
<1>3. QED
  BY <1>1, <1>2, PTL DEF PipelineSpec

(* The variables have their types.                                          *)
THEOREM PipelineTypeCorrect == PipelineSpec => []PipelineTypeOK
<1>1. PipelineInv => PipelineTypeOK
  BY RanFacts DEF PipelineInv, GeneratorOK, Views, PipelineTypeOK, Statuses
<1>2. QED
  BY <1>1, PipelineInvHolds, PTL

(* When the test is over, however it ended, no step is shown as running.    *)
THEOREM NoStepIsLeftRunning == PipelineSpec => []NoStepLeftRunning
<1>1. PipelineInv => NoStepLeftRunning
  BY DEF PipelineInv, OverOK, NoStepLeftRunning
<1>2. QED
  BY <1>1, PipelineInvHolds, PTL

(* A finished test shows what became of each plugin and how many ran,       *)
(* wherever the stream was cut.                                             *)
THEOREM FinishedTestsShowTheirResults == PipelineSpec => []FinishedTestsShowResults
<1>1. ASSUME PipelineInv
      PROVE  FinishedTestsShowResults
  <2>1. CASE loading
    <3> SUFFICES ASSUME view.done, ~ view.error
                 PROVE  /\ view.steps = [i \in 1 .. Steps |-> Result(i)]
                        /\ view.executed = Cardinality({i \in 1 .. Steps : Result(i) \in {"done", "error"}})
      BY DEF FinishedTestsShowResults
    <3>1. view = Told
      BY <1>1, <2>1, AllTold DEF PipelineInv, ToldOK
    <3>2. QED
      BY <1>1, <2>1, <3>1, ToldIsOver
  <2>2. CASE ~ loading
    BY <1>1, <2>2 DEF PipelineInv, OverOK
  <2>3. QED
    BY <2>1, <2>2
<1>2. QED
  BY <1>1, PipelineInvHolds, PTL
=============================================================================
