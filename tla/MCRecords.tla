------------------------------ MODULE MCRecords ------------------------------
(***************************************************************************)
(* Instances of ProjectRecords.  Paths are numbers in the order of the     *)
(* path names: artifacts, executions, events, the manifest, tasks, work    *)
(* packages; the blobs, which are no candidates, come last.                *)
(***************************************************************************)
EXTENDS ProjectRecords, TLC

Blank ==
    [type |-> "event", path |-> 0, project |-> "p", id |-> 0, at |-> 0, kind |-> "", wp |-> "", exec |-> "",
     ref |-> "", from |-> "", to |-> "", graph |-> 0, members |-> {}, deps |-> <<>>, blob |-> NoFile,
     content |-> ""]

Event(n, kind, fields) == fields @@ [path |-> 300 + n, id |-> n, at |-> n, kind |-> kind] @@ Blank
OfW(kind, n) == Event(n, kind, [wp |-> "w1"])
OfX(kind, n) == Event(n, kind, [wp |-> "w1", exec |-> "x"])
Change(n, from, to) == Event(n, "changed", [wp |-> "w1", from |-> from, to |-> to])
Other(type, path, fields) == fields @@ [type |-> type, path |-> path] @@ Blank

MCManifestPath == 400

MCCatalog ==
    [ m1 |-> Other("manifest", 400, <<>>),
      m2 |-> Other("manifest", 400, <<>>),
      r1 |-> Event(1, "registered", [ref |-> "m1"]),
      r2 |-> Event(2, "registered", [ref |-> "m2"]),
      d1 |-> Other("definition", 600, [wp |-> "w1"]),
      d2 |-> Other("definition", 601, [wp |-> "w2", deps |-> <<"w1">>]),
      t  |-> Other("task", 501, [graph |-> 500]),
      g  |-> Other("graph", 500, [members |-> {"d1", "d2"}]),
      c1 |-> Event(3, "created", [wp |-> "w1", ref |-> "d1"]),
      c2 |-> Event(4, "created", [wp |-> "w2", ref |-> "d2"]),
      ready    |-> Change(5, "planned", "ready"),
      begin    |-> Change(6, "ready", "in_progress"),
      cancel   |-> Change(7, "ready", "canceled"),
      again    |-> [Change(8, "in_progress", "failed") EXCEPT !.id = 6],
      x        |-> Other("execution", 200, [wp |-> "w1", exec |-> "x"]),
      start    |-> Event(9, "started", [wp |-> "w1", exec |-> "x", ref |-> "x"]),
      pause    |-> OfX("paused", 10),
      resume   |-> Event(11, "started", [wp |-> "w1", exec |-> "x", ref |-> "x"]),
      test     |-> OfX("tested", 12),
      complete |-> OfX("completed", 13),
      fail     |-> OfX("failed", 14),
      metrics  |-> OfX("telemetry", 15),
      h        |-> Other("handoff", 201, [wp |-> "w1", exec |-> "x"]),
      handoff  |-> Event(16, "handoff", [wp |-> "w1", exec |-> "x", ref |-> "h"]),
      review   |-> Change(17, "in_progress", "review"),
      approve  |-> Event(18, "reviewed", [wp |-> "w1", to |-> "approved"]),
      rework   |-> Change(19, "review", "in_progress"),
      accept   |-> OfW("accepted", 20),
      a1 |-> Other("artifact", 100, [wp |-> "w1", blob |-> "b1", content |-> "b1"]),
      a2 |-> Other("artifact", 100, [wp |-> "w1", blob |-> "b2", content |-> "b2"]),
      n1 |-> Other("artifact", 101, [wp |-> "w1", content |-> "b1"]),
      n2 |-> Other("artifact", 101, [wp |-> "w1", content |-> "b2"]),
      e1 |-> Event(21, "recorded", [wp |-> "w1", ref |-> "a1"]),
      e2 |-> Event(21, "recorded", [wp |-> "w1", ref |-> "a2"]),
      f1 |-> Event(22, "recorded", [wp |-> "w1", ref |-> "n1"]),
      f2 |-> Event(22, "recorded", [wp |-> "w1", ref |-> "n2"]),
      b1 |-> Other("blob", 900, <<>>),
      b2 |-> Other("blob", 901, <<>>) ]

-----------------------------------------------------------------------------

Tree(tokens) == [p \in {MCCatalog[c].path : c \in tokens} |-> CHOOSE c \in tokens : MCCatalog[c].path = p]

Quiet == [faults |-> 0, stops |-> 1, arrivals |-> {}, damage |-> 0, edits |-> {}]

Hook == [kind |-> "hook", projector |-> "hook", tries |-> 1]
Rebuild == [kind |-> "rebuild", projector |-> "rebuild", tries |-> 1]
Migrate(man) == [kind |-> "migrate", projector |-> "admin", tries |-> 1, manifest |-> man]
Operate(operation) ==
    [kind |-> "operate", projector |-> "history", tries |-> 1, op |-> operation.op,
     records |-> [content \in {"b1", "b2"} |-> operation.records]]
Register(first, second) ==
    [Operate(first) EXCEPT !.records = [content \in {"b1", "b2"} |->
                                            IF content = "b1" THEN first.records ELSE second.records]]

Setup(tokens, calls, limits) ==
    [files |-> Tree(tokens), registered |-> NoFile, source |-> "b1", calls |-> calls, budget |-> limits]

Planned == {"m1", "r1", "d1", "c1"}
Running == Planned \cup {"ready", "begin", "x", "start"}

\* Two administrators migrate one root; an edit voids a confirmation.
Migration == Setup({}, [A |-> Migrate("m1"), B |-> Migrate("m2")], [Quiet EXCEPT !.faults = 1, !.edits = {"b2"}])

\* A task of two work packages, and a transition of the first.
TaskCreation ==
    Setup({"m1", "r1"},
          [A |-> [Operate(CreateTask("t", <<"d1", "d2">>, "g", <<"c1", "c2">>)) EXCEPT !.tries = 2],
           B |-> Operate(TransitionWorkPackage("ready"))],
          [Quiet EXCEPT !.faults = 1])

PackageCreation ==
    Setup({"m1", "r1"},
          [A |-> [Operate(CreateWorkPackage("d1", "c1")) EXCEPT !.tries = 2],
           B |-> Operate(TransitionWorkPackage("ready"))],
          [Quiet EXCEPT !.faults = 1, !.stops = 2])

\* Two transitions from one state, and a key used again on another day.
Transitions ==
    Setup(Planned \cup {"ready"},
          [A |-> [Operate(TransitionWorkPackage("begin")) EXCEPT !.tries = 2],
           B |-> Operate(TransitionWorkPackage("cancel")),
           C |-> Operate(TransitionWorkPackage("again"))],
          [Quiet EXCEPT !.faults = 1])

\* The life of an execution.
Starting ==
    Setup(Planned \cup {"ready", "begin"},
          [A |-> Operate(StartExecution("x", "start")), B |-> Operate(RecordTest("test")),
           C |-> Operate(RecordTelemetry("metrics"))],
          Quiet)
Pausing ==
    Setup(Running,
          [A |-> Operate(PauseExecution("pause")), B |-> Operate(ResumeExecution("resume")),
           C |-> Operate(RecordTest("test"))],
          Quiet)
Ending ==
    Setup(Running,
          [A |-> Operate(CompleteExecution("complete")), B |-> Operate(FailExecution("fail")),
           C |-> Operate(CreateHandoff("h", "handoff"))],
          Quiet)
Reviewing ==
    Setup(Planned \cup {"ready", "begin", "review"},
          [A |-> Operate(RecordReview("approve")), B |-> Operate(TransitionWorkPackage("rework")),
           C |-> Operate(AcceptWork("accept"))],
          Quiet)

\* An artifact with its blob and a reference to one; an artifact without a
\* blob; the source is edited.
Artifacts ==
    Setup(Planned,
          [A |-> [Register(RegisterArtifact("a1", "e1"), RegisterArtifact("a2", "e2")) EXCEPT !.tries = 2],
           B |-> Operate(RegisterArtifactReference("n1", "f1"))],
          [Quiet EXCEPT !.edits = {"b2"}])
Unbacked ==
    Setup(Planned, [A |-> Register(RegisterArtifact("n1", "f1"), RegisterArtifact("n2", "f2"))],
          [Quiet EXCEPT !.edits = {"b2"}])

\* A peer's records arrive in any order.
TaskArrival ==
    Setup({"m1", "d1", "c1"}, [H |-> Hook], [Quiet EXCEPT !.faults = 1, !.arrivals = {"t", "g", "d2"}])
ArtifactArrival ==
    Setup({"m1", "d1", "e1"}, [H |-> Hook], [Quiet EXCEPT !.damage = 1, !.arrivals = {"a1", "b1"}])
Rebuilding ==
    [Setup({"m1", "d1"}, [R |-> [Rebuild EXCEPT !.tries = 2]], [Quiet EXCEPT !.arrivals = {"c1", "ready"}])
        EXCEPT !.registered = "m1"]

MCSetups ==
    {Migration, TaskCreation, PackageCreation, Transitions, Starting, Pausing, Ending, Reviewing, Artifacts,
     Unbacked, TaskArrival, ArtifactArrival, Rebuilding}

\* The scan hook beside an operation of the work-history service: each has a
\* projector, and so a gate, of its own.
RaceSetups ==
    {Setup(Planned, [A |-> Operate(TransitionWorkPackage("ready")), H |-> Hook], [Quiet EXCEPT !.stops = 0])}
=============================================================================
