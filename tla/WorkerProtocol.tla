--------------------------- MODULE WorkerProtocol ---------------------------
(***************************************************************************)
(* The inference worker as the daemon sees it through its pipes: the       *)
(* commands it reads, the events it writes, and how it answers each        *)
(* command while it is idle or serves a request                            *)
(* (crates/model-serving/src/engine_backed_worker).                        *)
(*                                                                         *)
(* A message is a record of its type and of what it is about: a request, a *)
(* model, or nothing.  Memory samples, cache statistics and load progress  *)
(* are left out: every reader of the pipe accepts them and none changes    *)
(* its course for them.                                                    *)
(***************************************************************************)
EXTENDS Naturals, Sequences

CONSTANTS
    Requests,
    Models,
    Kind,    \* "chat", "image" or "embeddings", for each request
    Faults,  \* the faults this instance of the environment may produce
    None

Kinds == {"chat", "image", "embeddings"}

\* "crash": the worker dies at any moment; "fatal": a command fails in a way
\* that ends the worker; "loadFails": a model cannot be loaded; "killFails":
\* the daemon cannot kill its worker; "launchFails": the worker executable
\* cannot be launched; "slowLoad": the model a demotion restores loads for
\* longer than the demotion waits.
AllFaults == {"crash", "fatal", "loadFails", "killFails", "launchFails", "slowLoad"}

ASSUME ProtocolAssumption ==
    /\ Kind \in [Requests -> Kinds]
    /\ Faults \subseteq AllFaults
    /\ None \notin Requests \cup Models
    /\ Requests \cap Models = {}

Message(type, of) == [type |-> type, of |-> of]

Commands ==
    [type : {"Generate", "Cancel"}, of : Requests]
        \cup [type : {"SwapModel"}, of : Models]
        \cup [type : {"UpdateLimit", "ClearCache"}, of : {None}]

\* Ended and Released stand for the two closing events of an image and of an
\* embeddings request, the outcome and the finalization that delivers it.
RequestEvents ==
    [type : {"Output", "Finalized", "Completed", "Failed", "Progress", "Ended", "Released"},
     of : Requests]

Events ==
    RequestEvents
        \cup [type : {"Swapped"}, of : Models]
        \cup [type : {"Config"}, of : Models \cup {None}]
        \cup [type : {"Idle", "SwapFailed", "ModelLost", "Cleared"}, of : {None}]
        \cup [type : {"LimitChanged", "LimitRejected", "RestartRequired"}, of : {None}]

\* What a started worker says before it reads its first command.
Greeting == <<Message("Idle", None), Message("Config", None)>>

Progress(r) == Message(IF Kind[r] = "chat" THEN "Output" ELSE "Progress", r)

\* The events that close a request that was started.
Ending(r) ==
    IF Kind[r] = "chat"
    THEN <<Message("Finalized", r), Message("Completed", r)>>
    ELSE <<Message("Ended", r), Message("Released", r)>>

\* The events that close a request that was not: it failed at once.
Failure(r) ==
    IF Kind[r] = "chat"
    THEN <<Message("Failed", r)>>
    ELSE <<Message("Ended", r), Message("Released", r)>>

\* One answer of the worker: the events it writes, the request it then
\* serves, the model it then holds, and whether it lives on.
Answer(emit, serves, holds, lives) ==
    [emit |-> emit, serves |-> serves, holds |-> holds, lives |-> lives]

Death == IF "fatal" \in Faults THEN {Answer(<<>>, None, None, FALSE)} ELSE {}

\* A token count is a chat request that completes at once; embeddings are
\* computed before the next command is read.
Starts(r, m) ==
    {Answer(Failure(r), None, m, TRUE)}
      \cup CASE Kind[r] = "embeddings" -> {Answer(Ending(r), None, m, TRUE)}
             [] Kind[r] = "image" -> {Answer(<<>>, r, m, TRUE)}
             [] Kind[r] = "chat" ->
                  {Answer(<<>>, r, m, TRUE),
                   Answer(<<Message("Completed", r)>>, None, m, TRUE)}

\* SwapFailed keeps the model that was loaded; ModelLost is the same event when
\* none is left.
Loads(x, m) ==
    {Answer(<<Message("Swapped", x), Message("Config", x)>>, None, x, TRUE)}
      \cup IF "loadFails" \notin Faults THEN {}
           ELSE {Answer(<<Message("ModelLost", None)>>, None, None, TRUE)}
                  \cup {Answer(<<Message("SwapFailed", None)>>, None, y, TRUE) : y \in {m} \ {None}}

\* serve_idle_command.
IdleAnswers(c, m) ==
    CASE c.type = "Generate" -> Starts(c.of, m)
      [] c.type = "Cancel" -> {Answer(<<>>, None, m, TRUE)}
      [] c.type = "SwapModel" -> Loads(c.of, m)
      [] c.type = "UpdateLimit" ->
           {Answer(<<Message(t, None)>>, None, m, TRUE) :
              t \in {"LimitChanged", "LimitRejected", "RestartRequired"}} \cup Death
      [] c.type = "ClearCache" ->
           {Answer(<<Message("Cleared", None)>>, None, m, TRUE)} \cup Death

\* serve_active_autoregressive_request and serve_active_image_request.
BusyAnswers(c, r, m) ==
    CASE c.type = "Generate" -> {Answer(Failure(c.of), r, m, TRUE)}
      [] c.type = "Cancel" /\ c.of = r -> {Answer(Ending(r), None, m, TRUE)}
      [] c.type = "UpdateLimit" -> {Answer(<<Message("LimitRejected", None)>>, r, m, TRUE)}
      [] OTHER -> {Answer(<<>>, r, m, TRUE)}

Answers(c, r, m) == IF r = None THEN IdleAnswers(c, m) ELSE BusyAnswers(c, r, m)

\* advance_generation and advance_image_generation once there is no command:
\* progress, an end, or a fatal error, which fails a chat before the worker
\* exits.
Advances(r, m) ==
    {Answer(<<Progress(r)>>, r, m, TRUE),
     Answer(Ending(r), None, m, TRUE),
     Answer(Failure(r), None, m, TRUE)}
      \cup IF Kind[r] = "chat" /\ "fatal" \in Faults
           THEN {Answer(Failure(r), None, None, FALSE)}
           ELSE Death
=============================================================================
