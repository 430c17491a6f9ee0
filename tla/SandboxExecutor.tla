--------------------------- MODULE SandboxExecutor ---------------------------
(***************************************************************************)
(* The execution of a script in a container of its own                     *)
(* (internal/sandbox/executor.go, protocol.go).  Docker is external: each  *)
(* request to it is one step, which may fail at any time, because Docker   *)
(* fails or because the context of the call is done: the node's timeout    *)
(* has passed, the client has gone, a parallel branch has failed.  A       *)
(* failure leaves open whether the request was carried out.                *)
(*                                                                         *)
(* A script prints lines while it runs.  What it printed is read only      *)
(* after it has ended; until then it is buffered, and a script that has    *)
(* filled the buffer waits.  The text is cut at a limit and then read line *)
(* by line.                                                                *)
(*                                                                         *)
(* The module has no Init and Next of its own: NodeExecution extends it.   *)
(***************************************************************************)
EXTENDS Naturals, Sequences, FiniteSetsExt

CONSTANTS
    Calls,       \* calls of Execute
    Results,     \* contents of result lines
    NoResult,    \* the nil map: no result line was read
    Buffer,      \* lines that are held for a reader that does not read
    MaxOutput    \* lines up to the limit of the output (MaxOutputBytes)

ASSUME OutputAssumption ==
    /\ {Buffer, MaxOutput} \subseteq Nat
    /\ NoResult \notin Results

VARIABLES
    container,   \* the container of each call
    output,      \* what its script has printed
    calls,       \* calls of Execute
    \* history
    torn,        \* calls whose stream broke while it was read
    abandoned    \* calls that Docker left with a container: the answer to its
                 \* creation was lost, or its removal failed

sandbox == <<container, output, calls, torn, abandoned>>

----------------------------------------------------------------------------
(* Types *)

\* Lines are results, or too long for the scanner (64 KB).  Logs and errors are
\* kept apart from the result and left out.
Lines == [type : {"result"}, value : Results] \union [type : {"long"}]

Containers == {"none", "created", "running", "zero", "nonzero"}

CallPCs == {"create", "copy", "start", "wait", "read", "remove", "done", "dead"}
Answers == {"none", "ok", "error", "timeout", "failed"}
CallSet == [pc     : CallPCs,
            answer : Answers,
            result : Results \union {NoResult}]
NoCall  == [pc |-> "none", answer |-> "none", result |-> NoResult]

UnderWay(c) == calls[c].pc \notin {"none", "done", "dead"}

----------------------------------------------------------------------------
SandboxInit ==
    /\ container = [c \in Calls |-> "none"]
    /\ output = [c \in Calls |-> << >>]
    /\ calls = [c \in Calls |-> NoCall]
    /\ torn = {}
    /\ abandoned = {}

To(c, pc) == calls' = [calls EXCEPT ![c].pc = pc]
Leave(c, pc, answer) == calls' = [calls EXCEPT ![c].pc = pc, ![c].answer = answer]

\* Execute is called; a script that the security check turns down, or of an
\* unknown language, gets no container.
Execute(c) ==
    /\ calls[c] = NoCall
    /\ To(c, "create") \/ Leave(c, "done", "error")
    /\ UNCHANGED <<container, output, torn, abandoned>>

\* ContainerCreate.  On an error there is no id to remove a container by.
Create(c) ==
    /\ calls[c].pc = "create"
    /\ \/ /\ To(c, "copy")
          /\ container' = [container EXCEPT ![c] = "created"]
          /\ UNCHANGED abandoned
       \/ /\ Leave(c, "done", "error")
          /\ UNCHANGED <<container, abandoned>>
       \/ /\ Leave(c, "done", "error")
          /\ container' = [container EXCEPT ![c] = "created"]
          /\ abandoned' = abandoned \union {c}
    /\ UNCHANGED <<output, torn>>

\* Mutant: the removal is deferred only once the container is attached.
RemovedOnceAttached(c) ==
    /\ calls[c].pc = "copy"
    /\ To(c, "start") \/ Leave(c, "done", "error")
    /\ UNCHANGED <<container, output, torn, abandoned>>

\* CopyToContainer and ContainerAttach.
Prepare(c) ==
    /\ calls[c].pc = "copy"
    /\ To(c, "start") \/ Leave(c, "remove", "error")
    /\ UNCHANGED <<container, output, torn, abandoned>>

\* ContainerStart, and the input, whose errors are ignored.
StartContainer(c) ==
    /\ calls[c].pc = "start"
    /\ \/ /\ To(c, "wait")
          /\ container' = [container EXCEPT ![c] = "running"]
       \/ /\ Leave(c, "remove", "error")
          /\ container' \in {container, [container EXCEPT ![c] = "running"]}
    /\ UNCHANGED <<output, torn, abandoned>>

\* The script prints a line, if there is room for it.
EmitLine(c, line) ==
    /\ container[c] = "running"
    /\ Len(output[c]) < Buffer
    /\ output' = [output EXCEPT ![c] = Append(@, line)]
    /\ UNCHANGED <<container, calls, torn, abandoned>>

\* The script ends: sandbox_wrapper.py exits with one after an error line, but a
\* script may print and exit as it likes.
ScriptEnds(c, status) ==
    /\ container[c] = "running"
    /\ container' = [container EXCEPT ![c] = status]
    /\ UNCHANGED <<output, calls, torn, abandoned>>

\* The script has ended, and ContainerWait says so.
WaitReturns(c) ==
    /\ calls[c].pc = "wait"
    /\ container[c] \in {"zero", "nonzero"}
    /\ To(c, "read")
    /\ UNCHANGED <<container, output, torn, abandoned>>

\* Mutant: only a script that is idle runs out of time.
TimeoutIfSilent(c) ==
    /\ calls[c].pc = "wait"
    /\ output[c] = << >>
    /\ Leave(c, "remove", "timeout")
    /\ container' \in {container, [container EXCEPT ![c] =
                          IF @ = "running" THEN "nonzero" ELSE @]}
    /\ UNCHANGED <<output, torn, abandoned>>

\* The sandbox's own timeout, which runs from the wait on, or that of the node
\* has passed, or waiting fails: ContainerKill, whose error is ignored, and the
\* answer is a timeout, even if the script has just ended.
Timeout(c) ==
    /\ calls[c].pc = "wait"
    /\ Leave(c, "remove", "timeout")
    /\ container' \in {container, [container EXCEPT ![c] =
                          IF @ = "running" THEN "nonzero" ELSE @]}
    /\ UNCHANGED <<output, torn, abandoned>>

\* Mutant: the first result counts.
FirstResult(results) == Min(results)

\* Each result line replaces the one before; errors and logs are kept apart.
LastResult(results) == Max(results)

\* The lines the scanner gets to: it gives up at one that is too long.
Scanned(lines) ==
    LET long == {n \in DOMAIN lines : lines[n].type = "long"}
    IN  IF long = {} THEN lines ELSE SubSeq(lines, 1, Min(long) - 1)

ParseOutput(lines) ==
    LET read    == Scanned(lines)
        results == {n \in DOMAIN read : read[n].type = "result"}
    IN  IF results = {} THEN NoResult ELSE read[LastResult(results)].value

\* The limit on the output.
Cut(lines) == IF Len(lines) <= MaxOutput THEN lines ELSE SubSeq(lines, 1, MaxOutput)

\* The output is read, cut at the limit, where the line that is cut in two is no
\* JSON and hence a log, and parsed.  A stream that breaks gives what was read.
\* The exit status decides between a result and an error.
Read(c) ==
    /\ calls[c].pc = "read"
    /\ \E n \in 0 .. Len(output[c]) :
          /\ torn' = IF n = Len(output[c]) THEN torn ELSE torn \union {c}
          /\ calls' = [calls EXCEPT ![c] =
                [@ EXCEPT !.pc = "remove",
                          !.answer = IF container[c] = "zero" THEN "ok" ELSE "failed",
                          !.result = ParseOutput(Cut(SubSeq(output[c], 1, n)))]]
    /\ UNCHANGED <<container, output, abandoned>>

\* The deferred removal, under a context of its own; its error is ignored.
RemoveContainer(c) ==
    /\ calls[c].pc = "remove"
    /\ To(c, "done")
    /\ \/ /\ container' = [container EXCEPT ![c] = "none"]
          /\ UNCHANGED abandoned
       \/ /\ abandoned' = abandoned \union {c}
          /\ UNCHANGED container
    /\ UNCHANGED <<output, torn>>

\* The process dies; containers are Docker's and stay as they are.
SandboxDies ==
    /\ calls' = [c \in Calls |->
           IF UnderWay(c) THEN [calls[c] EXCEPT !.pc = "dead"] ELSE calls[c]]
    /\ UNCHANGED <<container, output, torn, abandoned>>

CallStep(c) ==
    \/ Create(c) \/ Prepare(c) \/ StartContainer(c)
    \/ WaitReturns(c) \/ Timeout(c) \/ Read(c) \/ RemoveContainer(c)

Script(c) ==
    \/ \E line \in Lines : EmitLine(c, line)
    \/ \E status \in {"zero", "nonzero"} : ScriptEnds(c, status)

----------------------------------------------------------------------------
(* What the sandbox promises *)

SandboxTypeOK ==
    /\ container \in [Calls -> Containers]
    /\ output \in [Calls -> Seq(Lines)]
    /\ calls \in [Calls -> CallSet \union {NoCall}]
    /\ torn \subseteq Calls
    /\ abandoned \subseteq Calls

\* Wherever a call fails, times out or is cancelled, no container outlives it
\* unless Docker lost the answer to its creation or failed to remove it, or the
\* process died.
NoContainerOutlivesItsCall ==
    \A c \in Calls : container[c] # "none" =>
        UnderWay(c) \/ c \in abandoned \/ calls[c].pc = "dead"

\* Lines of a script that count.
ResultLines(c) == {n \in 1 .. Len(output[c]) : output[c][n].type = "result"}

\* An output that nothing cuts short.
ReadWhole(c) ==
    /\ c \notin torn
    /\ Len(output[c]) <= MaxOutput
    /\ \A n \in 1 .. Len(output[c]) : output[c][n].type # "long"

\* A value is a result line of the script, whole; of an output that was not cut,
\* torn or too wide for the scanner it is the last one, and it is the nil map only
\* if there is none.
ResultOf(c, value) ==
    /\ value # NoResult => \E n \in ResultLines(c) : output[c][n].value = value
    /\ ReadWhole(c) =>
          \/ ResultLines(c) = {} /\ value = NoResult
          \/ \E n \in ResultLines(c) :
                /\ output[c][n].value = value
                /\ \A m \in ResultLines(c) : m <= n
=============================================================================
