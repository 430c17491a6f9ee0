----------------------------- MODULE NodeExecution -----------------------------
(***************************************************************************)
(* One node at a time, from the inside: executeNode of the orchestrator    *)
(* (internal/core/orchestrator.go) up to the output that passed its        *)
(* contract, with the validator that all goroutines share and the sandbox; *)
(* and RunTest (internal/adi/handler.go), which runs a script without a    *)
(* node.  What FlowOrchestrator takes for one step of a goroutine, the     *)
(* script and its contracts, is spelled out here.                          *)
(*                                                                         *)
(* Of the other goroutines that execute nodes in the process, only what    *)
(* they share with these executions is modelled: their validations.        *)
(***************************************************************************)
EXTENDS ContractValidator, SandboxExecutor

CONSTANTS
    Executions,  \* executions of nodes, and test runs
    Others,      \* validations of other executions
    Versions,    \* versions of a node: its input and output contract
    Inputs       \* values that executions are given, and that others validate

ASSUME ExecutionsAssumption ==
    /\ Calls = Executions
    /\ Validations = (Executions \X {"input", "output"}) \union Others
    /\ (Executions \X {"input", "output"}) \intersect Others = {}
    /\ Versions \subseteq [input : Schemas \union {NoSchema},
                           output : Schemas \union {NoSchema}]
    /\ Values = Results \union {NoResult}
    /\ Inputs \subseteq Results

VARIABLE executions  \* executions under way, or ended

vars == <<validator, sandbox, executions>>

----------------------------------------------------------------------------
(* Types *)

ExecutionSet == [node    : Nodes,
                 version : Versions,
                 pc      : {"input", "sandbox", "output", "done", "dead"},
                 status  : {"RUNNING", "SUCCESS", "FAILED"}]
                \union [pc : {"test", "done", "dead"}]
NotStarted   == [pc |-> "none"]

Input(x)  == <<x, "input">>
Output(x) == <<x, "output">>

\* An execution that is neither done nor lost with its process.
Busy(x) == executions[x].pc \notin {"none", "done", "dead"}

----------------------------------------------------------------------------
Init ==
    /\ ValidatorInit
    /\ SandboxInit
    /\ executions = [x \in Executions |-> NotStarted]

\* The instance is RUNNING and its input is checked against the contract of the
\* version of the node that the flow was loaded with.
EnterNode(x, node, version, input) ==
    /\ executions[x] = NotStarted
    /\ executions' = [executions EXCEPT ![x] =
           [node |-> node, version |-> version, pc |-> "input", status |-> "RUNNING"]]
    /\ Validate(Input(x), <<node, "input">>, version.input, input)
    /\ UNCHANGED sandbox

\* The instance gets its last status.
Settle(x, status) ==
    executions' = [executions EXCEPT ![x].pc = "done", ![x].status = status]

\* An input that is refused fails the node; another goes to the script.
InputChecked(x) ==
    /\ executions[x].pc = "input"
    /\ \/ /\ validating[Input(x)].pc = "refused"
          /\ Settle(x, "FAILED")
          /\ UNCHANGED sandbox
       \/ /\ validating[Input(x)].pc = "accepted"
          /\ executions' = [executions EXCEPT ![x].pc = "sandbox"]
          /\ Execute(x)
    /\ UNCHANGED validator

\* The sandbox returns.  An error fails the node: CanRetry asks for an instance
\* that is FAILED, and this one is RUNNING.  A result, or the nil map of a script
\* that printed none, is checked against the output contract.
SandboxReturned(x) ==
    LET e == executions[x] IN
    /\ e.pc = "sandbox"
    /\ calls[x].pc = "done"
    /\ IF calls[x].answer = "ok"
       THEN /\ executions' = [executions EXCEPT ![x].pc = "output"]
            /\ Validate(Output(x), <<e.node, "output">>, e.version.output, calls[x].result)
       ELSE /\ Settle(x, "FAILED")
            /\ UNCHANGED validator
    /\ UNCHANGED sandbox

\* Mutant: an output that violates its contract puts the node back to PENDING.
OutputSetsPending(x) ==
    /\ executions[x].pc = "output"
    /\ \/ validating[Output(x)].pc = "accepted" /\ Settle(x, "SUCCESS")
       \/ validating[Output(x)].pc = "refused" /\ Settle(x, "PENDING")
    /\ UNCHANGED <<validator, sandbox>>

\* The verdict on the output decides how the node ends.
OutputChecked(x) ==
    /\ executions[x].pc = "output"
    /\ \/ validating[Output(x)].pc = "accepted" /\ Settle(x, "SUCCESS")
       \/ validating[Output(x)].pc = "refused" /\ Settle(x, "FAILED")
    /\ UNCHANGED <<validator, sandbox>>

\* RunTest: the sandbox alone, under the context of the request.
RunTest(x) ==
    /\ executions[x] = NotStarted
    /\ executions' = [executions EXCEPT ![x] = [pc |-> "test"]]
    /\ Execute(x)
    /\ UNCHANGED validator

TestReturned(x) ==
    /\ executions[x].pc = "test"
    /\ calls[x].pc = "done"
    /\ executions' = [executions EXCEPT ![x].pc = "done"]
    /\ UNCHANGED <<validator, sandbox>>

----------------------------------------------------------------------------
\* Another execution of a node, of any version, validates while one of these is
\* to come or under way.
OtherValidates(v) ==
    /\ \E x \in Executions : executions[x] = NotStarted \/ Busy(x)
    /\ \/ \E contract \in Contracts, version \in Versions, value \in Inputs :
             Validate(v, contract, version[contract[2]], value)
       \/ ValidatorStep(v)
    /\ UNCHANGED <<sandbox, executions>>

\* The process is killed, or the runtime ends it because two goroutines use a map
\* of the compiler and one of them writes it.
Crash ==
    /\ \E x \in Executions : Busy(x)
    /\ executions' = [x \in Executions |->
           IF Busy(x) THEN [executions[x] EXCEPT !.pc = "dead"] ELSE executions[x]]
    /\ ValidatorDies
    /\ SandboxDies

\* A step of an execution whose process is alive.
Step(x) ==
    /\ Busy(x)
    /\ \/ InputChecked(x) \/ SandboxReturned(x) \/ OutputChecked(x) \/ TestReturned(x)
       \/ (ValidatorStep(Input(x)) \/ ValidatorStep(Output(x)))
             /\ UNCHANGED <<sandbox, executions>>
       \/ CallStep(x) /\ UNCHANGED <<validator, executions>>

Next ==
    \/ \E x \in Executions :
          \/ \E node \in Nodes, version \in Versions, input \in Inputs :
                EnterNode(x, node, version, input)
          \/ RunTest(x) \/ Step(x)
          \/ Script(x) /\ UNCHANGED <<validator, executions>>
    \/ \E v \in Others : OtherValidates(v)
    \/ Crash

Spec == Init /\ [][Next]_vars

\* Goroutines go on, Docker answers or reports an error, and the timeout of the
\* sandbox passes.  Scripts need not end, and clients need not go away.
Fairness == \A x \in Executions : WF_vars(Step(x))

FairSpec == Spec /\ Fairness

----------------------------------------------------------------------------
(* What the execution of a node promises *)

\* Every variable holds values of its type.
TypeOK ==
    /\ ValidatorTypeOK
    /\ SandboxTypeOK
    /\ executions \in [Executions -> ExecutionSet \union {NotStarted}]

Ran(x) == "status" \in DOMAIN executions[x] /\ executions[x].status = "SUCCESS"

\* A node succeeds only if its script ended with status zero in a container of its
\* own; what goes on to the next node is the last result the script printed, or,
\* where its output was cut short, an earlier one or the nil map; and where no call
\* of the same contract raced with its check, it meets the output contract of the
\* very version of the node that ran.
SuccessIsEarned ==
    \A x \in Executions : Ran(x) =>
        LET passed == validating[Output(x)].value
            schema == executions[x].version.output
        IN
        /\ container[x] \in {"zero", "none"}
        /\ ResultOf(x, passed)
        /\ rivals[Output(x)] = {} => schema = NoSchema \/ <<schema, passed>> \in Meets
        /\ rivals[Input(x)] = {} =>
              \/ executions[x].version.input = NoSchema
              \/ <<executions[x].version.input, validating[Input(x)].value>> \in Meets

\* Every execution ends, whatever its script does, unless the process dies: a
\* script that never ends, or waits for room for its output, is stopped.
ExecutionsEnd == \A x \in Executions : Busy(x) ~> ~Busy(x)
=============================================================================
