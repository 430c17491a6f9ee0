-------------------------- MODULE ContractValidator --------------------------
(***************************************************************************)
(* The check of a node's input and output against its JSON schemas         *)
(* (internal/core/contracts.go).  One validator, with one compiler, serves *)
(* all goroutines of the process and takes no lock.                        *)
(*                                                                         *)
(* The compiler is a library (jsonschema): a map of the documents it was   *)
(* given, which refuses a second document of the same name, and a map of   *)
(* the schemas compiled from them, which answers from memory.  Its maps    *)
(* are plain Go maps: the runtime may end a process that writes one of     *)
(* them while another goroutine uses it.                                   *)
(*                                                                         *)
(* The module has no Init and Next of its own: NodeExecution extends it.   *)
(***************************************************************************)
EXTENDS Naturals

CONSTANTS
    Nodes,        \* nodes, of whatever flow
    Schemas,      \* JSON schemas
    NoSchema,     \* a contract that is missing, null or empty
    Uncompilable, \* schemas that are JSON, but no JSON schema
    Values,       \* data that flow between nodes
    Meets,        \* pairs of a schema and a value that meets it
    Validations   \* calls of ValidateInput and ValidateOutput

ASSUME SchemasAssumption ==
    /\ NoSchema \notin Schemas
    /\ Uncompilable \subseteq Schemas
    /\ Meets \subseteq Schemas \X Values

VARIABLES
    documents,  \* the document the compiler holds for each contract
    compiled,   \* the schema it has compiled for each contract
    validating, \* calls of validate
    \* history
    fresh,      \* calls that nothing of the same contract preceded in this
                \* process, nor overlapped
    rivals      \* schemas of calls for the same contract that overlapped a call

validator == <<documents, compiled, validating, fresh, rivals>>

----------------------------------------------------------------------------
(* Types *)

Contracts == Nodes \X {"input", "output"}
Contents  == Schemas \union {NoSchema}

ValidationSet == [contract : Contracts,
                  schema   : Contents,
                  value    : Values,
                  pc       : {"add", "store", "compile", "accepted", "refused", "dead"}]
NoValidation  == [pc |-> "none"]

Working(v)  == validating[v].pc \in {"add", "store", "compile"}
Contract(v) == validating[v].contract

----------------------------------------------------------------------------
NothingCompiled == [k \in Contracts |-> NoSchema]

ValidatorInit ==
    /\ documents = NothingCompiled
    /\ compiled = NothingCompiled
    /\ validating = [v \in Validations |-> NoValidation]
    /\ fresh = {}
    /\ rivals = [v \in Validations |-> {}]

\* The verdict of the compiled schema on the value of the call.
Verdict(schema, value) == IF <<schema, value>> \in Meets THEN "accepted" ELSE "refused"

\* validate is called; without a schema there is nothing to check.
Validate(v, contract, schema, value) ==
    LET others == {w \in Validations : Working(w) /\ Contract(w) = contract} IN
    /\ validating[v] = NoValidation
    /\ validating' = [validating EXCEPT ![v] =
           [contract |-> contract, schema |-> schema, value |-> value,
            pc |-> IF schema = NoSchema THEN "accepted" ELSE "add"]]
    /\ IF schema = NoSchema THEN UNCHANGED <<fresh, rivals>>
       ELSE /\ fresh' = IF others = {} /\ documents[contract] = NoSchema
                        THEN fresh \union {v} ELSE fresh \ others
            /\ rivals' = [w \in Validations |->
                   CASE w = v -> {validating[u].schema : u \in others}
                     [] w \in others -> rivals[w] \union {schema}
                     [] OTHER -> rivals[w]]
    /\ UNCHANGED <<documents, compiled>>

\* Mutant: the error of AddResource is ignored.
AddIgnoringError(v) ==
    /\ validating[v].pc = "add"
    /\ validating' = [validating EXCEPT ![v].pc =
           IF documents[Contract(v)] = NoSchema THEN "store" ELSE "compile"]
    /\ UNCHANGED <<documents, compiled, fresh, rivals>>

\* AddResource looks for a document of that name and refuses to replace it.
Add(v) ==
    /\ validating[v].pc = "add"
    /\ validating' = [validating EXCEPT ![v].pc =
           IF documents[Contract(v)] = NoSchema THEN "store" ELSE "refused"]
    /\ UNCHANGED <<documents, compiled, fresh, rivals>>

\* AddResource stores the document.
Store(v) ==
    /\ validating[v].pc = "store"
    /\ documents' = [documents EXCEPT ![Contract(v)] = validating[v].schema]
    /\ validating' = [validating EXCEPT ![v].pc = "compile"]
    /\ UNCHANGED <<compiled, fresh, rivals>>

\* Compile answers from memory or compiles the document, which may be that of
\* another call by now; then the value is checked.
Compile(v) ==
    LET k      == Contract(v)
        schema == IF compiled[k] # NoSchema THEN compiled[k] ELSE documents[k]
    IN
    /\ validating[v].pc = "compile"
    /\ IF schema \in Uncompilable
       THEN /\ validating' = [validating EXCEPT ![v].pc = "refused"]
            /\ UNCHANGED compiled
       ELSE /\ compiled' = [compiled EXCEPT ![k] = schema]
            /\ validating' = [validating EXCEPT ![v].pc = Verdict(schema, validating[v].value)]
    /\ UNCHANGED <<documents, fresh, rivals>>

\* The process dies: the compiler of the next one is empty.
ValidatorDies ==
    /\ documents' = NothingCompiled
    /\ compiled' = NothingCompiled
    /\ validating' = [v \in Validations |->
           IF Working(v) THEN [validating[v] EXCEPT !.pc = "dead"] ELSE validating[v]]
    /\ fresh' = {v \in fresh : ~Working(v)}
    /\ UNCHANGED rivals

ValidatorStep(v) == Add(v) \/ Store(v) \/ Compile(v)

----------------------------------------------------------------------------
(* What the validator promises *)

ValidatorTypeOK ==
    /\ documents \in [Contracts -> Contents]
    /\ compiled \in [Contracts -> Contents]
    /\ validating \in [Validations -> ValidationSet \union {NoValidation}]
    /\ fresh \subseteq Validations
    /\ rivals \in [Validations -> SUBSET Contents]

\* The verdict the schemas of the caller deserve.
Deserved(v) ==
    IF validating[v].schema \in Uncompilable THEN "refused"
    ELSE Verdict(validating[v].schema, validating[v].value)

\* However goroutines share the compiler and nodes are updated between runs, what
\* is accepted meets the schema it was to be checked against, or that of a call
\* that raced with its own; and a call that nothing of the same contract preceded
\* or raced with gets exactly the verdict it deserves.
VerdictsAreSound ==
    \A v \in Validations : validating[v].pc \in {"accepted", "refused"} =>
        /\ validating[v].pc = "accepted" =>
              \/ validating[v].schema = NoSchema
              \/ \E s \in {validating[v].schema} \union rivals[v] :
                    <<s, validating[v].value>> \in Meets
        /\ v \in fresh => validating[v].pc = Deserved(v)
=============================================================================
