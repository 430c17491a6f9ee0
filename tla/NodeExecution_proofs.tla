------------------------ MODULE NodeExecution_proofs ------------------------
(***************************************************************************)
(* Proofs about the execution of nodes: the verdicts of the validator are  *)
(* sound and containers do not outlive their calls, for any number of      *)
(* executions, nodes, versions and schemas.                                *)
(***************************************************************************)
EXTENDS NodeExecution, SequenceTheorems, FiniteSetTheorems, TLAPS

-----------------------------------------------------------------------------
(* Types *)

ExecutionsTyped == executions \in [Executions -> ExecutionSet \union {NotStarted}]

\* A call of validate keeps the types.
LEMMA ValidateTyped ==
    ASSUME ValidatorTypeOK, NEW v \in Validations, NEW k \in Contracts,
           NEW schema \in Contents, NEW value \in Values, Validate(v, k, schema, value)
    PROVE  ValidatorTypeOK'
<1> DEFINE r == [contract |-> k, schema |-> schema, value |-> value,
                 pc |-> IF schema = NoSchema THEN "accepted" ELSE "add"]
<1>1. r \in ValidationSet
  BY DEF ValidationSet
<1>2. validating' = [validating EXCEPT ![v] = r]
  BY DEF Validate
<1>3. validating' \in [Validations -> ValidationSet \union {NoValidation}]
  BY <1>1, <1>2 DEF ValidatorTypeOK
<1>4. documents' = documents /\ compiled' = compiled
  BY DEF Validate
<1>5. fresh' \subseteq Validations
  BY DEF Validate, ValidatorTypeOK
<1>6. rivals' \in [Validations -> SUBSET Contents]
  <2>1. CASE schema = NoSchema
    BY <2>1 DEF Validate, ValidatorTypeOK
  <2>2. CASE schema # NoSchema
    <3> DEFINE others == {w \in Validations : Working(w) /\ Contract(w) = k}
    <3>1. \A u \in others : validating[u].schema \in Contents
      BY DEF ValidatorTypeOK, Working, ValidationSet, NoValidation
    <3>2. rivals' = [w \in Validations |->
               CASE w = v -> {validating[u].schema : u \in others}
                 [] w \in others -> rivals[w] \union {schema}
                 [] OTHER -> rivals[w]]
      BY <2>2 DEF Validate
    <3> HIDE DEF others
    <3>3. \A w \in Validations :
             (CASE w = v -> {validating[u].schema : u \in others}
                [] w \in others -> rivals[w] \union {schema}
                [] OTHER -> rivals[w]) \in SUBSET Contents
      BY <3>1 DEF ValidatorTypeOK
    <3> QED BY <3>2, <3>3
  <2> QED BY <2>1, <2>2
<1> QED BY <1>3, <1>4, <1>5, <1>6 DEF ValidatorTypeOK

\* A change of where a call of validate is.
LEMMA VerdictTyped ==
    ASSUME ValidatorTypeOK, NEW v \in Validations, validating[v] # NoValidation,
           NEW pc \in {"add", "store", "compile", "accepted", "refused", "dead"}
    PROVE  [validating EXCEPT ![v].pc = pc] \in
               [Validations -> ValidationSet \union {NoValidation}]
<1>1. validating[v] \in ValidationSet
  BY DEF ValidatorTypeOK
<1>2. [validating[v] EXCEPT !.pc = pc] \in ValidationSet
  BY <1>1 DEF ValidationSet
<1> QED BY <1>2 DEF ValidatorTypeOK

LEMMA StepsTyped ==
    ASSUME ValidatorTypeOK, NEW v \in Validations, ValidatorStep(v)
    PROVE  ValidatorTypeOK'
<1>1. validating[v] # NoValidation
  BY DEF ValidatorStep, Add, Store, Compile, NoValidation
<1>2. validating[v] \in ValidationSet /\ Contract(v) \in Contracts
  BY <1>1 DEF ValidatorTypeOK, ValidationSet, Contract
<1>3. CASE Add(v)
  BY <1>1, <1>3, VerdictTyped DEF Add, ValidatorTypeOK
<1>4. CASE Store(v)
  <2>1. validating[v].schema \in Contents
    BY <1>2 DEF ValidationSet
  <2> QED BY <1>1, <1>2, <1>4, <2>1, VerdictTyped DEF Store, ValidatorTypeOK
<1>5. CASE Compile(v)
  <2> DEFINE s == IF compiled[Contract(v)] # NoSchema THEN compiled[Contract(v)]
                                                      ELSE documents[Contract(v)]
  <2>1. s \in Contents
    BY <1>2 DEF ValidatorTypeOK
  <2>2. Verdict(s, validating[v].value) \in {"accepted", "refused"}
    BY DEF Verdict
  <2>3. /\ \/ validating' = [validating EXCEPT ![v].pc = "refused"]
           \/ validating' = [validating EXCEPT ![v].pc = Verdict(s, validating[v].value)]
        /\ compiled' = compiled \/ compiled' = [compiled EXCEPT ![Contract(v)] = s]
        /\ UNCHANGED <<documents, fresh, rivals>>
    BY <1>5 DEF Compile
  <2> HIDE DEF s
  <2>4. PICK pc \in {"accepted", "refused"} : validating' = [validating EXCEPT ![v].pc = pc]
    BY <2>2, <2>3
  <2>5. validating' \in [Validations -> ValidationSet \union {NoValidation}]
    <3>1. pc \in {"add", "store", "compile", "accepted", "refused", "dead"}
      BY <2>4
    <3>2. [validating EXCEPT ![v].pc = pc] \in
              [Validations -> ValidationSet \union {NoValidation}]
      BY <1>1, <3>1, VerdictTyped
    <3> QED BY <2>4, <3>2
  <2>6. compiled' \in [Contracts -> Contents]
    BY <1>2, <2>1, <2>3 DEF ValidatorTypeOK
  <2> QED BY <2>3, <2>5, <2>6 DEF ValidatorTypeOK
<1> QED BY <1>3, <1>4, <1>5 DEF ValidatorStep

LEMMA DeathTyped ==
    ASSUME ValidatorTypeOK, ValidatorDies
    PROVE  ValidatorTypeOK'
<1>1. NothingCompiled \in [Contracts -> Contents]
  BY DEF NothingCompiled, Contents
<1>2. \A v \in Validations : Working(v) =>
         [validating[v] EXCEPT !.pc = "dead"] \in ValidationSet
  BY DEF ValidatorTypeOK, Working, ValidationSet, NoValidation
<1>3. validating' \in [Validations -> ValidationSet \union {NoValidation}]
  BY <1>2 DEF ValidatorDies, ValidatorTypeOK
<1> QED BY <1>1, <1>3 DEF ValidatorDies, ValidatorTypeOK

\* A change of where a call of Execute is.
LEMMA ToTyped ==
    ASSUME SandboxTypeOK, NEW c \in Calls, NEW pc \in CallPCs, To(c, pc)
    PROVE  /\ calls' \in [Calls -> CallSet \union {NoCall}]
           /\ calls'[c].pc = pc
           /\ calls'[c].answer = calls[c].answer /\ calls'[c].result = calls[c].result
           /\ \A d \in Calls \ {c} : calls'[d] = calls[d]
<1>1. calls[c] \in CallSet \union {NoCall}
  BY DEF SandboxTypeOK
<1>2. [calls[c] EXCEPT !.pc = pc] \in CallSet
  BY <1>1, ExecutionsAssumption DEF CallSet, NoCall, Answers
<1>3. /\ [calls[c] EXCEPT !.pc = pc].pc = pc
      /\ [calls[c] EXCEPT !.pc = pc].answer = calls[c].answer
      /\ [calls[c] EXCEPT !.pc = pc].result = calls[c].result
  BY <1>1 DEF CallSet, NoCall
<1> QED BY <1>2, <1>3 DEF SandboxTypeOK, To

LEMMA LeaveTyped ==
    ASSUME SandboxTypeOK, NEW c \in Calls, NEW pc \in CallPCs, NEW answer \in Answers,
           Leave(c, pc, answer)
    PROVE  /\ calls' \in [Calls -> CallSet \union {NoCall}]
           /\ calls'[c].pc = pc
           /\ calls'[c].answer = answer
           /\ \A d \in Calls \ {c} : calls'[d] = calls[d]
<1> DEFINE x == [[calls[c] EXCEPT !.pc = pc] EXCEPT !.answer = answer]
<1>1. calls[c] \in CallSet \union {NoCall}
  BY DEF SandboxTypeOK
<1>4. calls[c] \in [pc : CallPCs \union {"none"}, answer : Answers,
                    result : Results \union {NoResult}]
  BY <1>1 DEF CallSet, NoCall, Answers
<1>2. x \in CallSet /\ x.pc = pc /\ x.answer = answer
  BY <1>4 DEF CallSet
<1>3. calls' = [calls EXCEPT ![c] = x]
  BY DEF Leave, SandboxTypeOK
<1> HIDE DEF x
<1> QED BY <1>2, <1>3 DEF SandboxTypeOK

\* A container outlives its call only with a reason, and there is none before it
\* is created.
Reasons(c) == container[c] # "none" =>
    \/ UnderWay(c) /\ calls[c].pc # "create"
    \/ c \in abandoned
    \/ calls[c].pc = "dead"

\* The output is read after the script has ended, and a call whose script ended with
\* status zero keeps the result it read.
Ended(c) ==
    /\ calls[c].pc = "read" => container[c] \in {"zero", "nonzero"}
    /\ calls[c].answer = "ok" =>
          /\ calls[c].pc \in {"remove", "done", "dead"}
          /\ container[c] \in {"zero", "none"}
          /\ ResultOf(c, calls[c].result)

SandboxInv == SandboxTypeOK /\ \A c \in Calls : Reasons(c) /\ Ended(c)

\* What is a result of a call depends on its output only.
LEMMA ResultStays ==
    ASSUME NEW c \in Calls, output'[c] = output[c], c \in torn' <=> c \in torn
    PROVE  \A value : ResultOf(c, value) => ResultOf(c, value)'
<1>1. ResultLines(c)' = ResultLines(c) /\ (ReadWhole(c)' <=> ReadWhole(c))
  BY DEF ResultLines, ReadWhole
<1> QED BY <1>1 DEF ResultOf

\* A step of one call that leaves the others alone need only look after its own.
LEMMA OneCall ==
    ASSUME SandboxInv, NEW c \in Calls,
           calls' \in [Calls -> CallSet \union {NoCall}],
           container' \in [Calls -> Containers],
           output' \in [Calls -> Seq(Lines)],
           torn' \subseteq Calls, abandoned' \subseteq Calls,
           \A d \in Calls \ {c} :
               /\ calls'[d] = calls[d] /\ container'[d] = container[d]
               /\ output'[d] = output[d] /\ (d \in torn' <=> d \in torn),
           abandoned \subseteq abandoned',
           Reasons(c)', Ended(c)'
    PROVE  SandboxInv'
<1>1. SandboxTypeOK'
  BY DEF SandboxTypeOK
<1>2. ASSUME NEW d \in Calls, d # c PROVE Reasons(d)' /\ Ended(d)'
  <2>1. Reasons(d) /\ Ended(d)
    BY DEF SandboxInv
  <2>2. Reasons(d)'
    BY <1>2, <2>1 DEF Reasons, UnderWay
  <2>3. \A value : ResultOf(d, value) => ResultOf(d, value)'
    BY <1>2, ResultStays
  <2>4. calls'[d] = calls[d] /\ container'[d] = container[d]
    BY <1>2
  <2> QED BY <2>1, <2>2, <2>3, <2>4 DEF Ended
<1> QED BY <1>1, <1>2 DEF SandboxInv

LEMMA ExecuteInv ==
    ASSUME SandboxInv, NEW c \in Calls, Execute(c)
    PROVE  SandboxInv'
<1>1. SandboxTypeOK
  BY DEF SandboxInv
<1>2. UNCHANGED <<container, output, torn, abandoned>>
  BY DEF Execute
<1>3. (container[c] # "none" => c \in abandoned) /\ calls[c].answer # "ok"
  BY DEF Execute, SandboxInv, Reasons, UnderWay, NoCall
<1>4. CASE To(c, "create")
  <2>1. /\ calls' \in [Calls -> CallSet \union {NoCall}]
        /\ calls'[c].pc = "create" /\ calls'[c].answer = calls[c].answer
        /\ \A d \in Calls \ {c} : calls'[d] = calls[d]
    BY <1>1, <1>4, ToTyped DEF CallPCs
  <2>2. Reasons(c)' /\ Ended(c)'
    BY <1>2, <1>3, <2>1 DEF Reasons, Ended
  <2> QED BY <1>1, <1>2, <2>1, <2>2, OneCall DEF SandboxTypeOK
<1>5. CASE Leave(c, "done", "error")
  <2>1. /\ calls' \in [Calls -> CallSet \union {NoCall}]
        /\ calls'[c].pc = "done" /\ calls'[c].answer = "error"
        /\ \A d \in Calls \ {c} : calls'[d] = calls[d]
    BY <1>1, <1>5, LeaveTyped DEF CallPCs, Answers
  <2>2. Reasons(c)' /\ Ended(c)'
    BY <1>2, <1>3, <2>1 DEF Reasons, Ended
  <2> QED BY <1>1, <1>2, <2>1, <2>2, OneCall DEF SandboxTypeOK
<1> QED BY <1>4, <1>5 DEF Execute

\* A set of naturals with an element has a least one.
LEMMA LeastElement ==
  ASSUME NEW S \in SUBSET Nat, S # {}
  PROVE  \E i \in S : \A j \in S : i <= j
<1>1. PICK top \in S : TRUE
  OBVIOUS
<1> DEFINE upTo(i) == 0 .. i
           T       == {upTo(i) : i \in {j \in S : j <= top}}
<1>2. IsWellFoundedOn(StrictSubsetOrdering(upTo(top)), SUBSET upTo(top))
  <2>1. IsFiniteSet(upTo(top))
    BY FS_Interval
  <2> HIDE DEF upTo
  <2> QED
    BY <2>1, FS_FiniteSubsetsOfFinite, FS_StrictSubsetOrderingWellFounded
<1>3. T \subseteq SUBSET upTo(top) /\ T # {}
  BY <1>1
<1> HIDE DEF T
<1>4. PICK x \in T : \A y \in T : ~(<<y, x>> \in StrictSubsetOrdering(upTo(top)))
  <2> HIDE DEF upTo
  <2> QED
    BY <1>2, <1>3, WFMin, Zenon
<1>5. PICK i \in S : i <= top /\ x = upTo(i)
  BY <1>4 DEF T
<1>6. ASSUME NEW j \in S, j < i PROVE FALSE
  <2>1. upTo(j) \in T /\ upTo(j) \subseteq upTo(i) /\ i \in upTo(i) /\ i \notin upTo(j)
    BY <1>5, <1>6 DEF T
  <2>2. <<upTo(j), x>> \in StrictSubsetOrdering(upTo(top))
    BY <1>3, <1>4, <1>5, <2>1 DEF StrictSubsetOrdering
  <2> QED
    BY <1>4, <2>1, <2>2
<1> QED
  BY <1>5, <1>6

\* A set of numbers up to a bound with an element has a greatest one.
LEMMA GreatestElement ==
    ASSUME NEW k \in Nat, NEW S \in SUBSET (1 .. k), S # {}
    PROVE  Max(S) \in S /\ \A i \in S : i <= Max(S)
<1> DEFINE T == {k - i : i \in S}
<1>1. T \in SUBSET Nat /\ T # {}
  <2>1. \A i \in S : k - i \in Nat
    OBVIOUS
  <2> QED BY <2>1
<1>2. PICK t \in T : \A u \in T : t <= u
  BY <1>1, LeastElement
<1>3. PICK i \in S : t = k - i
  BY <1>2
<1>4. \A j \in S : j <= i
  BY <1>2, <1>3
<1> QED BY <1>4 DEF Max

\* The value of an output is that of a result line; where nothing was cut, it is
\* the last one's.
LEMMA ParsedValue ==
    ASSUME NEW lines \in Seq(Lines)
    PROVE  LET results == {m \in 1 .. Len(lines) : lines[m].type = "result"}
               value   == ParseOutput(lines) IN
           /\ value # NoResult => \E m \in results : lines[m].value = value
           /\ (\A m \in 1 .. Len(lines) : lines[m].type # "long") =>
                 \/ results = {} /\ value = NoResult
                 \/ \E m \in results : lines[m].value = value /\ \A l \in results : l <= m
<1> DEFINE long    == {n \in DOMAIN lines : lines[n].type = "long"}
           read    == Scanned(lines)
           inRead  == {n \in DOMAIN read : read[n].type = "result"}
           results == {m \in 1 .. Len(lines) : lines[m].type = "result"}
           value   == ParseOutput(lines)
<1>1. /\ read \in Seq(Lines) /\ Len(read) <= Len(lines)
      /\ \A n \in 1 .. Len(read) : read[n] = lines[n]
      /\ long = {} => read = lines
  <2>1. CASE long = {}
    BY <2>1 DEF Scanned
  <2>2. CASE long # {}
    <3>1. Min(long) \in 1 .. Len(lines)
      <4>1. long \in SUBSET Nat
        OBVIOUS
      <4>2. \E i \in long : \A j \in long : i <= j
        BY <2>2, <4>1, LeastElement
      <4>3. Min(long) \in long
        BY <4>2 DEF Min
      <4> QED BY <4>3
    <3>2. read = SubSeq(lines, 1, Min(long) - 1)
      BY <2>2 DEF Scanned
    <3> DEFINE k == Min(long) - 1
    <3>3. k \in 0 .. Len(lines) /\ read = SubSeq(lines, 1, k)
      BY <3>1, <3>2
    <3> HIDE DEF k, read
    <3> QED BY <2>2, <3>3
  <2> QED BY <2>1, <2>2
<1>2. value = IF inRead = {} THEN NoResult ELSE read[Max(inRead)].value
  BY DEF ParseOutput, LastResult
<1> HIDE DEF read, value
<1>3. inRead \subseteq results /\ inRead \subseteq 1 .. Len(read) /\ Len(read) \in Nat
  BY <1>1
<1>4. inRead # {} => Max(inRead) \in inRead /\ \A i \in inRead : i <= Max(inRead)
  BY <1>3, GreatestElement
<1>5. inRead # {} => lines[Max(inRead)].value = value /\ Max(inRead) \in results
  BY <1>1, <1>2, <1>3, <1>4
<1>6. value # NoResult => \E m \in results : lines[m].value = value
  BY <1>2, <1>5
<1>7. ASSUME \A m \in 1 .. Len(lines) : lines[m].type # "long"
      PROVE  \/ results = {} /\ value = NoResult
             \/ \E m \in results : lines[m].value = value /\ \A l \in results : l <= m
  <2>1. read = lines
    BY <1>1, <1>7
  <2>2. inRead = results
    BY <2>1
  <2> QED BY <1>2, <1>4, <1>5, <2>2
<1> QED BY <1>6, <1>7 DEF value

\* What Read takes from an output is a result of its script.
LEMMA ReadValue ==
    ASSUME NEW c \in Calls, output[c] \in Seq(Lines), NEW n \in 0 .. Len(output[c]),
           UNCHANGED output, n # Len(output[c]) => c \in torn'
    PROVE  \E value \in Values :
               /\ value = ParseOutput(Cut(SubSeq(output[c], 1, n)))
               /\ ResultOf(c, value)'
<1>1. PICK whole \in Seq(Lines) : whole = output[c]
  OBVIOUS
<1>0. n \in 0 .. Len(whole) /\ MaxOutput \in Nat
  BY <1>1, OutputAssumption
<1> DEFINE part  == SubSeq(whole, 1, n)
           lines == Cut(part)
           k     == Len(lines)
<1>2. /\ part \in Seq(Lines) /\ Len(part) = n
      /\ \A m \in 1 .. n : part[m] = whole[m]
      /\ n = Len(whole) => part = whole
  BY <1>0
<1> HIDE DEF part
<1>3. /\ lines \in Seq(Lines) /\ k <= n
      /\ \A m \in 1 .. k : lines[m] = part[m]
      /\ n <= MaxOutput => lines = part
  <2>1. CASE n <= MaxOutput
    BY <1>0, <1>2, <2>1 DEF Cut
  <2>2. CASE n > MaxOutput
    BY <1>0, <1>2, <2>2 DEF Cut
  <2> QED BY <1>0, <2>1, <2>2
<1> HIDE DEF lines
<1>11. PICK value : value = ParseOutput(lines)
  OBVIOUS
<1> DEFINE results == {m \in 1 .. k : lines[m].type = "result"}
<1>4. /\ value # NoResult => \E m \in results : lines[m].value = value
      /\ (\A m \in 1 .. k : lines[m].type # "long") =>
            \/ results = {} /\ value = NoResult
            \/ \E m \in results : lines[m].value = value /\ \A l \in results : l <= m
  BY <1>3, <1>11, ParsedValue
<1>5. k \in Nat /\ \A m \in 1 .. k : m \in 1 .. Len(whole) /\ lines[m] = whole[m]
  BY <1>0, <1>2, <1>3
<1>6. ResultLines(c)' = {m \in 1 .. Len(whole) : whole[m].type = "result"}
  BY <1>1 DEF ResultLines
<1>7. value # NoResult => \E m \in ResultLines(c)' : whole[m].value = value
  BY <1>4, <1>5, <1>6
<1>8. ASSUME ReadWhole(c)'
      PROVE  \/ ResultLines(c)' = {} /\ value = NoResult
             \/ \E m \in ResultLines(c)' :
                   whole[m].value = value /\ \A l \in ResultLines(c)' : l <= m
  <2>1. n = Len(whole) /\ Len(whole) <= MaxOutput
    BY <1>1, <1>8 DEF ReadWhole
  <2>2. lines = whole
    BY <1>2, <1>3, <2>1
  <2>3. \A m \in 1 .. k : lines[m].type # "long"
    BY <1>1, <1>8, <2>2 DEF ReadWhole
  <2>4. results = ResultLines(c)'
    BY <1>6, <2>2
  <2> QED BY <1>4, <2>2, <2>3, <2>4
<1>9. value \in Values
  <2>1. ASSUME value # NoResult PROVE value \in Results
    <3>1. PICK m \in results : lines[m].value = value
      BY <1>4, <2>1
    <3>2. lines[m] \in Lines /\ lines[m].type = "result"
      BY <1>3, <3>1, ElementOfSeq
    <3> QED BY <3>1, <3>2 DEF Lines
  <2> QED BY <2>1, ExecutionsAssumption
<1>10. ResultOf(c, value)'
  BY <1>1, <1>7, <1>8 DEF ResultOf
<1> QED BY <1>1, <1>9, <1>10, <1>11 DEF lines, part

LEMMA CallStepInv ==
    ASSUME SandboxInv, NEW c \in Calls, CallStep(c)
    PROVE  SandboxInv'
<1>1. SandboxTypeOK /\ Reasons(c) /\ Ended(c)
  BY DEF SandboxInv
<1>2. ASSUME NEW pc \in CallPCs \ {"create", "done", "dead"},
             NEW answer \in Answers \ {"ok"},
             calls[c].pc \in {"create", "copy", "start", "wait"},
             To(c, pc) \/ Leave(c, pc, answer),
             container' \in [Calls -> Containers],
             \A d \in Calls \ {c} : container'[d] = container[d],
             pc = "read" => container'[c] \in {"zero", "nonzero"},
             UNCHANGED <<output, torn, abandoned>>
      PROVE  SandboxInv'
  <2>1. /\ calls' \in [Calls -> CallSet \union {NoCall}]
        /\ calls'[c].pc = pc
        /\ calls'[c].answer \in {calls[c].answer, answer}
        /\ \A d \in Calls \ {c} : calls'[d] = calls[d]
    BY <1>1, <1>2, ToTyped, LeaveTyped
  <2>2. Reasons(c)'
    BY <2>1 DEF Reasons, UnderWay, CallPCs
  <2>3. Ended(c)'
    BY <1>1, <1>2, <2>1 DEF Ended
  <2> QED BY <1>1, <1>2, <2>1, <2>2, <2>3, OneCall DEF SandboxTypeOK
<1>3. CASE Create(c)
  <2>1. CASE To(c, "copy") /\ container' = [container EXCEPT ![c] = "created"] /\ UNCHANGED abandoned
    <3>1. UNCHANGED <<output, torn>> /\ calls[c].pc = "create"
      BY <1>3 DEF Create
    <3>2. "copy" \in CallPCs \ {"create", "done", "dead"} /\ "none" \in Answers /\ "created" \in Containers
      BY DEF CallPCs, Answers, Containers
    <3>3. /\ container' \in [Calls -> Containers]
          /\ \A d \in Calls \ {c} : container'[d] = container[d]
      BY <1>1, <2>1, <3>2 DEF SandboxTypeOK
    <3> QED BY <1>2, <2>1, <3>1, <3>2, <3>3
  <2>2. CASE Leave(c, "done", "error")
    <3>1. /\ calls' \in [Calls -> CallSet \union {NoCall}]
          /\ calls'[c].pc = "done" /\ calls'[c].answer = "error"
          /\ \A d \in Calls \ {c} : calls'[d] = calls[d]
      BY <1>1, <2>2, LeaveTyped DEF CallPCs, Answers
    <3>2. container[c] = "none" \/ c \in abandoned
      BY <1>1, <1>3 DEF Reasons, UnderWay, Create
    <3>3. Ended(c)'
      BY <3>1 DEF Ended
    <3>4. CASE UNCHANGED <<container, abandoned>>
      <4>1. Reasons(c)'
        BY <3>2, <3>4 DEF Reasons
      <4> QED BY <1>1, <1>3, <3>1, <3>3, <3>4, <4>1, OneCall DEF SandboxTypeOK, Create
    <3>5. CASE /\ container' = [container EXCEPT ![c] = "created"]
               /\ abandoned' = abandoned \union {c}
      <4>1. Reasons(c)'
        BY <3>5 DEF Reasons
      <4>2. /\ container' \in [Calls -> Containers]
            /\ \A d \in Calls \ {c} : container'[d] = container[d]
        BY <1>1, <3>5 DEF SandboxTypeOK, Containers
      <4> QED BY <1>1, <1>3, <3>1, <3>3, <3>5, <4>1, <4>2, OneCall DEF SandboxTypeOK, Create
    <3>6. ~To(c, "copy")
      <4>1. SUFFICES ASSUME To(c, "copy") PROVE FALSE
        OBVIOUS
      <4>2. calls'[c].pc = "copy"
        BY <1>1, <4>1, ToTyped DEF CallPCs
      <4> QED BY <3>1, <4>2
    <3> QED BY <1>3, <3>4, <3>5, <3>6 DEF Create
  <2> QED BY <1>3, <2>1, <2>2 DEF Create
<1>4. CASE Prepare(c)
  <2>1. UNCHANGED <<container, output, torn, abandoned>> /\ calls[c].pc = "copy"
    BY <1>4 DEF Prepare
  <2>2. /\ container' \in [Calls -> Containers]
        /\ \A d \in Calls \ {c} : container'[d] = container[d]
    BY <1>1, <2>1 DEF SandboxTypeOK
  <2>3. CASE To(c, "start")
    <3>1. "start" \in CallPCs \ {"create", "done", "dead"} /\ "none" \in Answers
      BY DEF CallPCs, Answers
    <3> QED BY <1>2, <2>1, <2>2, <2>3, <3>1
  <2>4. CASE Leave(c, "remove", "error")
    <3>1. "remove" \in CallPCs \ {"create", "done", "dead"} /\ "error" \in Answers
      BY DEF CallPCs, Answers
    <3> QED BY <1>2, <2>1, <2>2, <2>4, <3>1
  <2> QED BY <1>4, <2>3, <2>4 DEF Prepare
<1>5. CASE StartContainer(c)
  <2>1. /\ To(c, "wait") \/ Leave(c, "remove", "error")
        /\ UNCHANGED <<output, torn, abandoned>> /\ calls[c].pc = "start"
        /\ container' \in {container, [container EXCEPT ![c] = "running"]}
    BY <1>5 DEF StartContainer
  <2>2. /\ container' \in [Calls -> Containers]
        /\ \A d \in Calls \ {c} : container'[d] = container[d]
    BY <1>1, <2>1 DEF SandboxTypeOK, Containers
  <2> QED BY <1>1, <1>2, <2>1, <2>2 DEF CallPCs, Answers
<1>6. CASE WaitReturns(c)
  <2>1. /\ To(c, "read") /\ UNCHANGED <<container, output, torn, abandoned>>
        /\ calls[c].pc = "wait" /\ container[c] \in {"zero", "nonzero"}
    BY <1>6 DEF WaitReturns
  <2>2. "read" \in CallPCs \ {"create", "done", "dead"} /\ "none" \in Answers \ {"ok"}
    BY DEF CallPCs, Answers
  <2>3. To(c, "read") \/ Leave(c, "read", "none")
    BY <2>1
  <2> QED BY <1>1, <1>2, <2>1, <2>2, <2>3 DEF SandboxTypeOK
<1>7. CASE Timeout(c)
  <2>1. /\ Leave(c, "remove", "timeout")
        /\ UNCHANGED <<output, torn, abandoned>> /\ calls[c].pc = "wait"
        /\ \/ container' = container
           \/ container' = [container EXCEPT ![c] = IF @ = "running" THEN "nonzero" ELSE @]
    BY <1>7 DEF Timeout
  <2>2. /\ container' \in [Calls -> Containers]
        /\ \A d \in Calls \ {c} : container'[d] = container[d]
    BY <1>1, <2>1 DEF SandboxTypeOK, Containers
  <2> QED BY <1>1, <1>2, <2>1, <2>2 DEF CallPCs, Answers
<1>8. CASE Read(c)
  <2>1. PICK n \in 0 .. Len(output[c]) :
            /\ torn' = IF n = Len(output[c]) THEN torn ELSE torn \union {c}
            /\ calls' = [calls EXCEPT ![c] =
                [@ EXCEPT !.pc = "remove",
                          !.answer = IF container[c] = "zero" THEN "ok" ELSE "failed",
                          !.result = ParseOutput(Cut(SubSeq(output[c], 1, n)))]]
    BY <1>8 DEF Read
  <2>2. UNCHANGED <<container, output, abandoned>> /\ calls[c].pc = "read"
    BY <1>8 DEF Read
  <2>3. PICK value \in Values :
            /\ value = ParseOutput(Cut(SubSeq(output[c], 1, n)))
            /\ ResultOf(c, value)'
    BY <1>1, <2>1, <2>2, ReadValue DEF SandboxTypeOK
  <2> DEFINE answer == IF container[c] = "zero" THEN "ok" ELSE "failed"
             x      == [calls[c] EXCEPT !.pc = "remove", !.answer = answer, !.result = value]
  <2>4. calls' = [calls EXCEPT ![c] = x]
    BY <2>1, <2>3
  <2>5. x \in CallSet /\ x.pc = "remove" /\ x.answer = answer /\ x.result = value
    <3>1. calls[c] \in CallSet
      BY <1>1, <2>2 DEF SandboxTypeOK, NoCall
    <3> QED BY <2>3, <3>1, ExecutionsAssumption DEF CallSet, CallPCs, Answers
  <2>10. answer = "ok" => container[c] = "zero"
    OBVIOUS
  <2> HIDE DEF x, answer
  <2>6. /\ calls' \in [Calls -> CallSet \union {NoCall}]
        /\ calls'[c] = x
        /\ \A d \in Calls \ {c} : calls'[d] = calls[d]
    BY <1>1, <2>4, <2>5 DEF SandboxTypeOK
  <2>7. Reasons(c)'
    BY <2>5, <2>6 DEF Reasons, UnderWay
  <2>8. Ended(c)'
    BY <2>2, <2>3, <2>5, <2>6, <2>10 DEF Ended
  <2>9. torn' \subseteq Calls /\ \A d \in Calls \ {c} : d \in torn' <=> d \in torn
    BY <1>1, <2>1 DEF SandboxTypeOK
  <2> QED BY <1>1, <2>2, <2>6, <2>7, <2>8, <2>9, OneCall DEF SandboxTypeOK
<1>9. CASE RemoveContainer(c)
  <2>1. /\ calls' \in [Calls -> CallSet \union {NoCall}]
        /\ calls'[c].pc = "done"
        /\ calls'[c].answer = calls[c].answer /\ calls'[c].result = calls[c].result
        /\ \A d \in Calls \ {c} : calls'[d] = calls[d]
    BY <1>1, <1>9, ToTyped DEF RemoveContainer, CallPCs
  <2>2. \/ container' = [container EXCEPT ![c] = "none"] /\ UNCHANGED abandoned
        \/ abandoned' = abandoned \union {c} /\ UNCHANGED container
    BY <1>9 DEF RemoveContainer
  <2>3. /\ container' \in [Calls -> Containers]
        /\ container'[c] \in {container[c], "none"}
        /\ \A d \in Calls \ {c} : container'[d] = container[d]
    BY <1>1, <2>2 DEF SandboxTypeOK, Containers
  <2>4. Reasons(c)'
    BY <1>1, <2>2 DEF Reasons, SandboxTypeOK
  <2>5. UNCHANGED <<output, torn>>
    BY <1>9 DEF RemoveContainer
  <2>6. Ended(c)'
    <3>1. \A value : ResultOf(c, value) => ResultOf(c, value)'
      BY <2>5, ResultStays
    <3> QED BY <1>1, <2>1, <2>3, <3>1 DEF Ended
  <2> QED BY <1>1, <2>1, <2>2, <2>3, <2>4, <2>5, <2>6, OneCall DEF SandboxTypeOK
<1> QED BY <1>3, <1>4, <1>5, <1>6, <1>7, <1>8, <1>9 DEF CallStep

LEMMA ScriptInv ==
    ASSUME SandboxInv, NEW c \in Calls, Script(c)
    PROVE  SandboxInv'
<1>1. SandboxTypeOK /\ UNCHANGED <<calls, torn, abandoned>> /\ container[c] = "running"
  BY DEF SandboxInv, Script, EmitLine, ScriptEnds
<1>2. Reasons(c)' /\ Ended(c)'
  BY <1>1 DEF SandboxInv, Reasons, Ended, UnderWay
<1>3. CASE \E line \in Lines : EmitLine(c, line)
  <2>1. PICK line \in Lines : EmitLine(c, line)
    BY <1>3
  <2>2. output' = [output EXCEPT ![c] = Append(output[c], line)] /\ UNCHANGED container
    BY <2>1 DEF EmitLine
  <2>3. Append(output[c], line) \in Seq(Lines)
    BY <1>1 DEF SandboxTypeOK
  <2>4. /\ output' \in [Calls -> Seq(Lines)]
        /\ \A d \in Calls \ {c} : output'[d] = output[d]
    BY <1>1, <2>2, <2>3 DEF SandboxTypeOK
  <2> QED BY <1>1, <1>2, <2>2, <2>4, OneCall DEF SandboxTypeOK
<1>4. CASE \E status \in {"zero", "nonzero"} : ScriptEnds(c, status)
  <2>1. PICK status \in {"zero", "nonzero"} : ScriptEnds(c, status)
    BY <1>4
  <2>2. container' = [container EXCEPT ![c] = status] /\ UNCHANGED output
    BY <2>1 DEF ScriptEnds
  <2>3. /\ container' \in [Calls -> Containers]
        /\ \A d \in Calls \ {c} : container'[d] = container[d]
    BY <1>1, <2>2 DEF SandboxTypeOK, Containers
  <2> QED BY <1>1, <1>2, <2>2, <2>3, OneCall DEF SandboxTypeOK
<1> QED BY <1>3, <1>4 DEF Script

LEMMA SandboxDiesInv ==
    ASSUME SandboxInv, SandboxDies
    PROVE  SandboxInv'
<1>1. \A c \in Calls :
         calls'[c] = IF UnderWay(c) THEN [calls[c] EXCEPT !.pc = "dead"] ELSE calls[c]
  BY DEF SandboxDies
<1>2. ASSUME NEW c \in Calls, UnderWay(c)
      PROVE  /\ calls'[c] \in CallSet /\ calls'[c].pc = "dead"
             /\ calls'[c].answer = calls[c].answer /\ calls'[c].result = calls[c].result
  <2>1. calls[c] \in CallSet
    BY <1>2 DEF SandboxInv, SandboxTypeOK, UnderWay, NoCall
  <2> QED BY <1>1, <1>2, <2>1 DEF CallSet, CallPCs
<1>3. calls' \in [Calls -> CallSet \union {NoCall}]
  <2>1. \A c \in Calls : calls'[c] \in CallSet \union {NoCall}
    BY <1>1, <1>2 DEF SandboxInv, SandboxTypeOK
  <2> QED BY <2>1 DEF SandboxDies
<1>4. UNCHANGED <<container, output, torn, abandoned>>
  BY DEF SandboxDies
<1>5. ASSUME NEW c \in Calls PROVE Reasons(c)' /\ Ended(c)'
  <2>1. Reasons(c) /\ Ended(c)
    BY DEF SandboxInv
  <2>2. \A value : ResultOf(c, value) => ResultOf(c, value)'
    BY <1>4, ResultStays
  <2>3. CASE UnderWay(c)
    BY <1>2, <1>4, <2>1, <2>2, <2>3 DEF Reasons, Ended
  <2>4. CASE ~UnderWay(c)
    BY <1>1, <1>4, <2>1, <2>2, <2>4 DEF Reasons, Ended, UnderWay
  <2> QED BY <2>3, <2>4
<1> QED BY <1>3, <1>4, <1>5 DEF SandboxInv, SandboxTypeOK

-----------------------------------------------------------------------------
(* The validator *)

\* Calls for one contract that are at work together know of each other.
Overlap(v, w) ==
    v # w /\ Working(v) /\ Working(w) /\ Contract(v) = Contract(w) =>
        validating[w].schema \in rivals[v]

\* What a call may find in the compiler once it has seen no document there: its
\* own schema, or that of a call that overlapped.
Near(v) == {NoSchema, validating[v].schema} \union rivals[v]

FindsNear(v) ==
    /\ validating[v].pc \in {"store", "compile"} =>
          documents[Contract(v)] \in Near(v) /\ compiled[Contract(v)] \in Near(v)
    /\ validating[v].pc = "compile" => documents[Contract(v)] # NoSchema
    /\ Working(v) => validating[v].schema # NoSchema

\* A call that is fresh and at work is alone with its contract.
Alone(v) ==
    v \in fresh =>
        /\ validating[v] # NoValidation
        /\ validating[v].schema # NoSchema
        /\ Working(v) =>
              /\ \A w \in Validations : v # w /\ Working(w) => Contract(w) # Contract(v)
              /\ compiled[Contract(v)] = NoSchema
              /\ documents[Contract(v)] =
                     IF validating[v].pc = "compile" THEN validating[v].schema ELSE NoSchema

\* The verdict on a call is sound.
Sound(v) ==
    validating[v].pc \in {"accepted", "refused"} =>
        /\ validating[v].pc = "accepted" =>
              \/ validating[v].schema = NoSchema
              \/ \E s \in {validating[v].schema} \union rivals[v] :
                    <<s, validating[v].value>> \in Meets
        /\ v \in fresh => validating[v].pc = Deserved(v)

ValidatorInv ==
    /\ ValidatorTypeOK
    /\ \A k \in Contracts : documents[k] = NoSchema => compiled[k] = NoSchema
    /\ \A v \in Validations : FindsNear(v) /\ Alone(v) /\ Sound(v)
    /\ \A v, w \in Validations : Overlap(v, w)

LEMMA ValidateInv ==
    ASSUME ValidatorInv, NEW v \in Validations, NEW k \in Contracts,
           NEW schema \in Contents, NEW value \in Values, Validate(v, k, schema, value)
    PROVE  ValidatorInv'
<1> DEFINE r == [contract |-> k, schema |-> schema, value |-> value,
                 pc |-> IF schema = NoSchema THEN "accepted" ELSE "add"]
           others == {w \in Validations : Working(w) /\ Contract(w) = k}
<1>1. ValidatorTypeOK /\ ValidatorTypeOK'
  BY ValidateTyped DEF ValidatorInv
<1>2. /\ validating[v] = NoValidation /\ ~Working(v)
      /\ validating'[v] = r
      /\ \A w \in Validations \ {v} : validating'[w] = validating[w]
      /\ UNCHANGED <<documents, compiled>>
  BY <1>1 DEF Validate, ValidatorTypeOK, Working, NoValidation
<1>3. v \notin fresh
  BY <1>2 DEF ValidatorInv, Alone
<1>4. \A w \in Validations \ {v} : (Working(w)' <=> Working(w)) /\ Contract(w)' = Contract(w)
  BY <1>2 DEF Working, Contract
<1>5. /\ r.contract = k /\ r.schema = schema /\ r.value = value
      /\ r.pc = IF schema = NoSchema THEN "accepted" ELSE "add"
  OBVIOUS
<1>6. Working(v)' <=> schema # NoSchema
  BY <1>2, <1>5 DEF Working
<1>7. Contract(v)' = k
  BY <1>2, <1>5 DEF Contract
<1>8. CASE schema = NoSchema
  <2>1. UNCHANGED <<fresh, rivals>>
    BY <1>8 DEF Validate
  <2>2. ASSUME NEW w \in Validations PROVE FindsNear(w)'
    BY <1>2, <1>4, <1>5, <1>6, <1>8, <2>1 DEF ValidatorInv, FindsNear, Near
  <2>3. ASSUME NEW w \in Validations PROVE Alone(w)'
    BY <1>2, <1>3, <1>4, <1>6, <1>8, <2>1 DEF ValidatorInv, Alone
  <2>4. ASSUME NEW w \in Validations PROVE Sound(w)'
    BY <1>2, <1>3, <1>5, <1>8, <2>1 DEF ValidatorInv, Sound, Deserved
  <2>5. ASSUME NEW w \in Validations, NEW u \in Validations PROVE Overlap(w, u)'
    BY <1>2, <1>4, <1>6, <1>8, <2>1 DEF ValidatorInv, Overlap
  <2> QED BY <1>1, <1>2, <2>2, <2>3, <2>4, <2>5 DEF ValidatorInv
<1>9. CASE schema # NoSchema
  <2>1. fresh' = IF others = {} /\ documents[k] = NoSchema
                 THEN fresh \union {v} ELSE fresh \ others
    BY <1>9 DEF Validate
  <2>2. rivals' = [w \in Validations |->
               CASE w = v -> {validating[u].schema : u \in others}
                 [] w \in others -> rivals[w] \union {schema}
                 [] OTHER -> rivals[w]]
    BY <1>9 DEF Validate
  <2>3. v \notin others
    BY <1>2
  <2>4. /\ rivals'[v] = {validating[u].schema : u \in others}
        /\ \A w \in others : rivals'[w] = rivals[w] \union {schema}
        /\ \A w \in Validations \ {v} : rivals[w] \subseteq rivals'[w]
    BY <2>2, <2>3
  <2>5. fresh' \subseteq fresh \union {v}
    BY <2>1
  <2>6. \A w \in Validations \ {v} :
           w \in fresh' /\ Working(w) => Contract(w) # k
    BY <2>1
  <2>7. v \in fresh' => documents[k] = NoSchema /\ others = {}
    BY <1>3, <2>1
  <2>8. \A w \in Validations : w \in others <=> Working(w) /\ Contract(w) = k
    OBVIOUS
  <2> HIDE DEF others, r
  <2>9. ASSUME NEW w \in Validations PROVE FindsNear(w)'
    <3>1. CASE w = v
      BY <1>2, <1>5, <1>9, <3>1 DEF FindsNear
    <3>2. CASE w # v
      BY <1>2, <1>4, <2>4, <3>2 DEF ValidatorInv, FindsNear, Near
    <3> QED BY <3>1, <3>2
  <2>10. ASSUME NEW w \in Validations PROVE Alone(w)'
    <3>1. CASE w = v
      <4> SUFFICES ASSUME v \in fresh' PROVE Alone(v)'
        BY <3>1 DEF Alone
      <4>1. validating'[v] # NoValidation /\ validating'[v].schema # NoSchema
        BY <1>2, <1>5, <1>9 DEF NoValidation
      <4>2. validating'[v].pc = "add"
        BY <1>2, <1>5, <1>9
      <4>3. documents'[k] = NoSchema /\ compiled'[k] = NoSchema
        BY <1>2, <2>7 DEF ValidatorInv
      <4>4. \A u \in Validations : v # u /\ Working(u)' => Contract(u)' # Contract(v)'
        BY <1>4, <1>7, <2>7, <2>8
      <4> QED BY <1>7, <4>1, <4>2, <4>3, <4>4 DEF Alone
    <3>2. CASE w # v
      BY <1>2, <1>4, <1>7, <2>5, <2>6, <3>2 DEF ValidatorInv, Alone
    <3> QED BY <3>1, <3>2
  <2>11. ASSUME NEW w \in Validations PROVE Sound(w)'
    <3>1. CASE w = v
      BY <1>2, <1>5, <1>9, <3>1 DEF Sound
    <3>2. CASE w # v
      <4>1. Deserved(w)' = Deserved(w)
        BY <1>2, <3>2 DEF Deserved
      <4>2. Sound(w)
        BY DEF ValidatorInv
      <4> QED BY <1>2, <2>4, <2>5, <3>2, <4>1, <4>2 DEF Sound
    <3> QED BY <3>1, <3>2
  <2>12. ASSUME NEW w \in Validations, NEW u \in Validations PROVE Overlap(w, u)'
    <3>1. CASE w = v
      BY <1>2, <1>4, <1>7, <2>4, <2>8, <3>1 DEF Overlap
    <3>2. CASE w # v /\ u = v
      BY <1>2, <1>4, <1>5, <1>7, <2>4, <2>8, <3>2 DEF Overlap
    <3>3. CASE w # v /\ u # v
      BY <1>2, <1>4, <2>4, <3>3 DEF ValidatorInv, Overlap
    <3> QED BY <3>1, <3>2, <3>3
  <2> QED BY <1>1, <1>2, <2>9, <2>10, <2>11, <2>12 DEF ValidatorInv
<1> QED BY <1>8, <1>9

\* What a change of where a call of validate is leaves alone.
LEMMA Moved ==
    ASSUME ValidatorTypeOK, NEW v \in Validations, Working(v), NEW pc,
           validating' = [validating EXCEPT ![v].pc = pc]
    PROVE  /\ validating'[v].pc = pc
           /\ validating'[v] # NoValidation
           /\ validating'[v].schema = validating[v].schema
           /\ validating'[v].value = validating[v].value
           /\ Contract(v)' = Contract(v)
           /\ \A w \in Validations \ {v} :
                 /\ validating'[w] = validating[w]
                 /\ Working(w)' <=> Working(w)
                 /\ Contract(w)' = Contract(w)
<1>1. validating[v] \in ValidationSet
  BY DEF ValidatorTypeOK, Working, NoValidation
<1>2. validating'[v] = [validating[v] EXCEPT !.pc = pc]
  BY DEF ValidatorTypeOK
<1>3. /\ validating'[v].pc = pc
      /\ validating'[v].schema = validating[v].schema
      /\ validating'[v].value = validating[v].value
      /\ validating'[v].contract = validating[v].contract
  BY <1>1, <1>2 DEF ValidationSet
<1>4. validating'[v] # NoValidation
  <2>1. DOMAIN validating'[v] = {"contract", "schema", "value", "pc"}
    BY <1>1, <1>2 DEF ValidationSet
  <2> QED BY <2>1 DEF NoValidation
<1>5. \A w \in Validations \ {v} : validating'[w] = validating[w]
  BY DEF ValidatorTypeOK
<1> QED BY <1>3, <1>4, <1>5 DEF Working, Contract

LEMMA AddInv ==
    ASSUME ValidatorInv, NEW v \in Validations, Add(v)
    PROVE  ValidatorInv'
<1> DEFINE pc == IF documents[Contract(v)] = NoSchema THEN "store" ELSE "refused"
<1>1. ValidatorTypeOK /\ ValidatorTypeOK'
  BY StepsTyped DEF ValidatorInv, ValidatorStep
<1>2. /\ validating[v].pc = "add" /\ Working(v)
      /\ validating' = [validating EXCEPT ![v].pc = pc]
      /\ UNCHANGED <<documents, compiled, fresh, rivals>>
  BY DEF Add, Working
<1> HIDE DEF pc
<1>3. /\ validating'[v].pc = pc
      /\ validating'[v] # NoValidation
      /\ validating'[v].schema = validating[v].schema
      /\ validating'[v].value = validating[v].value
      /\ Contract(v)' = Contract(v)
      /\ \A w \in Validations \ {v} :
            /\ validating'[w] = validating[w]
            /\ Working(w)' <=> Working(w)
            /\ Contract(w)' = Contract(w)
  BY <1>1, <1>2, Moved
<1>4. Contract(v) \in Contracts
  BY <1>1, <1>2 DEF ValidatorTypeOK, Working, Contract, ValidationSet, NoValidation
<1>5. documents[Contract(v)] = NoSchema => compiled[Contract(v)] = NoSchema
  BY <1>4 DEF ValidatorInv
<1>6. ASSUME NEW w \in Validations PROVE FindsNear(w)'
  BY <1>2, <1>3, <1>5 DEF ValidatorInv, FindsNear, Near, pc
<1>7. v \in fresh => documents[Contract(v)] = NoSchema
  BY <1>2 DEF ValidatorInv, Alone
<1>8. ASSUME NEW w \in Validations PROVE Alone(w)'
  <2>1. CASE w = v
    BY <1>2, <1>3, <1>7, <2>1 DEF ValidatorInv, Alone, pc
  <2>2. CASE w # v
    BY <1>2, <1>3, <2>2 DEF ValidatorInv, Alone
  <2> QED BY <2>1, <2>2
<1>9. ASSUME NEW w \in Validations PROVE Sound(w)'
  <2>1. CASE w = v
    BY <1>2, <1>3, <1>7, <2>1 DEF Sound, pc
  <2>2. CASE w # v
    BY <1>2, <1>3, <2>2 DEF ValidatorInv, Sound, Deserved
  <2> QED BY <2>1, <2>2
<1>10. ASSUME NEW w \in Validations, NEW u \in Validations PROVE Overlap(w, u)'
  BY <1>2, <1>3 DEF ValidatorInv, Overlap
<1> QED BY <1>1, <1>2, <1>6, <1>8, <1>9, <1>10 DEF ValidatorInv

LEMMA StoreInv ==
    ASSUME ValidatorInv, NEW v \in Validations, Store(v)
    PROVE  ValidatorInv'
<1> DEFINE k == Contract(v)
           own == validating[v].schema
<1>1. ValidatorTypeOK /\ ValidatorTypeOK'
  BY StepsTyped DEF ValidatorInv, ValidatorStep
<1>2. /\ validating[v].pc = "store" /\ Working(v)
      /\ validating' = [validating EXCEPT ![v].pc = "compile"]
      /\ documents' = [documents EXCEPT ![k] = own]
      /\ UNCHANGED <<compiled, fresh, rivals>>
  BY DEF Store, Working
<1>3. /\ validating'[v].pc = "compile"
      /\ validating'[v] # NoValidation
      /\ validating'[v].schema = validating[v].schema
      /\ validating'[v].value = validating[v].value
      /\ Contract(v)' = Contract(v)
      /\ \A w \in Validations \ {v} :
            /\ validating'[w] = validating[w]
            /\ Working(w)' <=> Working(w)
            /\ Contract(w)' = Contract(w)
  BY <1>1, <1>2, Moved
<1>4. k \in Contracts
  BY <1>1, <1>2 DEF ValidatorTypeOK, Working, Contract, ValidationSet, NoValidation
<1> HIDE DEF k, own
<1>5. documents'[k] = own /\ \A j \in Contracts \ {k} : documents'[j] = documents[j]
  BY <1>1, <1>2, <1>4 DEF ValidatorTypeOK
<1>6. own # NoSchema
  BY <1>2 DEF ValidatorInv, FindsNear, own
<1>7. \A j \in Contracts : documents'[j] = NoSchema => compiled'[j] = NoSchema
  BY <1>2, <1>5, <1>6 DEF ValidatorInv
<1>8. ASSUME NEW w \in Validations PROVE FindsNear(w)'
  <2>1. CASE w = v
    BY <1>2, <1>3, <1>5, <1>6, <2>1 DEF ValidatorInv, FindsNear, Near, k, own
  <2>2. CASE w # v /\ Working(w) /\ Contract(w) = k
    <3>1. own \in rivals[w]
      BY <1>2, <2>2 DEF ValidatorInv, Overlap, k, own
    <3> QED BY <1>2, <1>3, <1>5, <1>6, <2>2, <3>1 DEF ValidatorInv, FindsNear, Near
  <2>3. CASE w # v /\ Working(w) /\ Contract(w) # k
    <3>1. Contract(w) \in Contracts
      BY <1>1, <2>3 DEF ValidatorTypeOK, Working, Contract, ValidationSet, NoValidation
    <3> QED BY <1>2, <1>3, <1>5, <2>3, <3>1 DEF ValidatorInv, FindsNear, Near
  <2>4. CASE w # v /\ ~Working(w)
    BY <1>3, <2>4 DEF FindsNear, Working
  <2> QED BY <2>1, <2>2, <2>3, <2>4
<1>9. ASSUME NEW w \in Validations PROVE Alone(w)'
  <2>1. CASE w = v
    BY <1>2, <1>3, <1>5, <2>1 DEF ValidatorInv, Alone, k, own
  <2>2. CASE w # v /\ Working(w) /\ w \in fresh
    <3>1. Contract(w) \in Contracts /\ Contract(w) # k
      BY <1>1, <1>2, <2>2
      DEF ValidatorTypeOK, Working, Contract, ValidationSet, NoValidation, ValidatorInv,
          Alone, k
    <3> QED BY <1>2, <1>3, <1>5, <2>2, <3>1 DEF ValidatorInv, Alone
  <2>3. CASE w # v /\ ~(Working(w) /\ w \in fresh)
    BY <1>2, <1>3, <2>3 DEF ValidatorInv, Alone
  <2> QED BY <2>1, <2>2, <2>3
<1>10. ASSUME NEW w \in Validations PROVE Sound(w)'
  BY <1>2, <1>3 DEF ValidatorInv, Sound, Deserved
<1>11. ASSUME NEW w \in Validations, NEW u \in Validations PROVE Overlap(w, u)'
  BY <1>2, <1>3 DEF ValidatorInv, Overlap
<1> QED BY <1>1, <1>7, <1>8, <1>9, <1>10, <1>11 DEF ValidatorInv

LEMMA CompileInv ==
    ASSUME ValidatorInv, NEW v \in Validations, Compile(v)
    PROVE  ValidatorInv'
<1> DEFINE k == Contract(v)
           s == IF compiled[k] # NoSchema THEN compiled[k] ELSE documents[k]
           pc == IF s \in Uncompilable THEN "refused" ELSE Verdict(s, validating[v].value)
<1>1. ValidatorTypeOK /\ ValidatorTypeOK'
  BY StepsTyped DEF ValidatorInv, ValidatorStep
<1>2. /\ validating[v].pc = "compile" /\ Working(v)
      /\ validating' = [validating EXCEPT ![v].pc = pc]
      /\ \/ compiled' = compiled
         \/ compiled' = [compiled EXCEPT ![k] = s]
      /\ UNCHANGED <<documents, fresh, rivals>>
  BY DEF Compile, Working
<1>3. k \in Contracts
  BY <1>1, <1>2 DEF ValidatorTypeOK, Working, Contract, ValidationSet, NoValidation
<1>4. pc \in {"accepted", "refused"}
  BY DEF Verdict
<1>5. s \in Near(v) /\ s # NoSchema /\ documents[k] # NoSchema
  BY <1>2 DEF ValidatorInv, FindsNear
<1>6. v \in fresh => s = validating[v].schema
  BY <1>2 DEF ValidatorInv, Alone
<1>7. pc = "accepted" => <<s, validating[v].value>> \in Meets
  BY DEF Verdict
<1>8. s = validating[v].schema => pc = Deserved(v)
  BY DEF Deserved
<1>9. s \in {compiled[k], documents[k]}
  OBVIOUS
<1> HIDE DEF k, s, pc
<1>10. /\ validating'[v].pc = pc
       /\ validating'[v] # NoValidation
       /\ validating'[v].schema = validating[v].schema
       /\ validating'[v].value = validating[v].value
       /\ Contract(v)' = Contract(v)
       /\ \A w \in Validations \ {v} :
             /\ validating'[w] = validating[w]
             /\ Working(w)' <=> Working(w)
             /\ Contract(w)' = Contract(w)
  BY <1>1, <1>2, Moved
<1>11. ~Working(v)'
  BY <1>4, <1>10 DEF Working
<1>12. /\ compiled'[k] \in {compiled[k], s}
       /\ \A j \in Contracts \ {k} : compiled'[j] = compiled[j]
  BY <1>1, <1>2, <1>3 DEF ValidatorTypeOK
<1>13. \A j \in Contracts : documents'[j] = NoSchema => compiled'[j] = NoSchema
  BY <1>2, <1>5, <1>12 DEF ValidatorInv
<1>14. ASSUME NEW w \in Validations PROVE FindsNear(w)'
  <2>1. CASE ~Working(w)'
    BY <2>1 DEF FindsNear, Working
  <2>2. CASE Working(w)'
    <3>1. /\ w # v /\ Working(w) /\ Contract(w)' = Contract(w)
          /\ Contract(w) \in Contracts
      BY <1>1, <1>10, <1>11, <2>2
      DEF ValidatorTypeOK, Working, Contract, ValidationSet, NoValidation
    <3>2. CASE Contract(w) = k
      BY <1>2, <1>9, <1>10, <1>12, <3>1, <3>2 DEF ValidatorInv, FindsNear, Near
    <3>3. CASE Contract(w) # k
      BY <1>2, <1>10, <1>12, <3>1, <3>3 DEF ValidatorInv, FindsNear, Near
    <3> QED BY <3>2, <3>3
  <2> QED BY <2>1, <2>2
<1>15. ASSUME NEW w \in Validations PROVE Alone(w)'
  <2>1. CASE w = v
    BY <1>2, <1>10, <1>11, <2>1 DEF ValidatorInv, Alone
  <2>2. CASE w # v /\ Working(w) /\ w \in fresh
    <3>1. Contract(w) \in Contracts /\ Contract(w) # k
      BY <1>1, <1>2, <2>2
      DEF ValidatorTypeOK, Working, Contract, ValidationSet, NoValidation, ValidatorInv,
          Alone, k
    <3>2. Alone(w)
      BY DEF ValidatorInv
    <3> QED BY <1>2, <1>10, <1>11, <1>12, <2>2, <3>1, <3>2 DEF Alone
  <2>3. CASE w # v /\ ~(Working(w) /\ w \in fresh)
    BY <1>2, <1>10, <2>3 DEF ValidatorInv, Alone
  <2> QED BY <2>1, <2>2, <2>3
<1>16. ASSUME NEW w \in Validations PROVE Sound(w)'
  <2>1. CASE w = v
    <3>1. Deserved(v)' = Deserved(v)
      BY <1>10 DEF Deserved
    <3> QED BY <1>2, <1>5, <1>6, <1>7, <1>8, <1>10, <2>1, <3>1 DEF Sound, Near
  <2>2. CASE w # v
    BY <1>2, <1>10, <2>2 DEF ValidatorInv, Sound, Deserved
  <2> QED BY <2>1, <2>2
<1>17. ASSUME NEW w \in Validations, NEW u \in Validations PROVE Overlap(w, u)'
  BY <1>2, <1>10, <1>11 DEF ValidatorInv, Overlap
<1> QED BY <1>1, <1>13, <1>14, <1>15, <1>16, <1>17 DEF ValidatorInv

LEMMA ValidatorDiesInv ==
    ASSUME ValidatorInv, ValidatorDies
    PROVE  ValidatorInv'
<1>1. ValidatorTypeOK /\ ValidatorTypeOK'
  BY DeathTyped DEF ValidatorInv
<1>2. /\ \A k \in Contracts : documents'[k] = NoSchema /\ compiled'[k] = NoSchema
      /\ \A v \in Validations : validating'[v] =
             IF Working(v) THEN [validating[v] EXCEPT !.pc = "dead"] ELSE validating[v]
      /\ fresh' = {v \in fresh : ~Working(v)}
      /\ rivals' = rivals
  BY DEF ValidatorDies, NothingCompiled
<1>3. ASSUME NEW v \in Validations, Working(v)
      PROVE  validating'[v].pc = "dead"
  <2>1. validating[v] \in ValidationSet
    BY <1>1, <1>3 DEF ValidatorTypeOK, Working, NoValidation
  <2> QED BY <1>2, <1>3, <2>1 DEF ValidationSet
<1>4. \A v \in Validations : ~Working(v)'
  BY <1>2, <1>3 DEF Working
<1>5. ASSUME NEW v \in Validations PROVE FindsNear(v)'
  BY <1>4 DEF FindsNear, Working
<1>6. ASSUME NEW v \in Validations PROVE Alone(v)'
  BY <1>2, <1>4 DEF ValidatorInv, Alone
<1>7. ASSUME NEW v \in Validations PROVE Sound(v)'
  <2>1. CASE Working(v)
    BY <1>3, <2>1 DEF Sound
  <2>2. CASE ~Working(v)
    BY <1>2, <2>2 DEF ValidatorInv, Sound, Deserved
  <2> QED BY <2>1, <2>2
<1>8. ASSUME NEW v \in Validations, NEW w \in Validations PROVE Overlap(v, w)'
  BY <1>4 DEF Overlap
<1> QED BY <1>1, <1>2, <1>5, <1>6, <1>7, <1>8 DEF ValidatorInv

-----------------------------------------------------------------------------
(* Executions *)

NodeRuns == [node : Nodes, version : Versions,
             pc : {"input", "sandbox", "output", "done", "dead"},
             status : {"RUNNING", "SUCCESS", "FAILED"}]

TestRuns == [pc : {"test", "done", "dead"}]

NodeInv == ValidatorInv /\ SandboxInv /\ ExecutionsTyped

LEMMA ExecutionKinds == ExecutionSet = NodeRuns \union TestRuns
BY DEF ExecutionSet, NodeRuns, TestRuns

\* The validations of an execution are among those of the process, and what
\* executions are given can be validated.
LEMMA ExecutionConstants ==
    /\ Executions = Calls
    /\ \A x \in Executions : Input(x) \in Validations /\ Output(x) \in Validations
    /\ Others \subseteq Validations
    /\ Inputs \subseteq Values
    /\ \A version \in Versions : version.input \in Contents /\ version.output \in Contents
    /\ \A node \in Nodes : <<node, "input">> \in Contracts /\ <<node, "output">> \in Contracts
BY ExecutionsAssumption DEF Input, Output, Contents, Contracts

\* A step that leaves the validator, or the sandbox, alone keeps its invariant.
LEMMA ValidatorRests ==
    ASSUME ValidatorInv, UNCHANGED validator
    PROVE  ValidatorInv'
<1>1. UNCHANGED <<documents, compiled, validating, fresh, rivals>>
  BY DEF validator
<1>2. ValidatorTypeOK'
  BY <1>1 DEF ValidatorInv, ValidatorTypeOK
<1>3. ASSUME NEW v \in Validations
      PROVE  FindsNear(v)' /\ Alone(v)' /\ Sound(v)'
  <2>1. FindsNear(v) /\ Alone(v) /\ Sound(v)
    BY DEF ValidatorInv
  <2> QED BY <1>1, <2>1 DEF FindsNear, Near, Alone, Sound, Deserved, Working, Contract
<1>4. ASSUME NEW v \in Validations, NEW w \in Validations PROVE Overlap(v, w)'
  BY <1>1 DEF ValidatorInv, Overlap, Working, Contract
<1> QED BY <1>1, <1>2, <1>3, <1>4 DEF ValidatorInv

LEMMA SandboxRests ==
    ASSUME SandboxInv, UNCHANGED sandbox
    PROVE  SandboxInv'
<1>1. UNCHANGED <<container, output, calls, torn, abandoned>>
  BY DEF sandbox
<1>2. ASSUME NEW c \in Calls PROVE Reasons(c)' /\ Ended(c)'
  <2>1. Reasons(c) /\ Ended(c)
    BY DEF SandboxInv
  <2>2. \A value : ResultOf(c, value) => ResultOf(c, value)'
    BY <1>1, ResultStays
  <2> QED BY <1>1, <2>1, <2>2 DEF Reasons, Ended, UnderWay
<1>3. SandboxTypeOK'
  BY <1>1 DEF SandboxInv, SandboxTypeOK
<1> QED BY <1>2, <1>3 DEF SandboxInv

\* How an execution changes.
LEMMA NodeRunMoves ==
    ASSUME ExecutionsTyped, NEW x \in Executions,
           executions[x].pc \in {"input", "sandbox", "output"},
           NEW pc \in {"sandbox", "output", "done"},
           \/ executions' = [executions EXCEPT ![x].pc = pc]
           \/ \E status \in {"SUCCESS", "FAILED"} : Settle(x, status)
    PROVE  ExecutionsTyped'
<1>1. executions[x] \in NodeRuns
  BY ExecutionKinds DEF ExecutionsTyped, TestRuns, NotStarted
<1>2. CASE executions' = [executions EXCEPT ![x].pc = pc]
  <2>1. [executions[x] EXCEPT !.pc = pc] \in NodeRuns
    BY <1>1 DEF NodeRuns
  <2> QED BY <1>2, <2>1, ExecutionKinds DEF ExecutionsTyped
<1>3. CASE \E status \in {"SUCCESS", "FAILED"} : Settle(x, status)
  <2>1. PICK status \in {"SUCCESS", "FAILED"} : Settle(x, status)
    BY <1>3
  <2>2. [[executions[x] EXCEPT !.pc = "done"] EXCEPT !.status = status] \in NodeRuns
    BY <1>1 DEF NodeRuns
  <2>3. executions' = [executions EXCEPT
            ![x] = [[executions[x] EXCEPT !.pc = "done"] EXCEPT !.status = status]]
    BY <2>1 DEF Settle, ExecutionsTyped
  <2> QED BY <2>2, <2>3, ExecutionKinds DEF ExecutionsTyped
<1> QED BY <1>2, <1>3

LEMMA InitNodeInv == Init => NodeInv
<1> SUFFICES ASSUME Init PROVE NodeInv
  OBVIOUS
<1>1. ValidatorInv
  <2>1. /\ documents = NothingCompiled /\ compiled = NothingCompiled
        /\ validating = [v \in Validations |-> NoValidation]
        /\ fresh = {} /\ rivals = [v \in Validations |-> {}]
    BY DEF Init, ValidatorInit
  <2>2. ValidatorTypeOK
    BY <2>1 DEF ValidatorTypeOK, NothingCompiled, Contents
  <2>3. \A k \in Contracts : documents[k] = NoSchema => compiled[k] = NoSchema
    BY <2>1 DEF NothingCompiled
  <2>4. \A v \in Validations : validating[v].pc = "none"
    BY <2>1 DEF NoValidation
  <2> QED BY <2>1, <2>2, <2>3, <2>4
      DEF ValidatorInv, FindsNear, Alone, Sound, Overlap, Working
<1>2. SandboxInv
  <2>1. /\ container = [c \in Calls |-> "none"] /\ output = [c \in Calls |-> << >>]
        /\ calls = [c \in Calls |-> NoCall]
    BY DEF Init, SandboxInit
  <2>5. torn = {} /\ abandoned = {}
    BY DEF Init, SandboxInit
  <2>2. NoCall \in CallSet \union {NoCall}
    OBVIOUS
  <2>3. << >> \in Seq(Lines)
    OBVIOUS
  <2>4. SandboxTypeOK
    BY <2>1, <2>2, <2>3, <2>5 DEF SandboxTypeOK, Containers
  <2>6. NoCall.pc = "none" /\ NoCall.answer = "none"
    BY DEF NoCall
  <2>7. ASSUME NEW c \in Calls PROVE Reasons(c) /\ Ended(c)
    BY <2>1, <2>6 DEF Reasons, Ended
  <2> QED BY <2>4, <2>7 DEF SandboxInv
<1>3. ExecutionsTyped
  BY DEF Init, ExecutionsTyped
<1> QED BY <1>1, <1>2, <1>3 DEF NodeInv

LEMMA EnterNodeInv ==
    ASSUME NodeInv, NEW x \in Executions, NEW node \in Nodes, NEW version \in Versions,
           NEW input \in Inputs, EnterNode(x, node, version, input)
    PROVE  NodeInv'
<1>1. Validate(Input(x), <<node, "input">>, version.input, input)
  BY DEF EnterNode
<1>2. ValidatorInv'
  <2>1. /\ Input(x) \in Validations /\ <<node, "input">> \in Contracts
        /\ version.input \in Contents /\ input \in Values
    BY ExecutionConstants
  <2> QED BY <1>1, <2>1, ValidateInv DEF NodeInv
<1>3. SandboxInv'
  BY SandboxRests DEF NodeInv, EnterNode
<1>4. ExecutionsTyped'
  <2> DEFINE r == [node |-> node, version |-> version, pc |-> "input", status |-> "RUNNING"]
  <2>1. r \in NodeRuns
    BY DEF NodeRuns
  <2>2. executions' = [executions EXCEPT ![x] = r]
    BY DEF EnterNode
  <2> HIDE DEF r
  <2> QED BY <2>1, <2>2, ExecutionKinds DEF NodeInv, ExecutionsTyped
<1> QED BY <1>2, <1>3, <1>4 DEF NodeInv

LEMMA RunTestInv ==
    ASSUME NodeInv, NEW x \in Executions, RunTest(x)
    PROVE  NodeInv'
<1>1. ValidatorInv'
  BY ValidatorRests DEF NodeInv, RunTest
<1>2. SandboxInv'
  BY ExecuteInv, ExecutionConstants DEF NodeInv, RunTest
<1>3. ExecutionsTyped'
  <2>1. [pc |-> "test"] \in TestRuns
    BY DEF TestRuns
  <2> QED BY <2>1, ExecutionKinds DEF NodeInv, ExecutionsTyped, RunTest
<1> QED BY <1>1, <1>2, <1>3 DEF NodeInv

LEMMA InputCheckedInv ==
    ASSUME NodeInv, NEW x \in Executions, InputChecked(x)
    PROVE  NodeInv'
<1>1. ValidatorInv'
  BY ValidatorRests DEF NodeInv, InputChecked
<1>2. SandboxInv'
  BY ExecuteInv, SandboxRests, ExecutionConstants DEF NodeInv, InputChecked
<1>3. ExecutionsTyped'
  BY NodeRunMoves DEF NodeInv, InputChecked
<1> QED BY <1>1, <1>2, <1>3 DEF NodeInv

LEMMA SandboxReturnedInv ==
    ASSUME NodeInv, NEW x \in Executions, SandboxReturned(x)
    PROVE  NodeInv'
<1>1. SandboxInv'
  BY SandboxRests DEF NodeInv, SandboxReturned
<1>2. ExecutionsTyped'
  <2>1. \/ executions' = [executions EXCEPT ![x].pc = "output"]
        \/ Settle(x, "FAILED")
    BY DEF SandboxReturned
  <2> QED BY <2>1, NodeRunMoves DEF NodeInv, SandboxReturned
<1>3. ValidatorInv'
  <2>1. CASE calls[x].answer = "ok"
    <3> DEFINE e == executions[x]
    <3>1. Validate(Output(x), <<e.node, "output">>, e.version.output, calls[x].result)
      BY <2>1 DEF SandboxReturned
    <3>2. e \in NodeRuns
      BY ExecutionKinds
      DEF NodeInv, ExecutionsTyped, TestRuns, NotStarted, SandboxReturned
    <3>3. calls[x].result \in Values
      BY ExecutionConstants, ExecutionsAssumption
      DEF NodeInv, SandboxInv, SandboxTypeOK, CallSet, NoCall
    <3>4. e.node \in Nodes /\ e.version \in Versions
      BY <3>2 DEF NodeRuns
    <3> HIDE DEF e
    <3>5. /\ Output(x) \in Validations /\ <<e.node, "output">> \in Contracts
          /\ e.version.output \in Contents
      BY <3>4, ExecutionConstants
    <3> QED BY <3>1, <3>3, <3>5, ValidateInv DEF NodeInv
  <2>2. CASE calls[x].answer # "ok"
    BY <2>2, ValidatorRests DEF NodeInv, SandboxReturned
  <2> QED BY <2>1, <2>2
<1> QED BY <1>1, <1>2, <1>3 DEF NodeInv

LEMMA OutputCheckedInv ==
    ASSUME NodeInv, NEW x \in Executions, OutputChecked(x)
    PROVE  NodeInv'
<1>1. ValidatorInv' /\ SandboxInv'
  BY ValidatorRests, SandboxRests DEF NodeInv, OutputChecked
<1>2. ExecutionsTyped'
  BY NodeRunMoves DEF NodeInv, OutputChecked
<1> QED BY <1>1, <1>2 DEF NodeInv

LEMMA TestReturnedInv ==
    ASSUME NodeInv, NEW x \in Executions, TestReturned(x)
    PROVE  NodeInv'
<1>1. ValidatorInv' /\ SandboxInv'
  BY ValidatorRests, SandboxRests DEF NodeInv, TestReturned
<1>2. ExecutionsTyped'
  <2>1. executions[x] \in TestRuns
    BY ExecutionKinds DEF NodeInv, ExecutionsTyped, TestReturned, NodeRuns, NotStarted
  <2>2. [executions[x] EXCEPT !.pc = "done"] \in TestRuns
    BY <2>1 DEF TestRuns
  <2> QED BY <2>2, ExecutionKinds DEF NodeInv, ExecutionsTyped, TestReturned
<1> QED BY <1>1, <1>2 DEF NodeInv

LEMMA ValidatorStepInv ==
    ASSUME NodeInv, NEW v \in Validations, ValidatorStep(v),
           UNCHANGED <<sandbox, executions>>
    PROVE  NodeInv'
<1>1. ValidatorInv'
  BY AddInv, StoreInv, CompileInv DEF NodeInv, ValidatorStep
<1> QED BY <1>1, SandboxRests DEF NodeInv, ExecutionsTyped

LEMMA OtherValidatesInv ==
    ASSUME NodeInv, NEW v \in Others, OtherValidates(v)
    PROVE  NodeInv'
<1>1. v \in Validations /\ UNCHANGED <<sandbox, executions>>
  BY ExecutionConstants DEF OtherValidates
<1>2. CASE ValidatorStep(v)
  BY <1>1, <1>2, ValidatorStepInv
<1>3. CASE \E contract \in Contracts, version \in Versions, value \in Inputs :
               Validate(v, contract, version[contract[2]], value)
  <2>1. PICK contract \in Contracts, version \in Versions, value \in Inputs :
               Validate(v, contract, version[contract[2]], value)
    BY <1>3
  <2>2. version[contract[2]] \in Contents
    BY <2>1, ExecutionConstants DEF Contracts
  <2>3. value \in Values
    BY <2>1, ExecutionConstants
  <2>4. ValidatorInv'
    BY <1>1, <2>1, <2>2, <2>3, ValidateInv DEF NodeInv
  <2> QED BY <1>1, <2>4, SandboxRests DEF NodeInv, ExecutionsTyped
<1> QED BY <1>2, <1>3 DEF OtherValidates

LEMMA CrashInv ==
    ASSUME NodeInv, Crash
    PROVE  NodeInv'
<1>1. ValidatorInv' /\ SandboxInv'
  BY ValidatorDiesInv, SandboxDiesInv DEF NodeInv, Crash
<1>2. ASSUME NEW x \in Executions
      PROVE  (IF Busy(x) THEN [executions[x] EXCEPT !.pc = "dead"] ELSE executions[x])
                 \in ExecutionSet \union {NotStarted}
  <2>1. CASE executions[x] \in NodeRuns
    <3>1. [executions[x] EXCEPT !.pc = "dead"] \in NodeRuns
      BY <2>1 DEF NodeRuns
    <3> QED BY <2>1, <3>1, ExecutionKinds
  <2>2. CASE executions[x] \in TestRuns
    <3>1. [executions[x] EXCEPT !.pc = "dead"] \in TestRuns
      BY <2>2 DEF TestRuns
    <3> QED BY <2>2, <3>1, ExecutionKinds
  <2>3. CASE executions[x] = NotStarted
    BY <2>3 DEF Busy, NotStarted
  <2> QED BY <2>1, <2>2, <2>3, ExecutionKinds DEF NodeInv, ExecutionsTyped
<1>3. ExecutionsTyped'
  BY <1>2 DEF ExecutionsTyped, Crash
<1> QED BY <1>1, <1>3 DEF NodeInv

-----------------------------------------------------------------------------
(* The invariant *)

LEMMA StepInv ==
    ASSUME NodeInv, NEW x \in Executions, Step(x)
    PROVE  NodeInv'
<1>1. CASE InputChecked(x)
  BY <1>1, InputCheckedInv
<1>2. CASE SandboxReturned(x)
  BY <1>2, SandboxReturnedInv
<1>3. CASE OutputChecked(x)
  BY <1>3, OutputCheckedInv
<1>4. CASE TestReturned(x)
  BY <1>4, TestReturnedInv
<1>5. CASE (ValidatorStep(Input(x)) \/ ValidatorStep(Output(x)))
              /\ UNCHANGED <<sandbox, executions>>
  BY <1>5, ValidatorStepInv, ExecutionConstants
<1>6. CASE CallStep(x) /\ UNCHANGED <<validator, executions>>
  BY <1>6, CallStepInv, ValidatorRests, ExecutionConstants DEF NodeInv, ExecutionsTyped
<1> QED BY <1>1, <1>2, <1>3, <1>4, <1>5, <1>6 DEF Step

LEMMA NextNodeInv == NodeInv /\ [Next]_vars => NodeInv'
<1> SUFFICES ASSUME NodeInv, [Next]_vars PROVE NodeInv'
  OBVIOUS
<1>1. CASE \E x \in Executions : \E node \in Nodes, version \in Versions, input \in Inputs :
               EnterNode(x, node, version, input)
  BY <1>1, EnterNodeInv
<1>2. CASE \E x \in Executions : RunTest(x)
  BY <1>2, RunTestInv
<1>3. CASE \E x \in Executions : Step(x)
  BY <1>3, StepInv
<1>4. CASE \E x \in Executions : Script(x) /\ UNCHANGED <<validator, executions>>
  BY <1>4, ScriptInv, ValidatorRests, ExecutionConstants DEF NodeInv, ExecutionsTyped
<1>5. CASE \E v \in Others : OtherValidates(v)
  BY <1>5, OtherValidatesInv
<1>6. CASE Crash
  BY <1>6, CrashInv
<1>7. CASE UNCHANGED vars
  BY <1>7, ValidatorRests, SandboxRests DEF NodeInv, ExecutionsTyped, vars
<1> QED BY <1>1, <1>2, <1>3, <1>4, <1>5, <1>6, <1>7 DEF Next

LEMMA AlwaysNodeInv == Spec => []NodeInv
BY InitNodeInv, NextNodeInv, PTL DEF Spec

-----------------------------------------------------------------------------
(* How executions get their results *)

\* An execution that is past a check has passed it, and its output is the result of
\* its call, checked against the contract of the version of the node it was given.
Passed(v, schema, value) ==
    /\ validating[v].pc = "accepted"
    /\ validating[v].schema = schema /\ validating[v].value = value

Checking(v, schema) == validating[v] # NoValidation /\ validating[v].schema = schema

Progress(x) ==
    LET e == executions[x] IN
    /\ e.pc \in {"input", "sandbox", "output", "dead"} => e.status = "RUNNING"
    /\ Checking(Input(x), e.version.input)
    /\ e.pc \in {"sandbox", "output"} \/ e.status = "SUCCESS" =>
          validating[Input(x)].pc = "accepted"
    /\ e.pc = "output" \/ e.status = "SUCCESS" =>
          /\ calls[x].pc = "done" /\ calls[x].answer = "ok"
          /\ Checking(Output(x), e.version.output)
          /\ validating[Output(x)].value = calls[x].result
    /\ e.status = "SUCCESS" => validating[Output(x)].pc = "accepted"

EarnedInv ==
    /\ NodeInv
    /\ \A x \in Executions : executions[x] \in NodeRuns => Progress(x)

\* What a validation was given stays, and so does its verdict.
Kept(v) ==
    /\ validating[v] # NoValidation =>
          /\ validating'[v] # NoValidation
          /\ validating'[v].schema = validating[v].schema
          /\ validating'[v].value = validating[v].value
    /\ validating[v].pc = "accepted" => validating'[v].pc = "accepted"

\* The answer of a call stays.
Answered(x) == calls[x].pc = "done" => calls'[x] = calls[x]

LEMMA ValidateKeeps ==
    ASSUME ValidatorTypeOK, NEW v \in Validations, NEW contract, NEW schema, NEW value,
           Validate(v, contract, schema, value)
    PROVE  /\ \A w \in Validations : Kept(w)
           /\ Checking(v, schema)' /\ validating'[v].value = value
<1> DEFINE r == [contract |-> contract, schema |-> schema, value |-> value,
                 pc |-> IF schema = NoSchema THEN "accepted" ELSE "add"]
<1>1. validating' = [validating EXCEPT ![v] = r] /\ validating[v] = NoValidation
  BY DEF Validate
<1>2. r # NoValidation /\ r.schema = schema /\ r.value = value
  <2>1. r.schema = schema /\ r.value = value /\ r.pc \in {"accepted", "add"}
    OBVIOUS
  <2> QED BY <2>1 DEF NoValidation
<1> HIDE DEF r
<1>3. validating'[v] = r /\ \A w \in Validations \ {v} : validating'[w] = validating[w]
  BY <1>1 DEF ValidatorTypeOK
<1>4. validating[v].pc # "accepted"
  BY <1>1 DEF NoValidation
<1> QED BY <1>1, <1>2, <1>3, <1>4 DEF Kept, Checking

LEMMA VerdictKeeps ==
    ASSUME ValidatorTypeOK, NEW v \in Validations, ValidatorStep(v)
    PROVE  \A w \in Validations : Kept(w)
<1>1. validating[v].pc \in {"add", "store", "compile"}
  BY DEF ValidatorStep, Add, Store, Compile
<1>2. validating[v] \in ValidationSet
  BY <1>1 DEF ValidatorTypeOK, NoValidation
<1>3. \E pc \in {"store", "compile", "accepted", "refused"} :
           validating' = [validating EXCEPT ![v].pc = pc]
  <2>1. CASE Add(v)
    BY <2>1 DEF Add
  <2>2. CASE Store(v)
    BY <2>2 DEF Store
  <2>3. CASE Compile(v)
    BY <2>3 DEF Compile, Verdict
  <2> QED BY <2>1, <2>2, <2>3 DEF ValidatorStep
<1>4. PICK pc \in {"store", "compile", "accepted", "refused"} :
           validating' = [validating EXCEPT ![v].pc = pc]
  BY <1>3
<1>5. /\ validating'[v] = [validating[v] EXCEPT !.pc = pc]
      /\ \A w \in Validations \ {v} : validating'[w] = validating[w]
  BY <1>4 DEF ValidatorTypeOK
<1>6. /\ validating'[v].pc = pc
      /\ validating'[v].schema = validating[v].schema
      /\ validating'[v].value = validating[v].value
  BY <1>2, <1>5 DEF ValidationSet
<1> QED BY <1>1, <1>4, <1>5, <1>6 DEF Kept, NoValidation

LEMMA DeathKeeps ==
    ASSUME ValidatorTypeOK, ValidatorDies
    PROVE  \A v \in Validations : Kept(v)
<1> TAKE v \in Validations
<1>1. CASE Working(v)
  <2>1. validating[v] \in ValidationSet
    BY <1>1 DEF ValidatorTypeOK, Working, NoValidation
  <2>2. validating'[v] = [validating[v] EXCEPT !.pc = "dead"]
    BY <1>1 DEF ValidatorDies
  <2>3. /\ validating'[v].pc = "dead"
        /\ validating'[v].schema = validating[v].schema
        /\ validating'[v].value = validating[v].value
    BY <2>1, <2>2 DEF ValidationSet
  <2> QED BY <1>1, <2>3 DEF Kept, Working, NoValidation
<1>2. CASE ~Working(v)
  BY <1>2 DEF ValidatorDies, Kept
<1> QED BY <1>1, <1>2

\* Whatever the sandbox does, a call that is done stays as it is.
LEMMA CallsAnswered ==
    ASSUME SandboxTypeOK, NEW c \in Calls,
           Execute(c) \/ CallStep(c) \/ Script(c) \/ SandboxDies \/ UNCHANGED sandbox
    PROVE  \A d \in Calls : Answered(d)
<1>1. CASE Execute(c) \/ CallStep(c)
  <2>1. calls[c].pc # "done"
    <3>1. CASE Execute(c)
      BY <3>1 DEF Execute, NoCall
    <3>2. CASE CallStep(c)
      BY <3>2 DEF CallStep, Create, Prepare, StartContainer, WaitReturns, Timeout, Read,
                  RemoveContainer
    <3> QED BY <1>1, <3>1, <3>2
  <2>2. \E u : calls' = [calls EXCEPT ![c] = u]
    <3>1. ASSUME NEW pc, To(c, pc) PROVE \E u : calls' = [calls EXCEPT ![c] = u]
      BY <3>1 DEF To
    <3>2. ASSUME NEW pc, NEW answer, Leave(c, pc, answer)
          PROVE  \E u : calls' = [calls EXCEPT ![c] = u]
      <4>1. calls' = [calls EXCEPT ![c] = [[calls[c] EXCEPT !.pc = pc] EXCEPT !.answer = answer]]
        BY <3>2 DEF Leave, SandboxTypeOK
      <4> QED BY <4>1
    <3>3. CASE Read(c)
      BY <3>3 DEF Read
    <3> QED BY <1>1, <3>1, <3>2, <3>3
          DEF Execute, CallStep, Create, Prepare, StartContainer, WaitReturns, Timeout,
              RemoveContainer
  <2>3. PICK u : calls' = [calls EXCEPT ![c] = u]
    BY <2>2
  <2> QED BY <2>1, <2>3 DEF SandboxTypeOK, Answered
<1>2. CASE Script(c)
  BY <1>2 DEF Script, EmitLine, ScriptEnds, Answered
<1>3. CASE SandboxDies
  BY <1>3 DEF SandboxDies, UnderWay, Answered
<1>4. CASE UNCHANGED sandbox
  BY <1>4 DEF sandbox, Answered
<1> QED BY <1>1, <1>2, <1>3, <1>4

\* An execution that stays where it is keeps what it has achieved.
LEMMA ProgressStays ==
    ASSUME NEW x \in Executions, Progress(x), executions'[x] = executions[x],
           Kept(Input(x)), Kept(Output(x)), Answered(x)
    PROVE  Progress(x)'
<1>1. Input(x)' = Input(x) /\ Output(x)' = Output(x)
  BY DEF Input, Output
<1> QED BY <1>1 DEF Progress, Checking, Kept, Answered

\* A step of one execution.
LEMMA OneExecutionMoves ==
    ASSUME EarnedInv, NodeInv', NEW x \in Executions,
           \A v \in Validations : Kept(v),
           \A y \in Executions : Answered(y),
           \A y \in Executions \ {x} : executions'[y] = executions[y],
           executions'[x] \in NodeRuns => Progress(x)'
    PROVE  EarnedInv'
<1>1. ASSUME NEW y \in Executions, y # x, executions'[y] \in NodeRuns PROVE Progress(y)'
  <2>1. Progress(y) /\ executions'[y] = executions[y]
    BY <1>1 DEF EarnedInv
  <2>2. Kept(Input(y)) /\ Kept(Output(y)) /\ Answered(y)
    BY ExecutionConstants
  <2> QED BY <2>1, <2>2, ProgressStays
<1>2. NodeRuns' = NodeRuns
  BY DEF NodeRuns
<1> QED BY <1>1, <1>2 DEF EarnedInv

\* The checks that belong to an execution are its own.
LEMMA EnterNodeEarns ==
    ASSUME EarnedInv, NEW x \in Executions, NEW node \in Nodes, NEW version \in Versions,
           NEW input \in Inputs, EnterNode(x, node, version, input)
    PROVE  EarnedInv'
<1> DEFINE r == [node |-> node, version |-> version, pc |-> "input", status |-> "RUNNING"]
<1>1. /\ executions' = [executions EXCEPT ![x] = r]
      /\ Validate(Input(x), <<node, "input">>, version.input, input)
      /\ UNCHANGED sandbox
  BY DEF EnterNode
<1>2. NodeInv' /\ ValidatorTypeOK /\ SandboxTypeOK
  BY EnterNodeInv DEF EarnedInv, NodeInv, ValidatorInv, SandboxInv
<1>3. /\ \A v \in Validations : Kept(v)
      /\ Checking(Input(x), version.input)'
  BY <1>1, <1>2, ExecutionConstants, ValidateKeeps
<1>4. \A y \in Executions : Answered(y)
  BY <1>1 DEF sandbox, Answered
<1>5. r.pc = "input" /\ r.status = "RUNNING" /\ r.version = version
  OBVIOUS
<1> HIDE DEF r
<1>6. executions'[x] = r /\ \A y \in Executions \ {x} : executions'[y] = executions[y]
  BY <1>1 DEF EarnedInv, NodeInv, ExecutionsTyped
<1>7. Progress(x)'
  <2>1. Input(x)' = Input(x)
    BY DEF Input
  <2> QED BY <1>3, <1>5, <1>6, <2>1 DEF Progress, Checking
<1> QED BY <1>2, <1>3, <1>4, <1>6, <1>7, OneExecutionMoves

LEMMA TestEarns ==
    ASSUME EarnedInv, NEW x \in Executions, RunTest(x) \/ TestReturned(x)
    PROVE  EarnedInv'
<1>1. NodeInv' /\ SandboxTypeOK
  BY RunTestInv, TestReturnedInv DEF EarnedInv, NodeInv, SandboxInv
<1>2. UNCHANGED validator /\ (Execute(x) \/ UNCHANGED sandbox)
  BY DEF RunTest, TestReturned
<1>3. \A v \in Validations : Kept(v)
  BY <1>2 DEF validator, Kept
<1>4. \A y \in Executions : Answered(y)
  BY <1>1, <1>2, CallsAnswered, ExecutionConstants
<1>5. /\ executions'[x] \notin NodeRuns
      /\ \A y \in Executions \ {x} : executions'[y] = executions[y]
  <2>1. CASE RunTest(x)
    BY <2>1 DEF EarnedInv, NodeInv, ExecutionsTyped, RunTest, NodeRuns
  <2>2. CASE TestReturned(x)
    <3>1. executions[x] \in TestRuns
      BY <2>2, ExecutionKinds DEF EarnedInv, NodeInv, ExecutionsTyped, TestReturned,
                                  NodeRuns, NotStarted
    <3>2. executions' = [executions EXCEPT ![x].pc = "done"]
      BY <2>2 DEF TestReturned
    <3>3. [executions[x] EXCEPT !.pc = "done"] \in TestRuns
      BY <3>1 DEF TestRuns
    <3>4. \A t \in TestRuns : t \notin NodeRuns
      BY DEF TestRuns, NodeRuns
    <3> QED BY <3>2, <3>3, <3>4 DEF EarnedInv, NodeInv, ExecutionsTyped
  <2> QED BY <2>1, <2>2
<1> QED BY <1>1, <1>3, <1>4, <1>5, OneExecutionMoves

\* How the record of an execution of a node changes.
LEMMA RecordMoves ==
    ASSUME ExecutionsTyped, NEW x \in Executions,
           executions[x].pc \in {"input", "sandbox", "output"},
           NEW pc, executions' = [executions EXCEPT ![x].pc = pc]
    PROVE  /\ executions'[x].pc = pc /\ executions'[x].status = executions[x].status
           /\ executions'[x].version = executions[x].version
           /\ \A y \in Executions \ {x} : executions'[y] = executions[y]
<1>1. executions[x] \in NodeRuns
  BY ExecutionKinds DEF ExecutionsTyped, TestRuns, NotStarted
<1> QED BY <1>1 DEF ExecutionsTyped, NodeRuns

LEMMA RecordSettles ==
    ASSUME ExecutionsTyped, NEW x \in Executions,
           executions[x].pc \in {"input", "sandbox", "output"},
           NEW status, Settle(x, status)
    PROVE  /\ executions'[x].pc = "done" /\ executions'[x].status = status
           /\ executions'[x].version = executions[x].version
           /\ \A y \in Executions \ {x} : executions'[y] = executions[y]
<1>1. executions[x] \in NodeRuns
  BY ExecutionKinds DEF ExecutionsTyped, TestRuns, NotStarted
<1> DEFINE u == [[executions[x] EXCEPT !.pc = "done"] EXCEPT !.status = status]
<1>2. executions' = [executions EXCEPT ![x] = u]
  BY DEF Settle, ExecutionsTyped
<1>3. u.pc = "done" /\ u.status = status /\ u.version = executions[x].version
  BY <1>1 DEF NodeRuns
<1> HIDE DEF u
<1> QED BY <1>1, <1>2, <1>3 DEF ExecutionsTyped

LEMMA InputCheckedEarns ==
    ASSUME EarnedInv, NEW x \in Executions, InputChecked(x)
    PROVE  EarnedInv'
<1>1. NodeInv' /\ SandboxTypeOK /\ ExecutionsTyped
  BY InputCheckedInv DEF EarnedInv, NodeInv, SandboxInv
<1>2. UNCHANGED validator /\ (Execute(x) \/ UNCHANGED sandbox) /\ executions[x].pc = "input"
  BY DEF InputChecked
<1>3. \A v \in Validations : Kept(v)
  BY <1>2 DEF validator, Kept
<1>4. \A y \in Executions : Answered(y)
  BY <1>1, <1>2, CallsAnswered, ExecutionConstants
<1>5. executions[x] \in NodeRuns /\ Progress(x)
  BY <1>1, <1>2, ExecutionKinds DEF EarnedInv, ExecutionsTyped, TestRuns, NotStarted
<1>6. executions[x].status = "RUNNING" /\ Checking(Input(x), executions[x].version.input)
  BY <1>2, <1>5 DEF Progress
<1>7. \/ /\ executions' = [executions EXCEPT ![x].pc = "sandbox"]
         /\ validating[Input(x)].pc = "accepted"
      \/ Settle(x, "FAILED")
  BY DEF InputChecked
<1>8. /\ executions'[x].version = executions[x].version
      /\ \/ /\ executions'[x].pc = "sandbox" /\ executions'[x].status = "RUNNING"
            /\ validating[Input(x)].pc = "accepted"
         \/ executions'[x].pc = "done" /\ executions'[x].status = "FAILED"
      /\ \A y \in Executions \ {x} : executions'[y] = executions[y]
  BY <1>1, <1>2, <1>6, <1>7, RecordMoves, RecordSettles
<1>9. Progress(x)'
  <2>1. Input(x)' = Input(x) /\ validating' = validating
    BY <1>2 DEF Input, validator
  <2> QED BY <1>6, <1>8, <2>1 DEF Progress, Checking
<1> QED BY <1>1, <1>3, <1>4, <1>8, <1>9, OneExecutionMoves

LEMMA SandboxReturnedEarns ==
    ASSUME EarnedInv, NEW x \in Executions, SandboxReturned(x)
    PROVE  EarnedInv'
<1>1. NodeInv' /\ SandboxTypeOK /\ ExecutionsTyped /\ ValidatorTypeOK
  BY SandboxReturnedInv DEF EarnedInv, NodeInv, SandboxInv, ValidatorInv
<1>2. UNCHANGED sandbox /\ executions[x].pc = "sandbox" /\ calls[x].pc = "done"
  BY DEF SandboxReturned
<1>3. executions[x] \in NodeRuns /\ Progress(x)
  BY <1>1, <1>2, ExecutionKinds DEF EarnedInv, ExecutionsTyped, TestRuns, NotStarted
<1>4. /\ executions[x].status = "RUNNING" /\ Checking(Input(x), executions[x].version.input)
      /\ validating[Input(x)].pc = "accepted"
  BY <1>2, <1>3 DEF Progress
<1>5. \A y \in Executions : Answered(y)
  BY <1>2 DEF sandbox, Answered
<1>6. CASE calls[x].answer = "ok"
  <2>1. /\ executions' = [executions EXCEPT ![x].pc = "output"]
        /\ Validate(Output(x), <<executions[x].node, "output">>,
                    executions[x].version.output, calls[x].result)
    BY <1>6 DEF SandboxReturned
  <2>2. /\ executions'[x].version = executions[x].version
        /\ executions'[x].pc = "output" /\ executions'[x].status = "RUNNING"
        /\ \A y \in Executions \ {x} : executions'[y] = executions[y]
    BY <1>1, <1>2, <1>4, <2>1, RecordMoves, RecordSettles
  <2>3. /\ \A v \in Validations : Kept(v)
        /\ \A schema : schema = executions[x].version.output => Checking(Output(x), schema)'
        /\ validating'[Output(x)].value = calls[x].result
    <3>1. PICK schema, value : schema = executions[x].version.output /\ value = calls[x].result
      OBVIOUS
    <3>2. Validate(Output(x), <<executions[x].node, "output">>, schema, value)
      BY <2>1, <3>1
    <3>3. /\ \A v \in Validations : Kept(v)
          /\ Checking(Output(x), schema)' /\ validating'[Output(x)].value = value
      <4>1. PICK contract : contract = <<executions[x].node, "output">>
        OBVIOUS
      <4>2. PICK v \in Validations : v = Output(x)
        BY ExecutionConstants
      <4>3. Validate(v, contract, schema, value)
        BY <3>2, <4>1, <4>2
      <4>4. /\ \A w \in Validations : Kept(w)
            /\ Checking(v, schema)' /\ validating'[v].value = value
        BY <1>1, <4>3, ValidateKeeps
      <4>5. v = Output(x)'
        BY <4>2 DEF Output
      <4> QED BY <4>2, <4>4, <4>5 DEF Checking
    <3> QED BY <3>1, <3>3
  <2>4. Progress(x)'
    <3>1. Input(x)' = Input(x) /\ Output(x)' = Output(x) /\ calls' = calls
      BY <1>2 DEF Input, Output, sandbox
    <3>2. Kept(Input(x))
      BY <2>3, ExecutionConstants
    <3> QED BY <1>2, <1>4, <1>6, <2>2, <2>3, <3>1, <3>2 DEF Progress, Checking, Kept
  <2> QED BY <1>1, <1>5, <2>2, <2>3, <2>4, OneExecutionMoves
<1>7. CASE calls[x].answer # "ok"
  <2>1. Settle(x, "FAILED") /\ UNCHANGED validator
    BY <1>7 DEF SandboxReturned
  <2>2. /\ executions'[x].version = executions[x].version
        /\ executions'[x].pc = "done" /\ executions'[x].status = "FAILED"
        /\ \A y \in Executions \ {x} : executions'[y] = executions[y]
    BY <1>1, <1>2, <2>1, RecordMoves, RecordSettles
  <2>3. \A v \in Validations : Kept(v)
    BY <2>1 DEF validator, Kept
  <2>4. Progress(x)'
    <3>1. Input(x)' = Input(x) /\ validating' = validating
      BY <2>1 DEF Input, validator
    <3> QED BY <1>4, <2>2, <3>1 DEF Progress, Checking
  <2> QED BY <1>1, <1>5, <2>2, <2>3, <2>4, OneExecutionMoves
<1> QED BY <1>6, <1>7

LEMMA OutputCheckedEarns ==
    ASSUME EarnedInv, NEW x \in Executions, OutputChecked(x)
    PROVE  EarnedInv'
<1>1. NodeInv' /\ ExecutionsTyped
  BY OutputCheckedInv DEF EarnedInv, NodeInv
<1>2. UNCHANGED <<validator, sandbox>> /\ executions[x].pc = "output"
  BY DEF OutputChecked
<1>3. executions[x] \in NodeRuns /\ Progress(x)
  BY <1>1, <1>2, ExecutionKinds DEF EarnedInv, ExecutionsTyped, TestRuns, NotStarted
<1>4. /\ \A v \in Validations : Kept(v)
      /\ \A y \in Executions : Answered(y)
  BY <1>2 DEF validator, sandbox, Kept, Answered
<1>5. /\ executions'[x].version = executions[x].version
      /\ executions'[x].pc = "done"
      /\ \/ executions'[x].status = "FAILED"
         \/ executions'[x].status = "SUCCESS" /\ validating[Output(x)].pc = "accepted"
      /\ \A y \in Executions \ {x} : executions'[y] = executions[y]
  <2>1. \/ validating[Output(x)].pc = "accepted" /\ Settle(x, "SUCCESS")
        \/ validating[Output(x)].pc = "refused" /\ Settle(x, "FAILED")
    BY DEF OutputChecked
  <2> QED BY <1>1, <1>2, <2>1, RecordMoves, RecordSettles
<1>6. Progress(x)'
  <2>1. /\ Input(x)' = Input(x) /\ Output(x)' = Output(x)
        /\ validating' = validating /\ calls' = calls
    BY <1>2 DEF Input, Output, validator, sandbox
  <2> QED BY <1>2, <1>3, <1>5, <2>1 DEF Progress, Checking
<1> QED BY <1>1, <1>4, <1>5, <1>6, OneExecutionMoves

\* Steps of the validator and of the sandbox leave executions where they are.
LEMMA OthersMoveEarned ==
    ASSUME EarnedInv, NodeInv', UNCHANGED executions,
           \A v \in Validations : Kept(v),
           \A y \in Executions : Answered(y)
    PROVE  EarnedInv'
<1>1. ASSUME NEW y \in Executions, executions'[y] \in NodeRuns PROVE Progress(y)'
  <2>1. Progress(y) /\ executions'[y] = executions[y]
    BY <1>1 DEF EarnedInv
  <2>2. Kept(Input(y)) /\ Kept(Output(y)) /\ Answered(y)
    BY ExecutionConstants
  <2> QED BY <2>1, <2>2, ProgressStays
<1>2. NodeRuns' = NodeRuns
  BY DEF NodeRuns
<1> QED BY <1>1, <1>2 DEF EarnedInv

LEMMA CrashEarns ==
    ASSUME EarnedInv, Crash
    PROVE  EarnedInv'
<1>1. /\ NodeInv' /\ ExecutionsTyped
      /\ \A v \in Validations : Kept(v)
      /\ \A y \in Executions : Answered(y)
  <2>1. ValidatorDies /\ SandboxDies /\ NodeInv'
    BY CrashInv DEF EarnedInv, Crash
  <2>2. \A y \in Executions : Answered(y)
    BY <2>1, CallsAnswered, ExecutionConstants DEF EarnedInv, NodeInv, SandboxInv
  <2> QED BY <2>1, <2>2, DeathKeeps DEF EarnedInv, NodeInv, ValidatorInv
<1>2. ASSUME NEW y \in Executions, executions'[y] \in NodeRuns PROVE Progress(y)'
  <2>1. Kept(Input(y)) /\ Kept(Output(y)) /\ Answered(y)
    BY <1>1, ExecutionConstants
  <2>2. executions'[y] = IF Busy(y) THEN [executions[y] EXCEPT !.pc = "dead"] ELSE executions[y]
    BY DEF Crash
  <2>3. CASE ~Busy(y)
    <3>1. executions'[y] = executions[y]
      BY <2>2, <2>3
    <3>2. Progress(y)
      BY <1>2, <3>1 DEF EarnedInv
    <3> QED BY <2>1, <3>1, <3>2, ProgressStays
  <2>4. CASE Busy(y)
    <3>1. executions[y] \in NodeRuns
      <4>1. executions[y] \notin TestRuns
        <5>1. SUFFICES ASSUME executions[y] \in TestRuns PROVE FALSE
          OBVIOUS
        <5>2. [executions[y] EXCEPT !.pc = "dead"] \in TestRuns
          BY <5>1 DEF TestRuns
        <5>3. \A t \in TestRuns : t \notin NodeRuns
          BY DEF TestRuns, NodeRuns
        <5> QED BY <1>2, <2>2, <2>4, <5>2, <5>3
      <4> QED BY <1>1, <2>4, <4>1, ExecutionKinds DEF ExecutionsTyped, Busy, NotStarted
    <3>2. /\ executions'[y].pc = "dead" /\ executions'[y].status = executions[y].status
          /\ executions'[y].version = executions[y].version
      BY <2>2, <2>4, <3>1 DEF NodeRuns
    <3>3. Progress(y) /\ executions[y].pc \in {"input", "sandbox", "output"}
      BY <2>4, <3>1 DEF EarnedInv, NodeRuns, Busy
    <3>4. Input(y)' = Input(y)
      BY DEF Input
    <3> QED BY <2>1, <3>2, <3>3, <3>4 DEF Progress, Checking, Kept
  <2> QED BY <2>3, <2>4
<1>3. NodeRuns' = NodeRuns
  BY DEF NodeRuns
<1> QED BY <1>1, <1>2, <1>3 DEF EarnedInv

LEMMA StepEarns ==
    ASSUME EarnedInv, NEW x \in Executions, Step(x)
    PROVE  EarnedInv'
<1>1. CASE InputChecked(x)
  BY <1>1, InputCheckedEarns
<1>2. CASE SandboxReturned(x)
  BY <1>2, SandboxReturnedEarns
<1>3. CASE OutputChecked(x)
  BY <1>3, OutputCheckedEarns
<1>4. CASE TestReturned(x)
  BY <1>4, TestEarns
<1>5. NodeInv' /\ ValidatorTypeOK /\ SandboxTypeOK
  BY StepInv DEF EarnedInv, NodeInv, ValidatorInv, SandboxInv
<1>6. CASE (ValidatorStep(Input(x)) \/ ValidatorStep(Output(x)))
              /\ UNCHANGED <<sandbox, executions>>
  <2>1. \A v \in Validations : Kept(v)
    BY <1>5, <1>6, VerdictKeeps, ExecutionConstants
  <2>2. \A y \in Executions : Answered(y)
    BY <1>6 DEF sandbox, Answered
  <2> QED BY <1>5, <1>6, <2>1, <2>2, OthersMoveEarned
<1>7. CASE CallStep(x) /\ UNCHANGED <<validator, executions>>
  <2>1. \A v \in Validations : Kept(v)
    BY <1>7 DEF validator, Kept
  <2>2. \A y \in Executions : Answered(y)
    BY <1>5, <1>7, CallsAnswered, ExecutionConstants
  <2> QED BY <1>5, <1>7, <2>1, <2>2, OthersMoveEarned
<1> QED BY <1>1, <1>2, <1>3, <1>4, <1>6, <1>7 DEF Step

LEMMA NextEarns == EarnedInv /\ [Next]_vars => EarnedInv'
<1> SUFFICES ASSUME EarnedInv, [Next]_vars PROVE EarnedInv'
  OBVIOUS
<1>0. NodeInv' /\ ValidatorTypeOK /\ SandboxTypeOK
  BY NextNodeInv DEF EarnedInv, NodeInv, ValidatorInv, SandboxInv
<1>1. CASE \E x \in Executions : \E node \in Nodes, version \in Versions, input \in Inputs :
               EnterNode(x, node, version, input)
  BY <1>1, EnterNodeEarns
<1>2. CASE \E x \in Executions : RunTest(x)
  BY <1>2, TestEarns
<1>3. CASE \E x \in Executions : Step(x)
  BY <1>3, StepEarns
<1>4. CASE \E x \in Executions : Script(x) /\ UNCHANGED <<validator, executions>>
  <2>1. \A v \in Validations : Kept(v)
    BY <1>4 DEF validator, Kept
  <2>2. \A y \in Executions : Answered(y)
    BY <1>0, <1>4, CallsAnswered, ExecutionConstants
  <2> QED BY <1>0, <1>4, <2>1, <2>2, OthersMoveEarned
<1>5. CASE \E v \in Others : OtherValidates(v)
  <2>1. PICK v \in Others : OtherValidates(v)
    BY <1>5
  <2>2. UNCHANGED <<sandbox, executions>> /\ v \in Validations
    BY <2>1, ExecutionConstants DEF OtherValidates
  <2>3. \A w \in Validations : Kept(w)
    <3>1. CASE ValidatorStep(v)
      BY <1>0, <2>2, <3>1, VerdictKeeps
    <3>2. CASE \E contract \in Contracts, version \in Versions, value \in Inputs :
                   Validate(v, contract, version[contract[2]], value)
      BY <1>0, <2>2, <3>2, ValidateKeeps
    <3> QED BY <2>1, <3>1, <3>2 DEF OtherValidates
  <2>4. \A y \in Executions : Answered(y)
    BY <2>2 DEF sandbox, Answered
  <2> QED BY <1>0, <2>2, <2>3, <2>4, OthersMoveEarned
<1>6. CASE Crash
  BY <1>6, CrashEarns
<1>7. CASE UNCHANGED vars
  <2>1. /\ \A v \in Validations : Kept(v)
        /\ \A y \in Executions : Answered(y)
    BY <1>7 DEF vars, validator, sandbox, Kept, Answered
  <2> QED BY <1>0, <1>7, <2>1, OthersMoveEarned DEF vars
<1> QED BY <1>1, <1>2, <1>3, <1>4, <1>5, <1>6, <1>7 DEF Next

LEMMA AlwaysEarned == Spec => []EarnedInv
<1>1. Init => EarnedInv
  <2>1. Init => \A x \in Executions : executions[x] \notin NodeRuns
    BY DEF Init, NodeRuns, NotStarted
  <2> QED BY <2>1, InitNodeInv DEF EarnedInv
<1> QED BY <1>1, NextEarns, PTL DEF Spec

-----------------------------------------------------------------------------
(* The promises *)

\* However goroutines share the compiler and nodes are updated between runs, what
\* the validator accepts meets a schema it was to be checked against or that of a
\* call that raced with it, and a call that is alone gets the verdict it deserves.
THEOREM VerdictsAlwaysSound == Spec => []VerdictsAreSound
<1>1. NodeInv => VerdictsAreSound
  BY DEF NodeInv, ValidatorInv, Sound, VerdictsAreSound
<1> QED BY <1>1, AlwaysNodeInv, PTL

\* Whichever request to Docker fails, and however the script and the timeout race,
\* Execute leaves no container behind that Docker did not fail to report or to
\* remove.
THEOREM ContainersAreRemoved == Spec => []NoContainerOutlivesItsCall
<1>1. NodeInv => NoContainerOutlivesItsCall
  BY DEF NodeInv, SandboxInv, Reasons, NoContainerOutlivesItsCall
<1> QED BY <1>1, AlwaysNodeInv, PTL

\* Every variable always holds values of its type.
THEOREM Types == Spec => []TypeOK
<1>1. NodeInv => TypeOK
  BY DEF NodeInv, ValidatorInv, SandboxInv, ExecutionsTyped, TypeOK
<1> QED BY <1>1, AlwaysNodeInv, PTL

\* A node succeeds only if its script ended with status zero, with a result that the
\* script printed, the last one where nothing was cut; and, where no other call of
\* the same contract was under way, its input and its output meet the contracts of
\* the version of the node that the run was loaded with.
THEOREM NodesEarnSuccess == Spec => []SuccessIsEarned
<1>1. EarnedInv => SuccessIsEarned
  <2> SUFFICES ASSUME EarnedInv, NEW x \in Executions, Ran(x)
               PROVE  LET passed == validating[Output(x)].value
                          schema == executions[x].version.output
                      IN
                      /\ container[x] \in {"zero", "none"}
                      /\ ResultOf(x, passed)
                      /\ rivals[Output(x)] = {} => schema = NoSchema \/ <<schema, passed>> \in Meets
                      /\ rivals[Input(x)] = {} =>
                            \/ executions[x].version.input = NoSchema
                            \/ <<executions[x].version.input, validating[Input(x)].value>> \in Meets
    BY DEF SuccessIsEarned
  <2>1. executions[x] \in NodeRuns /\ executions[x].status = "SUCCESS"
    BY ExecutionKinds DEF Ran, EarnedInv, NodeInv, ExecutionsTyped, TestRuns, NotStarted
  <2>2. Progress(x)
    BY <2>1 DEF EarnedInv
  <2>3. /\ calls[x].answer = "ok" /\ validating[Output(x)].value = calls[x].result
        /\ validating[Output(x)].pc = "accepted" /\ validating[Input(x)].pc = "accepted"
        /\ validating[Output(x)].schema = executions[x].version.output
        /\ validating[Input(x)].schema = executions[x].version.input
    BY <2>1, <2>2 DEF Progress, Checking
  <2>4. Ended(x)
    BY ExecutionConstants DEF EarnedInv, NodeInv, SandboxInv
  <2>5. Sound(Input(x)) /\ Sound(Output(x))
    BY ExecutionConstants DEF EarnedInv, NodeInv, ValidatorInv
  <2> QED BY <2>3, <2>4, <2>5 DEF Ended, Sound
<1> QED BY <1>1, AlwaysEarned, PTL
=============================================================================
