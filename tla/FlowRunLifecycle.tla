-------------------------- MODULE FlowRunLifecycle --------------------------
(***************************************************************************)
(* What a client that polls GET /runs/{runID} may rely on: the life of the *)
(* status of a flow run, whatever nodes, branches and pauses lie behind    *)
(* it.  The orchestrator is checked to implement this specification.       *)
(***************************************************************************)
CONSTANT Runs
VARIABLE status

Start(run) ==
    /\ status[run] = "none"
    /\ status' = [status EXCEPT ![run] = "RUNNING"]

\* A run that is paused can be paused again: for the client nothing changes.
Pause(run) ==
    /\ status[run] = "RUNNING"
    /\ status' = [status EXCEPT ![run] = "WAITING_FEEDBACK"]

\* A final status is reached once and never left.
Finish(run) ==
    /\ status[run] \in {"RUNNING", "WAITING_FEEDBACK"}
    /\ \E final \in {"SUCCESS", "FAILED"} :
          status' = [status EXCEPT ![run] = final]

Init == status = [run \in Runs |-> "none"]
Next == \E run \in Runs : Start(run) \/ Pause(run) \/ Finish(run)
Spec == Init /\ [][Next]_status

\* A run that was started does not stay RUNNING.
Progress == \A run \in Runs : WF_status(Pause(run) \/ (status[run] = "RUNNING" /\ Finish(run)))
FairSpec == Spec /\ Progress
=============================================================================
