------------------------------ MODULE JobRecord ------------------------------
(***************************************************************************)
(* What the research_jobs, reports and usage_records rows of one job       *)
(* promise to those who read them (the poll, the event stream, the         *)
(* webhook, the export and the chat), however the API process and the      *)
(* worker interleave and however often the queue runs the job again:       *)
(*                                                                         *)
(*   - the report, the usage row and a "done" status appear in one step;   *)
(*   - a report and a usage row, once written, are never replaced;         *)
(*   - the job is queued once, and never again;                            *)
(*   - nothing but the publication of a report makes the status "done".    *)
(*                                                                         *)
(* JobLifecycle, which has the transactions in their steps, implements it. *)
(***************************************************************************)
EXTENDS Naturals, JobStatus

CONSTANT Executions        \* the executions of the job, numbered from 1

VARIABLES status,          \* research_jobs.status; "none": there is no row
          report,          \* the execution that wrote the reports row, or 0
          usage            \* the execution that wrote the usage_records row, or 0

recordVars == <<status, report, usage>>

TypeOK ==
  /\ status \in Status
  /\ report \in Executions \cup {0}
  /\ usage \in Executions \cup {0}

Init ==
  /\ status = "none"
  /\ report = 0
  /\ usage = 0

Submit ==
  /\ status = "none"
  /\ status' = "queued"
  /\ UNCHANGED <<report, usage>>

\* An execution takes the job, whatever became of the job since it was queued.
Start ==
  /\ status # "none"
  /\ status' = "running"
  /\ UNCHANGED <<report, usage>>

Publish(e) ==
  /\ status # "none"
  /\ report = 0 /\ usage = 0
  /\ status' \in Done
  /\ report' = e
  /\ usage' = e

\* A failure bills the job unless a row says it is billed, or no model was reached.
Fail(e) ==
  /\ status # "none"
  /\ status' \in {status, "failed"}
  /\ usage' \in {usage} \cup (IF usage = 0 THEN {e} ELSE {})
  /\ UNCHANGED report

Cancel ==
  /\ status # "none"
  /\ status' = "cancelled"
  /\ UNCHANGED <<report, usage>>

Next ==
  \/ Submit
  \/ Start
  \/ \E e \in Executions : Publish(e) \/ Fail(e)
  \/ Cancel

Spec == Init /\ [][Next]_recordVars
==============================================================================
