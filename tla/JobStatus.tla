----------------------------- MODULE JobStatus ------------------------------
(***************************************************************************)
(* The values the code gives research_jobs.status.  "none" stands for a    *)
(* row that does not exist.  The engine decides between the two values of  *)
(* Done; the column itself is a plain string.                              *)
(***************************************************************************)

Done == {"completed", "completed_with_warnings"}

\* The values no transition of a normal run leaves.
Terminal == Done \cup {"failed", "cancelled"}

\* The three values the API knows as final: DELETE answers 409 to them and the
\* event stream ends at them.  "completed_with_warnings" is not among them.
ApiFinal == {"completed", "failed", "cancelled"}

Status == {"none", "queued", "running"} \cup Terminal
=============================================================================
