---------------------------- MODULE JobLifecycle ----------------------------
(***************************************************************************)
(* The life of one research job: POST /research inserts the row and        *)
(* enqueues it, the arq worker runs it, DELETE /research/{id} cancels it.  *)
(*                                                                         *)
(* A transaction of the code is two steps here: the read of the row and    *)
(* the commit, with other processes' commits in between (READ COMMITTED).  *)
(* Jobs share no row, so one job is enough.                                *)
(*                                                                         *)
(* arq delivers at least once: an execution the shutdown or the crash of   *)
(* its worker cuts short is run again, at most MaxTries times; an          *)
(* execution that outlives job_timeout is not.  Executions of one job      *)
(* never overlap.                                                          *)
(*                                                                         *)
(* A definition named X_Y is a mutated form of X, kept to check that the   *)
(* properties tell it from X; no specification uses it.                    *)
(***************************************************************************)
EXTENDS Naturals, JobStatus

CONSTANTS MaxTries,        \* arq's max_tries
          MaxRounds,       \* bound on the rounds of one execution
          Clients,         \* the API requests that cancel the job, one each
          Faults           \* what may go wrong in this environment

\* "research": run_research raises        "database": a transaction raises
\* "webhook":  fire_webhook raises        "enqueue":  Redis is down at submission
\* "timeout":  the execution outlives job_timeout
\* "restart":  the worker shuts down or crashes
FaultKinds == {"research", "database", "webhook", "enqueue", "timeout", "restart"}

ASSUME MaxTriesAssumption == MaxTries \in Nat \ {0}
ASSUME MaxRoundsAssumption == MaxRounds \in Nat
ASSUME FaultsAssumption == Faults \subseteq FaultKinds

VARIABLES
  status,     \* research_jobs.status; "none": there is no row
  finished,   \* research_jobs.finished_at is set
  report,     \* the execution that wrote the reports row (job_id unique), or 0
  usage,      \* the execution that wrote the usage_records row (job_id unique), or 0
  events,     \* the webhook payloads fire_webhook built
  queue,      \* arq's message: "absent", "queued", "in_progress" or "done"
  tries,      \* deliveries of the message so far; names the execution
  pc,         \* where the worker's coroutine is; "idle": no execution
  seen,       \* the status its open transaction read
  llm,        \* an LLM client was built
  noticed,    \* cancel_event is set
  outcome,    \* the status run_research returned
  rounds,     \* on_progress calls of this execution
  late,       \* those that stored rows although the job read "cancelled"
  submitter,  \* the POST request
  client,     \* the cancel requests
  cseen       \* the status each of them read

row == <<status, finished, report, usage>>
arq == <<queue, tries>>
local == <<seen, llm, noticed, outcome, rounds, late>>
api == <<submitter, client, cseen>>
vars == <<row, events, arq, pc, local, api>>

Execution == 1..MaxTries
------------------------------------------------------------------------------
Init ==
  /\ status = "none" /\ finished = FALSE
  /\ report = 0 /\ usage = 0
  /\ events = {}
  /\ queue = "absent" /\ tries = 0
  /\ pc = "idle"
  /\ seen = "none" /\ llm = FALSE /\ noticed = FALSE
  /\ outcome = "completed" /\ rounds = 0 /\ late = 0
  /\ submitter = "ready"
  /\ client = [c \in Clients |-> "ready"]
  /\ cseen = [c \in Clients |-> "none"]

(***************************************************************************)
(* SQLAlchemy writes a column only when its value differs from the one the *)
(* session read, so an assignment of the value read leaves the row's       *)
(* current value alone.                                                    *)
(***************************************************************************)
Assign(read, new) == IF new = read THEN status ELSE new

Goto(label) == pc' = label

\* The coroutine returns, or raises out of the function.
Leave == Goto("return")

Raise_Uncaught(fault) ==
  /\ fault \in Faults
  /\ Leave
  /\ UNCHANGED <<row, events, arq, local>>

\* An exception reaches the except clause of run_research_job.
Raise(fault) ==
  /\ fault \in Faults
  /\ Goto("handler")
  /\ UNCHANGED <<row, events, arq, local>>
------------------------------------------------------------------------------
(* POST /research: the row is committed, then the job is enqueued. *)

SubmitInsert ==
  /\ submitter = "ready"
  /\ submitter' = "inserted"
  /\ status' = "queued"
  /\ UNCHANGED <<finished, report, usage, events, arq, pc, local, client, cseen>>

SubmitEnqueue ==
  /\ submitter = "inserted"
  /\ \/ /\ submitter' = "accepted"
        /\ queue' = "queued"
     \/ /\ "enqueue" \in Faults       \* the request fails, the row stays
        /\ submitter' = "failed"
        /\ UNCHANGED queue
  /\ UNCHANGED <<row, events, tries, pc, local, client, cseen>>

------------------------------------------------------------------------------
(* DELETE /research/{id} *)

CancelRead(c) ==
  /\ submitter = "accepted"           \* the client has the job's id
  /\ client[c] = "ready"
  /\ cseen' = [cseen EXCEPT ![c] = status]
  /\ client' = [client EXCEPT ![c] = IF status \in ApiFinal THEN "409" ELSE "deciding"]
  /\ UNCHANGED <<row, events, arq, pc, local, submitter>>

CancelCommit(c) ==
  /\ client[c] = "deciding"
  /\ client' = [client EXCEPT ![c] = "204"]
  /\ status' = Assign(cseen[c], "cancelled")
  /\ finished' = TRUE
  /\ UNCHANGED <<report, usage, events, arq, pc, local, submitter, cseen>>
------------------------------------------------------------------------------
(* arq *)

Deliver_NoMaxTries ==
  /\ queue = "queued" /\ pc = "idle"
  /\ tries' = tries + 1
  /\ queue' = "in_progress"
  /\ Goto("start")
  /\ llm' = FALSE /\ noticed' = FALSE /\ rounds' = 0 /\ late' = 0
  /\ UNCHANGED <<row, events, seen, outcome, api>>

Deliver ==
  /\ queue = "queued" /\ pc = "idle"
  /\ IF tries < MaxTries
       THEN /\ tries' = tries + 1
            /\ queue' = "in_progress"
            /\ Goto("start")
            /\ llm' = FALSE /\ noticed' = FALSE /\ rounds' = 0 /\ late' = 0
       ELSE /\ queue' = "done"
            /\ UNCHANGED <<tries, pc, llm, noticed, rounds, late>>
  /\ UNCHANGED <<row, events, seen, outcome, api>>

\* The function is over, however it ended: arq drops the message.
Finish ==
  /\ pc = "return"
  /\ Goto("idle")
  /\ queue' = "done"
  /\ UNCHANGED <<row, events, tries, local, api>>

\* A CancelledError is no Exception: neither the handler nor the rollback runs,
\* and what the open transaction wrote is gone.
Timeout ==
  /\ "timeout" \in Faults /\ pc \notin {"idle", "return"}
  /\ Leave
  /\ UNCHANGED <<row, events, arq, local, api>>

Restart_Requeues ==
  /\ "restart" \in Faults /\ pc # "idle"
  /\ Goto("idle")
  /\ queue' = "queued"
  /\ status' = "queued"
  /\ UNCHANGED <<finished, report, usage, events, tries, local, api>>

Restart ==
  /\ "restart" \in Faults /\ pc # "idle"
  /\ Goto("idle")
  /\ queue' = "queued"
  /\ UNCHANGED <<row, events, tries, local, api>>
------------------------------------------------------------------------------
(* run_research_job: the first transaction *)

StartRead ==
  /\ pc = "start"
  /\ IF status \in {"none", "cancelled"}
       THEN Leave /\ UNCHANGED <<seen, llm>>
       ELSE /\ Goto("starting")
            /\ seen' = status
            /\ llm' \in BOOLEAN        \* was a backend found and restored?
  /\ UNCHANGED <<row, events, arq, noticed, outcome, rounds, late, api>>

StartCommit ==
  /\ pc = "starting"
  /\ IF llm
       THEN /\ status' = Assign(seen, "running")
            /\ Goto("research")
            /\ UNCHANGED finished
       ELSE /\ status' = Assign(seen, "failed")
            /\ finished' = TRUE
            /\ Leave
  /\ UNCHANGED <<report, usage, events, arq, local, api>>

StartRaise == pc \in {"start", "starting"} /\ Raise("database") /\ UNCHANGED api
------------------------------------------------------------------------------
(* run_research, as far as the job's rows go, and its on_progress callback *)

ProgressRead_Blind ==
  /\ pc = "research" /\ rounds < MaxRounds /\ ~noticed
  /\ Goto("progress")
  /\ UNCHANGED <<row, events, arq, local, api>>

ProgressRead ==
  /\ pc = "research" /\ rounds < MaxRounds /\ ~noticed
  /\ IF status = "cancelled"
       THEN noticed' = TRUE /\ UNCHANGED pc
       ELSE Goto("progress") /\ UNCHANGED noticed
  /\ UNCHANGED <<row, events, arq, seen, llm, outcome, rounds, late, api>>

\* The round's sources and claims are stored; the status is not written.
ProgressCommit ==
  /\ pc = "progress"
  /\ Goto("research")
  /\ rounds' = rounds + 1
  /\ late' = IF status = "cancelled" THEN late + 1 ELSE late
  /\ UNCHANGED <<row, events, arq, seen, llm, noticed, outcome, api>>

\* A cancelled run returns like any other: the loop ends and a report is made.
ResearchReturn ==
  /\ pc = "research"
  /\ outcome' \in Done
  /\ Goto("publish")
  /\ UNCHANGED <<row, events, arq, seen, llm, noticed, rounds, late, api>>

ResearchRaise ==
  /\ pc \in {"research", "progress"}
  /\ Raise("research") \/ Raise("database")
  /\ UNCHANGED api
------------------------------------------------------------------------------
(* run_research_job: the last transaction *)

\* The status is committed before the report.
PublishRead_StatusFirst ==
  /\ pc = "publish"
  /\ seen' = status
  /\ status' = outcome
  /\ Goto("publishing")
  /\ UNCHANGED <<finished, report, usage, events, arq, llm, noticed, outcome, rounds, late, api>>

\* The webhook is fired before the commit.
PublishRead_NotifyFirst ==
  /\ pc = "publish"
  /\ seen' = status
  /\ events' = events \cup {[event |-> "research.completed", status |-> status, report |-> report]}
  /\ Goto("publishing")
  /\ UNCHANGED <<row, arq, llm, noticed, outcome, rounds, late, api>>

PublishRead ==
  /\ pc = "publish"
  /\ seen' = status
  /\ Goto("publishing")
  /\ UNCHANGED <<row, events, arq, llm, noticed, outcome, rounds, late, api>>

RowsAreFree_ReportOnly == report = 0

\* reports.job_id and usage_records.job_id are unique: a second row raises.
RowsAreFree == report = 0 /\ usage = 0

PublishCommit ==
  /\ pc = "publishing"
  /\ IF RowsAreFree
       THEN /\ report' = tries /\ usage' = tries
            /\ status' = Assign(seen, outcome)
            /\ finished' = TRUE
            /\ Goto("notify")
       ELSE Goto("handler") /\ UNCHANGED row
  /\ UNCHANGED <<events, arq, local, api>>

PublishRaise == pc \in {"publish", "publishing"} /\ Raise("database") /\ UNCHANGED api
------------------------------------------------------------------------------
(* run_research_job: the except clause *)

HandlerRead ==
  /\ pc = "handler"
  /\ seen' = status
  /\ Goto("handling")
  /\ UNCHANGED <<row, events, arq, llm, noticed, outcome, rounds, late, api>>

BillingRaises_NotUnique == FALSE

\* With a client the failure is billed, and a second usage row raises.
BillingRaises == llm /\ usage # 0

\* The whole transaction is then undone and the exception leaves the function.
HandlerCommit ==
  /\ pc = "handling"
  /\ IF BillingRaises
       THEN Leave /\ UNCHANGED row
       ELSE /\ status' = Assign(seen, "failed")
            /\ finished' = TRUE
            /\ usage' = IF llm THEN tries ELSE usage
            /\ Goto("notify_failed")
            /\ UNCHANGED report
  /\ UNCHANGED <<events, arq, local, api>>

HandlerRaise ==
  /\ pc \in {"handler", "handling"} /\ "database" \in Faults
  /\ Leave
  /\ UNCHANGED <<row, events, arq, local, api>>
------------------------------------------------------------------------------
(* fire_webhook reads the job and its report again, in a transaction of its own. *)
(* Some endpoint is registered: without one no payload is built.                 *)

Payload(type) == [event |-> type, status |-> status, report |-> report]

Notify ==
  /\ pc = "notify"
  /\ events' = events \cup {Payload("research.completed")}
  /\ Leave
  /\ UNCHANGED <<row, arq, local, api>>

\* It may raise before or after some endpoint's delivery is enqueued.
NotifyRaise ==
  /\ pc = "notify" /\ "webhook" \in Faults
  /\ Goto("handler")
  /\ events' \in {events, events \cup {Payload("research.completed")}}
  /\ UNCHANGED <<row, arq, local, api>>

NotifyFailed ==
  /\ pc = "notify_failed"
  /\ \/ events' = events \cup {Payload("research.failed")}
     \/ "webhook" \in Faults /\ UNCHANGED events
  /\ Leave
  /\ UNCHANGED <<row, arq, local, api>>
------------------------------------------------------------------------------
Worker ==
  \/ StartRead \/ StartCommit \/ StartRaise
  \/ ProgressRead \/ ProgressCommit
  \/ ResearchReturn \/ ResearchRaise
  \/ PublishRead \/ PublishCommit \/ PublishRaise
  \/ HandlerRead \/ HandlerCommit \/ HandlerRaise
  \/ Notify \/ NotifyRaise \/ NotifyFailed

Submitter == SubmitInsert \/ SubmitEnqueue

Next ==
  \/ Submitter
  \/ \E c \in Clients : CancelRead(c) \/ CancelCommit(c)
  \/ Deliver \/ Finish
  \/ Timeout \/ Restart
  \/ Worker

Spec == Init /\ [][Next]_vars

(***************************************************************************)
(* asyncio resumes a coroutine whose await is over, so the worker and a    *)
(* request under way go on; arq polls its queue.  Nobody has to submit or  *)
(* cancel, and no fault has to happen.                                     *)
(***************************************************************************)
Fairness ==
  /\ WF_vars(Worker)
  /\ WF_vars(Deliver \/ Finish)
  /\ WF_vars(SubmitEnqueue)
  /\ \A c \in Clients : WF_vars(CancelCommit(c))

FairSpec == Spec /\ Fairness
------------------------------------------------------------------------------
PC == {"idle", "start", "starting", "research", "progress", "publish", "publishing",
       "notify", "handler", "handling", "notify_failed", "return"}

RowType ==
  /\ status \in Status /\ finished \in BOOLEAN
  /\ report \in 0..MaxTries /\ usage \in 0..MaxTries

PayloadType == [event : {"research.completed", "research.failed"},
                status : Status, report : 0..MaxTries]

ArqType ==
  /\ queue \in {"absent", "queued", "in_progress", "done"}
  /\ tries \in 0..MaxTries
  /\ pc \in PC

LocalType ==
  /\ seen \in Status /\ llm \in BOOLEAN /\ noticed \in BOOLEAN
  /\ outcome \in Done /\ rounds \in Nat /\ late \in Nat

ApiType ==
  /\ submitter \in {"ready", "inserted", "accepted", "failed"}
  /\ client \in [Clients -> {"ready", "deciding", "204", "409"}]
  /\ cseen \in [Clients -> Status]

\* The types of the variables.
TypeOK ==
  /\ RowType
  /\ events \subseteq PayloadType
  /\ ArqType
  /\ LocalType
  /\ ApiType

(***************************************************************************)
(* Safety under every fault.                                               *)
(***************************************************************************)

\* The report and the usage row of a job are the work of the same execution:
\* an execution that finds either row taken publishes neither.
ReportIsBilled == report # 0 => usage = report

\* A job that reads "completed" or "completed_with_warnings" has its report, in
\* whatever order executions, cancellations and failures were committed.
DoneHasReport == status \in Done => report # 0

\* A re-execution never replaces the report a client may already have read, and
\* never bills the job a second time.
RowsWrittenOnce ==
  [][/\ report # 0 => report' = report
     /\ usage # 0 => usage' = usage]_vars

\* A payload that announces completion carries the report's URL.
CompletionCarriesReport ==
  \A e \in events : e.event = "research.completed" => e.report # 0

\* Once the row says "cancelled", an execution stores at most the one round
\* whose progress callback had already read the row.
OneLateRound == late <= 1

\* The rows change as JobRecord promises.
Record == INSTANCE JobRecord WITH Executions <- Execution
ImplementsRecord == Record!Spec

(***************************************************************************)
(* Where nothing cuts an execution short and the database answers: Faults  *)
(* is a subset of {"research", "webhook"}.                                 *)
(***************************************************************************)

\* A subscriber is never told both that a job completed and that it failed.
OneVerdict ==
  \A e, f \in events : e.event = f.event

\* Whatever the webhook or the handler meets, nobody but a cancel request overwrites the
\* verdict of a job, and only "cancelled" replaces it.  To "completed" and "failed" that
\* happens only by a request that had read the row while the job was still active; to
\* "completed_with_warnings", which ApiFinal leaves out, also by one sent long afterwards.
VerdictIsKept ==
  [][\A v \in Done \cup {"failed"} : status = v /\ status' # v =>
       /\ status' = "cancelled"
       /\ \E c \in Clients :
            /\ client[c] = "deciding" /\ client'[c] = "204"
            /\ \/ cseen[c] \in {"queued", "running"}
               \/ v = "completed_with_warnings" /\ cseen[c] = v]_vars

\* Every accepted job is eventually over, and stays over.
EveryJobEnds == (submitter = "accepted") ~> [](status \in Terminal)

(***************************************************************************)
(* What the documents say and the code does not do.                        *)
(***************************************************************************)

\* docs/api.md: DELETE cancels an active job.  A job that was running when it was read and
\* whose cancellation was then acknowledged does not end up done.
AcknowledgedCancelHolds ==
  (\E c \in Clients : client[c] = "204" /\ cseen[c] = "running") => status \notin Done
==============================================================================
