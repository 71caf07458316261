----------------------------- MODULE JobClients -----------------------------
(***************************************************************************)
(* A job and those who follow it: the worker commits what JobRecord        *)
(* allows, in the order of run_research_job and with the progress, the     *)
(* sources and the webhooks of each commit, while clients read and         *)
(* endpoints are told.  A transaction is one step here; JobLifecycle shows *)
(* that its two steps come to the same rows.                               *)
(*                                                                         *)
(* A behaviour has clients of one kind: they do not interact.              *)
(*                                                                         *)
(* A definition named X_Y is a mutated form of X; no specification uses it.*)
(***************************************************************************)
EXTENDS JobView, WebhookDelivery

CONSTANT MaxRounds         \* effective_rounds

ASSUME ExecutionsAssumption == Executions \subseteq Nat \ {0} /\ 1 \in Executions
ASSUME MaxRoundsAssumption == MaxRounds \in Nat \ {0}

VARIABLES
  follower,     \* the kind of the clients
  worker,       \* where run_research_job is
  execution,    \* executions of the job so far
  round,        \* rounds of this one
  verdict,      \* the event it announces
  unheard       \* the endpoints it has not enqueued yet

jobVars == <<recordVars, pct, sources>>
workerVars == <<worker, execution, round, verdict, unheard>>
viewVars == <<stream, poll, pages>>
vars == <<jobVars, viewVars, hookVars, follower, workerVars>>

Followers == {"stream", "poll", "pages", "endpoints"}

ClientsInit ==
  /\ Init /\ ViewInit /\ HooksInit
  /\ follower \in Followers
  /\ worker = "none" /\ execution = 0 /\ round = 0
  /\ verdict = "research.failed" /\ unheard = {}
------------------------------------------------------------------------------
(* The worker *)

\* fire_webhook is entered; without endpoints it returns.
Announce(event) ==
  /\ verdict' = event
  /\ IF follower = "endpoints"
       THEN worker' = "announcing" /\ unheard' = Endpoints
       ELSE worker' = "over" /\ unheard' = {}

JobSubmit ==
  /\ worker = "none"
  /\ Submit
  /\ worker' = "queued"
  /\ UNCHANGED <<pct, sources, execution, round, verdict, unheard>>

JobStart ==
  /\ worker = "queued"
  /\ execution' = execution + 1 /\ round' = 0
  /\ \/ /\ status # "cancelled"
        /\ Start
        /\ worker' = "running"
        /\ UNCHANGED <<pct, sources, verdict, unheard>>
     \/ /\ status = "cancelled"
        /\ worker' = "over"
        /\ UNCHANGED <<jobVars, verdict, unheard>>
     \/ /\ status # "cancelled"         \* no backend: no event is fired
        /\ Fail(execution + 1) /\ status' = "failed" /\ usage' = usage
        /\ worker' = "over"
        /\ UNCHANGED <<pct, sources, verdict, unheard>>
     \/ /\ Fail(execution + 1) /\ status' = "failed" /\ usage' = usage
        /\ Announce("research.failed")  \* the transaction raised
        /\ UNCHANGED <<pct, sources>>

\* A round's sources come with its progress; some rounds find none.
JobProgress ==
  /\ worker = "running" /\ round < MaxRounds
  /\ follower # "endpoints"             \* bound: they hear nothing of it
  /\ round' = round + 1
  /\ pct' = ((round + 1) * 90) \div MaxRounds
  /\ sources' \in {s \in SUBSET SourceKeys : sources \subseteq s}
  /\ UNCHANGED <<recordVars, worker, execution, verdict, unheard>>

\* The status is committed before the report.
JobPublish_StatusFirst ==
  /\ worker = "running"
  /\ report = 0 /\ usage = 0
  /\ status' \in Done /\ UNCHANGED <<report, usage>>
  /\ pct' = 100
  /\ Announce("research.completed")
  /\ UNCHANGED <<sources, execution, round>>

JobPublish ==
  /\ worker = "running"
  /\ Publish(execution)
  /\ pct' = 100
  /\ Announce("research.completed")
  /\ UNCHANGED <<sources, execution, round>>

\* The failure is billed; if the job already is, this raises too and nothing is written.
JobFail ==
  /\ worker = "running"
  /\ IF usage # 0
       THEN worker' = "over" /\ UNCHANGED <<jobVars, verdict, unheard>>
       ELSE /\ Fail(execution) /\ status' = "failed" /\ usage' = execution
            /\ Announce("research.failed")
            /\ UNCHANGED <<pct, sources>>
  /\ UNCHANGED <<execution, round>>

JobCancel ==
  /\ worker # "none"
  /\ Cancel
  /\ UNCHANGED <<pct, sources, workerVars>>

Tell(endpoint) ==
  /\ worker = "announcing" /\ endpoint \in unheard
  /\ Enqueue(endpoint, verdict, execution)
  /\ unheard' = unheard \ {endpoint}
  /\ worker' = IF unheard' = {} THEN "over" ELSE worker
  /\ UNCHANGED <<jobVars, execution, round, verdict>>

\* fire_webhook raises midway.  After a publication the handler tries to bill the job
\* again and raises as well; after a failure nothing handles it.
TellRaise_Handled ==
  /\ worker = "announcing"
  /\ IF verdict = "research.completed"
       THEN /\ Fail(execution) /\ status' = "failed" /\ usage' = usage
            /\ Announce("research.failed")
       ELSE worker' = "over" /\ UNCHANGED <<recordVars, verdict, unheard>>
  /\ UNCHANGED <<pct, sources, execution, round>>

TellRaise ==
  /\ worker = "announcing"
  /\ worker' = "over"
  /\ UNCHANGED <<jobVars, execution, round, verdict, unheard>>

\* The worker is stopped: by job_timeout, for good, or by a restart.
CutShort ==
  /\ worker \in {"queued", "running", "announcing"}
  /\ \/ worker # "queued" /\ worker' = "over"
     \/ execution \in Executions /\ execution + 1 \in Executions /\ worker' = "queued"
  /\ UNCHANGED <<jobVars, execution, round, verdict, unheard>>
------------------------------------------------------------------------------
Worker ==
  /\ JobStart \/ JobProgress \/ JobPublish \/ JobFail
  /\ UNCHANGED hookVars

Telling ==
  \/ \E e \in Endpoints : Tell(e)
  \/ (TellRaise /\ UNCHANGED hookVars)

World == (JobSubmit \/ JobCancel \/ CutShort) /\ UNCHANGED hookVars

Delivering == \E d \in deliveries : Deliver(d)

Hooks == Delivering \/ \E d \in deliveries : DeliverCrash(d)
         \/ \E e \in Endpoints : Forget(e)

Streaming == (StreamRead \/ StreamTell) /\ UNCHANGED <<poll, pages>>
Polling == (PollJob \/ PollReport) /\ UNCHANGED <<stream, pages>>
Paging == PageRead /\ UNCHANGED <<stream, poll>>

View ==
  \/ follower = "stream" /\ (Streaming \/ (StreamLeave /\ UNCHANGED <<poll, pages>>))
  \/ follower = "poll" /\ Polling
  \/ follower = "pages" /\ Paging

ClientsNext ==
  /\ \/ (Worker \/ Telling \/ World) /\ UNCHANGED viewVars
     \/ Hooks /\ UNCHANGED <<jobVars, viewVars, workerVars>>
     \/ View /\ UNCHANGED <<jobVars, hookVars, workerVars>>
  /\ UNCHANGED follower

ClientsSpec == ClientsInit /\ [][ClientsNext]_vars

(***************************************************************************)
(* The worker's coroutine and arq's poll go on, and so does a generator    *)
(* whose client stays.  No client has to submit, cancel or turn a page.    *)
(***************************************************************************)
ClientsFairSpec ==
  /\ ClientsSpec
  /\ WF_vars((Worker \/ Telling) /\ UNCHANGED <<viewVars, follower>>)
  /\ WF_vars(Delivering /\ UNCHANGED <<jobVars, viewVars, workerVars, follower>>)
  /\ WF_vars(follower = "stream" /\ Streaming
             /\ UNCHANGED <<jobVars, hookVars, workerVars, follower>>)
------------------------------------------------------------------------------
\* The types of the variables.
ClientsTypeOK ==
  /\ ViewTypeOK
  /\ deliveries \subseteq Delivery(Executions)
  /\ held \subseteq Endpoints /\ crashed \in BOOLEAN
  /\ follower \in Followers
  /\ worker \in {"none", "queued", "running", "announcing", "over"}
  /\ execution \in Executions \cup {0} /\ round \in 0..MaxRounds
  /\ verdict \in Event /\ unheard \subseteq Endpoints

Followed == stream.at \in {"over", "left"}

\* A stream ends, if its client does not leave it before, once its job stays over with
\* one of the three statuses the API knows as final.
StreamFollows ==
  follower = "stream" => (<>[](status \in ApiFinal) => <>Followed)

(***************************************************************************)
(* What the documentation says and the code does not do.                   *)
(***************************************************************************)

\* docs/api.md: the stream ends with "event: complete", "status": "completed".  So does
\* that of every job that stays done.
StreamTellsEnd ==
  follower = "stream" => (<>[](status \in Done) => <>Followed)
==============================================================================
