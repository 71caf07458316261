------------------------------ MODULE Console -------------------------------
(***************************************************************************)
(* The research console of the frontend: a page that submits jobs, polls   *)
(* the current one every two seconds, shows its report and cancels it.     *)
(*                                                                         *)
(* The page is one thread, but each of its handlers awaits a request, and  *)
(* what it does after the await meets whatever the user and other answers  *)
(* have made of the page meanwhile.  setInterval does not wait for the     *)
(* answer to the previous polls, so answers of one job overlap and outlive  *)
(* their interval; pollRef is the only handle on an interval and is never  *)
(* set back.                                                               *)
(*                                                                         *)
(* The rows of the jobs change as JobRecord promises, and of their status  *)
(* the model keeps what startPolling tells apart: "completed", "failed",   *)
(* and "pending" for all others, "completed_with_warnings" and "cancelled" *)
(* among them.  The n-th launch has the n-th id.                           *)
(*                                                                         *)
(* The component stays mounted.  (App.tsx unmounts it on another page; its *)
(* cleanup leaves the interval running, which nothing has a handle on when *)
(* the component is mounted again with a pollRef of its own.)              *)
(*                                                                         *)
(* A definition named X_Y is a mutated form of X; no specification uses it.*)
(***************************************************************************)
EXTENDS Naturals

CONSTANTS Launches,   \* bound on the launches of one page
          MaxLosses   \* bound on the polls and cancel requests the network loses

ASSUME LaunchesAssumption == Launches \in Nat \ {0}
ASSUME LossesAssumption == MaxLosses \in Nat

Jobs == 1..Launches
None == 0             \* null
Ends == {"completed", "failed"}
Rows == {"none", "pending"} \cup Ends

VARIABLES
  row,        \* the status of each job's row
  published,  \* the jobs that have a report
  loading,    \* the page says that research is under way
  jobId,      \* the current job
  shown,      \* the job whose report is on the page
  pollRef,    \* the job of the interval started last
  live,       \* the jobs of the intervals that are not cleared
  post,       \* POST /research of each launch
  polls,      \* GET /research/{id} under way: "asked", or the end it has read
  delete,     \* DELETE /research/{id}
  lost,       \* requests lost so far
  calm        \* no cancel was pressed, no answer came after its interval (history)

server == <<row, published>>
page == <<loading, jobId, shown, pollRef, live>>
network == <<post, polls, delete, lost>>
vars == <<server, page, network, calm>>
------------------------------------------------------------------------------
Init ==
  /\ row = [j \in Jobs |-> "none"] /\ published = {}
  /\ loading = FALSE
  /\ jobId = None /\ shown = None /\ pollRef = None /\ live = {}
  /\ post = [j \in Jobs |-> "ready"]
  /\ polls = [j \in Jobs |-> {}]
  /\ delete = [j \in Jobs |-> "idle"]
  /\ lost = 0
  /\ calm = TRUE

SetRow(j, status) == row' = [row EXCEPT ![j] = status]
------------------------------------------------------------------------------
(* The worker, as JobRecord has it. *)

JobStart(j) ==
  /\ row[j] # "none"
  /\ SetRow(j, "pending")
  /\ UNCHANGED <<published, page, network, calm>>

\* The status is committed before the report.
JobPublish_StatusFirst(j) ==
  /\ row[j] # "none" /\ j \notin published
  /\ \E status \in {"completed", "pending"} : SetRow(j, status)
  /\ UNCHANGED <<published, page, network, calm>>

JobPublish(j) ==
  /\ row[j] # "none" /\ j \notin published
  /\ \E status \in {"completed", "pending"} : SetRow(j, status)
  /\ published' = published \cup {j}
  /\ UNCHANGED <<page, network, calm>>

JobFail(j) ==
  /\ row[j] # "none"
  /\ SetRow(j, "failed")
  /\ UNCHANGED <<published, page, network, calm>>
------------------------------------------------------------------------------
(* launchPipeline *)

\* The form is on the page only while nothing runs and no report is shown.
Launch(j) ==
  /\ post[j] = "ready" /\ \A i \in Jobs : i < j => post[i] # "ready"
  /\ ~loading /\ shown = None
  /\ post' = [post EXCEPT ![j] = "sent"]
  /\ loading' = TRUE
  /\ shown' = None
  /\ UNCHANGED <<server, jobId, pollRef, live, polls, delete, lost, calm>>

PostServed(j) ==
  /\ post[j] = "sent"
  /\ post' = [post EXCEPT ![j] = "accepted"]
  /\ SetRow(j, "pending")
  /\ UNCHANGED <<published, page, polls, delete, lost, calm>>

\* Rejected, unreachable, or accepted and then failed or lost on the way back.
PostFails(j) ==
  /\ post[j] \in {"sent", "accepted"}
  /\ post' = [post EXCEPT ![j] = "refused"]
  /\ UNCHANGED <<server, page, polls, delete, lost, calm>>

\* The previous interval is left running.
PostAnswered_KeepsInterval(j) ==
  /\ post[j] = "accepted"
  /\ post' = [post EXCEPT ![j] = "over"]
  /\ jobId' = j
  /\ live' = live \cup {j}
  /\ pollRef' = j
  /\ UNCHANGED <<server, loading, shown, polls, delete, lost, calm>>

\* The id of the new job is set, and startPolling replaces the interval.
PostAnswered(j) ==
  /\ post[j] = "accepted"
  /\ post' = [post EXCEPT ![j] = "over"]
  /\ jobId' = j
  /\ live' = (live \ {pollRef}) \cup {j}
  /\ pollRef' = j
  /\ UNCHANGED <<server, loading, shown, polls, delete, lost, calm>>

PostCaught(j) ==
  /\ post[j] = "refused"
  /\ post' = [post EXCEPT ![j] = "over"]
  /\ loading' = FALSE
  /\ UNCHANGED <<server, jobId, shown, pollRef, live, polls, delete, lost, calm>>
------------------------------------------------------------------------------
(* startPolling *)

Add(j, p) == polls' = [polls EXCEPT ![j] = @ \cup {p}]
Remove(j, p) == polls' = [polls EXCEPT ![j] = @ \ {p}]

\* bound: no second poll is sent before the API has read the row for the first; polls
\* that are on their way back are as many as there are ends.
Tick(j) ==
  /\ j \in live
  /\ "asked" \notin polls[j]
  /\ Add(j, "asked")
  /\ UNCHANGED <<server, page, post, delete, lost, calm>>

\* An answer that tells of no end moves the progress bar only.
PollServed(j) ==
  /\ "asked" \in polls[j]
  /\ polls' = [polls EXCEPT ![j] = (@ \ {"asked"}) \cup ({row[j]} \cap Ends)]
  /\ UNCHANGED <<server, page, post, delete, lost, calm>>

\* The first lost poll ends the polling.
PollLost_EndsPolling(j, p) ==
  /\ p \in polls[j] /\ lost < MaxLosses
  /\ lost' = lost + 1
  /\ Remove(j, p)
  /\ live' = live \ {j}
  /\ UNCHANGED <<server, loading, jobId, shown, pollRef, post, delete, calm>>

\* An error or a bad status is logged at most; the next tick asks again.
PollLost(j, p) ==
  /\ p \in polls[j] /\ lost < MaxLosses
  /\ lost' = lost + 1
  /\ Remove(j, p)
  /\ UNCHANGED <<server, page, post, delete, calm>>

StopPolling == live' = live \ {pollRef}

\* The report has come; whichever interval runs now is cleared.
ShowReport(j) ==
  /\ StopPolling
  /\ shown' = j
  /\ loading' = FALSE

\* The job has failed and its interval goes on.
ShowFailure_KeepsPolling ==
  /\ loading' = FALSE
  /\ UNCHANGED <<live, shown>>

\* The job has failed and the page goes on spinning.
ShowFailure_Spins ==
  /\ StopPolling
  /\ UNCHANGED <<loading, shown>>

ShowFailure ==
  /\ StopPolling
  /\ loading' = FALSE
  /\ UNCHANGED shown

PollAnswered(j) ==
  /\ \/ "completed" \in polls[j] /\ Remove(j, "completed") /\ ShowReport(j)
     \/ "failed" \in polls[j] /\ Remove(j, "failed") /\ ShowFailure
  /\ calm' = (calm /\ j \in live)
  /\ UNCHANGED <<server, jobId, pollRef, post, delete, lost>>
------------------------------------------------------------------------------
(* cancelJob and resetConsole *)

\* Without an id, the request under way is forgotten and nothing else.  bound: one cancel
\* request of a job at a time.
PressCancel ==
  /\ loading
  /\ IF jobId = None
       THEN loading' = FALSE /\ UNCHANGED delete
       ELSE /\ delete[jobId] = "idle"
            /\ delete' = [delete EXCEPT ![jobId] = "sent"]
            /\ UNCHANGED loading
  /\ calm' = FALSE
  /\ UNCHANGED <<server, jobId, shown, pollRef, live, post, polls, lost>>

\* 204 or 409: the page does not look.
DeleteServed(j) ==
  /\ delete[j] = "sent"
  /\ delete' = [delete EXCEPT ![j] = "served"]
  /\ \E status \in {row[j], "pending"} : SetRow(j, status)
  /\ UNCHANGED <<published, page, post, polls, lost, calm>>

CancelAnswered(j) ==
  /\ delete[j] = "served"
  /\ delete' = [delete EXCEPT ![j] = "idle"]
  /\ StopPolling
  /\ loading' = FALSE
  /\ UNCHANGED <<server, jobId, shown, pollRef, post, polls, lost, calm>>

\* The interval goes on behind a page that is ready for the next question.
CancelCaught(j) ==
  /\ delete[j] # "idle" /\ lost < MaxLosses
  /\ lost' = lost + 1
  /\ delete' = [delete EXCEPT ![j] = "idle"]
  /\ loading' = FALSE
  /\ UNCHANGED <<server, jobId, shown, pollRef, live, post, polls, calm>>

Reset ==
  /\ shown # None
  /\ shown' = None /\ jobId' = None
  /\ loading' = FALSE
  /\ UNCHANGED <<server, pollRef, live, network, calm>>
------------------------------------------------------------------------------
Worker(j) == JobStart(j) \/ JobPublish(j) \/ JobFail(j)

Posting(j) == PostServed(j) \/ PostFails(j) \/ PostAnswered(j) \/ PostCaught(j)

Polling(j) == Tick(j) \/ PollServed(j) \/ PollAnswered(j)

Cancelling(j) == DeleteServed(j) \/ CancelAnswered(j)

Next ==
  \/ \E j \in Jobs :
       \/ Worker(j) \/ Launch(j) \/ Posting(j) \/ Polling(j)
       \/ Cancelling(j) \/ CancelCaught(j)
       \/ \E p \in polls[j] : PollLost(j, p)
  \/ PressCancel \/ Reset

Spec == Init /\ [][Next]_vars

(***************************************************************************)
(* The interval ticks, the API answers what it has received and the page   *)
(* handles what has come.  Nobody has to press anything, and no job has to *)
(* get on.                                                                 *)
(***************************************************************************)
Fairness ==
  \A j \in Jobs :
    /\ WF_vars(Posting(j))
    /\ WF_vars(Cancelling(j))
    /\ WF_vars(Tick(j)) /\ WF_vars(PollServed(j)) /\ WF_vars(PollAnswered(j))

FairSpec == Spec /\ Fairness
------------------------------------------------------------------------------
\* The types of the variables; only a report that is stored can be shown.
ConsoleTypeOK ==
  /\ row \in [Jobs -> Rows] /\ published \subseteq Jobs
  /\ loading \in BOOLEAN /\ calm \in BOOLEAN
  /\ jobId \in Jobs \cup {None} /\ pollRef \in Jobs \cup {None}
  /\ shown \in published \cup {None}
  /\ live \subseteq Jobs
  /\ post \in [Jobs -> {"ready", "sent", "accepted", "refused", "over"}]
  /\ polls \in [Jobs -> SUBSET ({"asked"} \cup Ends)]
  /\ delete \in [Jobs -> {"idle", "sent", "served"}]
  /\ lost \in 0..MaxLosses

\* However launches, cancel requests and late answers cross, the page never runs two
\* intervals, and the one it runs is the one it can still clear.
OneInterval == live \subseteq {pollRef} \ {None}

\* A page that says it is working has a request of its own to wait for: a launch that
\* is not answered, or an interval that asks on.
SpinnerHasReason ==
  loading => live # {} \/ \E j \in Jobs : post[j] \in {"sent", "accepted", "refused"}

\* On a page on which nobody pressed cancel and no answer outlived its interval, the
\* report is the current job's: no earlier job's poll may put it there.
ShownIsCurrent == calm /\ shown # None => shown = jobId

\* A job that has ended for good, as "completed" or "failed", does not leave its page
\* spinning: the page stops, or has moved on to another job.
EndIsSeen ==
  \A j \in Jobs :
    (loading /\ jobId = j /\ [](row[j] \in Ends))
      ~> (~loading \/ jobId # j)
==============================================================================
