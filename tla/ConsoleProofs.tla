---------------------------- MODULE ConsoleProofs ----------------------------
(***************************************************************************)
(* The invariants of the console, for any number of launches and losses.   *)
(***************************************************************************)
EXTENDS Console, TLAPS

\* The end of a row, and of a poll on its way back, comes with a report.
ReportInv ==
  \A j \in Jobs : row[j] = "completed" \/ "completed" \in polls[j] => j \in published

Pending(j) == post[j] \in {"sent", "accepted", "refused"}

\* On a calm page at most one thing is waited for: one launch, or one interval, which
\* is the current job's; and a report is shown only while there is neither.
CalmInv ==
  calm =>
    /\ \A j \in Jobs : delete[j] = "idle"
    /\ \A i, j \in Jobs : Pending(i) /\ Pending(j) => i = j
    /\ \A j \in Jobs : Pending(j) => loading /\ live = {} /\ shown = None
    /\ live # {} => loading /\ shown = None /\ jobId = pollRef
    /\ shown # None => shown = jobId

\* Jobs are positive numbers, so none of them is null.
LEMMA JobsArePositive == Jobs \subseteq Nat \ {0} /\ None \notin Jobs
BY LaunchesAssumption DEF LaunchesAssumption, Jobs, None
------------------------------------------------------------------------------
(* Types *)

\* The page is mounted with the right types and without a report.
LEMMA ConsoleTypeInit == Init => ConsoleTypeOK /\ ReportInv
<1> SUFFICES ASSUME Init PROVE ConsoleTypeOK /\ ReportInv
  OBVIOUS
<1>1. /\ row \in [Jobs -> Rows]
      /\ post \in [Jobs -> {"ready", "sent", "accepted", "refused", "over"}]
      /\ delete \in [Jobs -> {"idle", "sent", "served"}]
  BY DEF Init, Rows
<1>2. polls \in [Jobs -> SUBSET ({"asked"} \cup Ends)]
  BY DEF Init
<1>3. lost \in 0..MaxLosses
  BY LossesAssumption DEF LossesAssumption, Init
<1>4. ReportInv
  BY DEF Init, ReportInv
<1>5. QED
  BY <1>1, <1>2, <1>3, <1>4 DEF Init, ConsoleTypeOK

\* Every handler, every answer and the worker keep the types and ReportInv.
LEMMA ConsoleTypeStep == ConsoleTypeOK /\ ReportInv /\ [Next]_vars => ConsoleTypeOK' /\ ReportInv'
<1> SUFFICES ASSUME ConsoleTypeOK, ReportInv, [Next]_vars PROVE ConsoleTypeOK' /\ ReportInv'
  OBVIOUS
<1> USE LossesAssumption DEF LossesAssumption, ConsoleTypeOK, ReportInv, Rows, Ends
<1>1. CASE UNCHANGED vars
  BY <1>1 DEF vars, server, page, network
<1>2. ASSUME NEW j \in Jobs, Worker(j) PROVE ConsoleTypeOK' /\ ReportInv'
  BY <1>2 DEF Worker, JobStart, JobPublish, JobFail, SetRow, page, network
<1>3. ASSUME NEW j \in Jobs, Launch(j) PROVE ConsoleTypeOK' /\ ReportInv'
  BY <1>3 DEF Launch, server
<1>4. ASSUME NEW j \in Jobs, Posting(j) PROVE ConsoleTypeOK' /\ ReportInv'
  BY <1>4 DEF Posting, PostServed, PostFails, PostAnswered, PostCaught, SetRow, server, page
<1>5. ASSUME NEW j \in Jobs, Tick(j) PROVE ConsoleTypeOK' /\ ReportInv'
  BY <1>5 DEF Tick, Add, server, page
<1>6. ASSUME NEW j \in Jobs, PollServed(j) PROVE ConsoleTypeOK' /\ ReportInv'
  BY <1>6 DEF PollServed, server, page
<1>7. ASSUME NEW j \in Jobs, PollAnswered(j) PROVE ConsoleTypeOK' /\ ReportInv'
  <2>1. PICK p \in Ends : p \in polls[j] /\ Remove(j, p) /\ (p = "completed" => shown' = j)
                                                   /\ (p = "failed" => UNCHANGED shown)
    BY <1>7 DEF PollAnswered, ShowReport, ShowFailure
  <2>2. polls' \in [Jobs -> SUBSET ({"asked"} \cup Ends)]
    BY <2>1 DEF Remove
  <2>3. shown' \in published' \cup {None}
    BY <1>7, <2>1 DEF PollAnswered, server
  <2>4. ReportInv'
    BY <1>7, <2>1 DEF PollAnswered, Remove, server
  <2>5. live' \subseteq Jobs /\ loading' \in BOOLEAN /\ calm' \in BOOLEAN
    BY <1>7 DEF PollAnswered, ShowReport, ShowFailure, StopPolling
  <2>6. QED
    BY <1>7, <2>2, <2>3, <2>4, <2>5 DEF PollAnswered, server
<1>8. ASSUME NEW j \in Jobs, NEW p \in polls[j], PollLost(j, p) PROVE ConsoleTypeOK' /\ ReportInv'
  BY <1>8 DEF PollLost, Remove, server, page
<1>9. ASSUME NEW j \in Jobs, DeleteServed(j) PROVE ConsoleTypeOK' /\ ReportInv'
  <2>1. PICK status \in {row[j], "pending"} : row' = [row EXCEPT ![j] = status]
    BY <1>9 DEF DeleteServed, SetRow
  <2>2. row' \in [Jobs -> Rows]
    BY <2>1
  <2>3. ReportInv'
    BY <1>9, <2>1 DEF DeleteServed
  <2>4. QED
    BY <1>9, <2>2, <2>3 DEF DeleteServed, page
<1>10. ASSUME NEW j \in Jobs, CancelAnswered(j) \/ CancelCaught(j) PROVE ConsoleTypeOK' /\ ReportInv'
  <2>1. delete' \in [Jobs -> {"idle", "sent", "served"}]
    BY <1>10 DEF CancelAnswered, CancelCaught
  <2>2. lost' \in 0..MaxLosses
    BY <1>10 DEF CancelAnswered, CancelCaught
  <2>3. live' \subseteq Jobs /\ loading' \in BOOLEAN
    BY <1>10 DEF CancelAnswered, CancelCaught, StopPolling
  <2>4. QED
    BY <1>10, <2>1, <2>2, <2>3 DEF CancelAnswered, CancelCaught, server
<1>11. CASE PressCancel
  BY <1>11 DEF PressCancel, server
<1>12. CASE Reset
  BY <1>12 DEF Reset, server, network
<1>13. QED
  BY <1>1, <1>2, <1>3, <1>4, <1>5, <1>6, <1>7, <1>8, <1>9, <1>10, <1>11, <1>12
     DEF Next, Polling, Cancelling

\* The variables keep their types, and only a stored report is shown.
THEOREM ConsoleTypeCorrect == Spec => []ConsoleTypeOK
<1>1. Spec => [](ConsoleTypeOK /\ ReportInv)
  BY ConsoleTypeInit, ConsoleTypeStep, PTL DEF Spec
<1>2. QED
  BY <1>1, PTL
------------------------------------------------------------------------------
(* One interval *)

\* startPolling, and whoever clears an interval, keep the page to one of them.
THEOREM OneIntervalRuns == Spec => []OneInterval
<1>1. Init => OneInterval
  BY DEF Init, OneInterval
<1>2. OneInterval /\ [Next]_vars => OneInterval'
  <2> SUFFICES ASSUME OneInterval, [Next]_vars PROVE OneInterval'
    OBVIOUS
  <2> USE JobsArePositive DEF OneInterval
  <2>1. CASE UNCHANGED vars
    BY <2>1 DEF vars, page
  <2>2. ASSUME NEW j \in Jobs, Worker(j) \/ Launch(j) PROVE OneInterval'
    BY <2>2 DEF Worker, JobStart, JobPublish, JobFail, Launch, page
  <2>3. ASSUME NEW j \in Jobs, Posting(j) PROVE OneInterval'
    BY <2>3 DEF Posting, PostServed, PostFails, PostAnswered, PostCaught, page
  <2>4. ASSUME NEW j \in Jobs, Polling(j) PROVE OneInterval'
    BY <2>4 DEF Polling, Tick, PollServed, PollAnswered, ShowReport, ShowFailure, StopPolling, page
  <2>5. ASSUME NEW j \in Jobs, NEW p \in polls[j], PollLost(j, p) PROVE OneInterval'
    BY <2>5 DEF PollLost, page
  <2>6. ASSUME NEW j \in Jobs, Cancelling(j) \/ CancelCaught(j) PROVE OneInterval'
    BY <2>6 DEF Cancelling, DeleteServed, CancelAnswered, CancelCaught, StopPolling, page
  <2>7. CASE PressCancel \/ Reset
    BY <2>7 DEF PressCancel, Reset
  <2>8. QED
    BY <2>1, <2>2, <2>3, <2>4, <2>5, <2>6, <2>7 DEF Next
<1>3. QED
  BY <1>1, <1>2, PTL DEF Spec
------------------------------------------------------------------------------
(* The spinner *)

\* Whatever ends a launch or an interval also stops the spinner.
THEOREM SpinnerReasoned == Spec => []SpinnerHasReason
<1>1. Init => SpinnerHasReason
  BY DEF Init, SpinnerHasReason
<1>2. ConsoleTypeOK /\ SpinnerHasReason /\ [Next]_vars => SpinnerHasReason'
  <2> SUFFICES ASSUME ConsoleTypeOK, SpinnerHasReason, [Next]_vars PROVE SpinnerHasReason'
    OBVIOUS
  <2> USE DEF ConsoleTypeOK, SpinnerHasReason
  <2>1. CASE UNCHANGED vars
    BY <2>1 DEF vars, page, network
  <2>2. ASSUME NEW j \in Jobs, Worker(j) \/ Launch(j) PROVE SpinnerHasReason'
    BY <2>2 DEF Worker, JobStart, JobPublish, JobFail, Launch, page, network
  <2>3. ASSUME NEW j \in Jobs, Posting(j) PROVE SpinnerHasReason'
    BY <2>3 DEF Posting, PostServed, PostFails, PostAnswered, PostCaught, page
  <2>4. ASSUME NEW j \in Jobs, Polling(j) PROVE SpinnerHasReason'
    BY <2>4 DEF Polling, Tick, PollServed, PollAnswered, ShowReport, ShowFailure, page
  <2>5. ASSUME NEW j \in Jobs, NEW p \in polls[j], PollLost(j, p) PROVE SpinnerHasReason'
    BY <2>5 DEF PollLost, page
  <2>6. ASSUME NEW j \in Jobs, Cancelling(j) \/ CancelCaught(j) PROVE SpinnerHasReason'
    BY <2>6 DEF Cancelling, DeleteServed, CancelAnswered, CancelCaught, page
  <2>7. CASE PressCancel \/ Reset
    BY <2>7 DEF PressCancel, Reset, network
  <2>8. QED
    BY <2>1, <2>2, <2>3, <2>4, <2>5, <2>6, <2>7 DEF Next
<1>3. QED
  BY <1>1, <1>2, ConsoleTypeCorrect, PTL DEF Spec
------------------------------------------------------------------------------
(* The report on the page *)

\* A page that stays calm never waits for two things and never shows what it left.
LEMMA CalmStep == ConsoleTypeOK /\ OneInterval /\ CalmInv /\ [Next]_vars => CalmInv'
<1> SUFFICES ASSUME ConsoleTypeOK, OneInterval, CalmInv, [Next]_vars PROVE CalmInv'
  OBVIOUS
<1> USE JobsArePositive DEF ConsoleTypeOK, CalmInv, Pending
<1>1. CASE UNCHANGED vars
  BY <1>1 DEF vars, page, network
<1>2. ASSUME NEW j \in Jobs, Worker(j) PROVE CalmInv'
  BY <1>2 DEF Worker, JobStart, JobPublish, JobFail, page, network
<1>3. ASSUME NEW j \in Jobs, Launch(j) PROVE CalmInv'
  BY <1>3 DEF Launch
<1>4. ASSUME NEW j \in Jobs, PostServed(j) \/ PostFails(j) PROVE CalmInv'
  BY <1>4 DEF PostServed, PostFails, page
<1>5. ASSUME NEW j \in Jobs, PostAnswered(j) PROVE CalmInv'
  BY <1>5 DEF PostAnswered
<1>6. ASSUME NEW j \in Jobs, PostCaught(j) PROVE CalmInv'
  BY <1>6 DEF PostCaught
<1>7. ASSUME NEW j \in Jobs, Tick(j) \/ PollServed(j) PROVE CalmInv'
  BY <1>7 DEF Tick, PollServed, page
<1>8. ASSUME NEW j \in Jobs, PollAnswered(j) PROVE CalmInv'
  <2>1. calm' => live' = {} /\ ~loading' /\ live # {} /\ j = pollRef
    BY <1>8 DEF PollAnswered, ShowReport, ShowFailure, StopPolling, OneInterval
  <2>2. calm' => shown' \in {None, jobId'}
    BY <1>8, <2>1 DEF PollAnswered, ShowReport, ShowFailure
  <2>3. QED
    BY <1>8, <2>1, <2>2 DEF PollAnswered
<1>9. ASSUME NEW j \in Jobs, NEW p \in polls[j], PollLost(j, p) PROVE CalmInv'
  BY <1>9 DEF PollLost, page
<1>10. ASSUME NEW j \in Jobs, Cancelling(j) \/ CancelCaught(j) PROVE CalmInv'
  BY <1>10 DEF Cancelling, DeleteServed, CancelAnswered, CancelCaught
<1>11. CASE PressCancel
  BY <1>11 DEF PressCancel
<1>12. CASE Reset
  BY <1>12 DEF Reset, network
<1>13. QED
  BY <1>1, <1>2, <1>3, <1>4, <1>5, <1>6, <1>7, <1>8, <1>9, <1>10, <1>11, <1>12
     DEF Next, Posting, Polling

\* On a calm page no earlier job's report appears.
THEOREM ShownCurrent == Spec => []ShownIsCurrent
<1>1. Init => CalmInv
  BY DEF Init, CalmInv, Pending
<1>2. Spec => []CalmInv
  BY <1>1, CalmStep, ConsoleTypeCorrect, OneIntervalRuns, PTL DEF Spec
<1>3. CalmInv => ShownIsCurrent
  BY DEF CalmInv, ShownIsCurrent
<1>4. QED
  BY <1>2, <1>3, PTL
==============================================================================
