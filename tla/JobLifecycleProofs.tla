-------------------------- MODULE JobLifecycleProofs --------------------------
(***************************************************************************)
(* What JobLifecycle guarantees for any number of executions, rounds and   *)
(* cancel requests and under every set of faults.                          *)
(***************************************************************************)
EXTENDS JobLifecycle, TLAPS

\* Every variable starts within its type.
LEMMA InitTypes == Init => TypeOK
<1> SUFFICES ASSUME Init PROVE TypeOK
  OBVIOUS
<1> USE DEF Init
<1>1. RowType
  <2>1. status \in Status /\ finished \in BOOLEAN
    BY DEF Status
  <2>2. report \in 0..MaxTries /\ usage \in 0..MaxTries
    BY MaxTriesAssumption DEF MaxTriesAssumption
  <2>3. QED
    BY <2>1, <2>2 DEF RowType
<1>2. events \subseteq PayloadType
  OBVIOUS
<1>3. ArqType
  BY MaxTriesAssumption DEF MaxTriesAssumption, ArqType, PC
<1>4. LocalType
  <2>1. seen \in Status /\ llm \in BOOLEAN /\ noticed \in BOOLEAN
    BY DEF Status
  <2>2. outcome \in Done /\ rounds \in Nat /\ late \in Nat
    BY DEF Done
  <2>3. QED
    BY <2>1, <2>2 DEF LocalType
<1>5. ApiType
  BY DEF ApiType, Status
<1>6. QED
  BY <1>1, <1>2, <1>3, <1>4, <1>5 DEF TypeOK

\* No step writes a value of another type into the rows.
LEMMA RowStep == TypeOK /\ [Next]_vars => RowType'
<1> SUFFICES ASSUME TypeOK, [Next]_vars PROVE RowType'
  OBVIOUS
<1> USE DEF TypeOK, RowType, row, vars
<1>1. CASE Submitter
  BY <1>1 DEF Submitter, SubmitInsert, SubmitEnqueue, Status
<1>2. ASSUME NEW c \in Clients, CancelRead(c) \/ CancelCommit(c)
      PROVE  RowType'
  BY <1>2 DEF CancelRead, CancelCommit, Assign, Status, Terminal
<1>3. CASE Deliver \/ Finish \/ Timeout \/ Restart
  BY <1>3 DEF Deliver, Finish, Timeout, Restart
<1>4. CASE StartRead \/ StartCommit \/ StartRaise
  BY <1>4 DEF StartRead, StartCommit, StartRaise, Raise, Assign, Status, Terminal
<1>5. CASE ProgressRead \/ ProgressCommit \/ ResearchReturn \/ ResearchRaise
  BY <1>5 DEF ProgressRead, ProgressCommit, ResearchReturn, ResearchRaise, Raise
<1>6. CASE PublishRead \/ PublishRaise
  BY <1>6 DEF PublishRead, PublishRaise, Raise
<1>7. CASE PublishCommit
  BY <1>7 DEF PublishCommit, Assign, ArqType, LocalType, Status, Terminal
<1>8. CASE HandlerRead \/ HandlerCommit \/ HandlerRaise
  BY <1>8 DEF HandlerRead, HandlerCommit, HandlerRaise, Assign, ArqType, Status, Terminal
<1>9. CASE Notify \/ NotifyRaise \/ NotifyFailed
  BY <1>9 DEF Notify, NotifyRaise, NotifyFailed
<1>10. CASE UNCHANGED vars
  BY <1>10
<1>11. QED
  BY <1>1, <1>2, <1>3, <1>4, <1>5, <1>6, <1>7, <1>8, <1>9, <1>10 DEF Next, Worker

\* fire_webhook builds payloads from a job row and a report row.
LEMMA EventsStep == TypeOK /\ [Next]_vars => (events \subseteq PayloadType)'
<1> SUFFICES ASSUME TypeOK, [Next]_vars PROVE events' \subseteq PayloadType
  BY DEF PayloadType
<1> USE DEF TypeOK, vars
<1>1. CASE Submitter
  BY <1>1 DEF Submitter, SubmitInsert, SubmitEnqueue
<1>2. ASSUME NEW c \in Clients, CancelRead(c) \/ CancelCommit(c)
      PROVE  events' \subseteq PayloadType
  BY <1>2 DEF CancelRead, CancelCommit
<1>3. CASE Deliver \/ Finish \/ Timeout \/ Restart
  BY <1>3 DEF Deliver, Finish, Timeout, Restart
<1>4. CASE StartRead \/ StartCommit \/ StartRaise
  BY <1>4 DEF StartRead, StartCommit, StartRaise, Raise
<1>5. CASE ProgressRead \/ ProgressCommit \/ ResearchReturn \/ ResearchRaise
  BY <1>5 DEF ProgressRead, ProgressCommit, ResearchReturn, ResearchRaise, Raise
<1>6. CASE PublishRead \/ PublishCommit \/ PublishRaise
  BY <1>6 DEF PublishRead, PublishCommit, PublishRaise, Raise
<1>7. CASE HandlerRead \/ HandlerCommit \/ HandlerRaise
  BY <1>7 DEF HandlerRead, HandlerCommit, HandlerRaise
<1>8. CASE Notify \/ NotifyRaise \/ NotifyFailed
  BY <1>8 DEF Notify, NotifyRaise, NotifyFailed, Payload, PayloadType, RowType
<1>9. CASE UNCHANGED vars
  BY <1>9
<1>10. QED
  BY <1>1, <1>2, <1>3, <1>4, <1>5, <1>6, <1>7, <1>8, <1>9 DEF Next, Worker

\* The message and the coroutine stay in their states, within arq's max_tries.
LEMMA ArqStep == TypeOK /\ [Next]_vars => ArqType'
<1> SUFFICES ASSUME TypeOK, [Next]_vars PROVE ArqType'
  OBVIOUS
<1> USE DEF TypeOK, ArqType, PC, arq, vars, Goto, Leave, Raise
<1>1. CASE Submitter
  BY <1>1 DEF Submitter, SubmitInsert, SubmitEnqueue
<1>2. ASSUME NEW c \in Clients, CancelRead(c) \/ CancelCommit(c)
      PROVE  ArqType'
  BY <1>2 DEF CancelRead, CancelCommit
<1>3. CASE Deliver
  BY <1>3, MaxTriesAssumption DEF MaxTriesAssumption, Deliver
<1>4. CASE Finish \/ Timeout \/ Restart
  BY <1>4 DEF Finish, Timeout, Restart
<1>5. CASE StartRead \/ StartCommit \/ StartRaise
  BY <1>5 DEF StartRead, StartCommit, StartRaise
<1>6. CASE ProgressRead \/ ProgressCommit \/ ResearchReturn \/ ResearchRaise
  BY <1>6 DEF ProgressRead, ProgressCommit, ResearchReturn, ResearchRaise
<1>7. CASE PublishRead \/ PublishCommit \/ PublishRaise
  BY <1>7 DEF PublishRead, PublishCommit, PublishRaise
<1>8. CASE HandlerRead \/ HandlerCommit \/ HandlerRaise
  BY <1>8 DEF HandlerRead, HandlerCommit, HandlerRaise
<1>9. CASE Notify \/ NotifyRaise \/ NotifyFailed
  BY <1>9 DEF Notify, NotifyRaise, NotifyFailed
<1>10. CASE UNCHANGED vars
  BY <1>10
<1>11. QED
  BY <1>1, <1>2, <1>3, <1>4, <1>5, <1>6, <1>7, <1>8, <1>9, <1>10 DEF Next, Worker

\* The coroutine's local variables keep their types.
LEMMA LocalStep == TypeOK /\ [Next]_vars => LocalType'
<1> SUFFICES ASSUME TypeOK, [Next]_vars PROVE LocalType'
  OBVIOUS
<1> USE DEF TypeOK, LocalType, local, vars, Raise
<1>1. CASE Submitter
  BY <1>1 DEF Submitter, SubmitInsert, SubmitEnqueue
<1>2. ASSUME NEW c \in Clients, CancelRead(c) \/ CancelCommit(c)
      PROVE  LocalType'
  BY <1>2 DEF CancelRead, CancelCommit
<1>3. CASE Deliver
  <2>1. llm' \in BOOLEAN /\ noticed' \in BOOLEAN
    BY <1>3, Zenon DEF Deliver
  <2>2. rounds' \in Nat /\ late' \in Nat
    BY <1>3 DEF Deliver
  <2>3. QED
    BY <1>3, <2>1, <2>2 DEF Deliver
<1>4. CASE Finish \/ Timeout \/ Restart
  BY <1>4 DEF Finish, Timeout, Restart
<1>5. CASE StartRead \/ StartCommit \/ StartRaise
  BY <1>5 DEF StartRead, StartCommit, StartRaise, RowType
<1>6. CASE ProgressRead
  BY <1>6, Zenon DEF ProgressRead
<1>7. CASE ProgressCommit
  BY <1>7 DEF ProgressCommit
<1>8. CASE ResearchReturn \/ ResearchRaise
  BY <1>8 DEF ResearchReturn, ResearchRaise
<1>9. CASE PublishRead \/ PublishCommit \/ PublishRaise
  BY <1>9 DEF PublishRead, PublishCommit, PublishRaise, RowType
<1>10. CASE HandlerRead \/ HandlerCommit \/ HandlerRaise
  BY <1>10 DEF HandlerRead, HandlerCommit, HandlerRaise, RowType
<1>11. CASE Notify \/ NotifyRaise \/ NotifyFailed
  BY <1>11 DEF Notify, NotifyRaise, NotifyFailed
<1>12. CASE UNCHANGED vars
  BY <1>12
<1>13. QED
  BY <1>1, <1>2, <1>3, <1>4, <1>5, <1>6, <1>7, <1>8, <1>9, <1>10, <1>11, <1>12
     DEF Next, Worker

\* The requests stay in their states.
LEMMA ApiStep == TypeOK /\ [Next]_vars => ApiType'
<1> SUFFICES ASSUME TypeOK, [Next]_vars PROVE ApiType'
  OBVIOUS
<1> USE DEF TypeOK, ApiType, api, vars, Raise
<1>1. CASE Submitter
  BY <1>1 DEF Submitter, SubmitInsert, SubmitEnqueue
<1>2. ASSUME NEW c \in Clients, CancelRead(c) \/ CancelCommit(c)
      PROVE  ApiType'
  BY <1>2 DEF CancelRead, CancelCommit, RowType
<1>3. CASE Deliver \/ Finish \/ Timeout \/ Restart
  BY <1>3 DEF Deliver, Finish, Timeout, Restart
<1>4. CASE StartRead \/ StartCommit \/ StartRaise
  BY <1>4 DEF StartRead, StartCommit, StartRaise
<1>5. CASE ProgressRead \/ ProgressCommit \/ ResearchReturn \/ ResearchRaise
  BY <1>5 DEF ProgressRead, ProgressCommit, ResearchReturn, ResearchRaise
<1>6. CASE PublishRead \/ PublishCommit \/ PublishRaise
  BY <1>6 DEF PublishRead, PublishCommit, PublishRaise
<1>7. CASE HandlerRead \/ HandlerCommit \/ HandlerRaise
  BY <1>7 DEF HandlerRead, HandlerCommit, HandlerRaise
<1>8. CASE Notify \/ NotifyRaise \/ NotifyFailed
  BY <1>8 DEF Notify, NotifyRaise, NotifyFailed
<1>9. CASE UNCHANGED vars
  BY <1>9
<1>10. QED
  BY <1>1, <1>2, <1>3, <1>4, <1>5, <1>6, <1>7, <1>8, <1>9 DEF Next, Worker

\* Every variable keeps its type, whatever fault strikes.
THEOREM TypeCorrect == Spec => []TypeOK
<1>1. TypeOK /\ [Next]_vars => TypeOK'
  BY RowStep, EventsStep, ArqStep, LocalStep, ApiStep DEF TypeOK
<1>2. QED
  BY InitTypes, <1>1, PTL DEF Spec
------------------------------------------------------------------------------
(***************************************************************************)
(* The inductive invariant.  What a transaction has read may be stale, but *)
(* rows are never deleted, so a "done" status that was read still has its  *)
(* report; and a late round leaves a "cancelled" row that only the worker  *)
(* itself can overwrite, after its next callback or at the end.            *)
(***************************************************************************)

\* An execution under way is one of those arq counts, and its job has a row.
ExecutionInv ==
  /\ pc # "idle" => tries # 0
  /\ submitter = "ready" <=> status = "none"
  /\ submitter # "accepted" => queue = "absent" /\ pc = "idle"
  /\ \A c \in Clients : client[c] = "deciding" => submitter = "accepted"

RowsInv ==
  /\ ReportIsBilled
  /\ DoneHasReport
  /\ seen \in Done => report # 0
  /\ pc = "notify" => report # 0
  /\ CompletionCarriesReport

LateInv ==
  /\ OneLateRound
  /\ pc \in {"start", "starting", "progress"} => late = 0
  /\ pc = "research" /\ late # 0 => status = "cancelled"

IInv == ExecutionInv /\ RowsInv /\ LateInv

\* Executions stay accounted for.
LEMMA ExecutionStep == TypeOK /\ IInv /\ [Next]_vars => ExecutionInv'
<1> SUFFICES ASSUME TypeOK, IInv, [Next]_vars PROVE ExecutionInv'
  OBVIOUS
<1> USE DEF IInv, ExecutionInv, TypeOK, ArqType, ApiType, row, arq, local, api, vars, Goto, Leave, Raise
<1>1. CASE Submitter
  BY <1>1 DEF Submitter, SubmitInsert, SubmitEnqueue
<1>2. ASSUME NEW c \in Clients, CancelRead(c) \/ CancelCommit(c)
      PROVE  ExecutionInv'
  BY <1>2 DEF CancelRead, CancelCommit, Assign
<1>3. CASE Deliver
  BY <1>3 DEF Deliver
<1>4. CASE Finish \/ Timeout \/ Restart
  BY <1>4 DEF Finish, Timeout, Restart
<1>5. CASE StartRead \/ StartCommit \/ StartRaise
  BY <1>5 DEF StartRead, StartCommit, StartRaise, Assign
<1>6. CASE ProgressRead \/ ProgressCommit
  BY <1>6 DEF ProgressRead, ProgressCommit
<1>7. CASE ResearchReturn \/ ResearchRaise
  BY <1>7 DEF ResearchReturn, ResearchRaise
<1>8. CASE PublishRead \/ PublishRaise
  BY <1>8 DEF PublishRead, PublishRaise
<1>9. CASE PublishCommit
  BY <1>9 DEF PublishCommit, RowsAreFree, Assign, LocalType, Done
<1>10. CASE HandlerRead \/ HandlerRaise
  BY <1>10 DEF HandlerRead, HandlerRaise
<1>11. CASE HandlerCommit
  BY <1>11 DEF HandlerCommit, BillingRaises, Assign
<1>12. CASE Notify \/ NotifyRaise \/ NotifyFailed
  BY <1>12 DEF Notify, NotifyRaise, NotifyFailed, Payload
<1>13. CASE UNCHANGED vars
  BY <1>13
<1>14. QED
  BY <1>1, <1>2, <1>3, <1>4, <1>5, <1>6, <1>7, <1>8, <1>9, <1>10, <1>11, <1>12, <1>13
     DEF Next, Worker

\* No interleaving separates a done status, its report and its bill.
LEMMA RowsStep == TypeOK /\ IInv /\ [Next]_vars => RowsInv'
<1> SUFFICES ASSUME TypeOK, IInv, [Next]_vars PROVE RowsInv'
  OBVIOUS
<1> USE DEF IInv, ExecutionInv, RowsInv, ReportIsBilled, DoneHasReport, CompletionCarriesReport, Done, TypeOK, ArqType, LocalType, RowType, row, arq, local, api, vars, Goto, Leave, Raise
<1>1. CASE Submitter
  BY <1>1 DEF Submitter, SubmitInsert, SubmitEnqueue
<1>2. ASSUME NEW c \in Clients, CancelRead(c) \/ CancelCommit(c)
      PROVE  RowsInv'
  BY <1>2 DEF CancelRead, CancelCommit, Assign
<1>3. CASE Deliver
  BY <1>3 DEF Deliver
<1>4. CASE Finish \/ Timeout \/ Restart
  BY <1>4 DEF Finish, Timeout, Restart
<1>5. CASE StartRead \/ StartCommit \/ StartRaise
  BY <1>5 DEF StartRead, StartCommit, StartRaise, Assign
<1>6. CASE ProgressRead \/ ProgressCommit
  BY <1>6 DEF ProgressRead, ProgressCommit
<1>7. CASE ResearchReturn \/ ResearchRaise
  BY <1>7 DEF ResearchReturn, ResearchRaise
<1>8. CASE PublishRead \/ PublishRaise
  BY <1>8 DEF PublishRead, PublishRaise
<1>9. CASE PublishCommit
  BY <1>9 DEF PublishCommit, RowsAreFree, Assign
<1>10. CASE HandlerRead \/ HandlerRaise
  BY <1>10 DEF HandlerRead, HandlerRaise
<1>11. CASE HandlerCommit
  BY <1>11 DEF HandlerCommit, BillingRaises, Assign
<1>12. CASE Notify \/ NotifyRaise \/ NotifyFailed
  BY <1>12 DEF Notify, NotifyRaise, NotifyFailed, Payload
<1>13. CASE UNCHANGED vars
  BY <1>13
<1>14. QED
  BY <1>1, <1>2, <1>3, <1>4, <1>5, <1>6, <1>7, <1>8, <1>9, <1>10, <1>11, <1>12, <1>13
     DEF Next, Worker

\* A second late round cannot start.
LEMMA LateStep == TypeOK /\ IInv /\ [Next]_vars => LateInv'
<1> SUFFICES ASSUME TypeOK, IInv, [Next]_vars PROVE LateInv'
  OBVIOUS
<1> USE DEF IInv, ExecutionInv, LateInv, OneLateRound, TypeOK, LocalType, row, arq, local, api, vars, Goto, Leave, Raise
<1>1. CASE Submitter
  BY <1>1 DEF Submitter, SubmitInsert, SubmitEnqueue
<1>2. ASSUME NEW c \in Clients, CancelRead(c) \/ CancelCommit(c)
      PROVE  LateInv'
  BY <1>2 DEF CancelRead, CancelCommit, Assign
<1>3. CASE Deliver
  BY <1>3 DEF Deliver
<1>4. CASE Finish \/ Timeout \/ Restart
  BY <1>4 DEF Finish, Timeout, Restart
<1>5. CASE StartRead \/ StartCommit \/ StartRaise
  BY <1>5 DEF StartRead, StartCommit, StartRaise, Assign
<1>6. CASE ProgressRead \/ ProgressCommit
  BY <1>6 DEF ProgressRead, ProgressCommit
<1>7. CASE ResearchReturn \/ ResearchRaise
  BY <1>7 DEF ResearchReturn, ResearchRaise
<1>8. CASE PublishRead \/ PublishRaise
  BY <1>8 DEF PublishRead, PublishRaise
<1>9. CASE PublishCommit
  BY <1>9 DEF PublishCommit, RowsAreFree, Assign
<1>10. CASE HandlerRead \/ HandlerRaise
  BY <1>10 DEF HandlerRead, HandlerRaise
<1>11. CASE HandlerCommit
  BY <1>11 DEF HandlerCommit, BillingRaises, Assign
<1>12. CASE Notify \/ NotifyRaise \/ NotifyFailed
  BY <1>12 DEF Notify, NotifyRaise, NotifyFailed, Payload
<1>13. CASE UNCHANGED vars
  BY <1>13
<1>14. QED
  BY <1>1, <1>2, <1>3, <1>4, <1>5, <1>6, <1>7, <1>8, <1>9, <1>10, <1>11, <1>12, <1>13
     DEF Next, Worker

\* IInv is inductive.
LEMMA Inductive == Spec => []IInv
<1>1. Init => IInv
  BY DEF Init, IInv, ExecutionInv, RowsInv, LateInv, ReportIsBilled, DoneHasReport,
         CompletionCarriesReport, OneLateRound, Done
<1>2. TypeOK /\ IInv /\ [Next]_vars => IInv'
  BY ExecutionStep, RowsStep, LateStep DEF IInv
<1>3. QED
  BY TypeCorrect, <1>1, <1>2, PTL DEF Spec

\* Whoever finds a report finds the usage row of the same execution.
THEOREM ReportBilled == Spec => []ReportIsBilled
<1>1. IInv => ReportIsBilled
  BY DEF IInv, RowsInv
<1>2. QED
  BY Inductive, <1>1, PTL

\* A job shown as done has its report, under every interleaving and fault.
THEOREM DoneReported == Spec => []DoneHasReport
<1>1. IInv => DoneHasReport
  BY DEF IInv, RowsInv
<1>2. QED
  BY Inductive, <1>1, PTL

\* A completion webhook always carries the report it announces.
THEOREM CompletionReported == Spec => []CompletionCarriesReport
<1>1. IInv => CompletionCarriesReport
  BY DEF IInv, RowsInv
<1>2. QED
  BY Inductive, <1>1, PTL

\* At most one round is stored for a job that already reads "cancelled".
THEOREM LateRoundBounded == Spec => []OneLateRound
<1>1. IInv => OneLateRound
  BY DEF IInv, LateInv
<1>2. QED
  BY Inductive, <1>1, PTL
------------------------------------------------------------------------------
(* The rows change as JobRecord promises. *)

\* Every step of the lifecycle is a step of the record or leaves its rows alone.
LEMMA RecordStep ==
  TypeOK /\ IInv /\ [Next]_vars => [Record!Next]_(Record!recordVars)
<1> DEFINE Kept == UNCHANGED <<status, report, usage>>
<1> SUFFICES ASSUME TypeOK, IInv, [Next]_vars
             PROVE  Record!Next \/ Kept
  BY DEF Record!recordVars
<1> USE DEF row, vars
<1>1. pc # "idle" => tries \in Execution
  BY DEF TypeOK, ArqType, IInv, ExecutionInv, Execution
<1>2. CASE SubmitInsert
  <2>1. Record!Submit
    BY <1>2 DEF SubmitInsert, Record!Submit, IInv, ExecutionInv
  <2>2. QED
    BY <2>1 DEF Record!Next
<1>3. ASSUME NEW c \in Clients, CancelCommit(c)
      PROVE  Record!Next \/ Kept
  <2>1. Record!Cancel \/ Kept
    BY <1>3 DEF CancelCommit, Assign, Record!Cancel, IInv, ExecutionInv
  <2>2. QED
    BY <2>1 DEF Record!Next
<1>4. CASE StartCommit
  <2>1. Record!Start \/ Record!Fail(tries) \/ Kept
    BY <1>4 DEF StartCommit, Assign, Record!Start, Record!Fail, IInv, ExecutionInv
  <2>2. QED
    BY <1>1, <1>4, <2>1 DEF Record!Next, StartCommit
<1>5. CASE PublishCommit
  <2>1. CASE RowsAreFree
    <3>1. seen # outcome
      BY <2>1 DEF RowsAreFree, IInv, RowsInv, TypeOK, LocalType
    <3>2. Record!Publish(tries)
      BY <1>5, <2>1, <3>1
         DEF PublishCommit, RowsAreFree, Assign, Record!Publish, Record!Done, Done,
             IInv, ExecutionInv, TypeOK, LocalType
    <3>3. QED
      BY <1>1, <1>5, <3>2 DEF Record!Next, PublishCommit
  <2>2. CASE ~RowsAreFree
    BY <1>5, <2>2 DEF PublishCommit
  <2>3. QED
    BY <2>1, <2>2
<1>6. CASE HandlerCommit
  <2>1. Record!Fail(tries) \/ Kept
    BY <1>6 DEF HandlerCommit, BillingRaises, Assign, Record!Fail, IInv, ExecutionInv
  <2>2. QED
    BY <1>1, <1>6, <2>1 DEF Record!Next, HandlerCommit
<1>7. CASE SubmitEnqueue \/ Deliver \/ Finish \/ Timeout \/ Restart
  BY <1>7 DEF SubmitEnqueue, Deliver, Finish, Timeout, Restart
<1>8. ASSUME NEW c \in Clients, CancelRead(c)
      PROVE  Record!Next \/ Kept
  BY <1>8 DEF CancelRead
<1>9. CASE StartRead \/ StartRaise \/ ProgressRead \/ ProgressCommit
           \/ ResearchReturn \/ ResearchRaise
  BY <1>9 DEF StartRead, StartRaise, ProgressRead, ProgressCommit, ResearchReturn,
              ResearchRaise, Raise
<1>10. CASE PublishRead \/ PublishRaise \/ HandlerRead \/ HandlerRaise
            \/ Notify \/ NotifyRaise \/ NotifyFailed
  BY <1>10 DEF PublishRead, PublishRaise, HandlerRead, HandlerRaise, Notify,
               NotifyRaise, NotifyFailed, Raise
<1>11. CASE UNCHANGED vars
  BY <1>11
<1>12. QED
  BY <1>2, <1>3, <1>4, <1>5, <1>6, <1>7, <1>8, <1>9, <1>10, <1>11
     DEF Next, Submitter, Worker

\* Readers of the rows see only what JobRecord allows.
THEOREM RecordImplemented == Spec => ImplementsRecord
<1>1. Init => Record!Init
  BY DEF Init, Record!Init
<1>2. QED
  BY TypeCorrect, Inductive, RecordStep, <1>1, PTL
     DEF Spec, ImplementsRecord, Record!Spec

\* The rows of a report and of a bill are written once, over all executions.
THEOREM WrittenOnce == Spec => RowsWrittenOnce
<1>1. [Record!Next]_(Record!recordVars)
        => /\ report # 0 => report' = report
           /\ usage # 0 => usage' = usage
  BY DEF Record!Next, Record!recordVars, Record!Submit, Record!Start, Record!Publish,
         Record!Fail, Record!Cancel
<1>2. TypeOK /\ IInv /\ [Next]_vars
        => [/\ report # 0 => report' = report
            /\ usage # 0 => usage' = usage]_vars
  BY <1>1, RecordStep
<1>3. QED
  BY TypeCorrect, Inductive, <1>2, PTL DEF Spec, RowsWrittenOnce
------------------------------------------------------------------------------
(***************************************************************************)
(* A quiet environment: nothing cuts an execution short, the database      *)
(* answers.  The message is then delivered once, and the worker reaches    *)
(* its verdict before it has told anyone of one: until then the row says   *)
(* none.  Only the handler may be entered after the verdict, from a        *)
(* webhook that raised; the bill is then there, and the second one raises. *)
(***************************************************************************)

Quiet == Faults \cap {"database", "timeout", "restart"} = {}

Verdicts == Done \cup {"failed"}

\* Where the worker is before it publishes.
Working == {"start", "starting", "research", "progress", "publish", "publishing"}

OnceInv ==
  /\ queue = "queued" => pc = "idle"
  /\ pc # "idle" => queue = "in_progress"
  /\ queue \in {"absent", "queued"} \/ pc \in Working =>
       events = {} /\ status \notin Verdicts /\ report = 0

BilledInv ==
  /\ pc \in {"research", "progress", "publish", "publishing", "notify", "handler", "handling"} => llm
  /\ pc = "notify" => events = {} /\ usage # 0
  /\ pc \in {"handler", "handling"} =>
       \/ events = {} /\ status \notin Verdicts
       \/ usage # 0 /\ \A e \in events : e.event = "research.completed"
  /\ pc = "notify_failed" => events = {}

\* A cancel request under way has read an active job, or one that is done and whose status
\* ApiFinal leaves out; only another request has changed that one since.
RequestsInv ==
  \A c \in Clients : client[c] = "deciding" =>
    \/ cseen[c] \in {"queued", "running"}
    \/ /\ cseen[c] = "completed_with_warnings"
       /\ status \in {"completed_with_warnings", "cancelled"}
       /\ report # 0 /\ usage # 0

QuietInv == OnceInv /\ BilledInv /\ RequestsInv /\ OneVerdict

\* The step, if it changes a verdict, is the cancellation VerdictIsKept allows.
KeepsVerdict ==
  \A v \in Verdicts : status = v /\ status' # v =>
    /\ status' = "cancelled"
    /\ \E c \in Clients :
         /\ client[c] = "deciding" /\ client'[c] = "204"
         /\ \/ cseen[c] \in {"queued", "running"}
            \/ v = "completed_with_warnings" /\ cseen[c] = v

\* The invariant of a quiet environment is inductive.
LEMMA QuietStep ==
  ASSUME Quiet, TypeOK, IInv, QuietInv, [Next]_vars
  PROVE  QuietInv' /\ KeepsVerdict
<1> USE DEF QuietInv, OnceInv, BilledInv, RequestsInv, OneVerdict, KeepsVerdict, Verdicts, Done, Working, Quiet, row, arq, local, api,
            vars, Goto, Leave, Raise
<1>1. CASE Submitter
  BY <1>1 DEF Submitter, SubmitInsert, SubmitEnqueue, IInv, ExecutionInv
<1>2. ASSUME NEW c \in Clients, CancelRead(c) PROVE QuietInv' /\ KeepsVerdict
  <2>1. /\ UNCHANGED <<status, report, usage, events, queue, pc, llm>>
        /\ client \in [Clients -> {"ready", "deciding", "204", "409"}] /\ cseen \in [Clients -> Status]
        /\ client' = [client EXCEPT ![c] = IF status \in ApiFinal THEN "409" ELSE "deciding"]
        /\ cseen' = [cseen EXCEPT ![c] = status]
    BY <1>2 DEF CancelRead, TypeOK, ApiType
  <2>2. status \notin ApiFinal => \/ status \in {"queued", "running"}
                                  \/ status = "completed_with_warnings" /\ report # 0 /\ usage # 0
    BY <1>2 DEF CancelRead, TypeOK, RowType, Status, Terminal, ApiFinal, IInv, ExecutionInv, RowsInv,
                ReportIsBilled, DoneHasReport
  <2>3. RequestsInv'
    BY <2>1, <2>2
  <2>4. QED
    BY <2>1, <2>3
<1>3. ASSUME NEW c \in Clients, CancelCommit(c) PROVE QuietInv' /\ KeepsVerdict
  <2>1. /\ UNCHANGED <<report, usage, events, queue, pc, llm, cseen>>
        /\ client \in [Clients -> {"ready", "deciding", "204", "409"}]
        /\ client[c] = "deciding" /\ client' = [client EXCEPT ![c] = "204"]
        /\ status' = "cancelled"
    BY <1>3 DEF CancelCommit, Assign, TypeOK, ApiType
  <2>2. KeepsVerdict
    BY <2>1
  <2>3. RequestsInv'
    BY <2>1
  <2>4. QED
    BY <2>1, <2>2, <2>3
<1>4. CASE Deliver
  BY <1>4 DEF Deliver
<1>5. CASE Finish \/ Timeout \/ Restart
  BY <1>5 DEF Finish, Timeout, Restart
<1>6. CASE StartRead \/ StartCommit \/ StartRaise
  BY <1>6 DEF StartRead, StartCommit, StartRaise, Assign
<1>7. CASE ProgressRead \/ ProgressCommit
  BY <1>7 DEF ProgressRead, ProgressCommit
<1>8. CASE ResearchReturn \/ ResearchRaise
  BY <1>8 DEF ResearchReturn, ResearchRaise
<1>9. CASE PublishRead \/ PublishRaise
  BY <1>9 DEF PublishRead, PublishRaise
<1>10. CASE PublishCommit
  BY <1>10 DEF PublishCommit, RowsAreFree, Assign, IInv, ExecutionInv
<1>11. CASE HandlerRead \/ HandlerRaise
  BY <1>11 DEF HandlerRead, HandlerRaise
<1>12. CASE HandlerCommit
  BY <1>12 DEF HandlerCommit, BillingRaises, Assign
<1>13. CASE Notify \/ NotifyRaise \/ NotifyFailed
  BY <1>13 DEF Notify, NotifyRaise, NotifyFailed, Payload
<1>14. CASE UNCHANGED vars
  BY <1>14
<1>15. QED
  BY <1>1, <1>2, <1>3, <1>4, <1>5, <1>6, <1>7, <1>8, <1>9, <1>10, <1>11, <1>12, <1>13, <1>14
     DEF Next, Worker

LEMMA QuietAlways == ASSUME Quiet PROVE Spec => []QuietInv
<1>1. Init => QuietInv
  BY DEF Init, QuietInv, OnceInv, BilledInv, RequestsInv, OneVerdict, Verdicts, Done, Working
<1>2. TypeOK /\ IInv /\ QuietInv /\ [Next]_vars => QuietInv'
  BY QuietStep
<1>3. QED
  BY TypeCorrect, Inductive, <1>1, <1>2, PTL DEF Spec

\* In a quiet environment no subscriber of fire_webhook is told both that a job completed
\* and that it failed, whatever the engine and the webhook raise.
THEOREM QuietVerdict == ASSUME Quiet PROVE Spec => []OneVerdict
<1>1. QuietInv => OneVerdict
  BY DEF QuietInv
<1>2. QED
  BY <1>1, QuietAlways, PTL

\* In a quiet environment no step of run_research_job overwrites the verdict of a job: only
\* a cancel request does, and "completed" and "failed" only one that had read the row while
\* the job was still active.
THEOREM QuietVerdictKept == ASSUME Quiet PROVE Spec => VerdictIsKept
<1>1. TypeOK /\ IInv /\ QuietInv /\ [Next]_vars => [KeepsVerdict]_vars
  BY QuietStep
<1>2. KeepsVerdict =>
        \A v \in Done \cup {"failed"} : status = v /\ status' # v =>
          /\ status' = "cancelled"
          /\ \E c \in Clients :
               /\ client[c] = "deciding" /\ client'[c] = "204"
               /\ \/ cseen[c] \in {"queued", "running"}
                  \/ v = "completed_with_warnings" /\ cseen[c] = v
  BY DEF KeepsVerdict, Verdicts
<1>3. QED
  BY <1>1, <1>2, TypeCorrect, Inductive, QuietAlways, PTL DEF Spec, VerdictIsKept
==============================================================================
