--------------------------- MODULE JobClientsProofs ---------------------------
(***************************************************************************)
(* What those who follow a job are told, for any number of executions,     *)
(* rounds, sources, endpoints and attempts.                                *)
(***************************************************************************)
EXTENDS JobClients, FiniteSetTheorems, WellFoundedInduction, TLAPS

\* The rows: a job that is done has its report and all of its progress, and an
\* execution that still works is not of a job that is done.
RowsInv ==
  /\ status \in Done => report # 0 /\ pct = 100
  /\ pct = 100 => report # 0
  /\ worker = "running" => status \notin Done
  /\ worker = "none" => execution = 0
  /\ worker = "queued" => execution + 1 \in Executions
  /\ worker \in {"running", "announcing"} => execution \in Executions

\* The stream: progress of 100 was read either with "completed", or from a job that
\* is never to be completed again.
StreamInv ==
  /\ stream.at = "sources" /\ stream.status = "completed" => stream.pct = 100 /\ report # 0
  /\ stream.at = "sources" /\ stream.status # "completed" /\ stream.pct = 100
       => report # 0 /\ status # "completed"
  /\ stream.at = "sources" => stream.told # "completed"
  /\ stream.at = "job" => stream.told # "completed"
  /\ stream.at \in {"job", "sources"} /\ stream.last[1] = 100
       => /\ report # 0 /\ status # "completed"
          /\ stream.at = "sources" => stream.status # "completed"

\* The poll: it asks for the report when there is one.
PollInv ==
  /\ poll.at = "report" => report # 0
  /\ CompletedPollHasReport

\* The pages: everything from the cursor on has been seen.
PagesInv ==
  /\ pages.at = "first" => pages.cursor = 0 /\ pages.seen = {}
  /\ pages.at = "next" =>
       /\ pages.cursor # 0
       /\ pages.there \subseteq sources
       /\ \A s \in pages.seen : s >= pages.cursor
       /\ \A s \in pages.there : s >= pages.cursor => s \in pages.seen
  /\ PagesAreWhole

\* The deliveries of an execution all carry its verdict, and one that has none to
\* announce yet has no deliveries.
VerdictInv ==
  /\ \A d \in deliveries : d.execution <= execution
  /\ \A d \in deliveries : d.execution = execution => worker # "running" /\ d.event = verdict
  /\ EndpointsAgree

\* The posts of a delivery are the attempts behind it, and the one a crash repeats.
EffortOf(d) ==
  /\ d.again => crashed
  /\ d.state = "waiting" /\ ~d.again => d.posts = d.attempt - 1
  /\ d.state = "waiting" /\ d.again => d.posts = d.attempt
  /\ d.state # "waiting" /\ ~d.again => d.posts = d.attempt
  /\ d.state # "waiting" /\ d.again => d.posts = d.attempt + 1
  /\ d.state = "given up" => d.attempt = MaxAttempts

EffortInv == \A d \in deliveries : EffortOf(d)
------------------------------------------------------------------------------
(* Arithmetic and sets *)

\* The progress of a round that is not the last but one of too many is at most 90.
LEMMA ProgressBounded ==
  ASSUME NEW r \in 0..MaxRounds, r < MaxRounds
  PROVE  ((r + 1) * 90) \div MaxRounds \in 0..90
<1> DEFINE q == ((r + 1) * 90) \div MaxRounds
<1>1. MaxRounds \in Nat /\ MaxRounds > 0
  BY MaxRoundsAssumption DEF MaxRoundsAssumption
<1>2. q \in Int /\ MaxRounds * q <= (r + 1) * 90 /\ (r + 1) * 90 < MaxRounds * (q + 1)
  BY <1>1, Z3
<1>3. (r + 1) * 90 <= MaxRounds * 90 /\ (r + 1) * 90 >= 0
  BY <1>1
<1>4. q <= 90
  BY <1>1, <1>2, <1>3, Z3
<1>5. q >= 0
  BY <1>1, <1>2, <1>3, Z3
<1>6. QED
  BY <1>2, <1>4, <1>5

LessThan == OpToRel(<, Nat)

\* Every set of natural numbers that is not empty has a least element.
LEMMA LeastNumber ==
  ASSUME NEW S \in SUBSET Nat, S # {}
  PROVE  \E least \in S : \A s \in S : least <= s
<1>1. PICK least \in S : \A s \in S : <<s, least>> \notin LessThan
  BY WFMin, NatLessThanWellFounded, Zenon DEF LessThan
<1>2. LessThan = {p \in Nat \X Nat : p[1] < p[2]}
  BY Zenon DEF LessThan, OpToRel
<1>3. \A s, t \in Nat : s < t => <<s, t>> \in LessThan
  BY <1>2
<1>4. ASSUME NEW s \in S PROVE least <= s
  <2>1. s \in Nat /\ least \in Nat /\ ~(s < least)
    BY <1>1, <1>3
  <2>2. QED
    BY <2>1
<1>5. QED
  BY <1>4

\* What is stored of sources is finite, and no more than there is.
LEMMA SourcesFinite ==
  ASSUME NEW S \in SUBSET SourceKeys
  PROVE  /\ IsFiniteSet(S)
         /\ Cardinality(S) \in 0..Cardinality(SourceKeys)
<1>1. IsFiniteSet(SourceKeys)
  BY SourceKeysAssumption DEF SourceKeysAssumption
<1>2. IsFiniteSet(S) /\ Cardinality(S) <= Cardinality(SourceKeys)
  BY <1>1, FS_Subset
<1>3. Cardinality(S) \in Nat /\ Cardinality(SourceKeys) \in Nat
  BY <1>1, <1>2, FS_CardinalityType
<1>4. QED
  BY <1>2, <1>3

Above(rest, s) == {t \in rest : t > s}

\* Fewer sources are above the greater of two.
LEMMA AboveShrinks ==
  ASSUME NEW rest \in SUBSET SourceKeys, NEW s \in rest, NEW t \in rest, s < t
  PROVE  /\ Cardinality(Above(rest, t)) \in Nat
         /\ Cardinality(Above(rest, t)) < Cardinality(Above(rest, s))
<1>0. \A r \in rest : r \in Nat
  BY SourceKeysAssumption DEF SourceKeysAssumption
<1>1. /\ Above(rest, t) \in SUBSET Above(rest, s)
      /\ t \in Above(rest, s) /\ t \notin Above(rest, t)
  BY <1>0 DEF Above
<1>2. IsFiniteSet(Above(rest, s)) /\ IsFiniteSet(Above(rest, t))
  BY SourcesFinite DEF Above
<1>3. Cardinality(Above(rest, s)) \in Nat /\ Cardinality(Above(rest, t)) \in Nat
  BY <1>2, FS_CardinalityType
<1>4. QED
  BY <1>1, <1>2, <1>3, FS_Subset

\* A page is made of the last sources of the rest.
LEMMA PageIsTop ==
  ASSUME NEW rest \in SUBSET SourceKeys, NEW s \in Page(rest), NEW t \in rest, s < t
  PROVE  t \in Page(rest)
<1>1. s \in rest /\ Cardinality(Above(rest, s)) < Limit
  BY DEF Page, Above
<1>2. Cardinality(Above(rest, t)) < Cardinality(Above(rest, s))
  BY <1>1, AboveShrinks
<1>3. Cardinality(Above(rest, t)) \in Nat /\ Cardinality(Above(rest, s)) \in Nat
  BY SourcesFinite, FS_CardinalityType DEF Above
<1>4. QED
  BY <1>1, <1>2, <1>3, LimitAssumption DEF LimitAssumption, Page, Above

\* A rest of no more than Limit sources fits on its page.
LEMMA LastPage ==
  ASSUME NEW rest \in SUBSET SourceKeys, Cardinality(rest) <= Limit
  PROVE  Page(rest) = rest
<1> SUFFICES ASSUME NEW s \in rest PROVE Cardinality(Above(rest, s)) < Limit
  BY DEF Page, Above
<1>1. IsFiniteSet(rest) /\ Cardinality(rest) \in Nat
  BY SourcesFinite, FS_CardinalityType
<1>2. Above(rest, s) \in SUBSET rest /\ Above(rest, s) # rest
  BY SourceKeysAssumption DEF SourceKeysAssumption, Above
<1>3. Cardinality(Above(rest, s)) \in Nat
  BY SourcesFinite, FS_CardinalityType DEF Above
<1>4. QED
  BY <1>1, <1>2, <1>3, FS_Subset, LimitAssumption DEF LimitAssumption

\* A page is empty only if there is nothing left: the greatest source is on it.
LEMMA PageNotEmpty ==
  ASSUME NEW rest \in SUBSET SourceKeys, rest # {}
  PROVE  Page(rest) # {}
<1> DEFINE counts == {Cardinality(Above(rest, s)) : s \in rest}
<1>1. \A s \in rest : Cardinality(Above(rest, s)) \in Nat
  BY SourcesFinite, FS_CardinalityType DEF Above
<1>2. counts \in SUBSET Nat /\ counts # {}
  BY <1>1
<1>3. PICK least \in counts : \A n \in counts : least <= n
  BY <1>2, LeastNumber
<1>4. PICK s \in rest : least = Cardinality(Above(rest, s))
  OBVIOUS
<1>5. Above(rest, s) = {}
  <2>1. SUFFICES ASSUME NEW t \in Above(rest, s) PROVE FALSE
    OBVIOUS
  <2>2. t \in rest /\ s < t
    BY <2>1, SourceKeysAssumption DEF SourceKeysAssumption, Above
  <2>3. Cardinality(Above(rest, t)) < Cardinality(Above(rest, s))
    BY <2>2, AboveShrinks
  <2>4. least <= Cardinality(Above(rest, t))
    BY <1>3, <2>2
  <2>5. QED
    BY <1>1, <1>4, <2>2, <2>3, <2>4
<1>6. Cardinality(Above(rest, s)) = 0
  BY <1>5, FS_EmptySet
<1>7. QED
  BY <1>4, <1>6, LimitAssumption DEF LimitAssumption, Page, Above

\* Least is the least source of a page.
LEMMA LeastOfPage ==
  ASSUME NEW page \in SUBSET SourceKeys, page # {}
  PROVE  Least(page) \in page /\ \A s \in page : Least(page) <= s
<1>1. page \in SUBSET Nat
  BY SourceKeysAssumption DEF SourceKeysAssumption
<1>2. \E least \in page : \A s \in page : least <= s
  BY <1>1, LeastNumber
<1>3. QED
  BY <1>2 DEF Least
------------------------------------------------------------------------------
(* The rows and the worker *)

RowsType ==
  /\ TypeOK
  /\ pct \in 0..100 /\ sources \subseteq SourceKeys
  /\ worker \in {"none", "queued", "running", "announcing", "over"}
  /\ execution \in Executions \cup {0} /\ round \in 0..MaxRounds
  /\ verdict \in Event /\ unheard \subseteq Endpoints
  /\ follower \in Followers

RowsChange ==
  \/ JobStart \/ JobProgress \/ JobPublish \/ JobFail
  \/ (\E e \in Endpoints : Tell(e)) \/ TellRaise
  \/ JobSubmit \/ JobCancel \/ CutShort

\* The followers leave the rows and the worker alone.
LEMMA RowsStep == RowsType /\ RowsInv /\ [ClientsNext]_vars => RowsType' /\ RowsInv'
<1> SUFFICES ASSUME RowsType, RowsInv, [ClientsNext]_vars PROVE RowsType' /\ RowsInv'
  OBVIOUS
<1> USE ExecutionsAssumption, MaxRoundsAssumption
    DEF ExecutionsAssumption, MaxRoundsAssumption, RowsType, RowsInv, TypeOK, Status, Terminal, Done, Event, Followers
<1>1. \/ RowsChange /\ UNCHANGED follower
      \/ UNCHANGED <<jobVars, workerVars, follower>>
  BY DEF ClientsNext, RowsChange, Worker, Telling, World, Hooks, View, vars
<1>2. CASE JobStart /\ UNCHANGED follower
  BY <1>2 DEF JobStart, Start, Fail, Announce, jobVars, recordVars
<1>3. CASE JobProgress /\ UNCHANGED follower
  <2>1. pct' \in 0..90
    BY <1>3, ProgressBounded DEF JobProgress
  <2>2. sources' \subseteq SourceKeys
    BY <1>3 DEF JobProgress
  <2>3. QED
    BY <1>3, <2>1, <2>2 DEF JobProgress, recordVars
<1>4. CASE JobPublish /\ UNCHANGED follower
  BY <1>4 DEF JobPublish, Publish, Announce
<1>5. CASE JobFail /\ UNCHANGED follower
  BY <1>5 DEF JobFail, Fail, Announce, jobVars, recordVars
<1>6. CASE (\E e \in Endpoints : Tell(e)) /\ UNCHANGED follower
  BY <1>6 DEF Tell, jobVars, recordVars
<1>7. CASE (TellRaise \/ CutShort) /\ UNCHANGED follower
  BY <1>7 DEF TellRaise, CutShort, jobVars, recordVars
<1>8. CASE (JobSubmit \/ JobCancel) /\ UNCHANGED follower
  BY <1>8 DEF JobSubmit, Submit, JobCancel, Cancel, workerVars
<1>9. CASE UNCHANGED <<jobVars, workerVars, follower>>
  BY <1>9 DEF jobVars, recordVars, workerVars
<1>10. QED
  BY <1>1, <1>2, <1>3, <1>4, <1>5, <1>6, <1>7, <1>8, <1>9 DEF RowsChange

\* A report stays; a job that has one is not completed again.
LEMMA ReportStays ==
  RowsType /\ RowsInv /\ [ClientsNext]_vars =>
    /\ report # 0 => report' # 0
    /\ report # 0 /\ status # "completed" => status' # "completed"
    /\ sources \subseteq sources'
<1> SUFFICES ASSUME RowsType, RowsInv, [ClientsNext]_vars
             PROVE  /\ report # 0 => report' # 0
                    /\ report # 0 /\ status # "completed" => status' # "completed"
                    /\ sources \subseteq sources'
  OBVIOUS
<1>1. RowsChange \/ UNCHANGED jobVars
  BY DEF ClientsNext, RowsChange, Worker, Telling, World, Hooks, View, vars
<1>2. CASE JobStart
  BY <1>2 DEF JobStart, Start, Fail, Announce, jobVars, recordVars
<1>3. CASE JobProgress
  BY <1>3 DEF JobProgress, recordVars
<1>4. CASE JobPublish
  BY <1>4 DEF JobPublish, Publish
<1>5. CASE JobFail
  BY <1>5 DEF JobFail, Fail, jobVars, recordVars
<1>6. CASE (\E e \in Endpoints : Tell(e)) \/ TellRaise \/ CutShort
  BY <1>6 DEF Tell, TellRaise, CutShort, jobVars, recordVars
<1>7. CASE JobSubmit \/ JobCancel
  BY <1>7 DEF JobSubmit, Submit, JobCancel, Cancel
<1>8. QED
  BY <1>1, <1>2, <1>3, <1>4, <1>5, <1>6, <1>7 DEF RowsChange, jobVars, recordVars
------------------------------------------------------------------------------
(* The stream *)

StreamType ==
  stream \in [at : {"job", "sources", "over", "left"}, status : Status, pct : 0..100,
              last : (0..101) \X (0..Cardinality(SourceKeys)), told : Status]

\* Between a stream's look at the job and what it tells, the worker may do anything.
LEMMA StreamStep ==
  RowsType /\ RowsInv /\ StreamType /\ StreamInv /\ [ClientsNext]_vars => StreamType' /\ StreamInv'
<1> SUFFICES ASSUME RowsType, RowsInv, StreamType, StreamInv, [ClientsNext]_vars
             PROVE  StreamType' /\ StreamInv'
  OBVIOUS
<1>1. /\ report # 0 => report' # 0
      /\ report # 0 /\ status # "completed" => status' # "completed"
  BY ReportStays
<1>2. CASE UNCHANGED stream
  BY <1>1, <1>2 DEF StreamType, StreamInv
<1>3. CASE StreamRead /\ UNCHANGED jobVars
  <2>1. StreamType'
    BY <1>3 DEF StreamRead, StreamType, RowsType, TypeOK
  <2>2. StreamInv'
    BY <1>3 DEF StreamRead, StreamType, StreamInv, RowsInv, Done, jobVars, recordVars
  <2>3. QED
    BY <2>1, <2>2
<1>4. CASE StreamTell /\ UNCHANGED jobVars
  <2> DEFINE now == <<stream.pct, Cardinality(sources)>>
             next == IF stream.status \in ApiFinal THEN "over" ELSE "job"
  <2>1. now \in (0..101) \X (0..Cardinality(SourceKeys))
    <3>1. stream.pct \in 0..101
      BY DEF StreamType
    <3>2. Cardinality(sources) \in 0..Cardinality(SourceKeys)
      BY SourcesFinite DEF RowsType
    <3>3. QED
      BY <3>1, <3>2
  <2>2. CASE now = stream.last
    <3>1. stream' = [stream EXCEPT !.at = next]
      BY <1>4, <2>2 DEF StreamTell
    <3>2. StreamType'
      BY <3>1 DEF StreamType
    <3>3. StreamInv'
      BY <1>4, <2>2, <3>1 DEF StreamTell, StreamType, StreamInv, jobVars, recordVars
    <3>4. QED
      BY <3>2, <3>3
  <2>3. CASE now # stream.last
    <3>1. stream' = [stream EXCEPT !.at = next, !.last = now, !.told = stream.status]
      BY <1>4, <2>3 DEF StreamTell
    <3>2. StreamType'
      <4>1. next \in {"job", "over"}
        OBVIOUS
      <4>2. QED
        <5> HIDE DEF now, next
        <5> QED
          BY <2>1, <3>1, <4>1 DEF StreamType
    <3>3. StreamInv'
      BY <1>4, <3>1 DEF StreamTell, StreamType, StreamInv, ApiFinal, jobVars, recordVars
    <3>4. QED
      BY <3>2, <3>3
  <2>4. QED
    BY <2>2, <2>3
<1>5. CASE StreamLeave
  BY <1>5 DEF StreamLeave, StreamType, StreamInv
<1>6. QED
  BY <1>2, <1>3, <1>4, <1>5 DEF ClientsNext, View, Streaming, Polling, Paging, viewVars, vars

\* The stream that ends for "completed" has told it with the progress of 100.
LEMMA StreamTold ==
  RowsType /\ RowsInv /\ StreamType /\ StreamInv /\ CompletionTold /\ [ClientsNext]_vars
    => CompletionTold'
<1> SUFFICES ASSUME RowsType, RowsInv, StreamType, StreamInv, CompletionTold, [ClientsNext]_vars
             PROVE  CompletionTold'
  OBVIOUS
<1>1. CASE UNCHANGED stream
  BY <1>1 DEF CompletionTold
<1>2. CASE StreamRead \/ StreamLeave
  BY <1>2 DEF StreamRead, StreamLeave, StreamType, CompletionTold
<1>3. CASE StreamTell
  <2> DEFINE now == <<stream.pct, Cardinality(sources)>>
  <2>1. CASE stream.status = "completed"
    <3>1. stream.pct = 100
      BY <1>3, <2>1 DEF StreamTell, StreamInv
    <3>2. now # stream.last
      BY <1>3, <2>1, <3>1 DEF StreamTell, StreamInv
    <3>3. stream'.told = "completed" /\ stream'.last = now
      BY <1>3, <2>1, <3>2 DEF StreamTell, StreamType
    <3>4. QED
      BY <3>1, <3>3 DEF CompletionTold
  <2>2. CASE stream.status # "completed"
    <3>1. stream'.status = stream.status
      BY <1>3 DEF StreamTell, StreamType
    <3>2. QED
      BY <2>2, <3>1 DEF CompletionTold
  <2>3. QED
    BY <2>1, <2>2
<1>4. QED
  BY <1>1, <1>2, <1>3 DEF ClientsNext, View, Streaming, Polling, Paging, viewVars, vars
------------------------------------------------------------------------------
(* The poll *)

PollType ==
  poll \in [at : {"job", "report", "over"}, status : Status, report : Executions \cup {0}]

\* Between a poll's look at the job and at the report, the worker may do anything.
LEMMA PollStep ==
  RowsType /\ RowsInv /\ PollType /\ PollInv /\ [ClientsNext]_vars => PollType' /\ PollInv'
<1> SUFFICES ASSUME RowsType, RowsInv, PollType, PollInv, [ClientsNext]_vars
             PROVE  PollType' /\ PollInv'
  OBVIOUS
<1>1. report # 0 => report' # 0
  BY ReportStays
<1>2. CASE UNCHANGED poll
  BY <1>1, <1>2 DEF PollType, PollInv, CompletedPollHasReport
<1>3. CASE PollJob /\ UNCHANGED jobVars
  <2>1. PollType'
    BY <1>3 DEF PollJob, PollType, RowsType, TypeOK
  <2>2. PollInv'
    BY <1>3 DEF PollJob, PollType, PollInv, CompletedPollHasReport, RowsInv, Done, jobVars, recordVars
  <2>3. QED
    BY <2>1, <2>2
<1>4. CASE PollReport /\ UNCHANGED jobVars
  BY <1>4 DEF PollReport, PollType, PollInv, CompletedPollHasReport, RowsType, TypeOK, jobVars, recordVars
<1>5. QED
  BY <1>2, <1>3, <1>4 DEF ClientsNext, View, Streaming, Polling, Paging, viewVars, vars
------------------------------------------------------------------------------
(* The pages *)

PagesType ==
  pages \in [at : {"first", "next", "over"}, cursor : SourceKeys \cup {0},
             there : SUBSET SourceKeys, seen : SUBSET SourceKeys, twice : BOOLEAN]

\* Sources may be stored between two pages, before the cursor as well as behind it.
LEMMA PagesStep ==
  RowsType /\ RowsInv /\ PagesType /\ PagesInv /\ [ClientsNext]_vars => PagesType' /\ PagesInv'
<1> SUFFICES ASSUME RowsType, RowsInv, PagesType, PagesInv, [ClientsNext]_vars
             PROVE  PagesType' /\ PagesInv'
  OBVIOUS
<1>1. sources \subseteq sources'
  BY ReportStays
<1>2. CASE UNCHANGED pages
  BY <1>1, <1>2 DEF PagesType, PagesInv, PagesAreWhole
<1>3. CASE PageRead /\ UNCHANGED jobVars
  <2> DEFINE rest == Rest(pages.cursor)
             page == Page(rest)
  <2>0. \A s \in SourceKeys : s \in Nat /\ s # 0
    BY SourceKeysAssumption DEF SourceKeysAssumption
  <2>1. /\ pages.at \in {"first", "next"}
        /\ pages' = [at |-> IF Cardinality(rest) > Limit THEN "next" ELSE "over",
                     cursor |-> IF page = {} THEN 0 ELSE Least(page),
                     there |-> IF pages.at = "first" THEN sources ELSE pages.there,
                     seen |-> pages.seen \cup page,
                     twice |-> pages.twice \/ pages.seen \cap page # {}]
        /\ sources' = sources
    BY <1>3 DEF PageRead, jobVars
  <2>2. rest \in SUBSET SourceKeys /\ page \in SUBSET rest
    BY DEF RowsType, Rest, Page
  <2>3. page # {} => Least(page) \in page /\ \A s \in page : Least(page) <= s
    BY <2>2, LeastOfPage
  <2>4. PagesType'
    BY <2>1, <2>2, <2>3 DEF PagesType, RowsType
  <2>5. pages.cursor \in Nat /\ (pages.at = "next" => pages.cursor # 0)
    BY <2>0 DEF PagesType, PagesInv
  <2>6. \A s \in page : pages.at = "next" => s < pages.cursor
    BY <2>2, <2>5 DEF Rest, Beyond
  <2>7. pages.seen \cap page = {} /\ ~pages'.twice
    BY <2>0, <2>1, <2>2, <2>5, <2>6 DEF PagesInv, PagesAreWhole, PagesType
  <2>8. \A s \in pages'.there : s \in rest \/ s \in pages.seen
    BY <2>0, <2>1, <2>5 DEF Rest, Beyond, PagesInv, PagesType, RowsType
  <2>9. CASE Cardinality(rest) > Limit
    <3>1. page # {}
      <4>1. rest # {}
        BY <2>9, FS_EmptySet, LimitAssumption DEF LimitAssumption
      <4>2. QED
        BY <2>2, <4>1, PageNotEmpty
    <3>2. pages'.at = "next" /\ pages'.cursor = Least(page)
      BY <2>1, <2>9, <3>1
    <3>3. \A s \in pages'.seen : s >= Least(page)
      BY <2>0, <2>1, <2>2, <2>3, <2>5, <2>6, <3>1 DEF PagesInv, PagesType
    <3>4. ASSUME NEW s \in pages'.there, s >= Least(page) PROVE s \in pages'.seen
      <4>1. CASE s \in rest
        <5>1. s = Least(page) \/ Least(page) < s
          BY <2>0, <2>2, <2>3, <3>1, <3>4, <4>1
        <5>2. s \in page
          BY <2>2, <2>3, <3>1, <4>1, <5>1, PageIsTop
        <5>3. QED
          BY <2>1, <5>2
      <4>2. CASE s \in pages.seen
        BY <2>1, <4>2
      <4>3. QED
        BY <2>8, <4>1, <4>2
    <3>5. pages'.there \subseteq sources' /\ Least(page) # 0
      BY <2>0, <2>1, <2>2, <2>3, <3>1 DEF PagesInv
    <3>6. QED
      BY <2>4, <2>7, <3>2, <3>3, <3>4, <3>5 DEF PagesInv, PagesAreWhole
  <2>10. CASE ~(Cardinality(rest) > Limit)
    <3>1. Cardinality(rest) \in Nat
      BY <2>2, SourcesFinite
    <3>2. page = rest
      BY <2>2, <2>10, <3>1, LastPage, LimitAssumption DEF LimitAssumption
    <3>3. pages'.at = "over" /\ pages'.there \subseteq pages'.seen
      BY <2>1, <2>8, <2>10, <3>2
    <3>4. QED
      BY <2>4, <2>7, <3>3 DEF PagesInv, PagesAreWhole
  <2>11. QED
    BY <2>9, <2>10
<1>4. QED
  BY <1>2, <1>3 DEF ClientsNext, View, Streaming, Polling, Paging, viewVars, vars
------------------------------------------------------------------------------
(* The deliveries *)

HooksType ==
  /\ deliveries \subseteq Delivery(Executions)
  /\ held \subseteq Endpoints /\ crashed \in BOOLEAN

\* A post of a delivery that waits is counted: the count is not at its bound.
LEMMA PostCounted ==
  ASSUME HooksType, EffortInv, NEW d \in deliveries, d.state = "waiting"
  PROVE  /\ d.posts \in {d.attempt - 1, d.attempt}
         /\ Posted(d) = [d EXCEPT !.posts = d.posts + 1]
         /\ Posted(d) \in Delivery(Executions)
<1>1. /\ d \in Delivery(Executions)
      /\ d.attempt \in 1..MaxAttempts /\ d.posts \in 0..(MaxAttempts + 1)
  BY DEF HooksType, Delivery
<1>2. d.posts \in {d.attempt - 1, d.attempt}
  BY DEF EffortInv, EffortOf
<1>3. d.posts + 1 \in 0..(MaxAttempts + 1) /\ ~(d.posts > MaxAttempts)
  BY <1>1, <1>2, MaxAttemptsAssumption DEF MaxAttemptsAssumption
<1>4. Posted(d) = [d EXCEPT !.posts = d.posts + 1]
  BY <1>3 DEF Posted
<1>5. QED
  BY <1>1, <1>2, <1>3, <1>4 DEF Delivery

\* Whatever a post comes to, it is one post and at most one attempt more.
LEMMA OutcomesKeepEffort ==
  ASSUME HooksType, EffortInv, NEW d \in deliveries, d.state = "waiting", NEW new \in Outcomes(d)
  PROVE  /\ new \in Delivery(Executions)
         /\ new.execution = d.execution /\ new.event = d.event /\ new.again = d.again
         /\ EffortOf(new)
<1>1. /\ d \in Delivery(Executions) /\ EffortOf(d)
      /\ d.attempt \in 1..MaxAttempts /\ d.posts \in 0..(MaxAttempts + 1)
  BY DEF HooksType, Delivery, EffortInv
<1>2. PICK p \in Delivery(Executions) : p = Posted(d) /\ p = [d EXCEPT !.posts = d.posts + 1]
  BY PostCounted
<1>3. /\ p.attempt = d.attempt /\ p.posts = d.posts + 1 /\ p.state = "waiting"
      /\ p.again = d.again /\ p.execution = d.execution /\ p.event = d.event
  BY <1>1, <1>2 DEF Delivery
<1> USE MaxAttemptsAssumption DEF MaxAttemptsAssumption
<1>4. CASE new = [p EXCEPT !.state = "delivered"] \/ (new = [p EXCEPT !.state = "lost"])
  <2>1. new \in Delivery(Executions)
    BY <1>2, <1>4 DEF Delivery
  <2>2. /\ new.attempt = p.attempt /\ new.posts = p.posts /\ new.state \in {"delivered", "lost"}
        /\ new.again = p.again /\ new.execution = p.execution /\ new.event = p.event
    BY <1>2, <1>4 DEF Delivery
  <2>3. d.posts = (IF d.again THEN d.attempt ELSE d.attempt - 1)
    BY <1>1 DEF EffortOf
  <2>4. new.posts = (IF new.again THEN new.attempt + 1 ELSE new.attempt)
    BY <1>1, <1>3, <2>2, <2>3
  <2>5. new.again => crashed
    BY <1>1, <1>3, <2>2 DEF EffortOf
  <2>6. EffortOf(new)
    BY <2>2, <2>4, <2>5 DEF EffortOf
  <2>7. QED
    BY <1>3, <2>1, <2>2, <2>6
<1>5. CASE new = [p EXCEPT !.attempt = p.attempt + 1] /\ d.attempt < MaxAttempts
  <2>0. p.attempt + 1 \in 1..MaxAttempts
    BY <1>1, <1>3, <1>5
  <2>1. new \in Delivery(Executions)
    BY <1>2, <1>5, <2>0 DEF Delivery
  <2>2. /\ new.attempt = p.attempt + 1 /\ new.posts = p.posts /\ new.state = p.state
        /\ new.again = p.again /\ new.execution = p.execution /\ new.event = p.event
    BY <1>2, <1>5 DEF Delivery
  <2>3. QED
    BY <1>1, <1>3, <2>1, <2>2 DEF EffortOf
<1>6. CASE new = [p EXCEPT !.state = "given up"] /\ ~(d.attempt < MaxAttempts)
  <2>1. new \in Delivery(Executions)
    BY <1>2, <1>6 DEF Delivery
  <2>2. /\ new.attempt = p.attempt /\ new.posts = p.posts
        /\ new.again = p.again /\ new.execution = p.execution /\ new.event = p.event
    BY <1>2, <1>6 DEF Delivery
  <2>3. new.state = "given up"
    BY <1>2, <1>6 DEF Delivery
  <2>4. d.posts = (IF d.again THEN d.attempt ELSE d.attempt - 1)
    BY <1>1 DEF EffortOf
  <2>5. ~(d.attempt < MaxAttempts)
    BY <1>6
  <2>6. new.attempt = MaxAttempts
    BY <1>1, <1>3, <2>2, <2>5
  <2>7. new.posts = (IF new.again THEN new.attempt + 1 ELSE new.attempt)
    BY <1>1, <1>3, <2>2, <2>4
  <2>8. new.again => crashed
    BY <1>1, <1>3, <2>2 DEF EffortOf
  <2>9. EffortOf(new)
    BY <2>2, <2>3, <2>6, <2>7, <2>8 DEF EffortOf
  <2>10. QED
    BY <1>3, <2>1, <2>2, <2>9
<1>7. QED
  BY <1>2, <1>4, <1>5, <1>6 DEF Outcomes, AfterFailedPost

\* Enqueueing, posting, crashing and forgetting keep verdicts and efforts.
LEMMA HooksStep ==
  RowsType /\ RowsInv /\ HooksType /\ VerdictInv /\ EffortInv /\ [ClientsNext]_vars
    => HooksType' /\ VerdictInv' /\ EffortInv'
<1> SUFFICES ASSUME RowsType, RowsInv, HooksType, VerdictInv, EffortInv, [ClientsNext]_vars
             PROVE  HooksType' /\ VerdictInv' /\ EffortInv'
  OBVIOUS
<1> USE ExecutionsAssumption, MaxAttemptsAssumption DEF ExecutionsAssumption, MaxAttemptsAssumption
<1>0. \A e \in Executions \cup {0} : e \in Nat
  OBVIOUS
<1>1. CASE Worker
  <2>1. UNCHANGED hookVars
    BY <1>1 DEF Worker
  <2>2. HooksType' /\ EffortInv'
    BY <2>1 DEF HooksType, EffortInv, EffortOf, hookVars
  <2>3. \/ execution' = execution + 1
        \/ UNCHANGED <<execution, verdict, worker>>
        \/ execution' = execution /\ worker = "running" /\ worker' # "running"
    BY <1>1 DEF Worker, JobStart, JobProgress, JobPublish, JobFail, Announce
  <2>4. VerdictInv'
    <3>1. execution \in Nat /\ \A d \in deliveries : d.execution \in Nat
      BY <1>0 DEF RowsType, HooksType, Delivery
    <3>2. deliveries' = deliveries
      BY <2>1 DEF hookVars
    <3>3. CASE execution' = execution + 1
      BY <3>1, <3>2, <3>3 DEF VerdictInv, EndpointsAgree
    <3>4. CASE UNCHANGED <<execution, verdict, worker>>
      BY <3>2, <3>4 DEF VerdictInv, EndpointsAgree
    <3>5. CASE execution' = execution /\ worker = "running" /\ worker' # "running"
      BY <3>2, <3>5 DEF VerdictInv, EndpointsAgree
    <3>6. QED
      BY <2>3, <3>3, <3>4, <3>5
  <2>5. QED
    BY <2>2, <2>4
<1>2. ASSUME NEW e \in Endpoints, Tell(e) PROVE HooksType' /\ VerdictInv' /\ EffortInv'
  <2> DEFINE first == [endpoint |-> e, event |-> verdict, execution |-> execution,
                       again |-> FALSE, attempt |-> 1, posts |-> 0, state |-> "waiting"]
  <2>1. /\ deliveries' = deliveries \/ deliveries' = deliveries \cup {first}
        /\ held' \subseteq held \cup {e} /\ UNCHANGED <<crashed, execution, verdict>>
        /\ worker = "announcing" /\ worker' # "running"
    BY <1>2 DEF Tell, Enqueue
  <2>2. first \in Delivery(Executions)
    BY <2>1 DEF Delivery, RowsType, RowsInv
  <2>3. HooksType'
    BY <2>1, <2>2 DEF HooksType
  <2>4. EffortInv'
    <3>1. EffortOf(first)
      BY DEF EffortOf
    <3>2. QED
      BY <2>1, <3>1 DEF EffortInv, EffortOf
  <2>5. VerdictInv'
    BY <1>0, <2>1 DEF VerdictInv, EndpointsAgree, RowsType
  <2>6. QED
    BY <2>3, <2>4, <2>5
<1>3. CASE (TellRaise \/ JobSubmit \/ JobCancel \/ CutShort) /\ UNCHANGED hookVars
  <2>1. UNCHANGED <<hookVars, execution, verdict>> /\ (worker' = "running" => worker = "running")
    BY <1>3 DEF TellRaise, JobSubmit, JobCancel, CutShort, workerVars
  <2>2. QED
    BY <2>1 DEF HooksType, EffortInv, EffortOf, VerdictInv, EndpointsAgree, hookVars
<1>4. ASSUME NEW d \in deliveries, Deliver(d), UNCHANGED workerVars
      PROVE HooksType' /\ VerdictInv' /\ EffortInv'
  <2>1. PICK new \in Outcomes(d) : deliveries' = (deliveries \ {d}) \cup {new}
    BY <1>4 DEF Deliver
  <2>2. d.state = "waiting" /\ UNCHANGED <<held, crashed>>
    BY <1>4 DEF Deliver
  <2>3. /\ new \in Delivery(Executions)
        /\ new.execution = d.execution /\ new.event = d.event
        /\ EffortOf(new)
    BY <2>2, OutcomesKeepEffort
  <2>4. HooksType'
    BY <2>1, <2>2, <2>3 DEF HooksType
  <2>5. EffortInv'
    BY <2>1, <2>2, <2>3 DEF EffortInv, EffortOf
  <2>6. VerdictInv'
    BY <1>4, <2>1, <2>3 DEF VerdictInv, EndpointsAgree, workerVars
  <2>7. QED
    BY <2>4, <2>5, <2>6
<1>5. ASSUME NEW d \in deliveries, DeliverCrash(d), UNCHANGED workerVars
      PROVE HooksType' /\ VerdictInv' /\ EffortInv'
  <2> DEFINE rerun == [Posted(d) EXCEPT !.again = TRUE]
  <2>1. PICK new \in SUBSET Outcomes(d) : deliveries' = (deliveries \ {d}) \cup {rerun} \cup new
    BY <1>5 DEF DeliverCrash
  <2>2. d.state = "waiting" /\ ~crashed /\ crashed' /\ held' = held
    BY <1>5 DEF DeliverCrash
  <2>3. \A n \in new : /\ n \in Delivery(Executions)
                       /\ n.execution = d.execution /\ n.event = d.event
                       /\ EffortOf(n)
    BY <2>2, OutcomesKeepEffort
  <2>4. /\ d \in Delivery(Executions) /\ EffortOf(d)
        /\ d.attempt \in 1..MaxAttempts /\ d.posts \in 0..(MaxAttempts + 1)
    BY DEF HooksType, Delivery, EffortInv
  <2>5. /\ rerun \in Delivery(Executions)
        /\ rerun.execution = d.execution /\ rerun.event = d.event
        /\ rerun.state = "waiting" /\ rerun.again = TRUE
        /\ rerun.posts = d.posts + 1 /\ rerun.attempt = d.attempt
    <3>1. PICK p \in Delivery(Executions) : p = Posted(d) /\ p = [d EXCEPT !.posts = d.posts + 1]
      BY <2>2, PostCounted
    <3>2. QED
      BY <2>2, <2>4, <3>1 DEF Delivery
  <2> HIDE DEF rerun
  <2>6. rerun.posts = rerun.attempt
    <3>1. d.posts = d.attempt - 1
      BY <2>2, <2>4 DEF EffortOf
    <3>2. QED
      BY <2>4, <2>5, <3>1
  <2>7. HooksType'
    BY <2>1, <2>2, <2>3, <2>5 DEF HooksType
  <2>8. EffortInv'
    BY <2>1, <2>2, <2>3, <2>5, <2>6 DEF EffortInv, EffortOf
  <2>9. VerdictInv'
    BY <1>5, <2>1, <2>3, <2>5 DEF VerdictInv, EndpointsAgree, workerVars
  <2>10. QED
    BY <2>7, <2>8, <2>9
<1>6. ASSUME NEW e \in Endpoints, Forget(e), UNCHANGED workerVars
      PROVE HooksType' /\ VerdictInv' /\ EffortInv'
  BY <1>6 DEF Forget, HooksType, EffortInv, EffortOf, VerdictInv, EndpointsAgree, workerVars
<1>7. CASE UNCHANGED <<hookVars, workerVars>>
  BY <1>7 DEF HooksType, EffortInv, EffortOf, VerdictInv, EndpointsAgree, workerVars, hookVars
<1>8. QED
  BY <1>1, <1>2, <1>3, <1>4, <1>5, <1>6, <1>7
     DEF ClientsNext, Telling, World, Hooks, Delivering, View, vars
------------------------------------------------------------------------------
(* The theorems *)

\* The parts of the type invariant, each proved where its variables change.
LEMMA TypesTogether ==
  ClientsTypeOK <=> RowsType /\ StreamType /\ PollType /\ PagesType /\ HooksType
BY DEF ClientsTypeOK, ViewTypeOK, RowsType, StreamType, PollType, PagesType, HooksType

\* The inductive invariant: what is to be shown of each kind of follower, and of the
\* rows they all read.
IInv ==
  /\ RowsType /\ StreamType /\ PollType /\ PagesType /\ HooksType
  /\ RowsInv /\ StreamInv /\ CompletionTold /\ PollInv /\ PagesInv /\ VerdictInv /\ EffortInv

\* It holds before the job is submitted.
LEMMA InductiveInit == ClientsInit => IInv
<1> SUFFICES ASSUME ClientsInit PROVE IInv
  OBVIOUS
<1> USE DEF ClientsInit, ViewInit, HooksInit
<1>1. RowsType
  BY MaxRoundsAssumption DEF MaxRoundsAssumption, RowsType, Init, TypeOK, Status, Event
<1>2. StreamType
  <2>1. Nothing \in (0..101) \X (0..Cardinality(SourceKeys))
    <3>1. Cardinality(SourceKeys) \in Nat
      BY SourceKeysAssumption, FS_CardinalityType DEF SourceKeysAssumption
    <3>2. QED
      BY <3>1 DEF Nothing
  <2>2. QED
    BY <2>1 DEF StreamType, Status
<1>3. PollType /\ PagesType /\ HooksType
  BY DEF PollType, PagesType, HooksType, Status
<1>4. RowsInv /\ PollInv /\ PagesInv
  BY DEF RowsInv, Init, Done, PollInv, CompletedPollHasReport, PagesInv, PagesAreWhole
<1>5. StreamInv /\ CompletionTold
  BY DEF StreamInv, CompletionTold, Nothing
<1>6. VerdictInv /\ EffortInv
  BY DEF VerdictInv, EndpointsAgree, EffortInv
<1>7. QED
  BY <1>1, <1>2, <1>3, <1>4, <1>5, <1>6 DEF IInv

\* Every step of the worker, of arq and of the followers keeps it.
LEMMA InductiveStep == IInv /\ [ClientsNext]_vars => IInv'
BY RowsStep, StreamStep, StreamTold, PollStep, PagesStep, HooksStep DEF IInv

\* So it always holds.
LEMMA ClientsInductive == ClientsSpec => []IInv
BY InductiveInit, InductiveStep, PTL DEF ClientsSpec

\* The attempts and the posts that EffortInv relates bound each other.
LEMMA EffortIsFull == HooksType /\ EffortInv => FullEffort
<1> SUFFICES ASSUME HooksType, EffortInv, NEW d \in deliveries
             PROVE  LET posts == IF d.again THEN d.posts - 1 ELSE d.posts
                    IN  (d.state = "given up" => posts = MaxAttempts) /\ posts <= MaxAttempts
  BY DEF FullEffort
<1>1. /\ d \in Delivery(Executions)
      /\ d.attempt \in 1..MaxAttempts /\ d.posts \in 0..(MaxAttempts + 1) /\ d.again \in BOOLEAN
  BY DEF HooksType, Delivery
<1>2. EffortOf(d)
  BY DEF EffortInv
<1>3. d.posts = IF d.again THEN (IF d.state = "waiting" THEN d.attempt ELSE d.attempt + 1)
                           ELSE (IF d.state = "waiting" THEN d.attempt - 1 ELSE d.attempt)
  BY <1>1, <1>2 DEF EffortOf
<1> DEFINE posts == IF d.again THEN d.posts - 1 ELSE d.posts
<1>4. posts = d.attempt \/ (posts = d.attempt - 1 /\ d.state = "waiting")
  BY <1>1, <1>3
<1>5. posts <= MaxAttempts
  BY <1>1, <1>4, MaxAttemptsAssumption DEF MaxAttemptsAssumption
<1>6. d.state = "given up" => d.state # "waiting" /\ d.attempt = MaxAttempts
  BY <1>2 DEF EffortOf
<1>7. QED
  BY <1>4, <1>5, <1>6

\* The rows, the followers and the deliveries keep their types, in every interleaving
\* of the worker, the handlers and arq (research.py, tasks.py, webhooks.py).
THEOREM ClientsTypes == ClientsSpec => []ClientsTypeOK
BY ClientsInductive, TypesTogether, PTL DEF IInv

\* An event stream that ends for a completed job has told its client so, with 100 %,
\* although it only tells of changes (research.py, stream).
THEOREM StreamTellsCompletion == ClientsSpec => []CompletionTold
BY ClientsInductive, PTL DEF IInv

\* A poll that finds the job completed finds its report, in a later transaction.
THEOREM PollFindsReport == ClientsSpec => []CompletedPollHasReport
BY ClientsInductive, PTL DEF IInv, PollInv

\* Turning the pages of the sources misses none that was there at the first page and
\* shows none twice, however many sources there are and whatever the size of a page.
THEOREM PagesWhole == ClientsSpec => []PagesAreWhole
BY ClientsInductive, PTL DEF IInv, PagesInv

\* A delivery is given up after MaxAttempts posts, and posted no more often than that,
\* but for the post a crash repeats.
THEOREM DeliveriesInFull == ClientsSpec => []FullEffort
BY ClientsInductive, EffortIsFull, PTL DEF IInv

\* The endpoints are not told different verdicts of an execution, however many there
\* are of either.
THEOREM EndpointsHearTheSame == ClientsSpec => []EndpointsAgree
BY ClientsInductive, PTL DEF IInv, VerdictInv
------------------------------------------------------------------------------
(* The rows the followers read are those of JobRecord *)

\* The worker's steps write what JobRecord allows, each in the name of an execution
\* there is; the followers, arq and the endpoints write nothing.
LEMMA RecordStep == RowsType /\ RowsInv /\ [ClientsNext]_vars => [Next]_recordVars
<1> SUFFICES ASSUME RowsType, RowsInv, [ClientsNext]_vars PROVE [Next]_recordVars
  OBVIOUS
<1>1. RowsChange \/ UNCHANGED jobVars
  BY DEF ClientsNext, RowsChange, Worker, Telling, World, Hooks, View, vars
<1>2. CASE JobStart
  <2>1. execution + 1 \in Executions
    BY <1>2 DEF JobStart, RowsInv
  <2>2. Start \/ Fail(execution + 1) \/ UNCHANGED recordVars
    BY <1>2 DEF JobStart, jobVars
  <2>3. QED
    BY <2>1, <2>2 DEF Next
<1>3. CASE JobPublish \/ JobFail
  <2>1. execution \in Executions
    BY <1>3 DEF JobPublish, JobFail, RowsInv
  <2>2. Publish(execution) \/ Fail(execution) \/ UNCHANGED recordVars
    BY <1>3 DEF JobPublish, JobFail, jobVars
  <2>3. QED
    BY <2>1, <2>2 DEF Next
<1>4. CASE JobSubmit \/ JobCancel
  BY <1>4 DEF JobSubmit, JobCancel, Next
<1>5. CASE JobProgress \/ CutShort \/ TellRaise \/ UNCHANGED jobVars
  BY <1>5 DEF JobProgress, CutShort, TellRaise, jobVars
<1>6. CASE \E e \in Endpoints : Tell(e)
  BY <1>6 DEF Tell, jobVars
<1>7. QED
  BY <1>1, <1>2, <1>3, <1>4, <1>5, <1>6 DEF RowsChange

\* Whoever follows a job reads the rows JobLifecycle was shown to write: with the
\* progress, the sources and the webhooks, and one step for each transaction, the
\* worker does nothing to them that JobRecord does not allow (tasks.py, research.py).
THEOREM ClientsImplementRecord == ClientsSpec => Spec
<1>1. ClientsInit => Init
  BY DEF ClientsInit
<1>2. IInv /\ [ClientsNext]_vars => [Next]_recordVars
  BY RecordStep DEF IInv
<1>3. QED
  BY ClientsInductive, <1>1, <1>2, PTL DEF ClientsSpec, Spec
==============================================================================
