------------------------------ MODULE JobView -------------------------------
(***************************************************************************)
(* What those who follow a job read while it changes: the event stream,    *)
(* the poll of the command line client, and the pages of the job's         *)
(* sources.  The job's rows change as JobRecord says; here they get the    *)
(* two things it leaves out, the progress and the sources.                 *)
(*                                                                         *)
(* Each SELECT of a handler is a step: under READ COMMITTED the rows may   *)
(* change between two of them.  None of the readers writes anything, so    *)
(* one of each is enough.                                                  *)
(*                                                                         *)
(* A definition named X_Y is a mutated form of X; no specification uses it.*)
(***************************************************************************)
EXTENDS JobRecord, FiniteSets

CONSTANTS SourceKeys,      \* the order of (fetched_at, id), as numbers from 1
          Limit            \* sources on a page

ASSUME SourceKeysAssumption == SourceKeys \subseteq Nat \ {0} /\ IsFiniteSet(SourceKeys)
ASSUME LimitAssumption == Limit \in Nat \ {0}

VARIABLES
  pct,          \* research_jobs.progress_pct
  sources,      \* the rows of the job in sources
  stream,       \* the generator of GET /research/{id}/stream
  poll,         \* GET /research/{id}, asked again until the job is over
  pages         \* GET /research/{id}/sources, from the first page to the last

Nothing == <<101, 0>>      \* stands for (-1, -1): no event was sent yet

ViewInit ==
  /\ pct = 0 /\ sources = {}
  /\ stream = [at |-> "job", status |-> "none", pct |-> 0, last |-> Nothing, told |-> "none"]
  /\ poll = [at |-> "job", status |-> "none", report |-> 0]
  /\ pages = [at |-> "first", cursor |-> 0, there |-> {}, seen |-> {}, twice |-> FALSE]
------------------------------------------------------------------------------
(* The event stream: a look at the job and its sources every two seconds *)

StreamRead ==
  /\ stream.at = "job" /\ status # "none"
  /\ stream' = [stream EXCEPT !.at = "sources", !.status = status, !.pct = pct]

\* The status is read again, after the progress.
StreamTell_LooksTwice ==
  /\ stream.at = "sources"
  /\ LET now == <<stream.pct, Cardinality(sources)>>
         next == IF status \in ApiFinal THEN "over" ELSE "job"
     IN  stream' = IF now = stream.last
                     THEN [stream EXCEPT !.at = next, !.status = status]
                     ELSE [stream EXCEPT !.at = next, !.status = status,
                                         !.last = now, !.told = stream.status]

\* The loop is left only where an event is sent.
StreamTell_EndsWithEvent ==
  /\ stream.at = "sources"
  /\ LET now == <<stream.pct, Cardinality(sources)>>
         next == IF stream.status \in ApiFinal THEN "over" ELSE "job"
     IN  stream' = IF now = stream.last
                     THEN [stream EXCEPT !.at = "job"]
                     ELSE [stream EXCEPT !.at = next, !.last = now, !.told = stream.status]

\* The client is told of a change of the progress or of the number of sources, and of
\* nothing else.
StreamTell ==
  /\ stream.at = "sources"
  /\ LET now == <<stream.pct, Cardinality(sources)>>
         next == IF stream.status \in ApiFinal THEN "over" ELSE "job"
     IN  stream' = IF now = stream.last
                     THEN [stream EXCEPT !.at = next]
                     ELSE [stream EXCEPT !.at = next, !.last = now, !.told = stream.status]

\* The client disconnects.
StreamLeave ==
  /\ stream.at = "job"
  /\ stream' = [stream EXCEPT !.at = "left"]
------------------------------------------------------------------------------
(* The poll: the job, then its sources, then its report, a transaction each *)

PollJob ==
  /\ poll.at = "job" /\ status # "none"
  /\ poll' = [poll EXCEPT !.status = status,
                          !.at = IF status = "completed" THEN "report"
                                 ELSE IF status \in ApiFinal THEN "over" ELSE "job"]

PollReport ==
  /\ poll.at = "report"
  /\ poll' = [poll EXCEPT !.at = "over", !.report = report]
------------------------------------------------------------------------------
(* The pages of the sources, newest first *)

Beyond_Inclusive(cursor, s) == cursor = 0 \/ s <= cursor

Beyond(cursor, s) == cursor = 0 \/ s < cursor

Rest(cursor) == {s \in sources : Beyond(cursor, s)}

\* The Limit largest.
Page(rest) == {s \in rest : Cardinality({t \in rest : t > s}) < Limit}

Least(page) == CHOOSE s \in page : \A t \in page : s <= t

PageRead ==
  /\ pages.at \in {"first", "next"} /\ status # "none"
  /\ LET rest == Rest(pages.cursor)
         page == Page(rest)
     IN  pages' = [at |-> IF Cardinality(rest) > Limit THEN "next" ELSE "over",
                   cursor |-> IF page = {} THEN 0 ELSE Least(page),
                   there |-> IF pages.at = "first" THEN sources ELSE pages.there,
                   seen |-> pages.seen \cup page,
                   twice |-> pages.twice \/ pages.seen \cap page # {}]
------------------------------------------------------------------------------
ViewTypeOK ==
  /\ TypeOK
  /\ pct \in 0..100 /\ sources \subseteq SourceKeys
  /\ stream \in [at : {"job", "sources", "over", "left"}, status : Status, pct : 0..100,
                 last : (0..101) \X (0..Cardinality(SourceKeys)), told : Status]
  /\ poll \in [at : {"job", "report", "over"}, status : Status, report : Executions \cup {0}]
  /\ pages \in [at : {"first", "next", "over"}, cursor : SourceKeys \cup {0},
                there : SUBSET SourceKeys, seen : SUBSET SourceKeys, twice : BOOLEAN]

\* The stream only tells of changes of the progress; still a stream that ends because
\* the job was completed has told its client so, with 100 %.
CompletionTold ==
  stream.at = "over" /\ stream.status = "completed" =>
    stream.told = "completed" /\ stream.last[1] = 100

\* A poll that finds the job completed finds its report, although it reads the two in
\* different transactions, whatever cancels or runs the job again between them.
CompletedPollHasReport ==
  poll.at = "over" /\ poll.status = "completed" => poll.report # 0

\* Sources that are stored while a client turns the pages neither repeat nor hide one
\* that was there when it asked for the first page.
PagesAreWhole ==
  /\ ~pages.twice
  /\ pages.at = "over" => pages.there \subseteq pages.seen
==============================================================================
