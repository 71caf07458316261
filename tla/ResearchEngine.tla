--------------------------- MODULE ResearchEngine ---------------------------
(***************************************************************************)
(* run_research: the plan, the search loop, which gathers findings round   *)
(* by round, and behind it the report pipeline.                            *)
(*                                                                         *)
(* One round searches, fetches and extracts, updates the evolving report,  *)
(* looks for contradictions and calls on_progress; that callback stores    *)
(* the round's findings, unless it reads that the job was cancelled.  The  *)
(* language model, the search engine and the web answer as they like; what *)
(* goes on inside the search of a round is PageRound's.                    *)
(*                                                                         *)
(* The token budget of a job is unlimited and never stops the loop.  The   *)
(* provider is one whose endpoint is known: the loop is reached.           *)
(*                                                                         *)
(* A definition named X_Y is a mutated form of X; no specification uses it.*)
(***************************************************************************)
EXTENDS ReportPipeline, Integers

CONSTANTS Queries,         \* what may be searched for
          Question,        \* the question itself, as a query
          Requested,       \* the values of max_rounds a request may have; 0: none
          FetchCap,        \* pages fetched in one round
          PageFindings,    \* bound on the findings of one page
          MinRounds,       \* rounds before the model is asked whether to stop
          MaxEmptyRounds   \* rounds without findings in a row before it gives up

ASSUME QueriesAssumption == Question \in Queries
ASSUME RequestedAssumption == Requested \subseteq Int
ASSUME RoundsAssumption == MinRounds \in Nat /\ MaxEmptyRounds \in Nat \ {0}
ASSUME FetchAssumption == FetchCap \in Nat /\ PageFindings \in Nat

\* MODE_REGISTRY: rounds by default, and at most
Modes == [research |-> [default |-> 3, cap |-> 5],
          study    |-> [default |-> 2, cap |-> 4],
          brief    |-> [default |-> 1, cap |-> 2],
          deep     |-> [default |-> 4, cap |-> 5]]

\* JobPolicy.max_rounds
PolicyCap == 5

VARIABLES
  mode,          \* state.mode
  effective,     \* state.max_rounds
  tracked,       \* state.plan has search tracks
  round,         \* state.current_round
  empties,       \* consecutive_empty_rounds
  used,          \* state.queries_used
  new,           \* new_findings of this round
  searched,      \* the rounds in which the search engine was asked (history)
  cancelledRow,  \* the job's row says "cancelled"
  noticed,       \* the cancelled event is set
  stored         \* the rounds whose findings on_progress stored

loopVars == <<mode, effective, tracked, round, empties, used, new, searched, cancelledRow, noticed, stored>>
engineVars == <<pipelineVars, loopVars>>

Goto(label) == stage' = label
------------------------------------------------------------------------------
Lesser(a, b) == IF a < b THEN a ELSE b

\* validate_job_policy: what is not positive passes as well.
Admitted(requested) == requested <= PolicyCap

\* What submit_research stores, and what run_research makes of that once more.
EffectiveRounds(m, requested) ==
  IF requested = 0 THEN Modes[m].default ELSE Lesser(requested, Modes[m].cap)

EngineInit ==
  /\ mode \in DOMAIN Modes
  /\ \E r \in Requested :
       /\ Admitted(r)
       /\ effective = EffectiveRounds(mode, EffectiveRounds(mode, r))
  /\ stage = "plan" /\ tracked = FALSE
  /\ round = 1 /\ empties = 0 /\ used = {} /\ new = <<>>
  /\ searched = {} /\ stored = {}
  /\ cancelledRow = FALSE /\ noticed = FALSE
  /\ findings = <<>> /\ evolving = "" /\ contradictions = FALSE
  /\ warnings = {} /\ draft = {} /\ edited = FALSE
  /\ report = NoReport

\* DELETE /research/{id}, while the engine runs.
CancelRow ==
  /\ ~cancelledRow
  /\ cancelledRow' = TRUE
  /\ UNCHANGED <<pipelineVars, mode, effective, tracked, round, empties, used, new, searched, noticed, stored>>

------------------------------------------------------------------------------
(* The brief and the plan, whose sub-questions are named like queries *)

\* understand_question: a failed call or an unreadable answer has sub-questions of its
\* own, a brief without any asks the question.
SubQuestions(said) == IF said = {} THEN {Question} ELSE said

\* create_research_plan: without a track of its own, one for each sub-question.
Tracks(drafted, subQuestions) == IF drafted = {} THEN subQuestions ELSE drafted

Plan ==
  /\ stage = "plan"
  /\ Goto("loop")
  /\ \E said, drafted \in SUBSET Queries :
       tracked' = (Tracks(drafted, SubQuestions(said)) # {})
  /\ UNCHANGED <<findings, evolving, contradictions, warnings, draft, edited, report,
                 mode, effective, round, empties, used, new, searched, cancelledRow, noticed, stored>>

\* The lists the model filled are joined into the planner's prompt and into the plan's
\* summary outside of any try block, and may hold what is no text.
PlanRaise ==
  /\ stage = "plan"
  /\ Goto("raised")
  /\ UNCHANGED <<findings, evolving, contradictions, warnings, draft, edited, report, loopVars>>
------------------------------------------------------------------------------
(* The head of the loop: the cancelled event, the hard stop, the coordinator. *)

MustStop_RoundsFirst ==
  \/ round > effective
  \/ round >= effective

MustStop ==
  \/ noticed
  \/ round > effective
  \/ round >= effective          \* CoordinatorAgent.run

\* An exception nothing catches leaves run_research, and the findings are lost: the
\* coordinator's model call, the search agent's, the formatting of new findings for the
\* draft, or the callback's transaction.
EngineRaise ==
  /\ \/ stage = "loop" /\ ~MustStop /\ findings # <<>>
     \/ stage \in {"search", "progress"}
     \/ stage = "draft" /\ new # <<>>
  /\ Goto("raised")
  /\ UNCHANGED <<findings, evolving, contradictions, warnings, draft, edited, report, loopVars>>

\* Only with findings does the coordinator ask the language model.
LoopHead ==
  /\ stage = "loop"
  /\ \/ MustStop /\ Goto("conclude")
     \/ ~MustStop /\ Goto("search")
     \/ ~MustStop /\ findings # <<>> /\ Goto("conclude")
  /\ UNCHANGED <<findings, evolving, contradictions, warnings, draft, edited, report, loopVars>>
------------------------------------------------------------------------------
(* SearchAgent.run: the queries of a round *)

\* What the model proposes; the question, if nothing it says can be parsed.
Proposals == (SUBSET Queries \ {{}}) \cup {{Question}}

\* `novel` are the proposals unlike every query used before.  A round without such a
\* query takes the unused ones, and without those repeats the first two of the model's
\* list, which may be the same.
Issued(raw, novel) ==
  IF novel # {} THEN {novel}
  ELSE IF raw \ used # {} THEN {raw \ used}
  ELSE {q \in SUBSET raw \ {{}} : Cardinality(q) <= 2}

------------------------------------------------------------------------------
(* Search, fetch, validate and extract *)

\* A query the search engine fails on has no results.
Results(queries) == IF queries = {} THEN {{}} ELSE SUBSET Urls

\* The results that are not yet the URL of a finding.
Fresh_All(results) == results

Fresh(results) == results \ {findings[i].url : i \in DOMAIN findings}

\* What one page yields: nothing when it cannot be fetched or its source is trusted
\* less than the mode asks for; else what the extractor makes of it, which is nothing
\* when its model call or its parsing fails or all it says is of low quality.
Unfetched == <<>>
Distrusted == <<>>
Extractions == BoundedSeq(Texts, PageFindings)

Pages == {Unfetched, Distrusted} \cup Extractions

\* The findings of the fetched pages, in the order of the URLs: gather keeps it.
Extracted(urls, page) ==
  LET Of(found, u) == SelectSeq(found, LAMBDA f : f.url = u)
  IN  {found \in BoundedSeq([url : DOMAIN page, text : Texts, round : {round}], MaxFindings) :
         /\ \A u \in DOMAIN page : [i \in DOMAIN Of(found, u) |-> Of(found, u)[i].text] = page[u]
         /\ \A i, j \in DOMAIN found : i < j =>
              \E k, l \in DOMAIN urls :
                k <= l /\ found[i].url = urls[k] /\ found[j].url = urls[l]}

EmptyRounds(found) == IF found = <<>> THEN empties + 1 ELSE 0

\* Without findings the round still goes on, unless too many in a row were empty.
Search ==
  /\ stage = "search"
  /\ \E raw \in Proposals : \E novel \in SUBSET (raw \ used) : \E queries \in Issued(raw, novel) :
       /\ used' = used \cup queries
       /\ searched' = IF queries = {} THEN searched ELSE searched \cup {round}
       /\ \E results \in Results(queries) :
            \E fetched \in {s \in SUBSET Fresh(results) :
                              Cardinality(s) = Lesser(FetchCap, Cardinality(Fresh(results)))} :
              \E urls \in SetToSeqs(fetched), page \in [fetched -> Pages] :
                /\ new' \in Extracted(urls, page)
                /\ Len(findings) + Len(new') <= MaxFindings
                /\ findings' = findings \o new'
                /\ empties' = EmptyRounds(new')
                /\ Goto(IF empties' >= MaxEmptyRounds THEN "conclude" ELSE "draft")
  /\ UNCHANGED <<evolving, contradictions, warnings, draft, edited, report,
                 mode, effective, tracked, round, cancelledRow, noticed, stored>>
------------------------------------------------------------------------------
(* The round's draft, contradictions and challenges *)

\* synthesize_round.  An empty answer to the first prompt makes its placeholder the
\* report; a failed call leaves the report.
Redrafted ==
  IF new = <<>> THEN {evolving}
  ELSE {evolving, "text", IF evolving = "" THEN "placeholder" ELSE evolving}

\* Two findings may contradict each other; an answer that cannot be parsed finds none.
Contradicting == {FALSE, Len(findings) >= 2}

Draft ==
  /\ stage = "draft"
  /\ Goto("progress")
  /\ evolving' \in Redrafted
  /\ contradictions' \in Contradicting
  /\ UNCHANGED <<findings, warnings, draft, edited, report, loopVars>>

OnProgress_NotNoticed ==
  /\ stage = "progress"
  /\ Goto("advance")
  /\ stored' = IF cancelledRow THEN stored ELSE stored \cup {round}
  /\ UNCHANGED <<findings, evolving, contradictions, warnings, draft, edited, report,
                 mode, effective, tracked, round, empties, used, new, searched, cancelledRow, noticed>>

\* The callback of run_research_job.
OnProgress ==
  /\ stage = "progress"
  /\ Goto("advance")
  /\ IF cancelledRow
       THEN noticed' = TRUE /\ UNCHANGED stored
       ELSE stored' = stored \cup {round} /\ UNCHANGED noticed
  /\ UNCHANGED <<findings, evolving, contradictions, warnings, draft, edited, report,
                 mode, effective, tracked, round, empties, used, new, searched, cancelledRow>>

\* An empty round does not count.
Advance_Retry ==
  /\ stage = "advance"
  /\ round' = IF new = <<>> THEN round ELSE round + 1
  /\ empties' = 0
  /\ \/ Goto("loop")
     \/ round' > MinRounds /\ evolving # "" /\ Goto("conclude")
  /\ UNCHANGED <<findings, evolving, contradictions, warnings, draft, edited, report,
                 mode, effective, tracked, used, new, searched, cancelledRow, noticed, stored>>

\* After MinRounds the model is asked; a failed stop check is no reason to stop.
MayStop == round' > MinRounds /\ evolving # ""

Advance ==
  /\ stage = "advance"
  /\ round' = round + 1
  /\ Goto("loop") \/ (MayStop /\ Goto("conclude"))
  /\ UNCHANGED <<findings, evolving, contradictions, warnings, draft, edited, report,
                 mode, effective, tracked, empties, used, new, searched, cancelledRow, noticed, stored>>
------------------------------------------------------------------------------
EngineStep ==
  \/ Plan \/ PlanRaise \/ EngineRaise
  \/ LoopHead \/ Search \/ Draft \/ OnProgress \/ Advance
  \/ ReportNext /\ UNCHANGED loopVars

EngineNext == EngineStep \/ CancelRow

EngineSpec == EngineInit /\ [][EngineNext]_engineVars

\* Every await of the engine is over at some time: the model calls and the fetches
\* have timeouts, the callback is a transaction.
FairEngineSpec == EngineSpec /\ WF_engineVars(EngineStep)
------------------------------------------------------------------------------
LoopStages == {"loop", "search", "draft", "progress", "advance"}
PipelineStages == {"conclude", "verify_claims", "verify_citations", "edit", "gate"}

\* The types of the engine's variables; whatever the model plans, there is something to
\* search for when the loop begins.
EngineTypeOK ==
  /\ PipelineTypeOK
  /\ stage \in {"plan"} \cup LoopStages \cup PipelineStages \cup {"returned", "raised"}
  /\ tracked \in BOOLEAN /\ (stage \in LoopStages => tracked)
  /\ mode \in DOMAIN Modes
  /\ effective \in Int /\ round \in Nat /\ empties \in Nat
  /\ used \subseteq Queries /\ new \in Seq(Finding)
  /\ searched \subseteq Nat /\ stored \subseteq Nat
  /\ cancelledRow \in BOOLEAN /\ noticed \in BOOLEAN

\* A page is read once: the findings of one URL are all of one round, although each
\* round searches anew.
OneRoundPerUrl ==
  \A i, j \in DOMAIN findings :
    findings[i].url = findings[j].url => findings[i].round = findings[j].round

\* What the report is made of and what the source and claim tables hold is the same,
\* except for the round that found the job cancelled.
ReportedIsStored ==
  stage \in PipelineStages =>
    \A i \in DOMAIN findings :
      findings[i].round \in stored \/ (noticed /\ findings[i].round = round - 1)

\* A run that has noticed its cancellation never searches again.
NoSearchAfterCancel == [][noticed => searched' = searched]_engineVars

\* However the model, the search engine and the web answer, the run is over.
RunEnds == <>(stage \in {"returned", "raised"})

(***************************************************************************)
(* What the documents say and the code does not do.                        *)
(***************************************************************************)

\* core/research/modes.py: the brief mode delivers "in 1-2 quick rounds".  A brief
\* that is returned, and was not cancelled, has searched at least once.
BriefSearches ==
  stage = "returned" /\ mode = "brief" /\ ~cancelledRow => searched # {}
==============================================================================
