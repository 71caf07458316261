------------------------- MODULE ResearchEngineProofs -------------------------
(***************************************************************************)
(* The search loop, for any queries, URLs, findings and numbers of rounds, *)
(* and the report pipeline behind it.                                      *)
(***************************************************************************)
EXTENDS ResearchEngine, ReportPipelineProofs

Stages == {"plan"} \cup LoopStages \cup PipelineStages \cup {"returned", "raised"}

\* A round that has begun has not noticed the cancellation.
NoticedInv == stage \in {"plan", "search", "draft", "progress"} => ~noticed

\* A finding is stored, or it is the round's that is not stored yet, or the last
\* round's, which found the job cancelled.
StoredInv ==
  \A i \in DOMAIN findings :
    LET r == findings[i].round
    IN  /\ stage = "search" => r \in stored
        /\ stage \in {"draft", "progress"} => r \in stored \/ r = round
        /\ stage = "advance" => r \in stored \/ (noticed /\ r = round)
        /\ stage \in {"plan", "loop"} => r \in stored \/ (noticed /\ r = round - 1)

EngineInv == NoticedInv /\ StoredInv /\ OneRoundPerUrl /\ ReportedIsStored
------------------------------------------------------------------------------
(* Operators *)

\* The number of rounds is a number, whatever the request says.
LEMMA RoundsType ==
  ASSUME NEW m \in DOMAIN Modes, NEW requested \in Int
  PROVE  EffectiveRounds(m, requested) \in Int
<1>1. Modes[m].default \in Int /\ Modes[m].cap \in Int
  BY DEF Modes
<1>2. QED
  BY <1>1 DEF EffectiveRounds, Lesser

\* Whatever the model drafts, there is a track.
LEMMA SomeTrack == ASSUME NEW said, NEW drafted PROVE Tracks(drafted, SubQuestions(said)) # {}
BY DEF Tracks, SubQuestions

\* What a round extracts is of this round and of the pages it fetched.
LEMMA ExtractedFindings ==
  ASSUME NEW fetched \in SUBSET Urls, NEW urls, NEW page \in [fetched -> Pages],
         round \in Nat, NEW found \in Extracted(urls, page)
  PROVE  /\ found \in Seq(Finding)
         /\ \A i \in DOMAIN found : found[i].url \in fetched /\ found[i].round = round
<1>1. found \in BoundedSeq([url : fetched, text : Texts, round : {round}], MaxFindings)
  BY DEF Extracted
<1>2. PICK n \in 0..MaxFindings : found \in [1..n -> [url : fetched, text : Texts, round : {round}]]
  BY <1>1 DEF BoundedSeq, SeqOf
<1>3. n \in Nat
  BY MaxFindingsAssumption DEF MaxFindingsAssumption
<1>4. [url : fetched, text : Texts, round : {round}] \subseteq Finding
  BY DEF Finding
<1>5. found \in [1..n -> Finding]
  BY <1>2, <1>4
<1>6. \A i \in DOMAIN found : found[i] \in [url : fetched, text : Texts, round : {round}]
  BY <1>2
<1>7. QED
  BY <1>3, <1>5, <1>6

\* A sequence behind another one keeps the elements of both, in place.
LEMMA Behind ==
  ASSUME NEW S, NEW s \in Seq(S), NEW t \in Seq(S)
  PROVE  /\ s \o t \in Seq(S)
         /\ Len(s \o t) = Len(s) + Len(t)
         /\ \A i \in DOMAIN (s \o t) :
              \/ i \in DOMAIN s /\ (s \o t)[i] = s[i]
              \/ i - Len(s) \in DOMAIN t /\ (s \o t)[i] = t[i - Len(s)]
OBVIOUS

\* The search of a round: what it finds is new, of this round, and behind what was found.
LEMMA SearchFinds ==
  ASSUME PipelineTypeOK, round \in Nat, Search
  PROVE  /\ new' \in Seq(Finding) /\ findings' = findings \o new'
         /\ findings' \in Seq(Finding) /\ Len(findings') <= MaxFindings
         /\ \A i \in DOMAIN findings' :
              \/ i \in DOMAIN findings /\ findings'[i] = findings[i]
              \/ /\ new' # <<>> /\ findings'[i].round = round
                 /\ \A j \in DOMAIN findings : findings[j].url # findings'[i].url
<1>1. PICK queries : \E results \in Results(queries) :
        \E fetched \in {s \in SUBSET Fresh(results) :
                          Cardinality(s) = Lesser(FetchCap, Cardinality(Fresh(results)))} :
          \E urls \in SetToSeqs(fetched), page \in [fetched -> Pages] :
            /\ new' \in Extracted(urls, page)
            /\ Len(findings) + Len(new') <= MaxFindings
            /\ findings' = findings \o new'
  BY DEF Search
<1>2. PICK results \in Results(queries) : \E fetched \in SUBSET Fresh(results) :
          \E urls \in SetToSeqs(fetched), page \in [fetched -> Pages] :
            /\ new' \in Extracted(urls, page)
            /\ Len(findings) + Len(new') <= MaxFindings
            /\ findings' = findings \o new'
  BY <1>1
<1>3. PICK fetched \in SUBSET Fresh(results) :
          \E urls \in SetToSeqs(fetched), page \in [fetched -> Pages] :
            /\ new' \in Extracted(urls, page)
            /\ Len(findings) + Len(new') <= MaxFindings
            /\ findings' = findings \o new'
  BY <1>2
<1>4. PICK urls \in SetToSeqs(fetched), page \in [fetched -> Pages] :
            /\ new' \in Extracted(urls, page)
            /\ Len(findings) + Len(new') <= MaxFindings
            /\ findings' = findings \o new'
  BY <1>3
<1>5. fetched \in SUBSET Urls
  BY DEF Results, Fresh
<1>6. /\ new' \in Seq(Finding)
      /\ \A i \in DOMAIN new' : new'[i].url \in fetched /\ new'[i].round = round
  <2>1. \A found \in Extracted(urls, page) :
          /\ found \in Seq(Finding)
          /\ \A i \in DOMAIN found : found[i].url \in fetched /\ found[i].round = round
    BY <1>5, ExtractedFindings, Zenon
  <2>2. QED
    BY <1>4, <2>1, Zenon
<1>7. findings \in Seq(Finding)
  BY DEF PipelineTypeOK
<1>8. /\ findings' \in Seq(Finding) /\ Len(findings') = Len(findings) + Len(new')
      /\ \A i \in DOMAIN findings' :
           \/ i \in DOMAIN findings /\ findings'[i] = findings[i]
           \/ i - Len(findings) \in DOMAIN new' /\ findings'[i] = new'[i - Len(findings)]
  BY <1>4, <1>6, <1>7, Behind
<1>9. ASSUME NEW k \in DOMAIN new'
      PROVE  new' # <<>> /\ \A j \in DOMAIN findings : findings[j].url # new'[k].url
  BY <1>6, <1>9 DEF Fresh
<1>10. QED
  BY <1>4, <1>6, <1>8, <1>9
------------------------------------------------------------------------------
(* The steps *)

\* What the steps of the loop leave of the pipeline's variables.
LEMMA LoopStepTypes ==
  ASSUME PipelineTypeOK, UNCHANGED <<warnings, draft, edited, report>>,
         findings' \in Seq(Finding), Len(findings') <= MaxFindings,
         evolving' \in {"", "placeholder", "text"}, contradictions' \in BOOLEAN
  PROVE  PipelineTypeOK'
BY DEF PipelineTypeOK, ReportType

\* What the steps of the pipeline leave of the loop.
LEMMA OnlyThePipeline ==
  ReportNext => /\ stage \in PipelineStages
                /\ stage' \in PipelineStages \cup {"returned"}
                /\ findings' = findings
BY DEF ReportNext, NothingFound, CompileFindings, Synthesize, SynthesisFails, VerifyClaims,
       VerifyCitations, VerifyCitationsRaises, Rewrite, KeepText, Gate, PipelineStages

\* Every step of the engine keeps the types.
LEMMA EngineTypeStep == EngineTypeOK /\ EngineNext => EngineTypeOK'
<1> SUFFICES ASSUME EngineTypeOK, EngineNext PROVE EngineTypeOK'
  OBVIOUS
<1> USE DEF EngineTypeOK, Goto, LoopStages, PipelineStages
<1>0. /\ PipelineTypeOK
      /\ findings \in Seq(Finding) /\ Len(findings) <= MaxFindings
      /\ evolving \in {"", "placeholder", "text"} /\ contradictions \in BOOLEAN
  BY DEF PipelineTypeOK
<1>1. CASE Plan
  <2>1. PipelineTypeOK'
    BY <1>0, <1>1, LoopStepTypes DEF Plan
  <2>2. tracked' = TRUE
    BY <1>1, SomeTrack DEF Plan
  <2>3. QED
    BY <1>1, <2>1, <2>2 DEF Plan
<1>2. CASE PlanRaise \/ EngineRaise \/ LoopHead
  <2>1. PipelineTypeOK'
    BY <1>0, <1>2, LoopStepTypes DEF PlanRaise, EngineRaise, LoopHead
  <2>2. stage' = "raised" \/ (stage = "loop" /\ stage' \in {"conclude", "search"})
    BY <1>2 DEF PlanRaise, EngineRaise, LoopHead
  <2>3. UNCHANGED loopVars
    BY <1>2 DEF PlanRaise, EngineRaise, LoopHead
  <2>4. QED
    BY <2>1, <2>2, <2>3 DEF loopVars
<1>3. CASE Search
  <2>1. /\ new' \in Seq(Finding) /\ findings' \in Seq(Finding) /\ Len(findings') <= MaxFindings
    BY <1>0, <1>3, SearchFinds
  <2>2. PipelineTypeOK'
    BY <1>0, <1>3, <2>1, LoopStepTypes DEF Search
  <2>3. empties' \in Nat
    BY <1>3 DEF Search, EmptyRounds
  <2>4. /\ stage = "search" /\ stage' \in {"conclude", "draft"}
        /\ UNCHANGED <<mode, effective, tracked, round, cancelledRow, noticed, stored>>
    BY <1>3 DEF Search
  <2>5. used' \subseteq Queries /\ searched' \subseteq Nat
    <3>1. PICK raw \in Proposals, queries \in SUBSET Queries :
            /\ used' = used \cup queries
            /\ searched' = IF queries = {} THEN searched ELSE searched \cup {round}
      <4>1. PICK raw \in Proposals : \E novel \in SUBSET (raw \ used) :
              \E queries \in Issued(raw, novel) :
                /\ used' = used \cup queries
                /\ searched' = IF queries = {} THEN searched ELSE searched \cup {round}
        BY <1>3 DEF Search
      <4>2. raw \in SUBSET Queries
        BY QueriesAssumption DEF QueriesAssumption, Proposals
      <4>3. PICK novel \in SUBSET (raw \ used) : \E queries \in Issued(raw, novel) :
                /\ used' = used \cup queries
                /\ searched' = IF queries = {} THEN searched ELSE searched \cup {round}
        BY <4>1
      <4>4. \A queries \in Issued(raw, novel) : queries \in SUBSET Queries
        BY <4>2 DEF Issued
      <4>5. QED
        BY <4>3, <4>4
    <3>2. QED
      BY <3>1
  <2>6. QED
    BY <2>1, <2>2, <2>3, <2>4, <2>5
<1>4. CASE Draft
  <2>1. evolving' \in {"", "placeholder", "text"}
    BY <1>0, <1>4 DEF Draft, Redrafted
  <2>2. contradictions' \in BOOLEAN
    <3>1. contradictions' \in {FALSE, Len(findings) >= 2}
      BY <1>4 DEF Draft, Contradicting
    <3>2. QED
      BY <1>0, <3>1, ContradictionsType, Zenon
  <2>3. PipelineTypeOK'
    BY <1>0, <1>4, <2>1, <2>2, LoopStepTypes DEF Draft
  <2>4. QED
    BY <1>4, <2>3 DEF Draft, loopVars
<1>5. CASE OnProgress
  <2>1. PipelineTypeOK'
    BY <1>0, <1>5, LoopStepTypes DEF OnProgress
  <2>2. QED
    BY <1>5, <2>1 DEF OnProgress
<1>6. CASE Advance
  <2>1. PipelineTypeOK'
    BY <1>0, <1>6, LoopStepTypes DEF Advance
  <2>2. QED
    BY <1>6, <2>1 DEF Advance
<1>7. CASE ReportNext /\ UNCHANGED loopVars
  <2>1. PipelineTypeOK'
    BY <1>0, <1>7, PipelineTypeStep
  <2>2. stage' \in PipelineStages \cup {"returned"}
    BY <1>7, OnlyThePipeline
  <2>3. QED
    BY <1>7, <2>1, <2>2 DEF loopVars
<1>8. CASE CancelRow
  <2>1. PipelineTypeOK' /\ stage' = stage
    BY <1>0, <1>8, LoopStepTypes DEF CancelRow, pipelineVars
  <2>2. QED
    BY <1>8, <2>1 DEF CancelRow
<1>9. QED
  BY <1>1, <1>2, <1>3, <1>4, <1>5, <1>6, <1>7, <1>8 DEF EngineNext, EngineStep

\* The steps of the loop that find nothing leave the findings where they are.
LEMMA OneRoundKept == OneRoundPerUrl /\ UNCHANGED findings => OneRoundPerUrl'
BY DEF OneRoundPerUrl

\* Every step of the engine keeps what is true of the loop.
LEMMA EngineInvStep == EngineTypeOK /\ EngineInv /\ EngineNext => EngineInv'
<1> SUFFICES ASSUME EngineTypeOK, EngineInv, EngineNext PROVE EngineInv'
  OBVIOUS
<1>0. PipelineTypeOK /\ round \in Nat /\ findings \in Seq(Finding)
  BY DEF EngineTypeOK, PipelineTypeOK
<1> USE DEF EngineInv, Goto
<1>1. CASE Plan \/ PlanRaise \/ EngineRaise \/ LoopHead
  <2>1. UNCHANGED <<findings, round, stored, noticed>>
    BY <1>1 DEF Plan, PlanRaise, EngineRaise, LoopHead, loopVars
  <2>2. \/ stage = "plan" /\ stage' = "loop"
        \/ stage' = "raised"
        \/ stage = "loop" /\ stage' = "search" /\ ~noticed
        \/ stage = "loop" /\ stage' = "conclude"
    BY <1>1 DEF Plan, PlanRaise, EngineRaise, LoopHead, MustStop
  <2>3. OneRoundPerUrl'
    BY <2>1, OneRoundKept
  <2>4. QED
    BY <2>1, <2>2, <2>3 DEF NoticedInv, StoredInv, ReportedIsStored, PipelineStages
<1>2. CASE Search
  <2>1. /\ findings' = findings \o new' /\ new' \in Seq(Finding)
        /\ \A i \in DOMAIN findings' :
              \/ i \in DOMAIN findings /\ findings'[i] = findings[i]
              \/ /\ new' # <<>> /\ findings'[i].round = round
                 /\ \A j \in DOMAIN findings : findings[j].url # findings'[i].url
    BY <1>0, <1>2, SearchFinds
  <2>2. /\ stage = "search" /\ UNCHANGED <<round, stored, noticed>>
        /\ stage' = "draft" \/ (stage' = "conclude" /\ new' = <<>>)
    <3>1. /\ stage = "search" /\ UNCHANGED <<round, stored, noticed>>
          /\ empties' = EmptyRounds(new')
          /\ stage' = IF empties' >= MaxEmptyRounds THEN "conclude" ELSE "draft"
      BY <1>2 DEF Search
    <3>2. new' # <<>> => ~(empties' >= MaxEmptyRounds)
      BY <3>1, RoundsAssumption DEF RoundsAssumption, EmptyRounds
    <3>3. QED
      BY <3>1, <3>2
  <2>3. OneRoundPerUrl'
    BY <2>1 DEF OneRoundPerUrl
  <2>4. \A i \in DOMAIN findings' :
          \/ findings'[i].round \in stored
          \/ new' # <<>> /\ findings'[i].round = round
    BY <2>1, <2>2 DEF StoredInv
  <2>5. QED
    BY <2>2, <2>3, <2>4 DEF NoticedInv, StoredInv, ReportedIsStored, PipelineStages
<1>3. CASE Draft
  <2>1. stage = "draft" /\ stage' = "progress" /\ UNCHANGED <<findings, round, stored, noticed>>
    BY <1>3 DEF Draft, loopVars
  <2>2. QED
    BY <2>1, OneRoundKept DEF NoticedInv, StoredInv, ReportedIsStored, PipelineStages
<1>4. CASE OnProgress
  <2>1. /\ stage = "progress" /\ stage' = "advance" /\ UNCHANGED <<findings, round>>
        /\ \/ noticed' /\ stored' = stored
           \/ stored' = stored \cup {round}
    BY <1>4 DEF OnProgress
  <2>2. QED
    BY <2>1, OneRoundKept DEF NoticedInv, StoredInv, ReportedIsStored, PipelineStages
<1>5. CASE Advance
  <2>1. /\ stage = "advance" /\ stage' \in {"loop", "conclude"} /\ round' = round + 1
        /\ UNCHANGED <<findings, stored, noticed>>
    BY <1>5 DEF Advance
  <2>2. round = round' - 1
    BY <1>0, <2>1
  <2>3. QED
    BY <2>1, <2>2, OneRoundKept DEF NoticedInv, StoredInv, ReportedIsStored, PipelineStages
<1>6. CASE ReportNext /\ UNCHANGED loopVars
  <2>1. /\ stage \in PipelineStages /\ stage' \in PipelineStages \cup {"returned"}
        /\ UNCHANGED <<findings, round, stored, noticed>>
    BY <1>6, OnlyThePipeline DEF loopVars
  <2>2. QED
    BY <2>1, OneRoundKept DEF NoticedInv, StoredInv, ReportedIsStored, PipelineStages
<1>7. CASE CancelRow
  <2>1. UNCHANGED <<stage, findings, round, stored, noticed>>
    BY <1>7 DEF CancelRow, pipelineVars
  <2>2. QED
    BY <2>1, OneRoundKept DEF NoticedInv, StoredInv, ReportedIsStored
<1>8. QED
  BY <1>1, <1>2, <1>3, <1>4, <1>5, <1>6, <1>7 DEF EngineNext, EngineStep

\* The report has what the pipeline promises, in a run of the engine as well.
LEMMA EnginePipelineStep == EngineTypeOK /\ PipelineInv /\ EngineNext => PipelineInv'
<1> SUFFICES ASSUME EngineTypeOK, PipelineInv, EngineNext PROVE PipelineInv'
  OBVIOUS
<1>1. CASE ReportNext
  BY <1>1, PipelineStep DEF EngineTypeOK
<1>2. CASE CancelRow
  BY <1>2, PipelineStutter DEF CancelRow, EngineTypeOK
<1>3. CASE EngineStep /\ ~ReportNext
  <2>1. stage \notin Written /\ stage' \notin Written /\ UNCHANGED <<draft, report>>
    BY <1>3 DEF EngineStep, Plan, PlanRaise, EngineRaise, LoopHead, Search, Draft, OnProgress, Advance,
                Goto, Written
  <2>2. QED
    BY <2>1 DEF PipelineInv, Written, WrittenInv, WarningsInv, TagsInv, WarningsAreReleased, DanglingIsEditors
<1>4. QED
  BY <1>1, <1>2, <1>3 DEF EngineNext
------------------------------------------------------------------------------
(* The theorems *)

\* They hold of a run that has not begun.
LEMMA EngineStart == EngineInit => EngineTypeOK /\ EngineInv /\ PipelineInv
<1> SUFFICES ASSUME EngineInit PROVE EngineTypeOK /\ EngineInv /\ PipelineInv
  OBVIOUS
<1>1. findings = <<>> /\ findings \in Seq(Finding) /\ Len(findings) <= MaxFindings /\ DOMAIN findings = {}
  <2>1. findings = <<>>
    BY DEF EngineInit
  <2>2. QED
    BY <2>1, MaxFindingsAssumption DEF MaxFindingsAssumption
<1>2. PipelineTypeOK
  BY <1>1, NoReportType DEF EngineInit, PipelineTypeOK, ReportType
<1>3. effective \in Int
  <2>1. PICK r \in Requested : effective = EffectiveRounds(mode, EffectiveRounds(mode, r))
    BY DEF EngineInit
  <2>2. mode \in DOMAIN Modes /\ r \in Int
    BY RequestedAssumption DEF RequestedAssumption, EngineInit
  <2>3. QED
    BY <2>1, <2>2, RoundsType
<1>4. EngineTypeOK
  <2>1. new \in Seq(Finding) /\ round \in Nat /\ empties \in Nat
    <3>1. new = <<>> /\ round = 1 /\ empties = 0
      BY DEF EngineInit
    <3>2. QED
      BY <3>1
  <2>2. QED
    BY <1>2, <1>3, <2>1 DEF EngineInit, EngineTypeOK, LoopStages
<1>5. EngineInv
  BY <1>1 DEF EngineInit, EngineInv, NoticedInv, StoredInv, OneRoundPerUrl, ReportedIsStored
<1>6. PipelineInv
  BY DEF EngineInit, PipelineInv, Written, WrittenInv, WarningsInv, TagsInv, WarningsAreReleased, DanglingIsEditors
<1>7. QED
  BY <1>4, <1>5, <1>6

\* A step that leaves the engine alone changes nothing of it.
LEMMA EngineStutter ==
  EngineTypeOK /\ EngineInv /\ PipelineInv /\ UNCHANGED engineVars
    => EngineTypeOK' /\ EngineInv' /\ PipelineInv'
<1> SUFFICES ASSUME EngineTypeOK, EngineInv, PipelineInv, UNCHANGED engineVars
             PROVE  EngineTypeOK' /\ EngineInv' /\ PipelineInv'
  OBVIOUS
<1>1. UNCHANGED pipelineVars /\ UNCHANGED loopVars /\ UNCHANGED <<stage, findings>>
  BY DEF engineVars, pipelineVars
<1>2. PipelineTypeOK' /\ PipelineInv'
  BY <1>1, PipelineStutter DEF EngineTypeOK
<1>3. EngineTypeOK'
  BY <1>1, <1>2 DEF EngineTypeOK, loopVars
<1>4. EngineInv'
  BY <1>1, OneRoundKept DEF EngineInv, NoticedInv, StoredInv, ReportedIsStored, loopVars
<1>5. QED
  BY <1>2, <1>3, <1>4

\* So they always hold.
LEMMA EngineInductive == EngineSpec => [](EngineTypeOK /\ EngineInv /\ PipelineInv)
<1>1. EngineTypeOK /\ EngineInv /\ PipelineInv /\ [EngineNext]_engineVars
        => EngineTypeOK' /\ EngineInv' /\ PipelineInv'
  BY EngineTypeStep, EngineInvStep, EnginePipelineStep, EngineStutter
<1>2. QED
  BY <1>1, EngineStart, PTL DEF EngineSpec

\* The engine's variables keep their types, and the loop has something to search for
\* (engine.py, run_research).
THEOREM EngineTypes == EngineSpec => []EngineTypeOK
BY EngineInductive, PTL

\* The findings of one URL are of one round, however the rounds search.
THEOREM EnginePagesOnce == EngineSpec => []OneRoundPerUrl
BY EngineInductive, PTL DEF EngineInv

\* What the report is made of is stored, but for the round that found the job cancelled.
THEOREM EngineStoresReported == EngineSpec => []ReportedIsStored
BY EngineInductive, PTL DEF EngineInv

\* A run that has noticed its cancellation asks the search engine nothing more.
THEOREM EngineStopsSearching == EngineSpec => NoSearchAfterCancel
<1>1. EngineInv /\ [EngineNext]_engineVars => [noticed => searched' = searched]_engineVars
  <2> SUFFICES ASSUME EngineInv, EngineNext, noticed PROVE searched' = searched
    OBVIOUS
  <2>1. ~Search
    BY DEF Search, EngineInv, NoticedInv
  <2>2. QED
    BY <2>1 DEF EngineNext, EngineStep, Plan, PlanRaise, EngineRaise, LoopHead, Draft, OnProgress,
                Advance, CancelRow, loopVars
<1>2. QED
  BY <1>1, EngineInductive, PTL DEF EngineSpec, NoSearchAfterCancel

\* What ReportSpec promises of the report that is returned, a run of the engine keeps,
\* whatever its loop found and left as warnings.
THEOREM EngineReleases ==
  EngineSpec => [](WarningsAreReleased /\ DanglingIsEditors /\ SingleCitationsSurvive)
<1>1. EngineTypeOK /\ PipelineInv => WarningsAreReleased /\ DanglingIsEditors /\ SingleCitationsSurvive
  BY SinglesKept DEF EngineTypeOK, PipelineInv
<1>2. QED
  BY <1>1, EngineInductive, PTL
==============================================================================
