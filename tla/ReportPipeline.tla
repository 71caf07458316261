--------------------------- MODULE ReportPipeline ---------------------------
(***************************************************************************)
(* What run_research does with the findings once the search loop is over:  *)
(* it writes a report, or compiles one, and passes it through the claim    *)
(* verifier, the citation verifier, the editor and the quality gate.       *)
(*                                                                         *)
(* Of a report body the model keeps its citation tags, how long it is and  *)
(* which words the gate looks for; what the language model answers is any  *)
(* member of Bodies.  A tag is the set of the numbers in one pair of       *)
(* brackets: {1} is [1], {1, 2} is [1, 2].                                 *)
(*                                                                         *)
(* Every mode has a synthesis_prompt, so the findings alone, and not the   *)
(* evolving report, reach the prompt of the final synthesis.               *)
(*                                                                         *)
(* A definition named X_Y is a mutated form of X; no specification uses it.*)
(***************************************************************************)
EXTENDS Naturals, FiniteSets, Sequences, SequencesExt, FiniteSetsExt

CONSTANTS Urls,
          Texts,          \* what a finding says; near-identical findings say the same
          NoText,         \* the text of a finding with no word of three letters
          Bodies,         \* the bodies the language model may write
          MaxFindings     \* bound on the findings of one job

Finding == [url : Urls, text : Texts, round : Nat]

Number == 1..(MaxFindings + 1)       \* one more than there can be findings
Tag == {t \in SUBSET Number : Cardinality(t) \in {1, 2}}

\* blank: no word   scant: under 15   brief: under 30   short: under 150
Lengths == {"blank", "scant", "brief", "short", "long"}
Topics == {"conflict", "uncertainty", "question"}
Body == [tags : SUBSET Tag, words : Lengths, says : SUBSET Topics]

ASSUME BodiesAssumption == Bodies \subseteq Body
ASSUME MaxFindingsAssumption == MaxFindings \in Nat

VARIABLES
  stage,           \* the step of run_research that comes next
  findings,        \* state.findings
  evolving,        \* state.evolving_report: "", "placeholder" or "text"
  contradictions,  \* state.contradictions is not empty
  warnings,        \* state.warnings
  draft,           \* the tags of the body as it was first written (history)
  edited,          \* the editor's rewrite was taken (history)
  report           \* the ReportOutput that is returned

pipelineVars == <<stage, findings, evolving, contradictions, warnings, draft, edited, report>>

Blank == [tags |-> {}, words |-> "blank", says |-> {}]

NoReport == [body |-> Blank, citations |-> <<>>, warnings |-> {}, status |-> "none"]

\* The numbers cited in brackets of their own, the only ones `\[\d+\]` matches.
Singles(tags) == {n \in Number : {n} \in tags}

Cited(tags) == UNION tags

\* f.url for f in state.findings: citation src_N is finding N.
Citations == [i \in DOMAIN findings |-> findings[i].url]
------------------------------------------------------------------------------
(* deduplicate_findings: the first of near-identical findings stays, in place. *)

DistinctFindings ==
  IF Len(findings) <= 1 THEN findings
  ELSE LET First(i) == /\ findings[i].text # NoText
                       /\ \A j \in 1..(i - 1) : findings[j].text # findings[i].text
           kept == SetToSortSeq({i \in DOMAIN findings : First(i)}, <)
       IN  [k \in DOMAIN kept |-> findings[kept[k]]]

\* The URL the synthesis prompt shows behind each number.
Shown == [k \in DOMAIN DistinctFindings |-> DistinctFindings[k].url]

\* A report compiled without the language model has links, and no citation tag.
Compiled(body) ==
  /\ body.tags = {}
  /\ body.words \notin {"blank", "scant"}
  /\ "question" \in body.says
------------------------------------------------------------------------------
(* After the loop: nothing was found, or nothing was drafted, or both were. *)

NothingFound ==
  /\ stage = "conclude" /\ findings = <<>>
  /\ stage' = "returned"
  /\ report' = [NoReport EXCEPT !.status = "completed"]
  /\ UNCHANGED <<findings, evolving, contradictions, warnings, draft, edited>>

CompileFindings ==
  /\ stage = "conclude" /\ findings # <<>> /\ evolving = ""
  /\ stage' = "returned"
  /\ \E body \in Bodies :
       /\ Compiled(body)
       /\ draft' = body.tags
       /\ report' = [body |-> body, citations |-> Citations,
                     warnings |-> warnings \cup {"not drafted"},
                     status |-> "completed_with_warnings"]
  /\ UNCHANGED <<findings, evolving, contradictions, warnings, edited>>

Synthesize ==
  /\ stage = "conclude" /\ findings # <<>> /\ evolving # ""
  /\ stage' = "verify_claims"
  /\ \E body \in Bodies :
       /\ draft' = body.tags
       /\ report' = [body |-> body, citations |-> Citations,
                     warnings |-> {}, status |-> "completed"]
  /\ UNCHANGED <<findings, evolving, contradictions, warnings, edited>>

\* The model call raises: the report is compiled, and says so.
SynthesisFails ==
  /\ stage = "conclude" /\ findings # <<>> /\ evolving # ""
  /\ stage' = "verify_claims"
  /\ warnings' = warnings \cup {"synthesizer failed"}
  /\ \E body \in Bodies :
       /\ Compiled(body)
       /\ draft' = body.tags
       /\ report' = [body |-> body, citations |-> Citations,
                     warnings |-> warnings', status |-> "completed_with_warnings"]
  /\ UNCHANGED <<findings, evolving, contradictions, edited>>
------------------------------------------------------------------------------
\* The claim verifier may find assertions without support; its failures are its own.
VerifyClaims ==
  /\ stage = "verify_claims"
  /\ stage' = "verify_citations"
  /\ \/ UNCHANGED warnings
     \/ /\ report.body # Blank
        /\ warnings' = warnings \cup {"unsupported claims"}
  /\ UNCHANGED <<findings, evolving, contradictions, draft, edited, report>>

\* The numbers out of bounds go, and a tag left without a number goes with them.
Clean_EmptyBrackets(body) ==
  [body EXCEPT !.tags = {t \cap 1..Len(findings) : t \in body.tags}]

Clean_OffByOne(body) ==
  [body EXCEPT !.tags = {t \cap 1..(Len(findings) + 1) : t \in body.tags} \ {{}}]

Clean(body) ==
  [body EXCEPT !.tags = {t \cap 1..Len(findings) : t \in body.tags} \ {{}}]

VerifyCitations ==
  /\ stage = "verify_citations"
  /\ stage' = "edit"
  /\ report' = [report EXCEPT !.body = Clean(report.body)]
  /\ UNCHANGED <<findings, evolving, contradictions, warnings, draft, edited>>

\* A finding whose facts are no string raises in the screening, before body_md is
\* assigned.
VerifyCitationsRaises ==
  /\ stage = "verify_citations"
  /\ Cited(report.body.tags) # {}
  /\ stage' = "edit"
  /\ warnings' = warnings \cup {"citation verification failed"}
  /\ report' = [report EXCEPT !.status = "completed_with_warnings"]
  /\ UNCHANGED <<findings, evolving, contradictions, draft, edited>>
------------------------------------------------------------------------------
(* The editor *)

\* The rewrite is not too short and has every single citation of the report.
Acceptable_AnyCitation(new, old) ==
  /\ new.words \notin {"blank", "scant"}
  /\ Singles(old.tags) # {} => Singles(new.tags) # {}

Acceptable(new, old) ==
  /\ new.words \notin {"blank", "scant"}
  /\ Singles(old.tags) \subseteq Singles(new.tags)

\* A report of 30 words and more goes through the language model.
Rewrite ==
  /\ stage = "edit"
  /\ report.body.words \in {"short", "long"}
  /\ stage' = "gate"
  /\ edited' = TRUE
  /\ \E new \in Bodies :
       /\ Acceptable(new, report.body)
       /\ report' = [report EXCEPT !.body = new]
  /\ UNCHANGED <<findings, evolving, contradictions, warnings, draft>>

\* The report is blank or brief, or the rewrite is not acceptable, or the model call
\* raises: the report stays, without its filler phrases.
KeepText ==
  /\ stage = "edit"
  /\ stage' = "gate"
  /\ UNCHANGED <<findings, evolving, contradictions, warnings, draft, edited, report>>
------------------------------------------------------------------------------
(* evaluate_quality_gate *)

Penalty(issue) ==
  CASE issue = "brief" -> 25
    [] issue = "no citation" -> 20
    [] issue = "conflicts unspoken" -> 15
    [] issue = "no uncertainty" -> 10
    [] issue = "off topic" -> 20

Issues ==
  {i \in {"brief", "no citation", "conflicts unspoken", "no uncertainty", "off topic"} :
     CASE i = "brief" -> report.body.words # "long"
       [] i = "no citation" -> Singles(report.body.tags) = {} /\ report.citations # <<>>
       [] i = "conflicts unspoken" -> contradictions /\ "conflict" \notin report.body.says
       [] i = "no uncertainty" -> "uncertainty" \notin report.body.says
       [] i = "off topic" -> "question" \notin report.body.says}

Passed == 100 - MapThenSumSet(Penalty, Issues) >= 60

\* The merge at the end of run_research: the report takes over the warnings.
Merged_StatusForgotten(ws) ==
  [report EXCEPT !.warnings = @ \cup ws]

Merged(ws) ==
  LET all == report.warnings \cup ws
  IN  [report EXCEPT !.warnings = all,
                     !.status = IF ws # {} /\ all # {} /\ @ = "completed"
                                  THEN "completed_with_warnings" ELSE @]

Gate ==
  /\ stage = "gate"
  /\ stage' = "returned"
  /\ warnings' = IF Passed THEN warnings ELSE warnings \cup {"quality gate"}
  /\ report' = Merged(warnings')
  /\ UNCHANGED <<findings, evolving, contradictions, draft, edited>>
------------------------------------------------------------------------------
ReportInit ==
  /\ stage = "conclude"
  /\ findings \in BoundedSeq([url : Urls, text : Texts, round : {1}], MaxFindings)
  /\ evolving \in {"", "placeholder", "text"}
  /\ contradictions \in {FALSE, Len(findings) >= 2}
  /\ warnings = {}
  /\ draft = {}
  /\ edited = FALSE
  /\ report = NoReport

ReportNext ==
  \/ NothingFound \/ CompileFindings
  \/ Synthesize \/ SynthesisFails
  \/ VerifyClaims
  \/ VerifyCitations \/ VerifyCitationsRaises
  \/ Rewrite \/ KeepText
  \/ Gate

ReportSpec == ReportInit /\ [][ReportNext]_pipelineVars
------------------------------------------------------------------------------
WarningKinds == {"not drafted", "synthesizer failed", "unsupported claims",
                 "citation verification failed", "quality gate"}

ReportType ==
  report \in [body : Body, citations : Seq(Urls), warnings : SUBSET WarningKinds,
              status : {"none", "completed", "completed_with_warnings"}]

\* The types of the pipeline's variables.
PipelineTypeOK ==
  /\ findings \in Seq(Finding) /\ Len(findings) <= MaxFindings
  /\ evolving \in {"", "placeholder", "text"}
  /\ contradictions \in BOOLEAN /\ edited \in BOOLEAN
  /\ warnings \subseteq WarningKinds
  /\ draft \subseteq Tag
  /\ ReportType

\* Whatever step raised it, a warning reaches the report, and the client of a report
\* with warnings is told so by its status.
WarningsAreReleased ==
  stage = "returned" /\ findings # <<>> =>
    /\ warnings \subseteq report.warnings
    /\ report.warnings # {} <=> report.status = "completed_with_warnings"

\* A number without a source in a plainly "completed" report is the editor's
\* work: the verifier that removes such numbers runs before the editor.
DanglingIsEditors ==
  stage = "returned" /\ report.status = "completed" /\ ~edited =>
    Cited(report.body.tags) \subseteq DOMAIN report.citations

\* Every source the synthesizer cites in brackets of its own is still cited so in
\* the report that is released.
SingleCitationsSurvive ==
  stage = "returned" =>
    Singles(draft) \cap DOMAIN findings \subseteq Singles(report.body.tags)

(***************************************************************************)
(* What the comments say and the code does not do.                         *)
(***************************************************************************)

\* core/research/agents/synthesizer.py: findings are deduplicated "for citations".
\* A number in the draft leads to the source the prompt showed behind it.
CitationsMatchPrompt ==
  stage = "verify_claims" /\ report.status = "completed" =>
    \A n \in Cited(draft) \cap DOMAIN Shown : report.citations[n] = Shown[n]
==============================================================================
