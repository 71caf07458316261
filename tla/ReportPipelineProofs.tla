------------------------- MODULE ReportPipelineProofs -------------------------
(***************************************************************************)
(* What the report pipeline promises of the report it returns, for any     *)
(* findings and whatever the language model writes.                        *)
(***************************************************************************)
EXTENDS ReportPipeline, FiniteSetTheorems, TLAPS

\* The stages in which there is a report.
Written == {"verify_claims", "verify_citations", "edit", "gate", "returned"}

\* Before the synthesis there is none; after it, it is made of the findings.
WrittenInv ==
  /\ stage \notin Written => report = NoReport /\ draft = {}
  /\ stage \in Written \ {"returned"} => findings # <<>> /\ report.citations = Citations

\* On its way through the pipeline a report has no warning the run has not, and a
\* status of its own says that there is one.
WarningsInv ==
  stage \in Written \ {"returned"} =>
    /\ report.warnings \subseteq warnings
    /\ \/ report.status = "completed" /\ report.warnings = {}
       \/ report.status = "completed_with_warnings" /\ warnings # {}

\* The draft's tags stay until they are verified; then those of one known number are
\* left, and a report that is still plainly completed has no number out of bounds.
TagsInv ==
  /\ stage \in {"verify_claims", "verify_citations"} => report.body.tags = draft
  /\ stage \in {"edit", "gate", "returned"} =>
       Singles(draft) \cap DOMAIN findings \subseteq Singles(report.body.tags)
  /\ stage \in {"edit", "gate"} /\ report.status = "completed" /\ ~edited =>
       Cited(report.body.tags) \subseteq DOMAIN findings

PipelineInv == WrittenInv /\ WarningsInv /\ TagsInv /\ WarningsAreReleased /\ DanglingIsEditors
------------------------------------------------------------------------------
(* Bodies *)

\* The brackets the verifier leaves are still of one number or two.
LEMMA CleanBody ==
  ASSUME NEW body \in Body, findings \in Seq(Finding)
  PROVE  /\ Clean(body) \in Body
         /\ Clean(body).tags = {t \cap 1..Len(findings) : t \in body.tags} \ {{}}
         /\ Cited(Clean(body).tags) \subseteq 1..Len(findings)
         /\ Singles(body.tags) \cap 1..Len(findings) \subseteq Singles(Clean(body).tags)
<1> DEFINE tags == {t \cap 1..Len(findings) : t \in body.tags} \ {{}}
<1>1. tags \subseteq Tag
  <2> SUFFICES ASSUME NEW t \in body.tags, t \cap 1..Len(findings) # {}
               PROVE  t \cap 1..Len(findings) \in Tag
    OBVIOUS
  <2> DEFINE left == t \cap 1..Len(findings)
  <2>1. t \in SUBSET Number /\ Cardinality(t) \in {1, 2}
    BY DEF Body, Tag
  <2>2. IsFiniteSet(t)
    <3>1. IsFiniteSet(Number)
      BY FS_Interval, MaxFindingsAssumption DEF MaxFindingsAssumption, Number
    <3>2. QED
      BY <2>1, <3>1, FS_Subset
  <2>3. left \in SUBSET t
    OBVIOUS
  <2>4. IsFiniteSet(left) /\ Cardinality(left) <= Cardinality(t)
    BY <2>2, <2>3, FS_Subset
  <2>5. Cardinality(left) \in Nat /\ Cardinality(left) # 0
    BY <2>4, FS_CardinalityType, FS_EmptySet
  <2>6. Cardinality(left) \in {1, 2}
    BY <2>1, <2>4, <2>5
  <2>7. QED
    BY <2>1, <2>3, <2>6 DEF Tag
<1>2. Clean(body) \in Body /\ Clean(body).tags = tags
  BY <1>1 DEF Clean, Body
<1>3. Cited(tags) \subseteq 1..Len(findings)
  BY DEF Cited
<1>4. ASSUME NEW n \in Singles(body.tags), n \in 1..Len(findings) PROVE n \in Singles(tags)
  <2>1. {n} \in body.tags /\ {n} = {n} \cap 1..Len(findings) /\ n \in Number
    BY <1>4 DEF Singles
  <2>2. {n} \in tags
    BY <2>1
  <2>3. QED
    BY <2>1, <2>2 DEF Singles
<1>5. QED
  BY <1>2, <1>3, <1>4

\* There is a citation for every finding, its URL.
LEMMA CitationsType ==
  ASSUME findings \in Seq(Finding)
  PROVE  Citations \in Seq(Urls) /\ DOMAIN Citations = DOMAIN findings
<1>1. \A i \in DOMAIN findings : findings[i].url \in Urls
  <2>1. \A i \in DOMAIN findings : findings[i] \in Finding
    OBVIOUS
  <2>2. QED
    BY <2>1 DEF Finding
<1>2. DOMAIN findings = 1..Len(findings) /\ Len(findings) \in Nat
  OBVIOUS
<1>3. Citations \in [1..Len(findings) -> Urls]
  BY <1>1, <1>2 DEF Citations
<1>4. QED
  BY <1>2, <1>3
\* No report is one without citations.
LEMMA NoReportType ==
  /\ NoReport \in [body : Body, citations : Seq(Urls), warnings : SUBSET WarningKinds,
                   status : {"none", "completed", "completed_with_warnings"}]
  /\ NoReport.body.tags = {} /\ NoReport.warnings = {}
<1>1. Blank \in Body /\ Blank.tags = {}
  BY DEF Blank, Body, Lengths
<1>2. <<>> \in Seq(Urls)
  OBVIOUS
<1>3. QED
  BY <1>1, <1>2 DEF NoReport
------------------------------------------------------------------------------
(* The steps *)

\* A report that is written before the pipeline, or in its place, has the type of one.
LEMMA NewReport ==
  ASSUME findings \in Seq(Finding), NEW body \in Bodies, NEW ws \in SUBSET WarningKinds,
         NEW st \in {"completed", "completed_with_warnings"},
         report' = [body |-> body, citations |-> Citations, warnings |-> ws, status |-> st]
  PROVE  ReportType'
BY CitationsType, BodiesAssumption DEF BodiesAssumption, ReportType

\* Every step of the pipeline keeps the types.
LEMMA PipelineTypeStep == PipelineTypeOK /\ ReportNext => PipelineTypeOK'
<1> SUFFICES ASSUME PipelineTypeOK, ReportNext PROVE PipelineTypeOK'
  OBVIOUS
<1> USE DEF PipelineTypeOK
<1>0. /\ "not drafted" \in WarningKinds /\ "synthesizer failed" \in WarningKinds
      /\ "unsupported claims" \in WarningKinds /\ "quality gate" \in WarningKinds
      /\ "citation verification failed" \in WarningKinds
  BY DEF WarningKinds
<1>1. CASE NothingFound
  BY <1>1, NoReportType DEF NothingFound, ReportType
<1>2. CASE CompileFindings
  BY <1>0, <1>2, NewReport, BodiesAssumption DEF BodiesAssumption, Body, CompileFindings
<1>3. CASE Synthesize
  BY <1>3, NewReport, BodiesAssumption DEF BodiesAssumption, Body, Synthesize
<1>4. CASE SynthesisFails
  BY <1>0, <1>4, NewReport, BodiesAssumption DEF BodiesAssumption, Body, SynthesisFails
<1>5. CASE VerifyClaims \/ KeepText
  BY <1>0, <1>5 DEF VerifyClaims, KeepText, ReportType
<1>6. CASE VerifyCitations
  BY <1>6, CleanBody DEF VerifyCitations, ReportType
<1>7. CASE VerifyCitationsRaises
  BY <1>0, <1>7 DEF VerifyCitationsRaises, ReportType
<1>8. CASE Rewrite
  BY <1>8, BodiesAssumption DEF BodiesAssumption, Rewrite, ReportType
<1>9. CASE Gate
  BY <1>0, <1>9 DEF Gate, Merged, ReportType
<1>10. QED
  BY <1>1, <1>2, <1>3, <1>4, <1>5, <1>6, <1>7, <1>8, <1>9 DEF ReportNext

\* Every step of the pipeline keeps what is true of the report on its way.
LEMMA PipelineStep == PipelineTypeOK /\ PipelineInv /\ ReportNext => PipelineInv'
<1> SUFFICES ASSUME PipelineTypeOK, PipelineInv, ReportNext PROVE PipelineInv'
  OBVIOUS
<1> USE DEF PipelineInv, Written
<1>0. findings \in Seq(Finding) /\ DOMAIN findings = 1..Len(findings)
  <2>1. findings \in Seq(Finding)
    BY DEF PipelineTypeOK
  <2>2. QED
    BY <2>1
<1>1. CASE NothingFound
  <2>1. /\ stage' = "returned" /\ findings' = <<>> /\ draft' = {}
        /\ report'.warnings = {} /\ report'.status = "completed" /\ report'.body.tags = {}
    BY <1>1, NoReportType DEF NothingFound, WrittenInv
  <2>2. QED
    BY <2>1 DEF WrittenInv, WarningsInv, TagsInv, WarningsAreReleased, DanglingIsEditors, Singles, Cited
<1>2. CASE CompileFindings
  <2>0. PICK body \in Bodies :
          /\ draft' = body.tags
          /\ report' = [body |-> body, citations |-> Citations,
                        warnings |-> warnings \cup {"not drafted"},
                        status |-> "completed_with_warnings"]
    BY <1>2 DEF CompileFindings
  <2>1. /\ report'.body = body /\ report'.warnings = warnings \cup {"not drafted"}
        /\ report'.status = "completed_with_warnings"
    BY <2>0
  <2>2. stage' = "returned" /\ warnings' = warnings
    BY <1>2 DEF CompileFindings
  <2>3. WrittenInv' /\ WarningsInv' /\ TagsInv' /\ DanglingIsEditors'
    BY <2>0, <2>1, <2>2 DEF WrittenInv, WarningsInv, TagsInv, DanglingIsEditors
  <2>4. WarningsAreReleased'
    BY <2>1, <2>2 DEF WarningsAreReleased
  <2>5. QED
    BY <2>3, <2>4
<1>3. CASE Synthesize \/ SynthesisFails
  <2>0. PICK body \in Bodies, ws \in {{}, warnings'}, st \in {"completed", "completed_with_warnings"} :
          /\ draft' = body.tags
          /\ report' = [body |-> body, citations |-> Citations, warnings |-> ws, status |-> st]
          /\ \/ st = "completed" /\ ws = {}
             \/ st = "completed_with_warnings" /\ ws = warnings' /\ ws # {}
    <3>1. CASE Synthesize
      <4>1. PICK body \in Bodies :
              /\ draft' = body.tags
              /\ report' = [body |-> body, citations |-> Citations,
                            warnings |-> {}, status |-> "completed"]
        BY <3>1 DEF Synthesize
      <4>2. QED
        BY <4>1
    <3>2. CASE SynthesisFails
      <4>1. PICK body \in Bodies :
              /\ draft' = body.tags
              /\ report' = [body |-> body, citations |-> Citations,
                            warnings |-> warnings', status |-> "completed_with_warnings"]
        BY <3>2 DEF SynthesisFails
      <4>2. warnings' # {}
        BY <3>2 DEF SynthesisFails
      <4>3. QED
        BY <4>1, <4>2
    <3>3. QED
      BY <1>3, <3>1, <3>2
  <2>1. /\ report'.body = body /\ report'.citations = Citations
        /\ report'.warnings = ws /\ report'.status = st
    BY <2>0
  <2>3. stage' = "verify_claims" /\ findings' = findings /\ findings # <<>>
    BY <1>3 DEF Synthesize, SynthesisFails
  <2>4. QED
    BY <2>0, <2>1, <2>3 DEF WrittenInv, WarningsInv, TagsInv, WarningsAreReleased, DanglingIsEditors, Citations
<1>4. CASE VerifyClaims
  BY <1>4 DEF VerifyClaims, WrittenInv, WarningsInv, TagsInv, WarningsAreReleased, DanglingIsEditors, Citations
<1>5. CASE VerifyCitations
  <2>1. report.body \in Body
    BY DEF PipelineTypeOK, ReportType
  <2>2. /\ report'.body = Clean(report.body) /\ report'.citations = report.citations
        /\ report'.warnings = report.warnings /\ report'.status = report.status
    BY <1>5 DEF VerifyCitations, PipelineTypeOK, ReportType
  <2>3. WrittenInv' /\ WarningsInv'
    BY <1>5, <2>2 DEF VerifyCitations, WrittenInv, WarningsInv, Citations
  <2>4. TagsInv'
    BY <1>0, <1>5, <2>1, <2>2, CleanBody DEF VerifyCitations, TagsInv
  <2>5. QED
    BY <1>5, <2>3, <2>4 DEF VerifyCitations, WarningsAreReleased, DanglingIsEditors
<1>6. CASE VerifyCitationsRaises
  <2>1. /\ report'.body = report.body /\ report'.citations = report.citations
        /\ report'.warnings = report.warnings /\ report'.status = "completed_with_warnings"
    BY <1>6 DEF VerifyCitationsRaises, PipelineTypeOK, ReportType
  <2>2. QED
    BY <1>6, <2>1 DEF VerifyCitationsRaises, WrittenInv, WarningsInv, TagsInv, WarningsAreReleased, DanglingIsEditors, Citations
<1>7. CASE Rewrite
  <2>1. PICK new \in Bodies : Acceptable(new, report.body) /\ report' = [report EXCEPT !.body = new]
    BY <1>7 DEF Rewrite
  <2>2. /\ report'.body = new /\ report'.citations = report.citations
        /\ report'.warnings = report.warnings /\ report'.status = report.status
    BY <2>1 DEF PipelineTypeOK, ReportType
  <2>3. Singles(report.body.tags) \subseteq Singles(report'.body.tags)
    BY <2>1, <2>2 DEF Acceptable
  <2>4. QED
    BY <1>7, <2>2, <2>3 DEF Rewrite, WrittenInv, WarningsInv, TagsInv, WarningsAreReleased, DanglingIsEditors, Citations
<1>8. CASE KeepText
  BY <1>8 DEF KeepText, WrittenInv, WarningsInv, TagsInv, WarningsAreReleased, DanglingIsEditors, Citations
<1>9. CASE Gate
  <2>1. /\ report'.body = report.body /\ report'.citations = report.citations
        /\ report'.warnings = report.warnings \cup warnings'
        /\ report'.status = IF warnings' # {} /\ report.status = "completed"
                              THEN "completed_with_warnings" ELSE report.status
    BY <1>9 DEF Gate, Merged, PipelineTypeOK, ReportType
  <2>2. stage = "gate" /\ stage' = "returned" /\ warnings \subseteq warnings'
    BY <1>9 DEF Gate
  <2>3. UNCHANGED <<findings, draft, edited>>
    BY <1>9 DEF Gate
  <2>4. DOMAIN report.citations = DOMAIN findings
    BY <1>0, <2>2, CitationsType DEF WrittenInv
  <2>5. WrittenInv' /\ WarningsInv'
    BY <2>2 DEF WrittenInv, WarningsInv
  <2>6. TagsInv'
    BY <2>1, <2>2, <2>3 DEF TagsInv
  <2>7. WarningsAreReleased'
    BY <2>1, <2>2 DEF WarningsInv, WarningsAreReleased
  <2>8. DanglingIsEditors'
    BY <2>1, <2>2, <2>3, <2>4 DEF TagsInv, DanglingIsEditors
  <2>9. QED
    BY <2>5, <2>6, <2>7, <2>8
<1>10. QED
  BY <1>1, <1>2, <1>3, <1>4, <1>5, <1>6, <1>7, <1>8, <1>9 DEF ReportNext
------------------------------------------------------------------------------
(* The theorems *)

\* Whether there are two findings is a Boolean.
LEMMA ContradictionsType ==
  ASSUME findings \in Seq(Finding), NEW c \in {FALSE, Len(findings) >= 2} PROVE c \in BOOLEAN
<1>1. Len(findings) \in Nat
  OBVIOUS
<1>2. \A n \in Nat : (n >= 2) \in BOOLEAN
  OBVIOUS
<1>3. QED
  BY <1>1, <1>2, Zenon

\* They hold when the search loop is over and the pipeline begins.
LEMMA PipelineStart == ReportInit => PipelineTypeOK /\ PipelineInv
<1> SUFFICES ASSUME ReportInit PROVE PipelineTypeOK /\ PipelineInv
  OBVIOUS
<1>1. findings \in Seq(Finding) /\ Len(findings) <= MaxFindings
  <2>1. PICK n \in 0..MaxFindings : findings \in [1..n -> [url : Urls, text : Texts, round : {1}]]
    BY DEF ReportInit, BoundedSeq, SeqOf
  <2>2. n \in Nat /\ n <= MaxFindings
    BY MaxFindingsAssumption DEF MaxFindingsAssumption
  <2>3. [url : Urls, text : Texts, round : {1}] \subseteq Finding
    BY DEF Finding
  <2>4. findings \in [1..n -> Finding]
    BY <2>1, <2>3
  <2>5. QED
    BY <2>2, <2>4
<1>2. ReportType
  BY NoReportType DEF ReportInit, ReportType
<1>3. PipelineTypeOK
  <2>1. contradictions \in BOOLEAN
    BY <1>1, ContradictionsType, Zenon DEF ReportInit
  <2>2. QED
    BY <1>1, <1>2, <2>1 DEF ReportInit, PipelineTypeOK
<1>4. PipelineInv
  BY DEF ReportInit, PipelineInv, Written, WrittenInv, WarningsInv, TagsInv, WarningsAreReleased, DanglingIsEditors
<1>5. QED
  BY <1>3, <1>4

\* A step that leaves the pipeline alone changes nothing of it.
LEMMA PipelineStutter ==
  PipelineTypeOK /\ PipelineInv /\ UNCHANGED pipelineVars => PipelineTypeOK' /\ PipelineInv'
<1> SUFFICES ASSUME PipelineTypeOK, PipelineInv, UNCHANGED pipelineVars
             PROVE  PipelineTypeOK' /\ PipelineInv'
  OBVIOUS
<1> USE DEF pipelineVars
<1>1. PipelineTypeOK'
  BY DEF PipelineTypeOK, ReportType
<1>2. WrittenInv' /\ WarningsInv' /\ TagsInv'
  BY DEF PipelineInv, WrittenInv, WarningsInv, TagsInv, Citations
<1>3. WarningsAreReleased' /\ DanglingIsEditors'
  BY DEF PipelineInv, WarningsAreReleased, DanglingIsEditors
<1>4. QED
  BY <1>1, <1>2, <1>3 DEF PipelineInv

\* So they always hold.
LEMMA PipelineInductive == ReportSpec => [](PipelineTypeOK /\ PipelineInv)
BY PipelineStart, PipelineTypeStep, PipelineStep, PipelineStutter, PTL DEF ReportSpec

\* What is returned without a draft has nothing to keep.
LEMMA SinglesKept == PipelineTypeOK /\ PipelineInv => SingleCitationsSurvive
BY DEF PipelineInv, TagsInv, SingleCitationsSurvive

\* The findings, the warnings and the report keep their types in every step of
\* run_research behind its loop (engine.py).
THEOREM PipelineTypes == ReportSpec => []PipelineTypeOK
BY PipelineInductive, PTL

\* Whatever step raised it, a warning reaches the report that is returned, and its
\* status says so.
THEOREM ReportReleasesWarnings == ReportSpec => []WarningsAreReleased
BY PipelineInductive, PTL DEF PipelineInv

\* A plainly completed report that the editor did not rewrite cites no number without
\* a source (citation_verifier.py).
THEOREM ReportDanglesByEditor == ReportSpec => []DanglingIsEditors
BY PipelineInductive, PTL DEF PipelineInv

\* Each single citation of a source survives the verifier and the editor.
THEOREM ReportKeepsCitations == ReportSpec => []SingleCitationsSurvive
BY PipelineInductive, SinglesKept, PTL
==============================================================================
