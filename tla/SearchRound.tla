----------------------------- MODULE SearchRound -----------------------------
(***************************************************************************)
(* What a search round promises the rest of the engine: it lists pages     *)
(* that have given no finding yet, each once, and then adds what they      *)
(* gave, page by page in the order of the list, whatever became of each.   *)
(* ResearchEngine takes these two steps as one, its action Search.         *)
(***************************************************************************)
EXTENDS Naturals, SequencesExt

CONSTANTS Urls, FetchCap, PageFindings

VARIABLES
  findings,   \* state.findings, each by its URL
  listed      \* the pages of the round under way

Init == findings = <<>> /\ listed = <<>>

List ==
  /\ listed = <<>>
  /\ listed' \in BoundedSeq(Urls, FetchCap)
  /\ IsInjective(listed')
  /\ \A i \in DOMAIN listed' : ~Contains(findings, listed'[i])
  /\ UNCHANGED findings

Gather ==
  /\ \E n \in [DOMAIN listed -> 0..PageFindings] :
       LET Of(i) == [k \in 1..n[i] |-> listed[i]]
       IN  findings' = findings \o FlattenSeq([i \in DOMAIN listed |-> Of(i)])
  /\ listed' = <<>>

Next == List \/ Gather

Spec == Init /\ [][Next]_<<findings, listed>>
==============================================================================
