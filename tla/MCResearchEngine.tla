-------------------------- MODULE MCResearchEngine --------------------------
(* The search loop over a small web; the bodies of reports are those that *)
(* a clean, an empty and a compiled report need.                          *)
EXTENDS ResearchEngine

MCBodies ==
  {Blank,
   [tags |-> {{1}, {MaxFindings + 1}}, words |-> "long", says |-> Topics],
   [tags |-> {}, words |-> "short", says |-> {"question"}]}
\* None, too few, too many for some modes, for all modes and for the policy.
MCRequested == {-1, 0, 2, 5, 6}
=============================================================================
