-------------------------- MODULE MCReportPipeline --------------------------
(* Two findings, and every body with at most two tags over their numbers. *)
EXTENDS ReportPipeline

\* With two findings 3 is the number without a source.
MCBodies ==
  [tags : {{}, {{1}}, {{3}}, {{1, 2}}, {{1}, {2}}, {{1}, {2, 3}}, {{2}, {3}}},
   words : Lengths \ {"blank"},
   says : SUBSET Topics]
  \cup {Blank}
=============================================================================
