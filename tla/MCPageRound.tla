----------------------------- MODULE MCPageRound -----------------------------
(* Two rounds over three pages, of which two are processed at a time.      *)
EXTENDS PageRound
==============================================================================
