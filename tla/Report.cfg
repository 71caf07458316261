\* Two findings that may say the same; any answer of the language model.
CONSTANTS
  Urls = {u1, u2}
  Texts = {t1, empty}
  NoText = empty
  Bodies <- MCBodies
  MaxFindings = 2
SPECIFICATION ReportSpec
INVARIANTS
  WarningsAreReleased
  DanglingIsEditors
  SingleCitationsSurvive
\* The report is returned once.
CHECK_DEADLOCK FALSE
