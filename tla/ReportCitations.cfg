\* Three findings, two of which may say the same, and a synthesizer that cites as it was told.
CONSTANTS
  Urls = {u1, u2}
  Texts = {t1, t2}
  NoText = empty
  Bodies <- MCBodies
  MaxFindings = 3
SPECIFICATION ReportSpec
INVARIANT CitationsMatchPrompt
CHECK_DEADLOCK FALSE
