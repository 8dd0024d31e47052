SPECIFICATION Spec
CONSTANTS
  Words = {"Summer", "Fall"}
  Years = {2024, 2025, 2027}
  Countries = {"United States", "Canada", "France"}
  Cores = {"facebook", "meta"}
  Rename <- MCRename
  Detected <- MCDetected
  Answers <- MCAnswers
  Verdicts <- MCVerdicts
  NewLabels <- MCNewLabels
  MaxLabels = 2
  FirstYear = 2026
  LastYear = 2027
INVARIANTS
  ScriptIsSettled
  AuditIsQuiet
  AlertAgreesWithBoard
  ReadersAgree
