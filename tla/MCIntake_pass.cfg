SPECIFICATION Spec
CONSTANTS
  Rules = {"rule a", "rule b"}
  RuleSeverity <- MCRuleSeverity
  Source <- MCSource
  Advisories = {"advisory"}
  AdvisorySeverities = {2, 4}
  Signatures = {"sig a", "sig b"}
  SignatureSeverity <- MCSignatureSeverity
  Harnesses = 2
  OpenIds <- MCOpenIds
  MaxMatches = 3
  MaxAdvisories = 2
INVARIANTS
  NothingReportedIsLost
  OneConstructOneFinding
CHECK_DEADLOCK FALSE
