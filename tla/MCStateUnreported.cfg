CONSTANTS
  Catalog <- Scripts
  Trusting <- TrustingScripts
  Rewriting <- RewritingScripts
  Unreporting <- UnreportingScripts
  MaxFaults = 0
SPECIFICATION Spec
INVARIANTS
  TestReportsDrift
