CONSTANTS
  Catalog <- Scripts
  Trusting <- TrustingScripts
  Rewriting <- RewritingScripts
  Unreporting <- UnreportingScripts
  MaxFaults = 2
SPECIFICATION Spec
INVARIANTS
  TypeOK
  HonestSuccess
  RepairIsComplete
  CompliantStaysSo
  UserItemsAreKept
