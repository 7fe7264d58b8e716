SPECIFICATION FairSpec
CONSTANTS
  N = 3
  MaxRetries = 1
  Kinds = {"fail fast"}
PROPERTY FailsAsSoonAsOneErrs
CHECK_DEADLOCK FALSE
