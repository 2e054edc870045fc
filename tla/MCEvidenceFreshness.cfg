SPECIFICATION Spec
CONSTANTS
  requiredEvidenceTypes <- OneEvidenceType
  requiredReviewTypes <- TwoReviews
  HighRisk = TRUE
  MaxRevision = 2
  MaxCollections = 2
  MaxReviews = 1
INVARIANTS SweptEvidenceIsCurrent
PROPERTIES StaleStaysStale DoneIsEarned
