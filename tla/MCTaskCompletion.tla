-------------------------- MODULE MCTaskCompletion --------------------------
(* TLC instance of TaskCompletion. *)
EXTENDS TaskCompletion
MCEvidenceTypes == <<"UNIT_TEST", "BUILD">>
OneEvidenceType == <<"UNIT_TEST">>
TwoReviews == {"SPEC_COMPLIANCE", "CODE_QUALITY"}
=============================================================================
