--------------------------- MODULE MCIssueRuntime ---------------------------
(* Values of IssueRuntime's constants for TLC. *)
EXTENDS IssueOffers

MCCapabilities == {"NETWORK_ACCESS"}

(* A defect, and a suspected duplicate that is none: between them they     *)
(* offer every choice of an assessment review.                             *)
MCAgentAssessments ==
  { [verdict |-> "BUG", duplicate |-> FALSE], [verdict |-> "NOT_A_BUG", duplicate |-> TRUE] }
=============================================================================
