------------------------------ MODULE MCFetching ------------------------------
(* The wall clock may be set back by more than a pacing interval.             *)
EXTENDS Reporting

MCBackSteps == {-4}
==============================================================================
