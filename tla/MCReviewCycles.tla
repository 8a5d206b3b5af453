---------------------------- MODULE MCReviewCycles ----------------------------
(* One revision and one remediation are enough to take every way round the *)
(* loop; the rows are as many as the longest run needs.                    *)
EXTENDS ReviewCycles

Rows == 1..17
Workstreams == {0, 1}
=============================================================================
