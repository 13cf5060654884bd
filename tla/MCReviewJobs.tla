---------------------------- MODULE MCReviewJobs ----------------------------
(* Instance of ReviewJobs for TLC: two edits and two overlapping runners.   *)
EXTENDS ReviewJobs

CONSTANTS a, b, edit1, edit2, cron1, cron2

=============================================================================
