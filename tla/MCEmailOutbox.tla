---------------------------- MODULE MCEmailOutbox ----------------------------
(* Instance of EmailOutbox for TLC: the request, one cron, two posts.        *)
EXTENDS EmailOutbox

CONSTANTS request, cron1, post1, post2, event, BOUNCED

=============================================================================
