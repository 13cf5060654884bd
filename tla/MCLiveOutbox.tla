---------------------------- MODULE MCLiveOutbox ----------------------------
(***************************************************************************)
(* Small instances of the browser outbox: a goal, which depends on         *)
(* nothing, and the two halves of a substitution, of which the second      *)
(* depends on the first.                                                   *)
(***************************************************************************)
EXTENDS LiveOutbox

CONSTANTS Goal, Out, In, sender, finisher

=============================================================================
