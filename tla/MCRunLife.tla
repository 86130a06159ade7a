------------------------------ MODULE MCRunLife ------------------------------
(* RunLife on small instances: a handoff after a review, or one session     *)
(* that may answer PENDING.                                                 *)
EXTENDS RunLife

SmallPipelines == {<<"participant", "handoff">>, <<"session">>}
RehearseFirst == <<{FALSE, TRUE}, {FALSE}>>
=============================================================================
