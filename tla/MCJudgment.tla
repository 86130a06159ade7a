------------------------------ MODULE MCJudgment ------------------------------
(* A record judged again and again, while the template and the facts change. *)
EXTENDS Judgment
=============================================================================
