---------------------------- MODULE MCAnswerText ----------------------------
(* AnswerText for TLC: texts of up to six of the five characters. *)
EXTENDS AnswerText

=============================================================================
