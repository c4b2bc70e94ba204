---------------------------- MODULE MCCodeRunner ----------------------------
(* Instances of CodeRunner small enough for TLC. *)
EXTENDS CodeRunner, TLC

=============================================================================
