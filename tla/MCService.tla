------------------------------ MODULE MCService ------------------------------
(***************************************************************************)
(* Three clients, two permits and one pool thread, so that a job can time  *)
(* out before it starts and a client can be refused while two jobs that    *)
(* nobody waits for hold the permits.                                      *)
(***************************************************************************)
EXTENDS TemplateService
=============================================================================
