--------------------------- MODULE MailPipelineMC ---------------------------
(***************************************************************************)
(* A small instance of MailPipeline for TLC.                               *)
(***************************************************************************)
EXTENDS MailPipeline

=============================================================================
