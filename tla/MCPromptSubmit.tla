--------------------------- MODULE MCPromptSubmit ---------------------------
(***************************************************************************)
(* PromptSubmit on a few prompts.                                          *)
(***************************************************************************)
EXTENDS PromptSubmit
=============================================================================
