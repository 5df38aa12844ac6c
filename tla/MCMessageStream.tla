--------------------------- MODULE MCMessageStream ---------------------------
(***************************************************************************)
(* MessageStream with the bounds of stream.cfg.                            *)
(***************************************************************************)
EXTENDS MessageStream
=============================================================================
