--------------------------- MODULE MCSessionSwitch ---------------------------
(***************************************************************************)
(* SessionSwitch on two stored chats and one still to be made.             *)
(***************************************************************************)
EXTENDS SessionSwitch
=============================================================================
