--------------------------- MODULE MCMessageQueue ---------------------------
(***************************************************************************)
(* Two runs of two processes each, alone or at once, and a queue that one  *)
(* message fills.  With one descriptor the second open of a parent fails,  *)
(* with two all of them succeed.                                           *)
(***************************************************************************)
EXTENDS MessageQueue

MCLimits == {1, 2}
=============================================================================
