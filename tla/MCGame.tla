------------------------------- MODULE MCGame -------------------------------
(***************************************************************************)
(* The script's own field, 12 by 12 with its walls, and its first places.  *)
(***************************************************************************)
EXTENDS Game

MCStartPos == <<1, 1>>
MCStartObj == <<5, 5>>
=============================================================================
