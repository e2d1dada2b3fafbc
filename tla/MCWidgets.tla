------------------------------ MODULE MCWidgets ------------------------------
(***************************************************************************)
(* A root with a child that has a child, and one more child: the sibling.  *)
(* Handlers call operations once the sibling is gone, so that four widgets *)
(* compete without calls, and three with them.                             *)
(***************************************************************************)
EXTENDS Widgets, TLC

CONSTANTS root, parentWidget, child, sibling

MCParentOf ==
  root :> None @@ parentWidget :> root @@ child :> parentWidget @@ sibling :> root

MCNext == Next /\ (calls' = 0 \/ status[sibling] = "gone")
MCSpec == Init /\ [][MCNext]_vars
=============================================================================
