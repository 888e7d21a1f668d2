------------------------------- MODULE Screens -------------------------------
(***************************************************************************)
(* The routes of the web client (App.tsx): one page is mounted at a time,  *)
(* and every page keeps its state to itself.                               *)
(***************************************************************************)
CONSTANT None   \* a null, an undefined, an empty string

VARIABLE shown  \* the page that is mounted

On(p) == shown = p /\ UNCHANGED shown
=============================================================================
