----------------------------- MODULE MCDashboard -----------------------------
(***************************************************************************)
(* An instance of Dashboard for TLC.                                       *)
(***************************************************************************)
EXTENDS Dashboard

MCLinesOf == <<1, 1>>
=============================================================================
