----------------------------- MODULE MCDashboards -----------------------------
(* The result cache by itself. *)
EXTENDS Dashboards
===============================================================================
