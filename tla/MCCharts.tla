------------------------------ MODULE MCCharts ------------------------------
(* A small repository for TLC: two versions, and a third published later. *)
EXTENDS Charts

MCVersions == 1..3

MCInitial == 1..2
=============================================================================
