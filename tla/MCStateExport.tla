---------------------------- MODULE MCStateExport -----------------------------
(***************************************************************************)
(* TLC instances of StateExport: one account whose life takes every course  *)
(* the blocks allow, packages of up to two blocks.                          *)
(***************************************************************************)
EXTENDS StateExport
===============================================================================
