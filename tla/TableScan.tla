------------------------------ MODULE TableScan ------------------------------
(***************************************************************************)
(* The loops of the library over its tables (sessions, reassemblies,       *)
(* filters) take the first element that fits.                              *)
(***************************************************************************)
EXTENDS Naturals

\* The first of the indices S; S is not empty.
FirstOf(S) == CHOOSE i \in S : \A j \in S : i <= j
=============================================================================
