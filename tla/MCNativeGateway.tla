--------------------------- MODULE MCNativeGateway ---------------------------
(***************************************************************************)
(* NativeGateway for TLC.  The evidence is what its printer can report.     *)
(***************************************************************************)
EXTENDS NativeGateway, TLC

MCEvidence == PrinterEvidence

Symmetry == Permutations(Ids)
=============================================================================
