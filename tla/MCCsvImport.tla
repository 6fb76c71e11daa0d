---------------------------- MODULE MCCsvImport ----------------------------
(* CsvImport for TLC: two files that share a row.                          *)
EXTENDS CsvImport, TLC

CONSTANTS f1, f2, x, y, z

SharedRow == (f1 :> {x, y}) @@ (f2 :> {y, z})

ProcSymmetry == Permutations(Procs)

=============================================================================
