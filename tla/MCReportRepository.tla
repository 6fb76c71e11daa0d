------------------------- MODULE MCReportRepository -------------------------
EXTENDS ReportRepository, TLC

Symmetry == Permutations(Keys) \cup Permutations(Callers)

=============================================================================
