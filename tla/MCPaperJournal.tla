--------------------------- MODULE MCPaperJournal ---------------------------
(***************************************************************************)
(* What is checked of the journal, and the symmetry of its symbols.        *)
(***************************************************************************)
EXTENDS PaperJournal, TLC

Symmetry == Permutations(Symbols)
=============================================================================
