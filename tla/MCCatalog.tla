----------------------------- MODULE MCCatalog -----------------------------
(* Two table names and two index names, each set fully symmetric; catalog    *)
(* pages of one entry, so that the second table starts a second page.        *)
EXTENDS Catalog

Names2 == Permutations(TableNames) \cup Permutations(IndexNames)
=============================================================================
