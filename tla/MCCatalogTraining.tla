------------------------- MODULE MCCatalogTraining -------------------------
(***************************************************************************)
(* The instances of CatalogTraining that TLC checks.                       *)
(***************************************************************************)
EXTENDS CatalogTraining
=============================================================================
