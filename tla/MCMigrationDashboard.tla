------------------------ MODULE MCMigrationDashboard ------------------------
(***************************************************************************)
(* Three files, enough for a two-file cycle beside an unrelated file in    *)
(* one category, and a printed list of two, shorter than a category.       *)
(***************************************************************************)
EXTENDS MigrationDashboard

CONSTANTS a, b, c

MCFiles == {a, b, c}

MCShown == 2

=============================================================================
