---------------------------- MODULE MCMigrations ----------------------------
(***************************************************************************)
(* The files of internal/store/migrations: 001_init, 002_jobs and          *)
(* 002_typed_statuses.                                                     *)
(***************************************************************************)
EXTENDS Migrations

EmbeddedVersions == <<1, 2, 2>>
=============================================================================
