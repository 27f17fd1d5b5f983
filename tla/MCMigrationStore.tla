-------------------------- MODULE MCMigrationStore --------------------------
EXTENDS MigrationStore
=============================================================================
