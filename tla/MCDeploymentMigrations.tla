----------------------- MODULE MCDeploymentMigrations -----------------------
(***************************************************************************)
(* Three images: the second adds a migration without structure and one     *)
(* more table, the third has edited a migration of the second.             *)
(***************************************************************************)
EXTENDS DeploymentMigrations

MCImages == {<<"m1">>, <<"m1", "d2", "m3">>, <<"m1", "e2", "m3">>}
MCStructural == {"m1", "e2", "m3"}
MCLegacies == {{"m1"}, {"m1", "m3"}}
=============================================================================
