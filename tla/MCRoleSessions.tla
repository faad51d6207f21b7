--------------------------- MODULE MCRoleSessions ---------------------------
(* Instances of RoleSessions for TLC. *)
EXTENDS RoleSessions
Two == {"architect", "project-manager"}
ArchitectOnly == {"architect"}
=============================================================================
