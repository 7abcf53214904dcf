-------------------------- MODULE MCSiteDataArtifact --------------------------
(***************************************************************************)
(* Model-checking SiteDataArtifact.                                         *)
(***************************************************************************)
EXTENDS SiteDataArtifact
=============================================================================
