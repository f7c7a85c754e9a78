--------------------------- MODULE MCCloudSession ---------------------------
(* One person's session; a .cfg gives the bounds.                           *)
EXTENDS CloudSession
=============================================================================
