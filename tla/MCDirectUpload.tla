--------------------------- MODULE MCDirectUpload ---------------------------
(* Three calls for one session; sessions share no state.                      *)
EXTENDS DirectUpload
=============================================================================
