------------------------------- MODULE MCProfiles -------------------------------
(* Model-checking instances of Profiles: more tokens than places in the     *)
(* store, and two requests that may want the same token.                    *)
EXTENDS Profiles
=============================================================================
