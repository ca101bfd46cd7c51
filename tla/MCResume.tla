-------------------------------- MODULE MCResume --------------------------------
(* Model-checking instances of Resume: two sessions and two resuming        *)
(* requests, so that a session is parked up to three times and both         *)
(* requests may want the same one.                                          *)
EXTENDS Resume
=============================================================================
