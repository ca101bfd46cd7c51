-------------------------------- MODULE MCBridge --------------------------------
(* Model-checking instances of Bridge. *)
EXTENDS Bridge

(* The browser's last message is the one over max_frame. *)
LastOversized == {BrowserMsgs}
=============================================================================
