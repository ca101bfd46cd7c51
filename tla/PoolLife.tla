-------------------------------- MODULE PoolLife --------------------------------
(* Pool implements SessionLife: the refinement mapping. *)
EXTENDS Pool

ServingNow == {held[c] : c \in {d \in Claimers : pc[d] = "claimed"}}
EndingNow  == {held[c] : c \in {d \in Claimers : pc[d] = "destroying"}} \cup dropped
RetiredNow == stale \cup culled \cup (IF rep = "discard" THEN {repSession} ELSE {})

StageNow ==
    [i \in Ids |->
        IF i > created            THEN "unborn"
        ELSE IF i \in gone        THEN "dead"
        ELSE IF i \in ServingNow  THEN "serving"
        ELSE IF i \in EndingNow   THEN "ending"
        ELSE IF i \in RetiredNow  THEN "retired"
        ELSE "ready"]

Life == INSTANCE SessionLife WITH stage <- StageNow, ceiling <- maxSessions

(* Every step of the pool is a step of a session's life, or invisible: a    *)
(* session serves one claim at most, ends once and is never handed out      *)
(* again, and a hand-out finds less than a ceiling's worth of sessions      *)
(* serving or being torn down.                                              *)
ImplementsLife == Life!Spec
=============================================================================
