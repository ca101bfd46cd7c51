------------------------------- MODULE SessionLife -------------------------------
(***************************************************************************)
(* What the warm pool promises about sessions, with its semaphore, queue,  *)
(* replenisher and background tasks left out: a session is launched, serves*)
(* at most one claim, is torn down once and never comes back; and no more  *)
(* sessions serve claims, or are being torn down after one, than the       *)
(* ceiling allows.  Pool implements this specification.                    *)
(***************************************************************************)
EXTENDS Naturals, FiniteSets

CONSTANT Ids    \* the sessions that can be launched

VARIABLES
    stage,      \* where each session is in its life
    ceiling     \* how many sessions may be serving or ending at a time

lifeVars == <<stage, ceiling>>

\* "serving": claimed.  "ending": its claim is over, the teardown is running
\* and still owes a slot.  "retired": a teardown that owes none.
Stages == {"unborn", "ready", "serving", "ending", "retired", "dead"}

In(S) == {i \in Ids : stage[i] \in S}

Occupied == In({"serving", "ending"})

Init ==
    /\ stage = [i \in Ids |-> "unborn"]
    /\ ceiling \in Nat \ {0}

Move(S, to) == stage' = [i \in Ids |-> IF i \in S THEN to ELSE stage[i]]

(* A session is launched into the stock. *)
Launch(i) ==
    /\ stage[i] = "unborn"
    /\ Move({i}, "ready")
    /\ UNCHANGED ceiling

(* A claim gets a session, from the stock or launched for it. *)
Serve(i) ==
    /\ stage[i] \in {"unborn", "ready"}
    /\ Cardinality(Occupied) < ceiling
    /\ Move({i}, "serving")
    /\ UNCHANGED ceiling

(* The claim is over. *)
End(i) ==
    /\ stage[i] = "serving"
    /\ Move({i}, "ending")
    /\ UNCHANGED ceiling

(* Sessions that no claim ever had leave the stock. *)
Retire(S) ==
    /\ S \subseteq In({"ready"})
    /\ Move(S, "retired")
    /\ UNCHANGED ceiling

(* The teardown of a session is complete. *)
Die(i) ==
    /\ stage[i] \in {"ending", "retired"}
    /\ Move({i}, "dead")
    /\ UNCHANGED ceiling

(* The ceiling is set while no session is occupied. *)
Resize ==
    /\ Occupied = {}
    /\ ceiling' \in Nat \ {0}
    /\ UNCHANGED stage

Next ==
    \/ \E i \in Ids : Launch(i) \/ Serve(i) \/ End(i) \/ Die(i)
    \/ \E S \in SUBSET Ids : Retire(S)
    \/ Resize

Spec == Init /\ [][Next]_lifeVars
=============================================================================
