--------------------------------- MODULE Fence ---------------------------------
(***************************************************************************)
(* What generation fencing promises: ownership passes only to the newest   *)
(* generation that has spoken, and a generation that has been superseded   *)
(* never owns again.  Only forgetting the agent resets the fence.          *)
(***************************************************************************)
EXTENDS Naturals

CONSTANT Generations   \* the generations connections are given

VARIABLES
    token,   \* the newest generation that has spoken, 0 for none
    owner    \* the generation commands are routed to, 0 for nobody

vars == <<token, owner>>

Init == token = 0 /\ owner = 0

\* A generation as new as any other speaks; it may take the ownership.
Speak(g) ==
    /\ g >= token
    /\ token' = g
    /\ owner' \in {owner, g}

Drop   == owner' = 0 /\ UNCHANGED token
Forget == owner' = 0 /\ token' = 0

Next == (\E g \in Generations : Speak(g)) \/ Drop \/ Forget

Spec == Init /\ [][Next]_vars
=============================================================================
