---------------------------- MODULE ScratchClaim ----------------------------
(***************************************************************************)
(* What the Debian tools scratch directory promises to the launchers that *)
(* share it: one launcher at a time works in it, a root is published at   *)
(* most once and by the launcher that holds the claim, and a tool runs    *)
(* only in the root of its own launcher.  A claim that is held when its   *)
(* launcher dies is never given back.                                     *)
(***************************************************************************)

CONSTANTS Launchers,   \* the launcher processes that share one scratch
          NoOne        \* not a launcher

VARIABLES holder,      \* the launcher that owns the claim, or NoOne
          published,   \* the launcher whose root was published, or NoOne
          running      \* the launchers whose tool may be running

claimVars == <<holder, published, running>>

ClaimInit ==
    /\ holder = NoOne
    /\ published = NoOne
    /\ running = {}

Claim(l) ==
    /\ holder = NoOne
    /\ holder' = l
    /\ UNCHANGED <<published, running>>

Publish(l) ==
    /\ holder = l
    /\ published = NoOne
    /\ published' = l
    /\ UNCHANGED <<holder, running>>

Release(l) ==
    /\ holder = l
    /\ holder' = NoOne
    /\ UNCHANGED <<published, running>>

StartTool(l) ==
    /\ published = l
    /\ running' = running \cup {l}
    /\ UNCHANGED <<holder, published>>

EndTool(l) ==
    /\ l \in running
    /\ running' = running \ {l}
    /\ UNCHANGED <<holder, published>>

ClaimNext ==
    \E l \in Launchers :
        Claim(l) \/ Publish(l) \/ Release(l) \/ StartTool(l) \/ EndTool(l)

ClaimSpec == ClaimInit /\ [][ClaimNext]_claimVars
=============================================================================
