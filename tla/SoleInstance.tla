---------------------------- MODULE SoleInstance ----------------------------
(***************************************************************************)
(* What fpstune promises of its own processes, with no wait, request,      *)
(* file or forced stop in sight: at most one serves, and only while the    *)
(* machine's one instance lock is its own (cli.py, _acquire_instance_lock  *)
(* and _claim_single_instance).                                            *)
(***************************************************************************)
CONSTANTS
    Starts,      \* the fpstune processes started to serve
    Stranger,    \* another program on the lock's port
    Nobody

VARIABLES
    owner,       \* who has the instance lock
    serving      \* the processes whose API answers

soleVars == <<owner, serving>>

SoleInit == owner \in {Nobody, Stranger} /\ serving = {}

Take(p) ==
    /\ owner = Nobody
    /\ owner' = p
    /\ UNCHANGED serving

Serve(p) ==
    /\ owner = p
    /\ serving' = {p}
    /\ UNCHANGED owner

Rest(p) ==
    /\ owner = p
    /\ serving' = {}
    /\ UNCHANGED owner

(* Given up, or the process died.                                          *)
Release(p) ==
    /\ owner = p
    /\ owner' = Nobody
    /\ serving' = {}

StrangerLeaves ==
    /\ owner = Stranger
    /\ owner' = Nobody
    /\ UNCHANGED serving

SoleNext ==
    \/ \E p \in Starts : Take(p) \/ Serve(p) \/ Rest(p) \/ Release(p)
    \/ StrangerLeaves

SoleSpec == SoleInit /\ [][SoleNext]_soleVars
=============================================================================
