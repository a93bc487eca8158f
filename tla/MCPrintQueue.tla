---------------------------- MODULE MCPrintQueue ----------------------------
(* A small instance of PrintQueue for TLC.                                 *)
EXTENDS PrintQueue, TLC

CONSTANTS a1, a2, s1

\* Two agents race for one job over many leases; or one agent shares two jobs
\* with the virtual spool, a v1 agent and the reprint button.
VARIABLE desk

MCInit == Init /\ desk \in {"agents", "shared"}
MCNext ==
    /\ Next
    /\ desk = "agents" => status'[2] = "ABSENT" /\ pc'[s1] = "idle" /\ UNCHANGED seenV1
    /\ desk = "shared" => pc'[a2] = "idle" /\ issued' <= 2 /\ \A j \in Jobs : ttl'[j] <= 1
    /\ UNCHANGED desk
MCSpec == MCInit /\ [][MCNext]_<<vars, desk>>
=============================================================================
