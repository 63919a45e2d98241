------------------------------ MODULE MCStores ------------------------------
(* What is kept on disk and those who depend on it, in one run chosen by   *)
(* part: two slices of ConfigStore, "kill", the autosave alone, killed and *)
(* started again at any step, and "two", an autosave and a /save request   *)
(* at the same time, nobody killed; and "view", the keys of the viewers.   *)
EXTENDS MCConfigStore, Viewers

VARIABLE part

\* Bounds of the second slice: one load, one write that waits.
InPart ==
    \/ part = "kill" /\ \A p \in Savers : pc[p] = "idle"
    \/ part = "two" /\ running /\ loads <= 1 /\ Cardinality(pending) <= 1

MCInit == Init /\ ViewInit /\ part \in {"kill", "two", "view"}

MCNext ==
    /\ UNCHANGED part
    /\ \/ part # "view" /\ Next /\ InPart' /\ UNCHANGED viewVars
       \/ part = "view" /\ ViewNext /\ UNCHANGED vars

\* The part that does not move stays in its first state, where none of its fair
\* actions is enabled.
MCSpec == MCInit /\ [][MCNext]_<<vars, viewVars, part>> /\ Fairness /\ ViewFairness
=============================================================================
