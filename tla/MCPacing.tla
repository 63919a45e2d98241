------------------------------ MODULE MCPacing ------------------------------
(* The inserter of tables and the constant bit rate pacer, over the same   *)
(* clocks (a PCR of sixteen ticks, a DTS of eight), and the search for     *)
(* packets before them in one run; part says which of them moves.          *)
EXTENDS PsiInserter, CbrPacer, TsSync

VARIABLE part

MCSteps == {1, 2}

\* A short jump ahead, one of about half a cycle, and one back by one.
MCJumps == {4, PcrCycle \div 2 - 1, PcrCycle - 1}

\* Video steps by two or jumps by six (ahead, or two back); audio by one.
MCCbrSteps == [v |-> {2, 6}, a |-> {1}]

MCInit ==
    /\ part \in {"psi", "cbr", "sync"}
    /\ Init /\ CbrInit /\ TsSyncInit
    /\ part # "psi" => pcr = 0
    /\ part # "cbr" => ~adjust
    /\ part # "sync" => reader = "mux" /\ offset = 0

MCNext ==
    /\ \/ part = "psi" /\ Next /\ UNCHANGED <<cbrVars, syncVars>>
       \/ part = "cbr" /\ CbrNext /\ UNCHANGED <<vars, syncVars>>
       \/ part = "sync" /\ TsSyncNext /\ UNCHANGED <<vars, cbrVars>>
    /\ UNCHANGED part

MCSpec == MCInit /\ [][MCNext]_<<vars, cbrVars, syncVars, part>> /\ CbrFairness
=============================================================================
