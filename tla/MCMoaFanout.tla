----------------------------- MODULE MCMoaFanout -----------------------------
EXTENDS MoaFanout

\* Every role may be asked for (Select then drops some); what only one branch reads
\* is varied in the mode, or with the Frontier, where that branch can be taken.
MCTurns ==
    {t \in [roles : {Roles}, high : BOOLEAN, insists : BOOLEAN,
            frontier : {"off", "spent", "on"}, mode : Modes, evidence : {TRUE},
            implemented : BOOLEAN, standIn : BOOLEAN, verifying : BOOLEAN,
            judge : {"none", "local", "remote"}] :
       /\ t.judge # "none" => t.mode = "disagreement" /\ t.frontier = "on" /\ ~t.high /\ ~t.insists
       /\ t.mode # "architecture" => t.implemented
       /\ t.verifying => t.mode = "code_review" /\ ~t.insists /\ t.frontier # "off"
       /\ t.standIn => t.frontier = "on" /\ t.mode = "architecture" /\ ~t.insists
       /\ ~(t.standIn /\ t.high)
       /\ t.frontier = "off" => t.mode = "code_review"
       /\ t.frontier = "spent" => t.mode # "disagreement"}
=============================================================================
