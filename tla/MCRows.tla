-------------------------------- MODULE MCRows --------------------------------
(* TLC instance of three components that keep their state in rows alone: the *)
(* contact messages, the insert guide and the daily totals.  A behaviour is  *)
(* one of any of them, the others staying at an initial state.               *)
EXTENDS MCContact, WorkshopGuide, DailyTotals

VARIABLE part
contactVars == <<scene, mailVars, listVars, failure>>

RowsInit ==
    /\ ContactInit /\ GuideInit /\ Init
    /\ part \in {"contact", "guide", "totals"}
    /\ part # "contact" => scene = "mail"
    /\ part # "guide" => row = NoRow
    /\ part # "totals" => \A d \in 0..(Deployment - 1) : visit[d] = None /\ stat[d] # None

PlayContact ==
    /\ part = "contact"
    /\ ContactNext
    /\ UNCHANGED <<part, guideVars, vars>>

PlayGuide ==
    /\ part = "guide"
    /\ GuideNext
    /\ UNCHANGED <<part, contactVars, vars>>

PlayTotals ==
    /\ part = "totals"
    /\ Next
    /\ UNCHANGED <<part, contactVars, guideVars>>

RowsNext == PlayContact \/ PlayGuide \/ PlayTotals

RowsSpec ==
    RowsInit /\ [][RowsNext]_<<part, contactVars, guideVars, vars>> /\ Fairness
=============================================================================
