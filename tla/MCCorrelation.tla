---------------------------- MODULE MCCorrelation ----------------------------
(* The two halves of the crate, the signals of the news and the correlation of *)
(* what is posted, on the inputs of their own modules. They share no state, so *)
(* a behaviour is of one of them.                                              *)
EXTENDS MCSignals, MCCorrelate

VARIABLE half    \* whose behaviour it is

bothVars == <<half, signalsVars, allVars>>

BothInit == half \in {"signals", "engine"} /\ SignalsInit /\ EngineInit

BothNext ==
    /\ UNCHANGED half
    /\ \/ half = "signals" /\ SignalsNext /\ UNCHANGED allVars
       \/ half = "engine" /\ EngineNext /\ UNCHANGED signalsVars

BothSpec == BothInit /\ [][BothNext]_bothVars
=============================================================================
