----------------------------- MODULE MCCrossChain -----------------------------
(* Small instances of CrossChain for TLC.  Time is counted in quarter hours:   *)
(* the minimum timelock is 4, the buffer 2 and the clocks 1 apart at most.     *)
EXTENDS CrossChain

CONSTANTS this, alice, h0, h1, h2, s1, s2

MCKeccak == [p \in ProfileHash |-> "id_co2"]
MCHashOf == [s \in Secret |-> IF s = s1 THEN h1 ELSE h2]
MCTokenNumber == [c \in ClassId |-> 1]
MCIndicatorOf == [i \in IndicatorText |-> "id_co2"]
MCHashOfText == [x \in HashText |-> IF x = "x1" THEN h1 ELSE h2]
MCHexText == [h \in Hash |-> IF h = h1 THEN "x1" ELSE "x2"]
MCHexIndicatorText == [i \in {"id_co2"} |-> "0xid_co2"]
MCDecimalText == [t \in TokenId |-> "1"]

\* The instances satisfy the hypothesis of the theorems.
ASSUME SpellingAssumption == OneSpelling
=============================================================================
