-------------------------- MODULE MCVirtualCurrency --------------------------
(* VirtualCurrency for TLC: one bank, two characters with a wallet.        *)
EXTENDS VirtualCurrency

CONSTANTS last, bank, wallet0, wallet1, empty, long, garbled, none

MCWallets   == [c \in {0, 1} |-> IF c = 0 THEN wallet0 ELSE wallet1]
MCRawChar   == [s \in Stat |-> CASE s = wallet0 -> 1
                                 [] s = wallet1 -> 2
                                 [] OTHER       -> 0]
\* -1 and 110 have no wallet; -1 + 1 is the index of the default file,
\* 110 + 1 that of the overwrite file.
MCPlayable  == [s \in Stat |-> IF s = last THEN {-1, 0, 1, 110} ELSE {}]
MCValue     == -1..4 \cup {110}
MCAmounts   == -1..2
MCUserFiles == [f \in FileId |-> {Absent}]
=============================================================================
