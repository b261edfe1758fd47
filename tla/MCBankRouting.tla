--------------------------- MODULE MCBankRouting ---------------------------
EXTENDS BankRouting

\* One word of 8 or 16 bits; a set holds one, two or four of them.
Input(blocks, offset, assoc, mode, dram) ==
    {[blocks |-> blocks, offset |-> offset, assoc |-> assoc, mode |-> mode, dram |-> dram,
      h_tree |-> tree, internalSensing |-> TRUE, repeated |-> FALSE] : tree \in BOOLEAN}

\* Sensing outside the mats, which only a bank without H-tree supports.
External(dram, repeated) ==
    [blocks |-> 5, offset |-> 0, assoc |-> 1, mode |-> "normal", dram |-> dram,
     h_tree |-> FALSE, internalSensing |-> FALSE, repeated |-> repeated]

MCInputs ==
    UNION {Input(7, 0, 2, "normal", FALSE), Input(6, 1, 1, "normal", TRUE),
           Input(5, 0, 2, "sequential", FALSE), Input(6, 0, 1, "fast", TRUE),
           Input(4, 1, 0, "RAM", FALSE), Input(3, 0, 3, "normal", FALSE)}
    \cup {External(dram, repeated) : dram, repeated \in BOOLEAN}

Mat(row, column, perRow, perColumn) ==
    [rowMat |-> row, columnMat |-> column, activeMatPerRow |-> perRow, activeMatPerColumn |-> perColumn]

MCMats == {Mat(0, 0, 0, 0), Mat(1, 1, 0, 1), Mat(1, 0, 0, 0)}

Mux(senseAmp, lev1, lev2) == [senseAmp |-> senseAmp, lev1 |-> lev1, lev2 |-> lev2]

MCMuxes == {Mux(0, 0, 0), Mux(1, 0, 0), Mux(0, 1, 1)}
=============================================================================
