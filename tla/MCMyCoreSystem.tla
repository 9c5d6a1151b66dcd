--------------------------- MODULE MCMyCoreSystem ----------------------------
EXTENDS MyCoreSystem
\* A line in RAM, one in its window past its end, one behind MMIO, one nowhere.
MCLines == {0, 1, 8, 9}
MCRamWindow == {0, 1}
MCMmioWindow == {8}
\* A line that tells its words apart, and from the line of zeros.
MCWriteData == {[k \in Beat |-> k + 1]}
\* A burst for the other master; one that ends early, one that ends late, one
\* so late that the beat counter has come round.
MCSlips == {Faithful, [len |-> LastBeat, foreign |-> TRUE]}
             \cup {[len |-> n, foreign |-> FALSE] : n \in {0, LINE_BEATS, COUNT + LastBeat}}
=============================================================================
