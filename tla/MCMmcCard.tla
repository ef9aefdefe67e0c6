----------------------------- MODULE MCMmcCard -----------------------------
(***************************************************************************)
(* The slot with the capabilities, cards and platforms of the run.         *)
(***************************************************************************)
EXTENDS Slot, TLC

SlotCaps == [base : {200000}, width8 : BOOLEAN, ddr : BOOLEAN, sdr104 : BOOLEAN]
           \cup {[base |-> 255000, width8 |-> TRUE, ddr |-> TRUE, sdr104 |-> TRUE]}

\* The platform of this repository, and others its driver is written for.
SlotConfigs == [width : {1, 4, 8}, hs200 : BOOLEAN, hs400 : BOOLEAN,
                platform : {"msm8909", "384MHz"}]
Msm8909Rates == {144, 400, 20000, 25000, 50000, 100000, 177770, 200000}
SlotCoreRates == [msm8909 |-> Msm8909Rates] @@ ("384MHz" :> Msm8909Rates \cup {384000})

Mmc(modes, csd, blocks, rstN) ==
    [sd |-> FALSE, hs |-> TRUE, modes |-> modes, scr4 |-> FALSE, csd |-> csd,
     blocks |-> blocks, rstN |-> rstN]
Sd(hs, scr4, csd, blocks) ==
    [sd |-> TRUE, hs |-> hs, modes |-> {}, scr4 |-> scr4, csd |-> csd,
     blocks |-> blocks, rstN |-> FALSE]
Small(size, mult, len) == [form |-> "small", size |-> size, mult |-> mult, len |-> len]
Ext(sectors) == [form |-> "ext", sectors |-> sectors]
SlotCards ==
    {Mmc(modes, Ext(100), 100, FALSE) :
        modes \in {{}, {"DDR"}, {"HS200"}, {"DDR", "HS200", "HS400"}}}
    \cup {Mmc({}, Small(3, 1, 1024), 64, TRUE), Mmc({}, Ext(200), 200, FALSE),
          Sd(FALSE, FALSE, Small(1, 0, 512), 8), Sd(TRUE, TRUE, [form |-> "v2", size |-> 3], 4096)}

\* The operations follow in the configuration this platform ships.
Shipping ==
    {<<[width |-> 4, hs200 |-> TRUE, hs400 |-> FALSE, platform |-> "msm8909"],
       [base |-> 200000, width8 |-> TRUE, ddr |-> TRUE, sdr104 |-> TRUE]>>}

\* Erase units of a card of six blocks.
SomeUnits == {0, 2, 3}
=============================================================================
