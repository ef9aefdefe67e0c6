----------------------------- MODULE MCSdhciHost -----------------------------
(* The command shapes the driver sends: CMD0-like, CMD13, CMD6, CMD18 and a *)
(* tuning block read.                                                       *)
EXTENDS SdhciHost

SomeCmds ==
    { [resp |-> "R1", data |-> FALSE, tuning |-> FALSE],
      [resp |-> "R1B", data |-> FALSE, tuning |-> FALSE],
      [resp |-> "R1", data |-> TRUE, tuning |-> FALSE],
      [resp |-> "R1", data |-> TRUE, tuning |-> TRUE] }
==============================================================================
