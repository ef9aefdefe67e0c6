---------------------------- MODULE SdhciClock -----------------------------
EXTENDS Integers

(***************************************************************************)
(* sdhci_clk_supply: the smallest even divider that keeps the card at or   *)
(* below the clock asked for; the register holds half of it, split in two  *)
(* fields.  Frequencies are in kHz.                                        *)
(***************************************************************************)
SDHCI_CLK_MAX_DIV == 2046
Divider(base, khz) ==
    CASE khz >= base -> 0
      [] khz < base /\ base > khz * (SDHCI_CLK_MAX_DIV - 2) -> SDHCI_CLK_MAX_DIV \div 2
      [] OTHER -> CHOOSE d \in 1..(SDHCI_CLK_MAX_DIV \div 2) - 1 :
                     base <= khz * 2 * d /\ \A e \in 1..d - 1 : base > khz * 2 * e
\* Mutant: the two upper bits of the divider are not moved to bits 6 and 7.
FreqSelectLow(div) == (div % 256) * 256
FreqSelect(div) == (div % 256) * 256 + ((div \div 256) % 4) * 64
\* What the controller divides its base clock by for a value of the register.
DividesBy(reg) ==
    LET div == (reg \div 256) + ((reg \div 64) % 4) * 256
    IN  IF div = 0 THEN 1 ELSE 2 * div
=============================================================================
