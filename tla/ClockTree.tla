----------------------------- MODULE ClockTree -----------------------------
(***************************************************************************)
(* ClockDxe: clocks with an enable count (clock.c), and the three kinds a  *)
(* platform's table is made of (clock_lib2.c, clock_pll.c).  A branch gates *)
(* one clock, a vote is shared with other processors, a root chooses its   *)
(* source and divider from a table of frequencies, a source is the crystal *)
(* or a PLL.  No ops table has get_parent: clk_get_parent is always NULL,  *)
(* so enabling a clock never enables another, except where a root's        *)
(* set_rate enables the source of the new frequency.                       *)
(***************************************************************************)
EXTENDS Integers, FiniteSets

CONSTANTS
    Names, Lookup,            \* clk_lookup: what clk_get finds under a name
    Sources, Votes, Branches, Roots,
    Parent,                   \* the root of a branch that has no sibling
    Table,                    \* freq_tbl: per root, rate in kHz -> entry
    Mnd,                      \* the roots set by clock_lib2_rcg_set_rate_mnd
    Clients, Groups,          \* who calls; the sets of names they use
    MaxSourceCount            \* bound of TLC's runs on the count of a source

Clocks == Sources \cup Votes \cup Branches \cup Roots
Gated == Sources \cup Votes \cup Branches

Entries == [src : Sources, div2 : Nat \ {0}, m : Nat, n : Nat]

ASSUME TreeAssumption ==
    /\ IsFiniteSet(Names) /\ IsFiniteSet(Clients)
    /\ Lookup \in [Names -> Votes \cup Branches \cup Roots]
    /\ Gated \cap Roots = {} /\ Sources \cap (Votes \cup Branches) = {}
    /\ Votes \cap Branches = {}
    /\ DOMAIN Parent \subseteq Branches
    /\ \A b \in DOMAIN Parent : Parent[b] \in Roots
    /\ DOMAIN Table = Roots
    /\ \A r \in Roots : /\ DOMAIN Table[r] \subseteq Nat \ {0}
                        /\ \A khz \in DOMAIN Table[r] : Table[r][khz] \in Entries
    /\ Mnd \subseteq Roots
    /\ Groups \subseteq SUBSET Names

Configs == [src : Sources \cup {"none"}, div2 : Nat \ {0}, m : Nat, n : Nat, dual : BOOLEAN]
Trees == [count : [Clocks -> Nat],       \* clk.count
          on : SUBSET Gated,             \* the gated clocks whose enable bit is set
          current : [Roots -> Nat],      \* rcg_clk.current_freq, 0 for the dummy entry
          hw : [Roots -> Configs]]       \* the root's source, divider, M, N and mode

VARIABLES
    names,        \* the names in use
    tree,         \* the clocks and their registers
    held,         \* the enables the clients have not given back
    ret           \* what the last call returned
tvars == <<names, tree, held, ret>>

Results == {"NO_ERROR", "ERR_NOT_VALID", "ERR_INVALID_ARGS", "-1"}

Init ==
    /\ names \in Groups
    /\ tree = [count |-> [c \in Clocks |-> 0], on |-> {}, current |-> [r \in Roots |-> 0],
               hw |-> [r \in Roots |-> [src |-> "none", div2 |-> 2, m |-> 0, n |-> 0,
                                        dual |-> FALSE]]]
    /\ held = {} /\ ret = "NO_ERROR"

(* What the functions on a clock make of the tree *)

clk_enable(t, c) ==
    [t EXCEPT !.count[c] = @ + 1,
              !.on = IF t.count[c] = 0 /\ c \in Gated THEN @ \cup {c} ELSE @]

\* Mutant: the gate is closed with each disable, not with the last.
DisableEach(t, c) ==
    IF t.count[c] = 0 THEN t
    ELSE [t EXCEPT !.count[c] = @ - 1, !.on = @ \ {c}]
clk_disable(t, c) ==
    IF t.count[c] = 0 THEN t
    ELSE [t EXCEPT !.count[c] = @ - 1,
                   !.on = IF t.count[c] = 1 THEN @ \ {c} ELSE @]

\* Mutant: the mode bits of the frequency before stay set.
MndKeepsMode(conf, e) ==
    [src |-> e.src, div2 |-> e.div2, m |-> e.m, n |-> e.n, dual |-> conf.dual \/ e.n # 0]
clock_lib2_rcg_set_rate_mnd(conf, e) ==
    [src |-> e.src, div2 |-> e.div2, m |-> e.m, n |-> e.n, dual |-> e.n # 0]
clock_lib2_rcg_set_rate_hid(conf, e) == [conf EXCEPT !.src = e.src, !.div2 = e.div2]

\* The new source is enabled once more with each change of the frequency, and
\* the old one keeps its count.
clock_lib2_rcg_set_rate(t, r, khz) ==
    LET e == Table[r][khz] IN
    IF t.current[r] = khz THEN t
    ELSE [clk_enable(t, e.src) EXCEPT
             !.hw[r] = IF r \in Mnd THEN clock_lib2_rcg_set_rate_mnd(@, e)
                                    ELSE clock_lib2_rcg_set_rate_hid(@, e),
             !.current[r] = khz]

\* Only a root, and a branch without sibling, lead to a table.
Rated(c) == c \in Roots \/ c \in DOMAIN Parent
RootOf(c) == IF c \in Roots THEN c ELSE Parent[c]
SetRateResult(c, khz) ==
    CASE c \in Votes -> "ERR_NOT_VALID"
      [] c \in Branches \ DOMAIN Parent -> "-1"
      [] Rated(c) -> IF khz \in DOMAIN Table[RootOf(c)] THEN "NO_ERROR" ELSE "ERR_INVALID_ARGS"

(* The calls of a client *)

SetRate(n, khz) ==
    LET c == Lookup[n] IN
    /\ ret' = SetRateResult(c, khz)
    /\ tree' = IF ret' = "NO_ERROR" THEN clock_lib2_rcg_set_rate(tree, RootOf(c), khz) ELSE tree
    /\ UNCHANGED <<names, held>>

\* clk_get_set_enable with a clock that exists, and clk_enable when khz is 0.
clk_get_set_enable(cl, n, khz) ==
    LET c == Lookup[n]
        rated == IF khz = 0 THEN tree ELSE clock_lib2_rcg_set_rate(tree, RootOf(c), khz)
    IN
    /\ <<cl, n>> \notin held
    /\ ret' = IF khz = 0 THEN "NO_ERROR" ELSE SetRateResult(c, khz)
    /\ IF ret' = "NO_ERROR" THEN tree' = clk_enable(rated, c) /\ held' = held \cup {<<cl, n>>}
                            ELSE UNCHANGED <<tree, held>>
    /\ UNCHANGED names

NoSuchClock == ret' = "ERR_NOT_VALID" /\ UNCHANGED <<names, tree, held>>

\* A client gives back an enable of its own, or disables a clock nobody holds.
Disable(cl, n) ==
    /\ <<cl, n>> \in held \/ tree.count[Lookup[n]] = 0
    /\ tree' = clk_disable(tree, Lookup[n])
    /\ held' = held \ {<<cl, n>>}
    /\ ret' = "NO_ERROR" /\ UNCHANGED names

\* Each new frequency counts its source once more: the bound of the runs.
Bounded == \A s \in Sources : tree.count[s] < MaxSourceCount

\* The rates a table has, one it has not, and 0.
RatesOf(n) == {0, 1} \cup IF Rated(Lookup[n]) THEN DOMAIN Table[RootOf(Lookup[n])] ELSE {}
TreeStep ==
    \/ Bounded /\ \E n \in names : \E khz \in RatesOf(n) \ {0} : SetRate(n, khz)
    \/ Bounded /\ \E cl \in Clients, n \in names : \E khz \in RatesOf(n) :
                     clk_get_set_enable(cl, n, khz)
    \/ NoSuchClock
    \/ \E cl \in Clients, n \in names : Disable(cl, n)
Spec == Init /\ [][TreeStep]_tvars

(* Properties *)

TypeOK ==
    /\ names \in SUBSET Names
    /\ tree \in Trees
    /\ held \subseteq Clients \X Names
    /\ ret \in Results

\* A clock stays on while any client holds an enable it got for it, whatever
\* the other clients of the same clock, under the same name or another, give
\* back (clock.c 66-110, the count of struct clk).
HeldIsOn == \A h \in held : Lookup[h[2]] \in Gated => Lookup[h[2]] \in tree.on

\* A root that was given a frequency has the source of that frequency running
\* (clock_lib2.c 130-138: the source is enabled before the switch and no call
\* gives it back).
SourceLive == \A r \in Roots : tree.current[r] # 0 => Table[r][tree.current[r]].src \in tree.on
=============================================================================
