--------------------------- MODULE Devices_proofs ---------------------------
(***************************************************************************)
(* Proofs about ClockTree, and about the drivers of Devices, a driver at a *)
(* time.  An invariant of a driver holds of the composition because the    *)
(* other drivers leave its variables alone.                                *)
(***************************************************************************)
EXTENDS Devices, ClockTree, DataLemmas

-----------------------------------------------------------------------------
(* ClockTree: why a clock stays on for whoever holds it, for every table of *)
(* clocks, any number of clients and any order of their calls.              *)

\* The enables of a clock that its clients have not given back, under any name.
HeldOf(c) == {h \in held : Lookup[h[2]] = c}

\* The gate of a clock with a count is open, and a root runs at a frequency of
\* its table, from a source that was enabled.
GatesOpen(t) == \A c \in Gated : t.count[c] > 0 => c \in t.on
RootsFed(t) == \A r \in Roots : t.current[r] # 0 =>
                   /\ t.current[r] \in DOMAIN Table[r]
                   /\ t.count[Table[r][t.current[r]].src] > 0
Sound(t) == t \in Trees /\ GatesOpen(t) /\ RootsFed(t)

\* What is not a source is counted by its clients alone.
CountIsHeld == \A c \in Clocks \ Sources : tree.count[c] = Cardinality(HeldOf(c))

IInv == TypeOK /\ Sound(tree) /\ CountIsHeld

(* The functions on a clock *)

LEMMA EnableOne ==
  ASSUME NEW t \in Trees, NEW c \in Clocks
  PROVE  /\ clk_enable(t, c) \in Trees
         /\ clk_enable(t, c).count = [t.count EXCEPT ![c] = @ + 1]
         /\ clk_enable(t, c).on = IF t.count[c] = 0 /\ c \in Gated THEN t.on \cup {c} ELSE t.on
         /\ clk_enable(t, c).current = t.current
         /\ clk_enable(t, c).hw = t.hw
<1> DEFINE u == clk_enable(t, c)
           on == IF t.count[c] = 0 /\ c \in Gated THEN t.on \cup {c} ELSE t.on
           count == [t.count EXCEPT ![c] = @ + 1]
<1>1. count \in [Clocks -> Nat] /\ on \in SUBSET Gated
  BY DEF Trees
<1>2. u = [t EXCEPT !.count = count, !.on = on]
  BY DEF clk_enable, Trees
<1>3. /\ u \in Trees /\ u.count = count /\ u.on = on
      /\ u.current = t.current /\ u.hw = t.hw
  <2> HIDE DEF u, count, on
  <2> QED
    BY <1>1, <1>2 DEF Trees
<1> QED
  BY <1>3

LEMMA DisableOne ==
  ASSUME NEW t \in Trees, NEW c \in Clocks, t.count[c] > 0
  PROVE  /\ clk_disable(t, c) \in Trees
         /\ clk_disable(t, c).count = [t.count EXCEPT ![c] = @ - 1]
         /\ clk_disable(t, c).on = IF t.count[c] = 1 THEN t.on \ {c} ELSE t.on
         /\ clk_disable(t, c).current = t.current
<1> DEFINE u == clk_disable(t, c)
           on == IF t.count[c] = 1 THEN t.on \ {c} ELSE t.on
           count == [t.count EXCEPT ![c] = @ - 1]
<1>1. count \in [Clocks -> Nat] /\ on \in SUBSET Gated
  BY DEF Trees
<1>2. u = [t EXCEPT !.count = count, !.on = on]
  BY DEF clk_disable, Trees
<1>3. u \in Trees /\ u.count = count /\ u.on = on /\ u.current = t.current
  <2> HIDE DEF u, count, on
  <2> QED
    BY <1>1, <1>2 DEF Trees
<1> QED
  BY <1>3

\* A new frequency counts its source, sets the root and touches nothing else.
LEMMA RateOne ==
  ASSUME NEW t \in Trees, NEW r \in Roots, NEW khz \in DOMAIN Table[r], t.current[r] # khz
  PROVE  LET src == Table[r][khz].src
             u == clock_lib2_rcg_set_rate(t, r, khz)
         IN  /\ src \in Sources
             /\ u \in Trees
             /\ u.count = [t.count EXCEPT ![src] = @ + 1]
             /\ u.on = IF t.count[src] = 0 THEN t.on \cup {src} ELSE t.on
             /\ u.current = [t.current EXCEPT ![r] = khz]
<1> DEFINE e == Table[r][khz]
           v == clk_enable(t, e.src)
           u == clock_lib2_rcg_set_rate(t, r, khz)
           conf == IF r \in Mnd THEN clock_lib2_rcg_set_rate_mnd(v.hw[r], e)
                   ELSE clock_lib2_rcg_set_rate_hid(v.hw[r], e)
<1>1. e \in Entries /\ e.src \in Sources /\ e.src \in Clocks /\ e.src \in Gated /\ khz \in Nat
  BY TreeAssumption DEF TreeAssumption, Entries, Clocks, Gated
<1>2. v \in Trees
  BY <1>1, EnableOne
<1>3. u = [v EXCEPT !.hw = [v.hw EXCEPT ![r] = conf],
                    !.current = [v.current EXCEPT ![r] = khz]]
  BY <1>2 DEF clock_lib2_rcg_set_rate, Trees
<1>4. conf \in Configs
  <2>1. v.hw[r] \in Configs
    BY <1>2 DEF Trees
  <2> QED
    BY <1>1, <2>1 DEF Entries, Configs, clock_lib2_rcg_set_rate_mnd, clock_lib2_rcg_set_rate_hid
<1>5. u \in Trees /\ u.count = v.count /\ u.on = v.on /\ u.current = [v.current EXCEPT ![r] = khz]
  <2> HIDE DEF conf, v, u
  <2> QED
    BY <1>1, <1>2, <1>3, <1>4 DEF Trees
<1> QED
  BY <1>1, <1>5, EnableOne

(* Each function keeps a sound tree sound *)

LEMMA EnableSound ==
  ASSUME NEW t, Sound(t), NEW c \in Clocks
  PROVE  Sound(clk_enable(t, c))
<1> DEFINE u == clk_enable(t, c)
<1>1. /\ t \in Trees /\ u \in Trees
      /\ u.count = [t.count EXCEPT ![c] = @ + 1] /\ u.current = t.current
      /\ u.on = IF t.count[c] = 0 /\ c \in Gated THEN t.on \cup {c} ELSE t.on
  BY EnableOne DEF Sound
<1>2. t.count \in [Clocks -> Nat] /\ Gated \subseteq Clocks
  BY <1>1 DEF Trees, Gated, Clocks
<1> HIDE DEF u
<1>3. GatesOpen(u)
  BY <1>1, <1>2 DEF Sound, GatesOpen
<1>4. \A d \in Clocks : u.count[d] >= t.count[d]
  BY <1>1, <1>2
<1>5. RootsFed(u)
  <2> SUFFICES ASSUME NEW r \in Roots, u.current[r] # 0
               PROVE  /\ u.current[r] \in DOMAIN Table[r]
                      /\ u.count[Table[r][u.current[r]].src] > 0
    BY DEF RootsFed
  <2>1. /\ t.current[r] = u.current[r] /\ t.current[r] \in DOMAIN Table[r]
        /\ t.count[Table[r][t.current[r]].src] > 0
    BY <1>1 DEF Sound, RootsFed
  <2>2. Table[r][t.current[r]].src \in Clocks
    BY <2>1, TreeAssumption DEF TreeAssumption, Entries, Clocks
  <2> QED
    BY <1>1, <1>2, <1>4, <2>1, <2>2 DEF Trees
<1> QED
  BY <1>1, <1>3, <1>5 DEF Sound, u

\* Only a source feeds a root, so a clock that is none may be disabled.
LEMMA DisableSound ==
  ASSUME NEW t, Sound(t), NEW c \in Clocks \ Sources, t.count[c] > 0
  PROVE  Sound(clk_disable(t, c))
<1> DEFINE u == clk_disable(t, c)
<1>1. /\ t \in Trees /\ u \in Trees
      /\ u.count = [t.count EXCEPT ![c] = @ - 1] /\ u.current = t.current
      /\ u.on = IF t.count[c] = 1 THEN t.on \ {c} ELSE t.on
  BY DisableOne DEF Sound
<1>2. t.count \in [Clocks -> Nat] /\ Gated \subseteq Clocks
  BY <1>1 DEF Trees, Gated, Clocks
<1> HIDE DEF u
<1>3. GatesOpen(u)
  BY <1>1, <1>2 DEF Sound, GatesOpen
<1>4. RootsFed(u)
  <2> SUFFICES ASSUME NEW r \in Roots, u.current[r] # 0
               PROVE  /\ u.current[r] \in DOMAIN Table[r]
                      /\ u.count[Table[r][u.current[r]].src] > 0
    BY DEF RootsFed
  <2>1. /\ t.current[r] = u.current[r] /\ t.current[r] \in DOMAIN Table[r]
        /\ t.count[Table[r][t.current[r]].src] > 0
    BY <1>1 DEF Sound, RootsFed
  <2>2. Table[r][t.current[r]].src \in Sources
    BY <2>1, TreeAssumption DEF TreeAssumption, Entries
  <2> QED
    BY <1>1, <1>2, <2>1, <2>2 DEF Clocks
<1> QED
  BY <1>1, <1>3, <1>4 DEF Sound, u

LEMMA RateSound ==
  ASSUME NEW t, Sound(t), NEW r \in Roots, NEW khz \in DOMAIN Table[r]
  PROVE  /\ Sound(clock_lib2_rcg_set_rate(t, r, khz))
         /\ \A c \in Clocks \ Sources :
                clock_lib2_rcg_set_rate(t, r, khz).count[c] = t.count[c]
<1> DEFINE u == clock_lib2_rcg_set_rate(t, r, khz)
           src == Table[r][khz].src
<1>1. CASE t.current[r] = khz
  BY <1>1 DEF clock_lib2_rcg_set_rate
<1>2. CASE t.current[r] # khz
  <2>1. /\ t \in Trees /\ u \in Trees /\ src \in Sources
        /\ u.count = [t.count EXCEPT ![src] = @ + 1]
        /\ u.on = IF t.count[src] = 0 THEN t.on \cup {src} ELSE t.on
        /\ u.current = [t.current EXCEPT ![r] = khz]
    BY <1>2, RateOne DEF Sound
  <2>2. t.count \in [Clocks -> Nat] /\ Gated \subseteq Clocks /\ src \in Clocks
    BY <2>1 DEF Trees, Gated, Clocks
  <2> HIDE DEF u
  <2>3. GatesOpen(u)
    BY <2>1, <2>2 DEF Sound, GatesOpen
  <2>4. RootsFed(u)
    <3> SUFFICES ASSUME NEW s \in Roots, u.current[s] # 0
                 PROVE  /\ u.current[s] \in DOMAIN Table[s]
                        /\ u.count[Table[s][u.current[s]].src] > 0
      BY DEF RootsFed
    <3>1. CASE s = r
      BY <3>1, <2>1, <2>2 DEF Trees
    <3>2. CASE s # r
      <4>1. /\ t.current[s] = u.current[s] /\ t.current[s] \in DOMAIN Table[s]
            /\ t.count[Table[s][t.current[s]].src] > 0
        BY <3>2, <2>1 DEF Sound, RootsFed, Trees
      <4>2. Table[s][t.current[s]].src \in Clocks
        BY <4>1, TreeAssumption DEF TreeAssumption, Entries, Clocks
      <4> QED
        BY <2>1, <2>2, <4>1, <4>2
    <3> QED
      BY <3>1, <3>2
  <2>5. \A c \in Clocks \ Sources : u.count[c] = t.count[c]
    BY <2>1, <2>2
  <2> QED
    BY <2>1, <2>3, <2>4, <2>5 DEF Sound, u
<1> QED
  BY <1>1, <1>2

(* What the clients' calls do *)

\* clk_get finds no source, so no call enables or disables one by name.
LEMMA NamedClock ==
  ASSUME NEW n \in Names
  PROVE  Lookup[n] \in Votes \cup Branches \cup Roots /\ Lookup[n] \in Clocks \ Sources
BY TreeAssumption DEF TreeAssumption, Clocks, Gated

LEMMA RateResult ==
  ASSUME NEW c \in Votes \cup Branches \cup Roots, NEW khz
  PROVE  /\ SetRateResult(c, khz) \in Results
         /\ SetRateResult(c, khz) = "NO_ERROR" =>
                RootOf(c) \in Roots /\ khz \in DOMAIN Table[RootOf(c)]
<1> USE TreeAssumption DEF TreeAssumption, SetRateResult, Results, Rated, RootOf, Gated
<1>1. CASE c \in Votes
  BY <1>1
<1>2. CASE c \in Branches \ DOMAIN Parent
  BY <1>2
<1>3. CASE c \in Roots \/ c \in DOMAIN Parent
  <2>1. c \notin Votes /\ c \notin Branches \ DOMAIN Parent /\ Rated(c)
    BY <1>3
  <2>2. SetRateResult(c, khz) =
            IF khz \in DOMAIN Table[RootOf(c)] THEN "NO_ERROR" ELSE "ERR_INVALID_ARGS"
    BY <2>1
  <2>3. RootOf(c) \in Roots
    BY <1>3
  <2> QED
    BY <2>2, <2>3
<1> QED
  BY <1>1, <1>2, <1>3

LEMMA HeldFinite ==
  ASSUME TypeOK, NEW c
  PROVE  IsFiniteSet(held) /\ IsFiniteSet(HeldOf(c))
<1>1. IsFiniteSet(Clients \X Names)
  BY TreeAssumption, FS_Product DEF TreeAssumption
<1> QED
  BY <1>1, FS_Subset DEF TypeOK, HeldOf

LEMMA InitIInv == Init => IInv
<1> SUFFICES ASSUME Init PROVE IInv
  OBVIOUS
<1>1. TypeOK
  BY TreeAssumption DEF TreeAssumption, Init, TypeOK, Trees, Configs, Results
<1>2. Sound(tree)
  BY <1>1 DEF Init, Sound, GatesOpen, RootsFed, TypeOK, Gated, Clocks
<1>3. CountIsHeld
  <2>1. \A c : HeldOf(c) = {}
    BY DEF Init, HeldOf
  <2> QED
    BY <2>1, FS_EmptySet DEF CountIsHeld, Init
<1> QED
  BY <1>1, <1>2, <1>3 DEF IInv

LEMMA SetRateIInv ==
  ASSUME IInv, NEW n \in Names, NEW khz, SetRate(n, khz)
  PROVE  IInv'
<1> DEFINE c == Lookup[n]
<1>1. c \in Votes \cup Branches \cup Roots
  BY NamedClock
<1>2. ret' \in Results /\ held' = held /\ names' = names
  BY <1>1, RateResult DEF SetRate
<1>3. Sound(tree') /\ \A d \in Clocks \ Sources : tree'.count[d] = tree.count[d]
  <2>1. CASE ret' = "NO_ERROR"
    <3>1. RootOf(c) \in Roots /\ khz \in DOMAIN Table[RootOf(c)]
      BY <1>1, <2>1, RateResult DEF SetRate
    <3>2. tree' = clock_lib2_rcg_set_rate(tree, RootOf(c), khz)
      BY <2>1 DEF SetRate
    <3> QED
      BY <3>1, <3>2, RateSound DEF IInv
  <2>2. CASE ret' # "NO_ERROR"
    BY <2>2 DEF SetRate, IInv
  <2> QED
    BY <2>1, <2>2
<1>4. CountIsHeld'
  BY <1>2, <1>3 DEF IInv, CountIsHeld, HeldOf
<1> QED
  BY <1>2, <1>3, <1>4 DEF IInv, TypeOK, Sound

LEMMA EnableIInv ==
  ASSUME IInv, NEW cl \in Clients, NEW n \in Names, NEW khz, clk_get_set_enable(cl, n, khz)
  PROVE  IInv'
<1> DEFINE c == Lookup[n]
           rated == IF khz = 0 THEN tree ELSE clock_lib2_rcg_set_rate(tree, RootOf(c), khz)
<1>1. c \in Votes \cup Branches \cup Roots /\ c \in Clocks \ Sources
  BY NamedClock
<1>2. ret' \in Results /\ names' = names
  BY <1>1, RateResult DEF clk_get_set_enable, Results
<1>3. CASE ret' # "NO_ERROR"
  BY <1>2, <1>3 DEF clk_get_set_enable, IInv, TypeOK, CountIsHeld, HeldOf
<1>4. CASE ret' = "NO_ERROR"
  <2>1. /\ <<cl, n>> \notin held /\ held' = held \cup {<<cl, n>>}
        /\ tree' = clk_enable(rated, c)
    BY <1>4 DEF clk_get_set_enable
  <2>2. Sound(rated) /\ \A d \in Clocks \ Sources : rated.count[d] = tree.count[d]
    <3>1. CASE khz = 0
      BY <3>1 DEF IInv
    <3>2. CASE khz # 0
      <4>1. SetRateResult(c, khz) = "NO_ERROR"
        BY <1>4, <3>2 DEF clk_get_set_enable
      <4>2. RootOf(c) \in Roots /\ khz \in DOMAIN Table[RootOf(c)]
        BY <1>1, <4>1, RateResult
      <4> QED
        BY <3>2, <4>2, RateSound DEF IInv
    <3> QED
      BY <3>1, <3>2
  <2> HIDE DEF rated
  <2>3. Sound(tree') /\ tree'.count = [rated.count EXCEPT ![c] = @ + 1]
    BY <1>1, <2>1, <2>2, EnableSound, EnableOne DEF Sound
  <2>4. CountIsHeld'
    <3> SUFFICES ASSUME NEW d \in Clocks \ Sources
                 PROVE  tree'.count[d] = Cardinality(HeldOf(d)')
      BY DEF CountIsHeld
    <3>1. rated.count \in [Clocks -> Nat] /\ rated.count[d] = Cardinality(HeldOf(d))
      BY <2>2 DEF Sound, Trees, IInv, CountIsHeld
    <3>2. CASE d = c
      <4>1. HeldOf(d)' = HeldOf(d) \cup {<<cl, n>>} /\ <<cl, n>> \notin HeldOf(d)
        BY <2>1, <3>2 DEF HeldOf
      <4>2. Cardinality(HeldOf(d)') = Cardinality(HeldOf(d)) + 1
        BY <4>1, HeldFinite, FS_AddElement DEF IInv
      <4> QED
        BY <1>1, <2>3, <3>1, <3>2, <4>2
    <3>3. CASE d # c
      <4>1. HeldOf(d)' = HeldOf(d)
        BY <2>1, <3>3 DEF HeldOf
      <4> QED
        BY <1>1, <2>3, <3>1, <3>3, <4>1
    <3> QED
      BY <3>2, <3>3
  <2> QED
    BY <1>2, <2>1, <2>3, <2>4 DEF IInv, TypeOK, Sound
<1> QED
  BY <1>3, <1>4

LEMMA DisableIInv ==
  ASSUME IInv, NEW cl \in Clients, NEW n \in Names, Disable(cl, n)
  PROVE  IInv'
<1> DEFINE c == Lookup[n]
<1>1. c \in Clocks \ Sources /\ tree \in Trees /\ tree.count[c] \in Nat
  BY NamedClock DEF IInv, Sound, Trees
<1>2. /\ ret' \in Results /\ names' = names /\ held' = held \ {<<cl, n>>}
      /\ tree' = clk_disable(tree, c)
  BY DEF Disable, Results
<1>3. tree.count[c] = Cardinality(HeldOf(c))
  BY <1>1 DEF IInv, CountIsHeld
<1>4. CASE tree.count[c] = 0
  <2>1. HeldOf(c) = {}
    BY <1>3, <1>4, HeldFinite, FS_EmptySet DEF IInv
  <2>2. <<cl, n>> \notin held
    BY <2>1 DEF HeldOf
  <2>3. tree' = tree /\ held' = held
    BY <1>2, <1>4, <2>2 DEF clk_disable
  <2> QED
    BY <1>2, <2>3 DEF IInv, TypeOK, CountIsHeld, HeldOf
<1>5. CASE tree.count[c] > 0
  <2>1. <<cl, n>> \in held
    BY <1>5 DEF Disable
  <2>2. Sound(tree') /\ tree'.count = [tree.count EXCEPT ![c] = @ - 1]
    BY <1>1, <1>2, <1>5, DisableSound, DisableOne DEF IInv
  <2>3. CountIsHeld'
    <3> SUFFICES ASSUME NEW d \in Clocks \ Sources
                 PROVE  tree'.count[d] = Cardinality(HeldOf(d)')
      BY DEF CountIsHeld
    <3>1. tree.count \in [Clocks -> Nat] /\ tree.count[d] = Cardinality(HeldOf(d))
      BY <1>1 DEF Trees, IInv, CountIsHeld
    <3>2. CASE d = c
      <4>1. HeldOf(d)' = HeldOf(d) \ {<<cl, n>>} /\ <<cl, n>> \in HeldOf(d)
        BY <1>2, <2>1, <3>2 DEF HeldOf
      <4>2. Cardinality(HeldOf(d)') = Cardinality(HeldOf(d)) - 1
        BY <4>1, HeldFinite, FS_RemoveElement DEF IInv
      <4> QED
        BY <1>1, <2>2, <3>1, <3>2, <4>2
    <3>3. CASE d # c
      <4>1. HeldOf(d)' = HeldOf(d)
        BY <1>2, <3>3 DEF HeldOf
      <4> QED
        BY <1>1, <2>2, <3>1, <3>3, <4>1
    <3> QED
      BY <3>2, <3>3
  <2> QED
    BY <1>2, <2>2, <2>3 DEF IInv, TypeOK, Sound
<1> QED
  BY <1>1, <1>4, <1>5

LEMMA NextIInv == IInv /\ [TreeStep]_tvars => IInv'
<1> SUFFICES ASSUME IInv, [TreeStep]_tvars PROVE IInv'
  OBVIOUS
<1>1. names \subseteq Names
  BY DEF IInv, TypeOK
<1>2. CASE UNCHANGED tvars
  BY <1>2 DEF tvars, IInv, TypeOK, CountIsHeld, HeldOf
<1>3. CASE NoSuchClock
  BY <1>3 DEF NoSuchClock, IInv, TypeOK, CountIsHeld, HeldOf, Results
<1>4. ASSUME NEW n \in names, NEW khz, SetRate(n, khz) PROVE IInv'
  BY <1>1, <1>4, SetRateIInv
<1>5. ASSUME NEW cl \in Clients, NEW n \in names, NEW khz, clk_get_set_enable(cl, n, khz)
      PROVE  IInv'
  BY <1>1, <1>5, EnableIInv
<1>6. ASSUME NEW cl \in Clients, NEW n \in names, Disable(cl, n) PROVE IInv'
  BY <1>1, <1>6, DisableIInv
<1> QED
  BY <1>2, <1>3, <1>4, <1>5, <1>6 DEF TreeStep

LEMMA Inductive == Spec => []IInv
BY InitIInv, NextIInv, PTL DEF Spec

\* A clock stays on for whoever holds an enable of it, whatever the others
\* give back, for every table of clocks (clock.c 66-110).
THEOREM ClocksHeldAreOn == Spec => []HeldIsOn
<1>1. IInv => HeldIsOn
  <2> SUFFICES ASSUME IInv, NEW h \in held, Lookup[h[2]] \in Gated
               PROVE  Lookup[h[2]] \in tree.on
    BY DEF HeldIsOn
  <2> DEFINE c == Lookup[h[2]]
  <2>1. c \in Clocks \ Sources
    BY NamedClock DEF IInv, TypeOK
  <2>2. h \in HeldOf(c)
    BY DEF HeldOf
  <2>3. tree.count[c] = Cardinality(HeldOf(c)) /\ tree.count[c] \in Nat
    BY <2>1 DEF IInv, CountIsHeld, Sound, Trees
  <2>4. Cardinality(HeldOf(c)) # 0
    BY <2>2, HeldFinite, FS_EmptySet DEF IInv
  <2> QED
    BY <2>3, <2>4 DEF IInv, Sound, GatesOpen
<1> QED
  BY <1>1, Inductive, PTL

\* A root that was given a frequency has its source running (clock_lib2.c
\* 130-138).
THEOREM RootsAreFed == Spec => []SourceLive
<1>1. IInv => SourceLive
  <2> SUFFICES ASSUME IInv, NEW r \in Roots, tree.current[r] # 0
               PROVE  Table[r][tree.current[r]].src \in tree.on
    BY DEF SourceLive
  <2>1. /\ tree.current[r] \in DOMAIN Table[r]
        /\ tree.count[Table[r][tree.current[r]].src] > 0
    BY DEF IInv, Sound, RootsFed
  <2>2. Table[r][tree.current[r]].src \in Gated
    BY <2>1, TreeAssumption DEF TreeAssumption, Entries, Gated
  <2> QED
    BY <2>1, <2>2 DEF IInv, Sound, GatesOpen
<1> QED
  BY <1>1, Inductive, PTL

-----------------------------------------------------------------------------
(* FbConsole.                                                               *)

Colours == {"white", "yellow"}
Painted == [x : Nat, y : Nat, fg : Colours, critical : BOOLEAN]
Stages == {"none", "paint", "down", "x", "test", "clear", "zero"}
WriteInProgress == [critical : BOOLEAN, left : Nat, char : Fb!Characters \cup {"none"},
                    stage : Stages, y : Nat, fg : Colours]
Cursors == [initialized : BOOLEAN, x : Nat, y : Nat, fg : Colours]

FbTypes ==
  /\ screen \in Screens
  /\ con \in Cursors
  /\ irq \in BOOLEAN /\ returned \in BOOLEAN /\ torn \in BOOLEAN
  /\ writes \in Seq(WriteInProgress)
  /\ drawn \in SUBSET Painted /\ IsFiniteSet(drawn)
  /\ glyphs \in Nat

\* Only an initialised console is in the middle of a character, and a write
\* that was interrupted in the middle of a line feed tore it.
StagesSound ==
  /\ con.x < Fb!Columns
  /\ ~con.initialized => drawn = {}
  /\ \A i \in 1 .. Len(writes) : writes[i].stage # "none" => con.initialized /\ writes[i].left > 0
  /\ ~torn => \A i \in 2 .. Len(writes) : ~Fb!InLineFeed(writes[i])

\* What is painted is on the screen, and lies before the cursor until a
\* carriage return takes it back or a line feed is on its way.
OnScreen(x, y) == x < Fb!Columns /\ (y + 2) * 12 <= screen.gHeight
Stage == IF writes = <<>> THEN "none" ELSE writes[1].stage
BeforeCursor ==
  /\ (con.y + 2) * 12 <= screen.gHeight
  /\ \A d \in drawn : d.y <= con.y /\ (returned \/ d.y < con.y \/ d.x < con.x)
InPlace ==
  /\ returned \/ Cardinality(drawn) = glyphs
  /\ \A d \in drawn : OnScreen(d.x, d.y)
  /\ Stage \in {"none", "paint", "down"} => BeforeCursor
  /\ Stage = "down" => writes[1].y = con.y
  /\ Stage \in {"x", "test", "clear"} => \A d \in drawn : d.y < con.y
  /\ Stage = "zero" => drawn = {}
CursorSound == ~torn => InPlace

\* A write remembers the colour of what it interrupted.
ColourIn(w) == IF w.critical THEN "yellow" ELSE w.fg
ColoursSound ==
  /\ con.fg = IF writes = <<>> THEN "white" ELSE ColourIn(writes[1])
  /\ \A i \in 1 .. Len(writes) :
       writes[i].fg = IF i = Len(writes) THEN "white" ELSE ColourIn(writes[i + 1])
  /\ \A d \in drawn : d.critical => d.fg = "yellow"

FbSound == FbTypes /\ StagesSound /\ CursorSound /\ ColoursSound

\* The instance's cardinality is the library's.
LEMMA FbCardinality == \A S : Fb!Cardinality(S) = Cardinality(S)
  BY DEF Fb!Cardinality, Cardinality

LEMMA ScreenGeometry ==
  ASSUME screen \in Screens
  PROVE  /\ screen.gWidth \in Nat /\ screen.gHeight \in Nat /\ screen.gHeight > 24
         /\ Fb!Columns \in Nat /\ Fb!Columns >= 1 /\ 12 * Fb!Columns <= screen.gWidth
         /\ Fb!MaxY \in Nat /\ Fb!MaxY >= 2 /\ 12 * Fb!MaxY <= screen.gHeight
<1>1. /\ screen.gWidth \in Nat /\ screen.gHeight \in Nat
      /\ screen.gWidth >= 12 /\ screen.gHeight > 24
  BY DevicesAssumption DEF Fb!ScreensAssumption, Fb!SCALE_FACTOR, Fb!FONT_WIDTH, Fb!FONT_HEIGHT
<1>2. Fb!Columns = (screen.gWidth \div 6) \div 2 /\ Fb!MaxY = (screen.gHeight - 1) \div 12
  BY DEF Fb!Columns, Fb!MaxX, Fb!MaxY, Fb!SCALE_FACTOR, Fb!FONT_WIDTH, Fb!FONT_HEIGHT
<1> QED
  BY <1>1, <1>2

\* A line that is not the last has room for another below it.
LEMMA NotLastLine ==
  ASSUME screen \in Screens, NEW y \in Nat, ~Fb!LastLine(y)
  PROVE  (y + 2) * 12 <= screen.gHeight
<1>1. y < Fb!MaxY - 2
  BY ScreenGeometry DEF Fb!LastLine, Fb!SCALE_FACTOR
<1> QED
  BY <1>1, ScreenGeometry

\* A step of the write on top brings it to a stage and keeps what the others
\* are at, and the colours.
OnTop(w) ==
  /\ writes' \in Seq(WriteInProgress) /\ Len(writes') = Len(writes) /\ writes'[1] = w
  /\ \A i \in 2 .. Len(writes) : writes'[i] = writes[i]
Moved(s) ==
  /\ ColoursSound' /\ writes' \in Seq(WriteInProgress) /\ Stage' = s
  /\ Len(writes') = Len(writes) /\ \A i \in 2 .. Len(writes) : writes'[i] = writes[i]
  /\ \A i \in 1 .. Len(writes') : writes'[i].stage # "none" => con'.initialized /\ writes'[i].left > 0

LEMMA TopReplaced ==
  ASSUME writes \in Seq(WriteInProgress), writes # <<>>, NEW w \in WriteInProgress,
         writes' = [writes EXCEPT ![1] = w]
  PROVE  OnTop(w)
  BY DEF OnTop

LEMMA TopMoves ==
  ASSUME FbSound, writes # <<>>,
         con'.fg = con.fg, con'.initialized = con.initialized,
         \A d \in drawn' : d.critical => d.fg = "yellow",
         NEW w \in WriteInProgress, OnTop(w),
         w.critical = writes[1].critical, w.fg = writes[1].fg,
         w.stage # "none" => con.initialized /\ w.left > 0
  PROVE  Moved(w.stage)
<1>1. writes \in Seq(WriteInProgress) /\ Len(writes) \in Nat /\ 1 \in 1 .. Len(writes)
  BY DEF FbSound, FbTypes
<1>2. ASSUME NEW i \in 1 .. Len(writes)
      PROVE  writes'[i].critical = writes[i].critical /\ writes'[i].fg = writes[i].fg
  <2>1. CASE i = 1
    BY <2>1 DEF OnTop
  <2>2. CASE i # 1
    <3>1. i \in 2 .. Len(writes)
      BY <1>1, <2>2
    <3> QED
      BY <3>1 DEF OnTop
  <2> QED
    BY <2>1, <2>2
<1>4. /\ writes' \in Seq(WriteInProgress) /\ Len(writes') = Len(writes)
      /\ \A i \in 1 .. Len(writes) :
           writes'[i].critical = writes[i].critical /\ writes'[i].fg = writes[i].fg
      /\ \A i \in 2 .. Len(writes) : writes'[i] = writes[i]
      /\ writes'[1] = w
  BY <1>2 DEF OnTop
<1>5. writes' # <<>>
  BY <1>1, <1>4
<1>6. \A i \in 1 .. Len(writes) : ColourIn(writes'[i]) = ColourIn(writes[i])
  BY <1>4 DEF ColourIn
<1>7. con'.fg = ColourIn(writes'[1])
  BY <1>1, <1>6 DEF FbSound, ColoursSound
<1>8. ASSUME NEW i \in 1 .. Len(writes')
      PROVE  writes'[i].fg = IF i = Len(writes') THEN "white" ELSE ColourIn(writes'[i + 1])
  <2>1. i \in 1 .. Len(writes) /\ (i # Len(writes) => i + 1 \in 1 .. Len(writes))
    BY <1>1, <1>4
  <2>2. writes[i].fg = IF i = Len(writes) THEN "white" ELSE ColourIn(writes[i + 1])
    BY <2>1 DEF FbSound, ColoursSound
  <2> QED
    BY <1>4, <1>6, <2>1, <2>2
<1>9. ColoursSound'
  BY <1>5, <1>7, <1>8 DEF ColoursSound, ColourIn
<1>10. ASSUME NEW i \in 1 .. Len(writes'), writes'[i].stage # "none"
       PROVE  con'.initialized /\ writes'[i].left > 0
  <2>1. CASE i = 1
    BY <1>4, <1>10, <2>1
  <2>2. CASE i # 1
    <3>1. i \in 2 .. Len(writes) /\ i \in 1 .. Len(writes)
      BY <1>1, <1>4, <2>2
    <3>2. writes'[i] = writes[i]
      BY <1>4, <3>1
    <3> QED
      BY <1>10, <3>1, <3>2 DEF FbSound, StagesSound
  <2> QED
    BY <2>1, <2>2
<1> QED
  BY <1>4, <1>5, <1>9, <1>10 DEF Stage, Moved

\* A glyph is painted in a cell of its own, unless a carriage return came.
LEMMA GlyphPainted ==
  ASSUME FbSound, writes # <<>>, Stage = "paint", Fb!DrawGlyph
  PROVE  /\ drawn' \in SUBSET Painted /\ IsFiniteSet(drawn') /\ glyphs' \in Nat
         /\ returned' = returned /\ torn' = torn
         /\ \A d \in drawn' : d.critical => d.fg = "yellow"
         /\ ~torn => /\ \A d \in drawn' : /\ OnScreen(d.x, d.y) /\ d.y <= con.y
                                          /\ returned \/ d.y < con.y \/ d.x <= con.x
                     /\ returned \/ Cardinality(drawn') = glyphs'
<1> DEFINE new == [x |-> con.x, y |-> con.y, fg |-> con.fg, critical |-> Fb!Top.critical]
           kept == {d \in drawn : [x |-> d.x, y |-> d.y] # Fb!Cell}
<1>1. drawn' = kept \cup {new} /\ glyphs' = glyphs + 1 /\ returned' = returned /\ torn' = torn
  BY DEF Fb!DrawGlyph
<1>2. /\ con.x \in Nat /\ con.y \in Nat /\ con.fg \in Colours /\ glyphs \in Nat
      /\ drawn \in SUBSET Painted /\ IsFiniteSet(drawn) /\ returned \in BOOLEAN
      /\ writes \in Seq(WriteInProgress)
  BY DEF FbSound, FbTypes, Cursors
<1>3. writes[1] \in WriteInProgress
  BY <1>2
<1>4. new \in Painted
  BY <1>2, <1>3 DEF Painted, Fb!Top, WriteInProgress
<1>5. new.x = con.x /\ new.y = con.y /\ (new.critical => new.fg = "yellow")
  <2>1. con.fg = ColourIn(writes[1])
    BY DEF FbSound, ColoursSound
  <2> QED
    BY <2>1 DEF Fb!Top, ColourIn
<1> HIDE DEF new
<1>6. kept \subseteq drawn /\ IsFiniteSet(kept)
  BY <1>2, FS_Subset
<1>7. IsFiniteSet(drawn')
  BY <1>1, <1>6, FS_AddElement
<1>8. \A d \in drawn' : d.critical => d.fg = "yellow"
  BY <1>1, <1>5 DEF FbSound, ColoursSound
<1>9. ASSUME ~torn
      PROVE  /\ \A d \in drawn' : /\ OnScreen(d.x, d.y) /\ d.y <= con.y
                                  /\ returned \/ d.y < con.y \/ d.x <= con.x
             /\ returned \/ Cardinality(drawn') = glyphs'
  <2>1. /\ con.x < Fb!Columns /\ (con.y + 2) * 12 <= screen.gHeight
        /\ \A d \in drawn : /\ OnScreen(d.x, d.y)
                            /\ d.y <= con.y /\ (returned \/ d.y < con.y \/ d.x < con.x)
        /\ returned \/ Cardinality(drawn) = glyphs
    BY <1>9 DEF FbSound, StagesSound, CursorSound, InPlace, BeforeCursor
  <2>2. ASSUME NEW d \in drawn'
        PROVE  OnScreen(d.x, d.y) /\ d.y <= con.y /\ (returned \/ d.y < con.y \/ d.x <= con.x)
    <3>1. CASE d = new
      BY <1>2, <1>5, <2>1, <3>1 DEF OnScreen
    <3>2. CASE d \in drawn
      <4>1. d.x \in Nat /\ d.y \in Nat
        BY <1>2, <3>2 DEF Painted
      <4> QED
        BY <1>2, <2>1, <3>2, <4>1
    <3> QED
      BY <1>1, <3>1, <3>2
  <2>3. ASSUME ~returned PROVE Cardinality(drawn') = glyphs'
    <3>1. ASSUME NEW d \in drawn PROVE [x |-> d.x, y |-> d.y] # Fb!Cell /\ d # new
      <4>1. d.y < con.y \/ d.x < con.x
        BY <2>1, <2>3
      <4>2. d.x # con.x \/ d.y # con.y
        <5>1. d.x \in Nat /\ d.y \in Nat
          BY <1>2 DEF Painted
        <5> QED
          BY <1>2, <4>1, <5>1
      <4> QED
        BY <1>5, <4>2 DEF Fb!Cell
    <3>2. kept = drawn /\ new \notin drawn
      BY <3>1
    <3>3. Cardinality(drawn \cup {new}) = Cardinality(drawn) + 1
      BY <1>2, <3>2, FS_AddElement
    <3> QED
      BY <1>1, <2>1, <2>3, <3>2, <3>3
  <2> QED
    BY <2>2, <2>3
<1> QED
  BY <1>1, <1>2, <1>4, <1>6, <1>7, <1>8, <1>9

LEMMA CursorMoves ==
  ASSUME con \in Cursors, NEW x \in Nat, NEW y \in Nat
  PROVE  /\ con' = [con EXCEPT !.x = x] =>
              /\ con' \in Cursors /\ con'.x = x /\ con'.y = con.y
              /\ con'.fg = con.fg /\ con'.initialized = con.initialized
         /\ con' = [con EXCEPT !.y = y] =>
              /\ con' \in Cursors /\ con'.x = con.x /\ con'.y = y
              /\ con'.fg = con.fg /\ con'.initialized = con.initialized
         /\ con' = [con EXCEPT !.x = x, !.y = y] =>
              /\ con' \in Cursors /\ con'.x = x /\ con'.y = y
              /\ con'.fg = con.fg /\ con'.initialized = con.initialized
  BY DEF Cursors

\* What the step of a write does besides bringing it to the next stage.
StepTo(s) ==
  /\ screen' = screen /\ con' \in Cursors /\ con'.fg = con.fg
  /\ con'.initialized = con.initialized /\ con'.x < Fb!Columns
  /\ irq' \in BOOLEAN /\ returned' \in BOOLEAN /\ glyphs' \in Nat
  /\ drawn' \in SUBSET Painted /\ IsFiniteSet(drawn') /\ (~con.initialized => drawn' = {})
  /\ \A d \in drawn' : d.critical => d.fg = "yellow"
  /\ torn' = torn \/ (torn' \in BOOLEAN /\ (torn' <=> \E i \in 2 .. Len(writes) : Fb!InLineFeed(writes[i])))
  /\ ~torn' =>
       /\ returned' \/ Cardinality(drawn') = glyphs'
       /\ \A d \in drawn' : OnScreen(d.x, d.y)
       /\ s \in {"none", "paint", "down"} =>
            /\ (con'.y + 2) * 12 <= screen.gHeight
            /\ \A d \in drawn' : d.y <= con'.y /\ (returned' \/ d.y < con'.y \/ d.x < con'.x)
       /\ s \in {"x", "test", "clear"} => \A d \in drawn' : d.y < con'.y
       /\ s = "zero" => drawn' = {}

LEMMA TopKeeps ==
  ASSUME FbSound, NEW s \in Stages, StepTo(s), s = "down" => writes'[1].y = con'.y, Moved(s)
  PROVE  FbSound'
<1>1. torn' \in BOOLEAN
  BY DEF FbSound, FbTypes, StepTo
<1>2. FbTypes'
  BY <1>1 DEF FbSound, FbTypes, StepTo, Moved
<1>3. Fb!Columns' = Fb!Columns /\ \A a, b : OnScreen(a, b)' = OnScreen(a, b)
  BY DEF Fb!Columns, Fb!MaxX, OnScreen, StepTo
<1>4. ASSUME ~torn', NEW i \in 2 .. Len(writes') PROVE ~Fb!InLineFeed(writes'[i])
  <2>1. i \in 2 .. Len(writes) /\ writes'[i] = writes[i]
    BY DEF Moved
  <2>2. CASE torn' = torn
    BY <1>4, <2>1, <2>2 DEF FbSound, StagesSound, Fb!InLineFeed
  <2>3. CASE torn' <=> \E j \in 2 .. Len(writes) : Fb!InLineFeed(writes[j])
    BY <1>4, <2>1, <2>3 DEF Fb!InLineFeed
  <2> QED
    BY <2>2, <2>3 DEF StepTo
<1>5. StagesSound'
  BY <1>3, <1>4 DEF StagesSound, Fb!InLineFeed, StepTo, Moved
<1>6. CursorSound'
  BY <1>3 DEF CursorSound, InPlace, BeforeCursor, OnScreen, StepTo, Moved
<1> QED
  BY <1>2, <1>5, <1>6 DEF FbSound, Moved

LEMMA TopGoes ==
  ASSUME FbSound, writes # <<>>, Fb!Top.left > 0,
         NEW c \in Fb!Characters, NEW s \in Stages, NEW y \in Nat, Fb!Goes(c, s, y), StepTo(s),
         s # "none" => con.initialized, s = "down" => y = con'.y
  PROVE  FbSound'
<1> DEFINE w == [writes[1] EXCEPT !.char = c, !.stage = s, !.y = y]
<1>1. /\ writes \in Seq(WriteInProgress) /\ 1 \in 1 .. Len(writes)
      /\ writes[1] \in WriteInProgress
  <2>1. writes \in Seq(WriteInProgress) /\ 1 \in 1 .. Len(writes)
    BY DEF FbSound, FbTypes
  <2> QED
    BY <2>1
<1>2. /\ w \in WriteInProgress /\ w.critical = writes[1].critical /\ w.fg = writes[1].fg
      /\ w.stage = s /\ w.left = writes[1].left /\ w.y = y
  BY <1>1 DEF WriteInProgress
<1>3. OnTop(w)
  <2>1. writes' = [writes EXCEPT ![1] = w]
    BY DEF Fb!Goes
  <2> HIDE DEF w
  <2> QED
    BY <1>1, <1>2, <2>1, TopReplaced
<1> HIDE DEF w
<1>4. writes'[1].y = y
  BY <1>2, <1>3 DEF OnTop
<1>5. w.stage # "none" => con.initialized /\ w.left > 0
  BY <1>2 DEF Fb!Top
<1>6. con'.fg = con.fg /\ con'.initialized = con.initialized /\ \A d \in drawn' : d.critical => d.fg = "yellow"
  BY DEF StepTo
<1> QED
  BY <1>2, <1>3, <1>4, <1>5, <1>6, TopMoves, TopKeeps

LEMMA TopConsumes ==
  ASSUME FbSound, writes # <<>>, Fb!Top.left > 0, Fb!Consumed, StepTo("none")
  PROVE  FbSound'
<1> DEFINE w == [writes[1] EXCEPT !.left = @ - 1, !.char = "none", !.stage = "none", !.y = 0]
<1>1. /\ writes \in Seq(WriteInProgress) /\ 1 \in 1 .. Len(writes)
      /\ writes[1] \in WriteInProgress
  <2>1. writes \in Seq(WriteInProgress) /\ 1 \in 1 .. Len(writes)
    BY DEF FbSound, FbTypes
  <2> QED
    BY <2>1
<1>2. writes[1].left - 1 \in Nat
  BY <1>1 DEF Fb!Top, WriteInProgress
<1>3. /\ w \in WriteInProgress /\ w.critical = writes[1].critical /\ w.fg = writes[1].fg
      /\ w.stage = "none"
  BY <1>1, <1>2 DEF WriteInProgress, Stages
<1>4. OnTop(w)
  <2>1. writes' = [writes EXCEPT ![1] = w]
    BY DEF Fb!Consumed
  <2> HIDE DEF w
  <2> QED
    BY <1>1, <1>3, <2>1, TopReplaced
<1> HIDE DEF w
<1>5. con'.fg = con.fg /\ con'.initialized = con.initialized /\ \A d \in drawn' : d.critical => d.fg = "yellow"
  BY DEF StepTo
<1>6. "none" \in Stages
  BY DEF Stages
<1> QED
  BY <1>3, <1>4, <1>5, <1>6, TopMoves, TopKeeps

\* A character before its glyph: ignored, a carriage return, or begun.
LEMMA CharacterBegun ==
  ASSUME FbSound, NEW c \in Fb!Characters, writes # <<>>, Fb!Top.left > 0,
         screen' = screen, Stage = "none", Fb!Begin(c)
  PROVE  FbSound'
<1>1. /\ con \in Cursors /\ con.x \in Nat /\ con.y \in Nat /\ con.x < Fb!Columns
      /\ irq \in BOOLEAN /\ returned \in BOOLEAN /\ torn \in BOOLEAN /\ glyphs \in Nat
      /\ drawn \in SUBSET Painted /\ IsFiniteSet(drawn) /\ screen \in Screens
      /\ ~con.initialized => drawn = {}
      /\ \A d \in drawn : d.critical => d.fg = "yellow"
      /\ UNCHANGED <<irq, drawn, glyphs, torn>>
  BY DEF FbSound, FbTypes, StagesSound, ColoursSound, Cursors, Fb!Begin
<1>2. ~torn => /\ returned \/ Cardinality(drawn) = glyphs
               /\ \A d \in drawn : OnScreen(d.x, d.y)
               /\ (con.y + 2) * 12 <= screen.gHeight
               /\ \A d \in drawn : d.y <= con.y /\ (returned \/ d.y < con.y \/ d.x < con.x)
  BY DEF FbSound, CursorSound, InPlace, BeforeCursor
<1>3. "none" \in Stages /\ "paint" \in Stages /\ "down" \in Stages /\ 0 \in Nat
  BY DEF Stages
<1>4. CASE Fb!Consumed /\ UNCHANGED <<con, returned>>
  <2>1. StepTo("none")
    BY <1>1, <1>2, <1>4 DEF StepTo
  <2> QED
    BY <1>4, <2>1, TopConsumes
<1>5. CASE ~Fb!Ignored(c) /\ c = "return" /\ Fb!Consumed /\ con' = [con EXCEPT !.x = 0] /\ returned' = TRUE
  <2>1. /\ con' \in Cursors /\ con'.x = 0 /\ con'.y = con.y /\ con'.fg = con.fg
        /\ con'.initialized = con.initialized
    BY <1>1, <1>5 DEF Cursors
  <2>2. con'.x < Fb!Columns
    BY <1>1, <2>1, ScreenGeometry
  <2>3. StepTo("none")
    BY <1>1, <1>2, <1>5, <2>1, <2>2 DEF StepTo
  <2> QED
    BY <1>5, <2>3, TopConsumes
<1>6. CASE ~Fb!Ignored(c) /\ Fb!Goes(c, "paint", 0) /\ UNCHANGED <<con, returned>>
  <2>1. con.initialized
    BY <1>6 DEF Fb!Ignored
  <2>2. StepTo("paint")
    BY <1>1, <1>2, <1>6 DEF StepTo
  <2> QED
    BY <1>3, <1>6, <2>1, <2>2, TopGoes
<1>7. CASE ~Fb!Ignored(c) /\ Fb!Goes(c, "down", con.y) /\ UNCHANGED <<con, returned>>
  <2>1. con.initialized
    BY <1>7 DEF Fb!Ignored
  <2>2. StepTo("down")
    BY <1>1, <1>2, <1>7 DEF StepTo
  <2> QED
    BY <1>1, <1>3, <1>7, <2>1, <2>2, TopGoes
<1> QED
  BY <1>4, <1>5, <1>6, <1>7 DEF Fb!Begin

\* A glyph in the line, at its end, or the screen cleared for it.
LEMMA CharacterPainted ==
  ASSUME FbSound, NEW c \in Fb!Characters, writes # <<>>, Fb!Top.left > 0,
         screen' = screen, irq' = irq, Stage = "paint", Fb!Glyph(c)
  PROVE  FbSound'
<1>1. /\ con \in Cursors /\ con.x \in Nat /\ con.y \in Nat /\ con.x < Fb!Columns
      /\ irq \in BOOLEAN /\ returned \in BOOLEAN /\ screen \in Screens
      /\ Fb!Columns \in Nat /\ Fb!Columns >= 1 /\ screen.gHeight \in Nat /\ screen.gHeight > 24
  BY ScreenGeometry DEF FbSound, FbTypes, StagesSound, Cursors
<1>2. con.initialized
  <2>1. 1 \in 1 .. Len(writes)
    BY DEF FbSound, FbTypes
  <2> QED
    BY <2>1 DEF FbSound, StagesSound, Stage
<1>3. ~torn => (con.y + 2) * 12 <= screen.gHeight
  BY DEF FbSound, CursorSound, InPlace, BeforeCursor
<1>4. "none" \in Stages /\ 0 \in Nat
  BY DEF Stages
<1>5. ASSUME Fb!DrawGlyph
      PROVE  /\ drawn' \in SUBSET Painted /\ IsFiniteSet(drawn') /\ glyphs' \in Nat
             /\ returned' = returned /\ torn' = torn
             /\ \A d \in drawn' : d.critical => d.fg = "yellow"
             /\ \A d \in drawn' : d.x \in Nat /\ d.y \in Nat
             /\ ~torn => /\ \A d \in drawn' : /\ OnScreen(d.x, d.y) /\ d.y <= con.y
                                              /\ returned \/ d.y < con.y \/ d.x <= con.x
                         /\ returned \/ Cardinality(drawn') = glyphs'
  BY <1>5, GlyphPainted DEF Painted
<1>6. CASE /\ con.x + 1 < Fb!Columns /\ Fb!DrawGlyph
           /\ con' = [con EXCEPT !.x = @ + 1] /\ Fb!Consumed
  <2>1. /\ con' \in Cursors /\ con'.x = con.x + 1 /\ con'.y = con.y /\ con'.fg = con.fg
        /\ con'.initialized = con.initialized
    <3>1. con.x + 1 \in Nat /\ con' = [con EXCEPT !.x = con.x + 1]
      BY <1>1, <1>6
    <3> QED
      BY <1>1, <3>1, CursorMoves
  <2>2. /\ drawn' \in SUBSET Painted /\ IsFiniteSet(drawn') /\ glyphs' \in Nat
        /\ returned' = returned /\ torn' = torn
        /\ \A d \in drawn' : d.critical => d.fg = "yellow"
        /\ ~torn => returned \/ Cardinality(drawn') = glyphs'
        /\ ~torn => \A d \in drawn' : OnScreen(d.x, d.y)
    BY <1>5, <1>6
  <2>3. ~torn => \A d \in drawn' : d.y <= con'.y /\ (returned' \/ d.y < con'.y \/ d.x < con'.x)
    <3>1. ~torn => \A d \in drawn' : /\ d.x \in Nat /\ d.y \in Nat /\ d.y <= con.y
                                     /\ returned \/ d.y < con.y \/ d.x <= con.x
      BY <1>5, <1>6
    <3>2. \A x \in Nat : x <= con.x => x < con'.x
      BY <1>1, <2>1
    <3>3. ~torn => \A d \in drawn' : d.y <= con'.y /\ (returned \/ d.y < con'.y \/ d.x < con'.x)
      <4> SUFFICES ASSUME ~torn, NEW d \in drawn'
                   PROVE  d.y <= con'.y /\ (returned \/ d.y < con'.y \/ d.x < con'.x)
        OBVIOUS
      <4>1. d.x \in Nat /\ d.y <= con.y /\ (returned \/ d.y < con.y \/ d.x <= con.x)
        BY <3>1
      <4>2. d.x <= con.x => d.x < con'.x
        BY <3>2, <4>1
      <4> QED
        BY <2>1, <4>1, <4>2
    <3> QED
      BY <2>2, <3>3
  <2>4. (~torn => (con'.y + 2) * 12 <= screen.gHeight) /\ con'.x < Fb!Columns
    BY <1>3, <1>6, <2>1
  <2>5. StepTo("none")
    BY <1>1, <1>2, <2>1, <2>2, <2>3, <2>4 DEF StepTo
  <2> QED
    BY <1>6, <2>5, TopConsumes
<1>7. CASE /\ con.x + 1 >= Fb!Columns /\ ~Fb!LastLine(con.y + 2) /\ Fb!DrawGlyph
           /\ con' = [con EXCEPT !.x = 0, !.y = con.y + 2] /\ Fb!Consumed
  <2>1. /\ con' \in Cursors /\ con'.x = 0 /\ con'.y = con.y + 2 /\ con'.fg = con.fg
        /\ con'.initialized = con.initialized /\ con'.x < Fb!Columns
    <3>1. con.y + 2 \in Nat /\ 0 \in Nat /\ 0 < Fb!Columns
      BY <1>1
    <3>2. con' = [con EXCEPT !.x = 0, !.y = con.y + 2]
      BY <1>7
    <3> QED
      BY <1>1, <3>1, <3>2, CursorMoves
  <2>2. (con'.y + 2) * 12 <= screen.gHeight
    BY <1>1, <1>7, <2>1, NotLastLine
  <2>3. /\ drawn' \in SUBSET Painted /\ IsFiniteSet(drawn') /\ glyphs' \in Nat
        /\ returned' = returned /\ torn' = torn
        /\ \A d \in drawn' : d.critical => d.fg = "yellow"
        /\ ~torn => returned \/ Cardinality(drawn') = glyphs'
        /\ ~torn => \A d \in drawn' : OnScreen(d.x, d.y)
    BY <1>5, <1>7
  <2>5. ~torn => \A d \in drawn' : d.y <= con'.y /\ d.y < con'.y
    <3>1. ~torn => \A d \in drawn' : d.y \in Nat /\ d.y <= con.y
      BY <1>5, <1>7
    <3>2. \A y \in Nat : y <= con.y => y < con'.y /\ y <= con'.y
      BY <1>1, <2>1
    <3> QED
      BY <3>1, <3>2
  <2>4. StepTo("none")
    BY <1>1, <1>2, <2>1, <2>2, <2>3, <2>5 DEF StepTo
  <2> QED
    BY <1>7, <2>4, TopConsumes
<1>8. CASE Fb!ClearScreen /\ con' = [con EXCEPT !.x = 0, !.y = 0] /\ Fb!Again(c)
  <2>1. /\ con' \in Cursors /\ con'.x = 0 /\ con'.y = 0 /\ con'.fg = con.fg
        /\ con'.initialized = con.initialized /\ con'.x < Fb!Columns
    <3>1. 0 \in Nat /\ 0 < Fb!Columns
      BY <1>1
    <3> QED
      BY <1>1, <1>8, <3>1, CursorMoves
  <2>2. /\ drawn' = {} /\ glyphs' = 0 /\ returned' = FALSE /\ IsFiniteSet(drawn')
        /\ Cardinality(drawn') = 0 /\ drawn' \in SUBSET Painted
        /\ torn' \in BOOLEAN /\ (torn' <=> \E i \in 2 .. Len(writes) : Fb!InLineFeed(writes[i]))
    BY <1>8, FS_EmptySet DEF Fb!ClearScreen
  <2>3. Fb!Goes(c, "none", 0)
    BY <1>8 DEF Fb!Again
  <2>4. (con'.y + 2) * 12 <= screen.gHeight
    BY <1>1, <2>1
  <2>5. StepTo("none")
    BY <1>1, <1>2, <2>1, <2>2, <2>4 DEF StepTo
  <2> QED
    BY <1>4, <2>3, <2>5, TopGoes
<1> QED
  BY <1>6, <1>7, <1>8 DEF Fb!Glyph, Fb!SCALE_FACTOR

\* A step of a line feed.
LEMMA LineFed ==
  ASSUME FbSound, NEW c \in Fb!Characters, writes # <<>>, Fb!Top.left > 0,
         screen' = screen, Fb!LineFeed(c)
  PROVE  FbSound'
<1>1. /\ con \in Cursors /\ con.x \in Nat /\ con.y \in Nat /\ con.x < Fb!Columns
      /\ irq \in BOOLEAN /\ returned \in BOOLEAN /\ torn \in BOOLEAN /\ glyphs \in Nat
      /\ drawn \in SUBSET Painted /\ IsFiniteSet(drawn) /\ screen \in Screens
      /\ \A d \in drawn : d.critical => d.fg = "yellow"
      /\ \A d \in drawn : d.x \in Nat /\ d.y \in Nat
      /\ Fb!Columns \in Nat /\ Fb!Columns >= 1 /\ screen.gHeight \in Nat /\ screen.gHeight > 24
  BY ScreenGeometry DEF FbSound, FbTypes, StagesSound, ColoursSound, Cursors, Painted
<1>2. /\ writes \in Seq(WriteInProgress) /\ 1 \in 1 .. Len(writes) /\ writes[1] \in WriteInProgress
      /\ Stage = Fb!Top.stage
  <2>1. writes \in Seq(WriteInProgress) /\ 1 \in 1 .. Len(writes)
    BY DEF FbSound, FbTypes
  <2> QED
    BY <2>1 DEF Stage, Fb!Top
<1>3. Fb!Top.stage # "none" => con.initialized
  BY <1>2 DEF FbSound, StagesSound, Fb!Top
<1>4. ~torn => /\ returned \/ Cardinality(drawn) = glyphs
               /\ \A d \in drawn : OnScreen(d.x, d.y)
  BY DEF FbSound, CursorSound, InPlace
<1>5. {"none", "x", "test", "clear", "zero"} \subseteq Stages /\ 0 \in Nat
  BY DEF Stages
<1>6. CASE /\ Fb!Top.stage = "down" /\ Fb!Goes(c, "x", 0) /\ con' = [con EXCEPT !.y = Fb!Top.y + 2]
           /\ UNCHANGED <<irq, drawn, glyphs, returned, torn>>
  <2>1. Fb!Top.y \in Nat /\ Fb!Top.y + 2 \in Nat
    BY <1>2 DEF WriteInProgress, Fb!Top
  <2>2. /\ con' \in Cursors /\ con'.y = Fb!Top.y + 2 /\ con'.x = con.x /\ con'.fg = con.fg
        /\ con'.initialized = con.initialized
    BY <1>1, <1>6, <2>1 DEF Cursors
  <2>3. ~torn => \A d \in drawn : d.y < con'.y
    <3>1. ~torn => Fb!Top.y = con.y /\ \A d \in drawn : d.y <= con.y
      BY <1>2, <1>6 DEF FbSound, CursorSound, InPlace, BeforeCursor, Fb!Top
    <3> QED
      BY <1>1, <2>2, <3>1
  <2>4. StepTo("x")
    BY <1>1, <1>3, <1>4, <1>6, <2>2, <2>3 DEF StepTo
  <2> QED
    BY <1>3, <1>5, <1>6, <2>4, TopGoes
<1>7. ~torn /\ Fb!Top.stage \in {"x", "test", "clear"} => \A d \in drawn : d.y < con.y
  BY <1>2 DEF FbSound, CursorSound, InPlace
<1>8. CASE /\ Fb!Top.stage = "x" /\ Fb!Goes(c, "test", 0) /\ con' = [con EXCEPT !.x = 0]
           /\ UNCHANGED <<irq, drawn, glyphs, returned, torn>>
  <2>1. /\ con' \in Cursors /\ con'.y = con.y /\ con'.x = 0 /\ con'.fg = con.fg
        /\ con'.initialized = con.initialized /\ con'.x < Fb!Columns
    BY <1>1, <1>8 DEF Cursors
  <2>2. StepTo("test")
    BY <1>1, <1>3, <1>4, <1>7, <1>8, <2>1 DEF StepTo
  <2> QED
    BY <1>3, <1>5, <1>8, <2>2, TopGoes
<1>9. CASE /\ Fb!Top.stage = "test" /\ Fb!Goes(c, "clear", 0)
           /\ UNCHANGED <<con, irq, drawn, glyphs, returned, torn>>
  <2>1. StepTo("clear")
    BY <1>1, <1>3, <1>4, <1>7, <1>9 DEF StepTo
  <2> QED
    BY <1>3, <1>5, <1>9, <2>1, TopGoes
<1>10. CASE /\ Fb!Top.stage = "test" /\ ~Fb!LastLine(con.y) /\ Fb!Consumed
            /\ irq' \in BOOLEAN /\ UNCHANGED <<con, drawn, glyphs, returned, torn>>
  <2>1. (con.y + 2) * 12 <= screen.gHeight
    BY <1>1, <1>10, NotLastLine
  <2>2. ~torn => \A d \in drawn : d.y <= con.y /\ d.y < con.y
    BY <1>1, <1>7, <1>10
  <2>3. StepTo("none")
    BY <1>1, <1>3, <1>4, <1>10, <2>1, <2>2 DEF StepTo
  <2> QED
    BY <1>10, <2>3, TopConsumes
<1>11. CASE Fb!Top.stage = "clear" /\ Fb!ClearScreen /\ Fb!Goes(c, "zero", 0) /\ UNCHANGED <<con, irq>>
  <2>1. /\ drawn' = {} /\ glyphs' = 0 /\ returned' = FALSE /\ IsFiniteSet(drawn')
        /\ Cardinality(drawn') = 0 /\ drawn' \in SUBSET Painted
        /\ torn' \in BOOLEAN /\ (torn' <=> \E i \in 2 .. Len(writes) : Fb!InLineFeed(writes[i]))
    BY <1>11, FS_EmptySet DEF Fb!ClearScreen
  <2>2. StepTo("zero")
    BY <1>1, <1>3, <1>11, <2>1 DEF StepTo
  <2> QED
    BY <1>3, <1>5, <1>11, <2>2, TopGoes
<1>12. CASE /\ Fb!Top.stage = "zero" /\ con' = [con EXCEPT !.y = 0] /\ Fb!Again(c)
            /\ irq' \in BOOLEAN /\ UNCHANGED <<drawn, glyphs, returned, torn>>
  <2>1. /\ con' \in Cursors /\ con'.y = 0 /\ con'.x = con.x /\ con'.fg = con.fg
        /\ con'.initialized = con.initialized
    BY <1>1, <1>12 DEF Cursors
  <2>2. ~torn => drawn = {}
    BY <1>2, <1>12 DEF FbSound, CursorSound, InPlace
  <2>3. Fb!Goes(c, "none", 0) /\ (con'.y + 2) * 12 <= screen.gHeight
    BY <1>1, <1>12, <2>1 DEF Fb!Again
  <2>4. StepTo("none")
    BY <1>1, <1>3, <1>4, <1>12, <2>1, <2>2, <2>3 DEF StepTo
  <2> QED
    BY <1>5, <2>3, <2>4, TopGoes
<1> QED
  BY <1>1, <1>6, <1>8, <1>9, <1>10, <1>11, <1>12 DEF Fb!LineFeed, Fb!SCALE_FACTOR

\* A write starts, and remembers the colour of what it interrupts.
LEMMA WriteStarts ==
  ASSUME FbSound, NEW critical \in BOOLEAN, NEW bytes \in 1 .. MaxBytes,
         Fb!Write(critical, bytes)
  PROVE  FbSound'
<1> DEFINE w == [critical |-> critical, left |-> bytes, char |-> "none", stage |-> "none",
                 y |-> 0, fg |-> con.fg]
<1>1. /\ writes \in Seq(WriteInProgress) /\ Len(writes) \in Nat
      /\ con \in Cursors /\ con.fg \in Colours /\ torn \in BOOLEAN
  BY DEF FbSound, FbTypes, Cursors
<1>2. /\ writes' = <<w>> \o writes /\ irq' = FALSE
      /\ con' = IF critical THEN [con EXCEPT !.fg = "yellow"] ELSE con
      /\ torn' \in BOOLEAN /\ (torn \/ (writes # <<>> /\ Fb!InLineFeed(writes[1])) => torn')
      /\ UNCHANGED <<screen, drawn, glyphs, returned>>
  BY DEF Fb!Write, Fb!Top
<1>3. bytes \in Nat
  BY DevicesAssumption DEF Fb!ScreensAssumption
<1>4. w \in WriteInProgress
  BY <1>1, <1>3 DEF WriteInProgress, Stages
<1>5. w.critical = critical /\ w.fg = con.fg /\ w.stage = "none"
  OBVIOUS
<1> HIDE DEF w
<1>6. /\ writes' \in Seq(WriteInProgress) /\ Len(writes') = Len(writes) + 1 /\ writes' # <<>>
      /\ writes'[1] = w /\ \A i \in 1 .. Len(writes) : writes'[i + 1] = writes[i]
  <2>1. <<w>> \in Seq(WriteInProgress) /\ Len(<<w>>) = 1 /\ <<w>>[1] = w
    BY <1>4
  <2>2. writes' \in Seq(WriteInProgress) /\ Len(writes') = Len(writes) + 1
    BY <1>1, <1>2, <2>1
  <2>3. writes'[1] = w
    BY <1>1, <1>2, <2>1
  <2>4. ASSUME NEW i \in 1 .. Len(writes) PROVE writes'[i + 1] = writes[i]
    BY <1>1, <1>2, <2>1
  <2> QED
    BY <1>1, <2>2, <2>3, <2>4
<1>7. /\ con' \in Cursors
      /\ con'.x = con.x /\ con'.y = con.y /\ con'.initialized = con.initialized
      /\ con'.fg = IF critical THEN "yellow" ELSE con.fg
  BY <1>1, <1>2 DEF Colours, Cursors
<1>8. FbTypes'
  BY <1>1, <1>2, <1>6, <1>7 DEF FbSound, FbTypes
<1>9. CursorSound' /\ StagesSound'
  <2>1. ASSUME NEW i \in 1 .. Len(writes'), i # 1
        PROVE  i - 1 \in 1 .. Len(writes) /\ writes'[i] = writes[i - 1]
    <3>1. i - 1 \in 1 .. Len(writes) /\ (i - 1) + 1 = i
      BY <1>1, <1>6, <2>1
    <3> QED
      BY <1>6, <3>1
  <2>2. ASSUME NEW i \in 1 .. Len(writes'), writes'[i].stage # "none"
        PROVE  con'.initialized /\ writes'[i].left > 0
    BY <1>5, <1>6, <1>7, <2>1, <2>2 DEF FbSound, StagesSound
  <2>3. ASSUME ~torn', NEW i \in 2 .. Len(writes') PROVE ~Fb!InLineFeed(writes'[i])
    <3>1. i \in 1 .. Len(writes') /\ i # 1 /\ (i - 1 = 1 \/ i - 1 \in 2 .. Len(writes))
      BY <1>1, <1>6
    <3>2. writes'[i] = writes[i - 1] /\ i - 1 \in 1 .. Len(writes)
      BY <2>1, <3>1
    <3>3. ~torn /\ ~Fb!InLineFeed(writes[1])
      BY <1>1, <1>2, <2>3, <3>2
    <3> QED
      BY <3>1, <3>2, <3>3 DEF FbSound, StagesSound, Fb!InLineFeed
  <2>4. StagesSound'
    BY <1>2, <1>7, <2>2, <2>3 DEF FbSound, StagesSound, Fb!Columns, Fb!MaxX, Fb!InLineFeed
  <2>5. Stage' = "none"
    BY <1>5, <1>6 DEF Stage
  <2>6. ASSUME ~torn' PROVE ~torn /\ Stage \in {"none", "paint"}
    <3>1. ~torn /\ (writes # <<>> => ~Fb!InLineFeed(writes[1]))
      BY <1>1, <1>2, <2>6
    <3>2. writes # <<>> => writes[1].stage \in Stages
      <4>1. writes # <<>> => writes[1] \in WriteInProgress
        BY <1>1
      <4> QED
        BY <4>1 DEF WriteInProgress
    <3> QED
      BY <3>1, <3>2 DEF Stage, Stages, Fb!InLineFeed
  <2>7. CursorSound'
    BY <1>2, <1>7, <2>5, <2>6 DEF FbSound, CursorSound, InPlace, BeforeCursor, OnScreen,
                                  Fb!Columns, Fb!MaxX
  <2> QED
    BY <2>4, <2>7
<1>10. con'.fg = ColourIn(writes'[1])
  BY <1>5, <1>6, <1>7 DEF ColourIn
<1>11. ASSUME NEW i \in 1 .. Len(writes')
       PROVE  writes'[i].fg = IF i = Len(writes') THEN "white" ELSE ColourIn(writes'[i + 1])
  <2>1. con.fg = IF writes = <<>> THEN "white" ELSE ColourIn(writes[1])
    BY DEF FbSound, ColoursSound
  <2>2. CASE i = 1
    <3>1. CASE writes = <<>>
      BY <1>1, <1>5, <1>6, <2>1, <2>2, <3>1
    <3>2. CASE writes # <<>>
      <4>1. 1 \in 1 .. Len(writes) /\ 1 # Len(writes')
        BY <1>1, <1>6, <3>2
      <4>2. writes'[1 + 1] = writes[1]
        BY <1>6, <4>1
      <4> QED
        BY <1>5, <1>6, <2>1, <2>2, <3>2, <4>1, <4>2
    <3> QED
      BY <3>1, <3>2
  <2>3. CASE i # 1
    <3> DEFINE k == i - 1
    <3>1. k \in 1 .. Len(writes) /\ k + 1 = i /\ (i = Len(writes') <=> k = Len(writes))
      BY <1>1, <1>6, <2>3
    <3>2. k # Len(writes) => k + 1 \in 1 .. Len(writes) /\ (k + 1) + 1 = i + 1
      BY <1>1, <3>1
    <3> HIDE DEF k
    <3>3. writes[k].fg = IF k = Len(writes) THEN "white" ELSE ColourIn(writes[k + 1])
      BY <3>1 DEF FbSound, ColoursSound
    <3>4. writes'[i] = writes[k] /\ (k # Len(writes) => writes'[i + 1] = writes[k + 1])
      BY <1>6, <3>1, <3>2
    <3> QED
      BY <3>1, <3>3, <3>4
  <2> QED
    BY <2>2, <2>3
<1>12. ColoursSound'
  BY <1>2, <1>6, <1>10, <1>11 DEF FbSound, ColoursSound, ColourIn
<1> QED
  BY <1>8, <1>9, <1>12 DEF FbSound

\* A write ends, and what it interrupted has its colour back.
LEMMA WriteEnds ==
  ASSUME FbSound, Fb!EndWrite
  PROVE  FbSound'
<1>1. /\ writes \in Seq(WriteInProgress) /\ Len(writes) \in Nat /\ writes # <<>>
      /\ con \in Cursors
  BY DEF FbSound, FbTypes, Fb!EndWrite
<1>2. /\ con' = IF writes[1].critical THEN [con EXCEPT !.fg = writes[1].fg] ELSE con
      /\ irq' = TRUE /\ writes' = Tail(writes) /\ writes[1].left = 0
      /\ UNCHANGED <<screen, drawn, glyphs, returned, torn>>
  BY DEF Fb!EndWrite, Fb!Top
<1>3. /\ writes' \in Seq(WriteInProgress) /\ Len(writes') = Len(writes) - 1
      /\ \A i \in 1 .. Len(writes) - 1 : writes'[i] = writes[i + 1]
  BY <1>1, <1>2
<1>4. 1 \in 1 .. Len(writes) /\ writes[1] \in WriteInProgress
  BY <1>1
<1>5. con.fg = ColourIn(writes[1])
  BY <1>1 DEF FbSound, ColoursSound
<1>6. /\ con' \in Cursors
      /\ con'.x = con.x /\ con'.y = con.y /\ con'.initialized = con.initialized
      /\ con'.fg = writes[1].fg
  <2>1. writes[1].fg \in Colours
    BY <1>4 DEF WriteInProgress
  <2>2. CASE writes[1].critical
    BY <1>1, <1>2, <2>1, <2>2 DEF Cursors
  <2>3. CASE ~writes[1].critical
    BY <1>1, <1>2, <1>5, <2>3 DEF ColourIn
  <2> QED
    BY <2>2, <2>3
<1>7. FbTypes'
  BY <1>2, <1>3, <1>6 DEF FbSound, FbTypes
<1>8. CursorSound' /\ StagesSound'
  <2>1. Stage = "none"
    <3>1. 1 \in 1 .. Len(writes) /\ ~(writes[1].left > 0)
      BY <1>2, <1>4
    <3> QED
      BY <1>1, <3>1 DEF FbSound, StagesSound, Stage
  <2>2. ASSUME NEW i \in 1 .. Len(writes'), writes'[i].stage # "none"
        PROVE  con'.initialized /\ writes'[i].left > 0
    <3>1. i \in 1 .. Len(writes) - 1 /\ i + 1 \in 1 .. Len(writes)
      BY <1>1, <1>3
    <3>2. writes'[i] = writes[i + 1]
      BY <1>3, <3>1
    <3> QED
      BY <1>6, <2>2, <3>1, <3>2 DEF FbSound, StagesSound
  <2>3. ASSUME ~torn', NEW i \in 1 .. Len(writes') PROVE ~Fb!InLineFeed(writes'[i])
    <3>1. i \in 1 .. Len(writes) - 1 /\ i + 1 \in 2 .. Len(writes)
      BY <1>1, <1>3
    <3>2. writes'[i] = writes[i + 1]
      BY <1>3, <3>1
    <3> QED
      BY <1>2, <2>3, <3>1, <3>2 DEF FbSound, StagesSound, Fb!InLineFeed
  <2>4. StagesSound'
    BY <1>2, <1>3, <1>6, <2>2, <2>3 DEF FbSound, StagesSound, Fb!Columns, Fb!MaxX, Fb!InLineFeed
  <2>5. ~torn' => Stage' \in {"none", "paint"}
    <3>1. CASE writes' = <<>>
      BY <3>1 DEF Stage
    <3>2. CASE writes' # <<>>
      <4>1. 1 \in 1 .. Len(writes') /\ writes'[1] \in WriteInProgress
        BY <1>3, <3>2
      <4>2. writes'[1].stage \in Stages
        BY <4>1 DEF WriteInProgress
      <4>3. ~torn' => ~Fb!InLineFeed(writes'[1])
        BY <2>3, <4>1
      <4> QED
        BY <3>2, <4>2, <4>3 DEF Stage, Stages, Fb!InLineFeed
    <3> QED
      BY <3>1, <3>2
  <2>6. CursorSound'
    BY <1>2, <1>6, <2>1, <2>5 DEF FbSound, CursorSound, InPlace, BeforeCursor, OnScreen,
                                  Fb!Columns, Fb!MaxX
  <2> QED
    BY <2>4, <2>6
<1>9. con'.fg = IF writes' = <<>> THEN "white" ELSE ColourIn(writes'[1])
  <2>1. writes[1].fg = IF 1 = Len(writes) THEN "white" ELSE ColourIn(writes[1 + 1])
    BY <1>4 DEF FbSound, ColoursSound
  <2>2. writes' = <<>> <=> Len(writes) = 1
    BY <1>1, <1>3
  <2>3. Len(writes) # 1 => writes'[1] = writes[1 + 1]
    BY <1>1, <1>3, <1>4
  <2> QED
    BY <1>6, <2>1, <2>2, <2>3
<1>10. ASSUME NEW i \in 1 .. Len(writes')
       PROVE  writes'[i].fg = IF i = Len(writes') THEN "white" ELSE ColourIn(writes'[i + 1])
  <2> DEFINE k == i + 1
  <2>1. /\ i \in 1 .. Len(writes) - 1 /\ k \in 1 .. Len(writes)
        /\ (i = Len(writes') <=> k = Len(writes))
        /\ (k # Len(writes) => k \in 1 .. Len(writes) - 1)
    BY <1>1, <1>3
  <2>2. writes'[i] = writes[k]
    BY <1>3, <2>1
  <2> HIDE DEF k
  <2>3. writes[k].fg = IF k = Len(writes) THEN "white" ELSE ColourIn(writes[k + 1])
    BY <2>1 DEF FbSound, ColoursSound
  <2>4. k # Len(writes) => writes'[k] = writes[k + 1]
    BY <1>3, <2>1
  <2> QED
    BY <2>1, <2>2, <2>3, <2>4 DEF k
<1>11. ColoursSound'
  BY <1>2, <1>9, <1>10 DEF FbSound, ColoursSound, ColourIn
<1> QED
  BY <1>7, <1>8, <1>11 DEF FbSound

\* What was written since the screen was last cleared stands on it, inside
\* the frame buffer, each character in a cell of its own unless a carriage
\* return went back or a handler wrote between two stores of a line feed, and
\* critical messages always in their colour, on every screen of more than 24
\* lines of pixels and however deep handlers interrupt each other's writes
\* (FrameBufferSerialPortLib.c 93-185, 352-397).
THEOREM WritesAreVisible == DevicesSpec => []WrittenIsVisible
<1>1. Fb!Init => FbSound
  <2> SUFFICES ASSUME Fb!Init PROVE FbSound
    OBVIOUS
  <2>1. /\ con = [initialized |-> FALSE, x |-> 0, y |-> 0, fg |-> "white"]
        /\ drawn = {} /\ writes = <<>> /\ screen \in Screens
    BY DEF Fb!Init
  <2>2. Fb!Columns \in Nat /\ Fb!Columns >= 1 /\ screen.gHeight \in Nat /\ screen.gHeight > 24
    BY <2>1, ScreenGeometry
  <2>3. IsFiniteSet(drawn) /\ Cardinality(drawn) = 0
    BY <2>1, FS_EmptySet
  <2>4. FbTypes
    <3>1. con \in Cursors
      BY <2>1 DEF Colours, Cursors
    <3>2. writes \in Seq(WriteInProgress) /\ drawn \in SUBSET Painted
      BY <2>1
    <3> QED
      BY <2>1, <2>3, <3>1, <3>2 DEF Fb!Init, FbTypes
  <2>5. CursorSound
    BY <2>1, <2>2, <2>3 DEF Fb!Init, CursorSound, InPlace, BeforeCursor, OnScreen, Stage
  <2>6. ColoursSound
    BY <2>1 DEF ColoursSound
  <2>7. StagesSound
    BY <2>1, <2>2 DEF StagesSound
  <2> QED
    BY <2>4, <2>5, <2>6, <2>7 DEF FbSound
<1>2. FbSound /\ [Fb!FbStep]_(Fb!fvars) => FbSound'
  <2> SUFFICES ASSUME FbSound, [Fb!FbStep]_(Fb!fvars) PROVE FbSound'
    OBVIOUS
  <2>1. CASE Fb!SerialPortInitialize
    <3>1. /\ con' = IF con.initialized THEN con
                    ELSE [initialized |-> TRUE, x |-> 0, y |-> 0, fg |-> "white"]
          /\ writes = <<>> /\ UNCHANGED <<screen, irq, writes, drawn, glyphs, returned, torn>>
          /\ con \in Cursors
      BY <2>1 DEF Fb!SerialPortInitialize, FbSound, FbTypes
    <3>2. screen \in Screens /\ con.fg = "white"
      BY <3>1 DEF FbSound, FbTypes, ColoursSound
    <3>3. Fb!Columns \in Nat /\ Fb!Columns >= 1 /\ screen.gHeight \in Nat /\ screen.gHeight > 24
      BY <3>2, ScreenGeometry
    <3>4. Fb!Columns' = Fb!Columns
      BY <3>1 DEF Fb!Columns, Fb!MaxX
    <3>5. FbTypes'
      BY <3>1 DEF FbSound, FbTypes, Colours, Cursors
    <3>6. CursorSound' /\ StagesSound'
      <4>1. CASE con.initialized
        BY <3>1, <3>4, <4>1 DEF FbSound, CursorSound, StagesSound, InPlace, BeforeCursor, OnScreen, Stage
      <4>2. CASE ~con.initialized
        <5>1. drawn = {} /\ con'.x = 0 /\ con'.y = 0 /\ con'.initialized /\ Len(writes) = 0
          BY <3>1, <4>2 DEF FbSound, StagesSound
        <5> QED
          BY <3>1, <3>3, <3>4, <5>1 DEF FbSound, CursorSound, StagesSound, InPlace, BeforeCursor, OnScreen, Stage
      <4> QED
        BY <4>1, <4>2
    <3>7. ColoursSound'
      BY <3>1, <3>2 DEF FbSound, ColoursSound, ColourIn
    <3> QED
      BY <3>5, <3>6, <3>7 DEF FbSound
  <2>2. CASE UNCHANGED Fb!fvars
    BY <2>2 DEF Fb!fvars, FbSound, FbTypes, CursorSound, StagesSound, InPlace, BeforeCursor, Stage,
                ColoursSound, ColourIn, OnScreen, Fb!Columns, Fb!MaxX, Fb!InLineFeed
  <2>3. ASSUME NEW c \in Fb!Characters, Fb!FbConPutCharWithFactor(c) PROVE FbSound'
    <3>1. writes # <<>> /\ Fb!Top.left > 0 /\ screen' = screen
      BY <2>3 DEF Fb!FbConPutCharWithFactor
    <3>2. Stage = Fb!Top.stage
      BY <3>1 DEF Stage, Fb!Top
    <3> QED
      BY <2>3, <3>1, <3>2, CharacterBegun, CharacterPainted, LineFed DEF Fb!FbConPutCharWithFactor
  <2> QED
    BY <2>1, <2>2, <2>3, WriteStarts, WriteEnds DEF Fb!FbStep
<1>3. FbSound => Fb!WrittenIsVisible
  <2> SUFFICES ASSUME FbSound PROVE Fb!WrittenIsVisible
    OBVIOUS
  <2>1. ASSUME ~torn, NEW d \in drawn PROVE Fb!Inside(d)
    <3>1. d.x \in Nat /\ d.y \in Nat /\ screen \in Screens
      BY DEF FbSound, FbTypes, Painted
    <3>2. d.x < Fb!Columns /\ (d.y + 2) * 12 <= screen.gHeight
      BY <2>1 DEF FbSound, CursorSound, InPlace, OnScreen
    <3>3. Fb!Columns \in Nat /\ 12 * Fb!Columns <= screen.gWidth /\ screen.gWidth \in Nat
      BY <3>1, ScreenGeometry
    <3>4. d.x * 2 * (5 + 1) + 2 * 5 <= screen.gWidth
      BY <3>1, <3>2, <3>3
    <3> QED
      BY <3>2, <3>4 DEF Fb!Inside, Fb!SCALE_FACTOR, Fb!FONT_WIDTH, Fb!FONT_HEIGHT
  <2>2. ~torn => returned \/ Cardinality(drawn) = glyphs
    BY DEF FbSound, CursorSound, InPlace
  <2>3. (writes = <<>> => con.fg = "white") /\ \A d \in drawn : d.critical => d.fg = "yellow"
    BY DEF FbSound, ColoursSound
  <2> QED
    BY <2>1, <2>2, <2>3, FbCardinality DEF Fb!WrittenIsVisible
<1>4. DevicesInit => Fb!Init
  BY DEF DevicesInit
<1>5. [DevicesNext]_vars => [Fb!FbStep]_(Fb!fvars)
  BY DEF DevicesNext, ClocksNext, BamNext, ConsoleNext, KeysNext, KeypadNext, vars, fvars, Fb!fvars
<1>6. Fb!WrittenIsVisible => WrittenIsVisible
  BY DEF WrittenIsVisible
<1> QED
  BY <1>1, <1>2, <1>3, <1>4, <1>5, <1>6, PTL DEF DevicesSpec

-----------------------------------------------------------------------------
(* BamPipe.                                                                 *)

DescFlags == {"INT", "EOT", "none"}
Descriptors == [round : Nat, k : Nat, flag : DescFlags]
Places == {"idle", "reset", "asserted", "ready", "added", "waiting", "done", "failed"}

FifoStates == [size : Sizes, current : Nat, offset : Nat, initialized : BOOLEAN]
EngineStates == [at : Nat, event : Nat, irq : SUBSET {"P_PRCSD_DESC", "P_TRNSFR_END", "P_OUT_OF_DESC"},
                 error : BOOLEAN, on : BOOLEAN]
ClientStates == [at : Places, round : Nat, added : Nat, flag : {"INT", "EOT"}]

BamTypes ==
  /\ fifo \in FifoStates /\ slots \in [0 .. fifo.size - 1 -> Descriptors]
  /\ engine \in EngineStates /\ client \in ClientStates
  /\ engine.at < fifo.size /\ engine.event < fifo.size
  /\ told \in Seq(Descriptors) /\ processed \in Seq(Descriptors) /\ skipped \in BOOLEAN

\* Slots are counted from the first of this transfer, around the ring.
Around(i) == IF i < fifo.size THEN i ELSE i - fifo.size
Base == fifo.offset - 1
Descriptor(k) == [round |-> client.round, k |-> k,
                  flag |-> IF k = client.added /\ client.at # "ready" THEN client.flag ELSE "none"]
TransferEnded == {"P_PRCSD_DESC", "P_TRNSFR_END"} \cap engine.irq # {}

\* Before the driver has a ring the engine has nothing.
RingQuiet ==
  /\ told = <<>> /\ processed = <<>> /\ ~TransferEnded
  /\ engine.at = 0 /\ engine.event = 0
  /\ ~fifo.initialized /\ client.added = 0
\* The driver's offsets, the engine's and the event register are the places
\* of the transfer's descriptors in the ring.
RingInStep ==
  /\ fifo.initialized /\ Bp!ispow2(fifo.size) /\ fifo.offset \in 1 .. fifo.size
  /\ client.added \in 0 .. fifo.size /\ (client.at # "ready" => client.added > 0)
  /\ fifo.current = Around(Base + client.added)
  /\ \A k \in 1 .. client.added : slots[Around(Base + k - 1)] = Descriptor(k)
  /\ \/ told = <<>>
     \/ client.added < fifo.size /\ told = [k \in 1 .. client.added |-> Descriptor(k)]
  /\ Len(processed) <= Len(told)
  /\ \A k \in 1 .. Len(processed) : processed[k] = told[k]
  /\ engine.at = Around(Base + Len(processed)) /\ engine.event = Around(Base + Len(told))
  /\ client.at \in {"ready", "added"} => told = <<>>
  /\ client.at \in {"ready", "added", "done"} => ~TransferEnded
  /\ TransferEnded \/ client.at = "done" => told # <<>> /\ Len(processed) = Len(told)
RingSound == IF client.at \in {"idle", "reset", "asserted"} THEN RingQuiet ELSE RingInStep
\* All that holds of a ring which the offsets reach and on which no
\* descriptor was refused.
BamInStep == BamTypes /\ RingSound
Kept == ~skipped /\ fifo.size <= Offsets
BamSound == BamTypes /\ (Kept => RingSound)

LEMMA RingSize ==
  ASSUME BamTypes
  PROVE  fifo.size \in Nat /\ fifo.size > 0
<1>1. \A n \in Sizes : n \in Nat /\ n > 0
  BY DevicesAssumption DEF Bp!SizesAssumption
<1>2. fifo.size \in Sizes
  BY DEF BamTypes, FifoStates
<1> QED
  BY <1>1, <1>2

\* Whatever is refused, every part has its type, and the engine stays in the
\* ring.
LEMMA BamTyped ==
  ASSUME BamTypes, Bp!BamStep
  PROVE  BamTypes' /\ fifo'.size = fifo.size
<1>1. /\ fifo \in FifoStates /\ client \in ClientStates /\ engine \in EngineStates
      /\ slots \in [0 .. fifo.size - 1 -> Descriptors]
      /\ told \in Seq(Descriptors) /\ processed \in Seq(Descriptors)
      /\ engine.at \in 0 .. fifo.size - 1 /\ engine.event < fifo.size
      /\ fifo.size \in Nat /\ fifo.size > 0 /\ skipped \in BOOLEAN
  BY RingSize DEF BamTypes, EngineStates
<1>2. /\ client.added \in Nat /\ client.round \in Nat /\ client.flag \in {"INT", "EOT"}
      /\ client.added + 1 \in Nat /\ client.round + 1 \in Nat /\ fifo.current \in Nat
  BY <1>1 DEF ClientStates, FifoStates
<1>3. CASE Bp!PipeInit
  <2>1. /\ fifo' = [fifo EXCEPT !.initialized = FALSE] /\ slots' = slots /\ skipped' = FALSE
        /\ engine' = [at |-> 0, event |-> 0, irq |-> {}, error |-> FALSE, on |-> TRUE]
        /\ client' = [client EXCEPT !.at = "reset", !.round = @ + 1, !.added = 0]
        /\ told' = <<>> /\ processed' = <<>>
    BY <1>3 DEF Bp!PipeInit
  <2>2. client' \in ClientStates
    <3>1. "reset" \in Places /\ 0 \in Nat
      BY DEF Places
    <3> QED
      BY <1>1, <1>2, <2>1, <3>1 DEF ClientStates
  <2>3. fifo' \in FifoStates /\ fifo'.size = fifo.size
    BY <1>1, <2>1 DEF FifoStates
  <2>4. told' \in Seq(Descriptors) /\ processed' \in Seq(Descriptors)
    BY <2>1, EmptySeq
  <2>5. engine' \in EngineStates /\ engine'.at < fifo'.size /\ engine'.event < fifo'.size
    BY <1>1, <2>1, <2>3 DEF EngineStates
  <2> QED
    BY <1>1, <2>1, <2>2, <2>3, <2>4, <2>5 DEF BamTypes
<1>4. CASE Bp!bam_pipe_fifo_init
  <2>1. /\ UNCHANGED <<slots, engine, told, processed, skipped>>
        /\ \/ client' = [client EXCEPT !.at = "asserted"] /\ UNCHANGED fifo
           \/ /\ fifo' = [fifo EXCEPT !.current = 0, !.offset = 1, !.initialized = TRUE]
              /\ client' = [client EXCEPT !.at = "ready"]
    BY <1>4 DEF Bp!bam_pipe_fifo_init
  <2>2. client' \in ClientStates
    <3>1. "asserted" \in Places /\ "ready" \in Places
      BY DEF Places
    <3> QED
      BY <1>1, <2>1, <3>1 DEF ClientStates
  <2>3. fifo' \in FifoStates /\ fifo'.size = fifo.size
    <3>1. CASE UNCHANGED fifo
      BY <1>1, <3>1
    <3>2. CASE fifo' = [fifo EXCEPT !.current = 0, !.offset = 1, !.initialized = TRUE]
      BY <1>1, <3>2 DEF FifoStates
    <3> QED
      BY <2>1, <3>1, <3>2
  <2> QED
    BY <1>1, <2>1, <2>2, <2>3 DEF BamTypes
<1>5. ASSUME NEW last \in BOOLEAN, NEW flag \in Bp!Flags, NEW others \in SUBSET Bp!OtherFlags,
             Bp!AddOne(last, flag, others)
      PROVE  BamTypes' /\ fifo'.size = fifo.size
  <2> DEFINE n == client.added + 1
             at == IF last THEN "added" ELSE client.at
             f == IF last THEN flag ELSE "none"
  <2>1. /\ UNCHANGED <<engine, told, processed>> /\ flag \in {"INT", "EOT"}
        /\ client' = [client EXCEPT !.added = n, !.flag = flag, !.at = at]
    BY <1>5 DEF Bp!AddOne, Bp!Flags
  <2>2. at \in Places /\ f \in DescFlags
    BY <1>1, <2>1 DEF Places, DescFlags, ClientStates
  <2>3. \/ UNCHANGED <<fifo, slots>> /\ skipped' = TRUE
        \/ /\ skipped' = skipped
           /\ slots' = [slots EXCEPT ![fifo.current] = [round |-> client.round, k |-> n, flag |-> f]]
           /\ fifo' = [fifo EXCEPT !.current = Bp!fifo_getnext(fifo.current)]
    BY <1>5 DEF Bp!AddOne, Bp!bam_add_one_desc
  <2> HIDE DEF at, f
  <2>4. n \in Nat /\ [round |-> client.round, k |-> n, flag |-> f] \in Descriptors
    BY <1>2, <2>2 DEF Descriptors
  <2>5. Bp!fifo_getnext(fifo.current) \in Nat
    BY <1>2 DEF Bp!fifo_getnext
  <2> HIDE DEF n
  <2>6. client' \in ClientStates
    BY <1>1, <2>1, <2>2, <2>4 DEF ClientStates
  <2>7. fifo' \in FifoStates /\ fifo'.size = fifo.size
    BY <1>1, <2>3, <2>5 DEF FifoStates
  <2>8. slots' \in [0 .. fifo'.size - 1 -> Descriptors] /\ skipped' \in BOOLEAN
    BY <1>1, <2>3, <2>4, <2>7
  <2> QED
    BY <1>1, <2>1, <2>6, <2>7, <2>8 DEF BamTypes
<1>6. CASE Bp!bam_sys_gen_event
  <2>1. client' = [client EXCEPT !.at = "waiting"] /\ UNCHANGED <<fifo, slots, processed, skipped>>
    BY <1>6 DEF Bp!bam_sys_gen_event
  <2>2. client' \in ClientStates
    BY <1>1, <2>1 DEF ClientStates, Places
  <2>3. CASE UNCHANGED <<engine, told>>
    BY <1>1, <2>1, <2>2, <2>3 DEF BamTypes
  <2>4. CASE /\ \E event \in Bp!EventOffset(client.added) : engine' = [engine EXCEPT !.event = event]
             /\ told' = [k \in 1 .. client.added |->
                           [round |-> client.round, k |-> k,
                            flag |-> IF k = client.added THEN client.flag ELSE "none"]]
    <3>1. PICK event \in Bp!EventOffset(client.added) : engine' = [engine EXCEPT !.event = event]
      BY <2>4
    <3>2. event \in 0 .. fifo.size - 1
      <4> DEFINE v == client.added - 1 + fifo.offset
      <4>1. v \in Int
        BY <1>1, <1>2 DEF FifoStates
      <4>2. v % fifo.size \in 0 .. fifo.size - 1
        BY <1>1, <4>1
      <4>3. event \in {v % fifo.size} \/ event \in 0 .. fifo.size - 1
        BY <3>1 DEF Bp!EventOffset, Bp!Masked
      <4> QED
        BY <4>2, <4>3
    <3>3. engine' \in EngineStates /\ engine'.at = engine.at /\ engine'.event = event
      <4>1. event \in Nat /\ engine \in EngineStates
        BY <1>1, <3>2
      <4> QED
        BY ONLY <3>1, <4>1 DEF EngineStates
    <3>4. told' \in Seq(Descriptors)
      <4>1. \A k \in 1 .. client.added :
              [round |-> client.round, k |-> k,
               flag |-> IF k = client.added THEN client.flag ELSE "none"] \in Descriptors
        BY <1>2 DEF Descriptors, DescFlags
      <4>2. told' \in [1 .. client.added -> Descriptors]
        BY <2>4, <4>1, Zenon
      <4> QED
        BY <1>2, <4>2, FunctionIsSeq
    <3> QED
      BY <1>1, <2>1, <2>2, <3>2, <3>3, <3>4 DEF BamTypes
  <2> QED
    BY <1>6, <2>1, <2>3, <2>4 DEF Bp!bam_sys_gen_event
<1>7. CASE Bp!bam_wait_for_interrupt
  <2>1. /\ UNCHANGED <<fifo, slots, told, processed, skipped>>
        /\ engine' = engine \/ engine' = [engine EXCEPT !.irq = {}]
        /\ client' = [client EXCEPT !.at = "failed"] \/ client' = [client EXCEPT !.at = "done"]
    BY <1>7 DEF Bp!bam_wait_for_interrupt
  <2>2. client' \in ClientStates
    BY <1>1, <2>1 DEF ClientStates, Places
  <2>3. engine' \in EngineStates /\ engine'.at = engine.at /\ engine'.event = engine.event
    BY <1>1, <2>1 DEF EngineStates
  <2> QED
    BY <1>1, <2>1, <2>2, <2>3 DEF BamTypes
<1>8. CASE Bp!bam_read_offset_update
  <2> DEFINE offset == engine.at % Offsets
  <2>1. /\ fifo' = [fifo EXCEPT !.current = offset, !.offset = offset + 1]
        /\ client' = [client EXCEPT !.at = "ready", !.round = @ + 1, !.added = 0]
        /\ told' = <<>> /\ processed' = <<>> /\ UNCHANGED <<slots, engine, skipped>>
    BY <1>8 DEF Bp!bam_read_offset_update
  <2>2. offset \in Nat /\ offset + 1 \in Nat
    <3>1. Offsets \in Nat /\ Offsets > 0
      BY DevicesAssumption DEF Bp!SizesAssumption
    <3> QED
      BY <1>1, <3>1
  <2> HIDE DEF offset
  <2>3. fifo' \in FifoStates /\ fifo'.size = fifo.size
    BY <1>1, <2>1, <2>2 DEF FifoStates
  <2>4. client' \in ClientStates
    <3>1. "ready" \in Places /\ 0 \in Nat
      BY DEF Places
    <3> QED
      BY <1>1, <1>2, <2>1, <3>1 DEF ClientStates
  <2>5. told' \in Seq(Descriptors) /\ processed' \in Seq(Descriptors)
    BY <2>1, EmptySeq
  <2> QED
    BY <1>1, <2>1, <2>3, <2>4, <2>5 DEF BamTypes
<1>9. CASE Bp!EngineStep
  <2> DEFINE desc == slots[engine.at]
             at == (engine.at + 1) % fifo.size
             raised == IF desc.flag = "none" THEN engine.irq
                       ELSE engine.irq \cup {Bp!InterruptOf[desc.flag]}
  <2>1. /\ processed' = Append(processed, desc) /\ UNCHANGED <<fifo, slots, client, told, skipped>>
        /\ engine' = [engine EXCEPT !.at = at, !.irq = raised]
    BY <1>9 DEF Bp!EngineStep
  <2>2. desc \in Descriptors
    BY <1>1
  <2>3. desc.flag # "none" => Bp!InterruptOf[desc.flag] \in {"P_PRCSD_DESC", "P_TRNSFR_END"}
    BY <2>2 DEF Descriptors, DescFlags, Bp!InterruptOf
  <2>4. raised \in SUBSET {"P_PRCSD_DESC", "P_TRNSFR_END", "P_OUT_OF_DESC"}
    BY <1>1, <2>3 DEF EngineStates
  <2>5. at \in 0 .. fifo.size - 1
    BY <1>1
  <2> HIDE DEF desc, at, raised
  <2>6. engine' \in EngineStates /\ engine'.at = at /\ engine'.event = engine.event
    <3>1. at \in Nat
      BY <1>1, <2>5
    <3>2. engine \in EngineStates /\ engine' = [engine EXCEPT !.at = at, !.irq = raised]
      BY <1>1, <2>1
    <3> QED
      BY ONLY <2>4, <3>1, <3>2 DEF EngineStates
  <2>7. processed' \in Seq(Descriptors)
    BY <1>1, <2>1, <2>2
  <2> QED
    BY <1>1, <2>1, <2>5, <2>6, <2>7 DEF BamTypes
<1>10. CASE Bp!EngineEmpty \/ Bp!EngineError
  <2>1. /\ UNCHANGED <<fifo, slots, client, told, processed, skipped>> /\ engine' \in EngineStates
        /\ engine'.at = engine.at /\ engine'.event = engine.event
    BY <1>1, <1>10 DEF Bp!EngineEmpty, Bp!EngineError, EngineStates
  <2> QED
    BY <1>1, <2>1 DEF BamTypes
<1> QED
  BY <1>3, <1>4, <1>5, <1>6, <1>7, <1>8, <1>9, <1>10 DEF Bp!BamStep

LEMMA RingSetUp ==
  ASSUME BamTypes, BamTypes',
         Bp!PipeInit \/ (RingSound /\ Bp!bam_pipe_fifo_init)
  PROVE  BamInStep'
<1>0. fifo.size \in Nat /\ fifo.size > 0
  BY RingSize
<1>1. CASE Bp!PipeInit
  <2>1. client'.at = "reset" /\ client'.added = 0 /\ told' = <<>> /\ processed' = <<>>
        /\ ~fifo'.initialized
        /\ engine' = [at |-> 0, event |-> 0, irq |-> {}, error |-> FALSE, on |-> TRUE]
    BY <1>1 DEF BamTypes, FifoStates, ClientStates, Bp!PipeInit
  <2> QED
    BY <2>1 DEF BamInStep, RingSound, RingQuiet, TransferEnded
<1>2. CASE RingSound /\ Bp!bam_pipe_fifo_init
  <2>1. client.at = "reset" /\ RingQuiet /\ UNCHANGED <<slots, engine, told, processed>>
    BY <1>2 DEF Bp!bam_pipe_fifo_init, RingSound
  <2>2. CASE client' = [client EXCEPT !.at = "asserted"] /\ UNCHANGED fifo
    <3>1. client'.at = "asserted" /\ client'.added = client.added
      BY <2>2 DEF BamTypes, ClientStates
    <3> QED
      BY <2>1, <2>2, <3>1 DEF BamInStep, RingSound, RingQuiet, TransferEnded
  <2>3. CASE /\ Bp!ispow2(fifo.size) /\ client' = [client EXCEPT !.at = "ready"]
             /\ fifo' = [fifo EXCEPT !.current = 0, !.offset = 1, !.initialized = TRUE]
    <3>1. /\ fifo'.initialized /\ fifo'.offset = 1 /\ fifo'.current = 0 /\ fifo'.size = fifo.size
          /\ client'.at = "ready" /\ client'.added = 0 /\ told' = <<>> /\ processed' = <<>>
          /\ engine'.at = 0 /\ engine'.event = 0 /\ ~TransferEnded'
      BY <2>1, <2>3 DEF BamTypes, ClientStates, FifoStates, RingQuiet, TransferEnded
    <3>2. Bp!ispow2(fifo'.size)
      BY <2>3, <3>1
    <3>3. RingInStep'
      BY <1>0, <3>1, <3>2 DEF RingInStep, Around, Base
    <3> QED
      BY <3>1, <3>3 DEF BamInStep, RingSound
  <2> QED
    BY <1>2, <2>2, <2>3 DEF Bp!bam_pipe_fifo_init
<1> QED
  BY <1>1, <1>2

\* Places around the ring.
LEMMA AroundMoves ==
  ASSUME fifo.size \in Nat, fifo.size > 0, NEW b \in 0 .. fifo.size - 1, NEW i \in 0 .. fifo.size - 1
  PROVE  /\ Around(b) = b /\ Around(b + i) \in 0 .. fifo.size - 1
         /\ Around(b + i + 1) = IF Around(b + i) = fifo.size - 1 THEN 0 ELSE Around(b + i) + 1
         /\ Around(b + i + 1) = (Around(b + i) + 1) % fifo.size
         /\ Around(b + i + 1) = (b + i + 1) % fifo.size
         /\ \A j \in 0 .. fifo.size - 1 : j # i => Around(b + j) # Around(b + i)
<1> DEFINE n == fifo.size
           c == Around(b + i)
<1>1. n \in Nat /\ n > 0 /\ b \in 0 .. n - 1 /\ i \in 0 .. n - 1
  OBVIOUS
<1>2. \A x : Around(x) = IF x < n THEN x ELSE x - n
  BY DEF Around
<1> HIDE DEF n, c
<1>3. c = IF b + i < n THEN b + i ELSE b + i - n
  BY DEF c, n, Around
<1>4. c \in 0 .. n - 1 /\ Around(b) = b
  BY <1>1, <1>2, <1>3
<1>5. Around(b + i + 1) = IF c = n - 1 THEN 0 ELSE c + 1
  BY <1>1, <1>2, <1>3
<1>6. (c + 1) % n = IF c = n - 1 THEN 0 ELSE c + 1
  <2>1. c + 1 \in 0 .. 2 * n - 1
    BY <1>1, <1>4
  <2> QED
    BY <1>1, <1>4, <2>1, RoundOnce
<1>7. (b + i + 1) % n = IF b + i + 1 < n THEN b + i + 1 ELSE b + i + 1 - n
  <2>1. b + i + 1 \in 0 .. 2 * n - 1
    BY <1>1
  <2> QED
    BY <1>1, <2>1, RoundOnce
<1>8. \A j \in 0 .. n - 1 : j # i => Around(b + j) # c
  BY <1>1, <1>2, <1>3
<1> QED
  BY <1>2, <1>4, <1>5, <1>6, <1>7, <1>8 DEF n, c

LEMMA DescriptorAdded ==
  ASSUME BamInStep, BamTypes', NEW last \in BOOLEAN, NEW flag \in Bp!Flags,
         NEW others \in SUBSET Bp!OtherFlags, Bp!AddOne(last, flag, others), ~skipped'
  PROVE  BamInStep'
<1>0. fifo.size \in Nat /\ fifo.size > 0
  BY RingSize DEF BamInStep
<1>1. /\ client \in ClientStates /\ fifo \in FifoStates /\ slots \in [0 .. fifo.size - 1 -> Descriptors]
      /\ engine \in EngineStates /\ told \in Seq(Descriptors) /\ processed \in Seq(Descriptors)
      /\ client.added \in Nat
  BY DEF BamInStep, BamTypes, ClientStates
<1>2. UNCHANGED <<engine, told, processed>> /\ flag \in {"INT", "EOT"}
  BY DEF Bp!AddOne, Bp!Flags
<1>4. fifo.initialized
  BY DEF Bp!AddOne, Bp!bam_add_one_desc, Bp!Refused
<1> DEFINE n == client.added + 1
           desc == [round |-> client.round, k |-> n, flag |-> IF last THEN flag ELSE "none"]
<1>5. /\ client.at \in {"reset", "ready"} /\ client.added < fifo.size
      /\ client' = [client EXCEPT !.added = n, !.flag = flag,
                                  !.at = IF last THEN "added" ELSE client.at]
      /\ slots' = [slots EXCEPT ![fifo.current] = desc]
      /\ fifo' = [fifo EXCEPT !.current = Bp!fifo_getnext(fifo.current)]
  BY DEF Bp!AddOne, Bp!bam_add_one_desc
<1>6. BamInStep'
  <2>1. /\ client.at \in {"reset", "ready"} /\ client.added < fifo.size
        /\ slots' = [slots EXCEPT ![fifo.current] = desc]
        /\ fifo' = [fifo EXCEPT !.current = Bp!fifo_getnext(fifo.current)]
    BY <1>5
  <2>2. client.at = "ready" /\ RingInStep
    BY <1>4, <2>1 DEF BamInStep, RingSound, RingQuiet
  <2>3. /\ client'.added = n /\ client'.round = client.round /\ client' \in ClientStates
        /\ client'.at = (IF last THEN "added" ELSE "ready") /\ client'.flag = flag
    <3>1. client' \in ClientStates
      BY DEF BamTypes
    <3> HIDE DEF n
    <3> QED
      BY <1>1, <1>5, <2>2, <3>1 DEF ClientStates
  <2>0. client.added < fifo.size
    BY <2>1
  <2>4. fifo.offset \in 1 .. fifo.size /\ fifo.current = Around(Base + client.added)
        /\ Around(Base + client.added) \in 0 .. fifo.size - 1
    <3>1. fifo.offset \in 1 .. fifo.size /\ fifo.current = Around(Base + client.added)
      BY <2>2 DEF RingInStep
    <3>2. Base \in 0 .. fifo.size - 1 /\ client.added \in 0 .. fifo.size - 1
      BY <1>0, <1>1, <2>0, <3>1 DEF Base
    <3> QED
      BY <1>0, <3>1, <3>2, AroundMoves
  <2>b. Base \in 0 .. fifo.size - 1 /\ client.added \in 0 .. fifo.size - 1
    BY <1>0, <1>1, <2>0, <2>4 DEF Base
  <2>5. /\ fifo'.current = Around(Base + n) /\ fifo'.offset = fifo.offset /\ fifo'.size = fifo.size
        /\ fifo'.initialized = fifo.initialized /\ fifo' \in FifoStates
    <3>1. Bp!fifo_getnext(fifo.current) = Around(Base + n) /\ Around(Base + n) \in Nat
      <4>1. Base + n = Base + client.added + 1
        BY <1>0, <1>1, <2>b
      <4> DEFINE c == Around(Base + client.added)
      <4>2. Around(Base + client.added + 1) = IF c = fifo.size - 1 THEN 0 ELSE c + 1
        BY <1>0, <2>b, AroundMoves
      <4>3. c \in 0 .. fifo.size - 1 /\ fifo.current = c
        BY <2>4
      <4> HIDE DEF c
      <4>4. /\ Bp!fifo_getnext(fifo.current) = Around(Base + client.added + 1)
            /\ Around(Base + client.added + 1) \in Nat
        BY <1>0, <4>2, <4>3 DEF Bp!fifo_getnext
      <4> QED
        BY <4>1, <4>4
    <3> QED
      BY <1>1, <2>1, <3>1 DEF FifoStates
  <2>6. desc \in Descriptors
    BY <1>1, <1>2 DEF Descriptors, DescFlags, ClientStates
  <2> HIDE DEF desc
  <2>8. \A k \in 1 .. n : slots'[Around(Base + k - 1)] = Descriptor(k)'
    <3> SUFFICES ASSUME NEW k \in 1 .. n PROVE slots'[Around(Base + k - 1)] = Descriptor(k)'
      OBVIOUS
    <3>1. Descriptor(k)' = [round |-> client.round, k |-> k,
                            flag |-> IF k = n /\ last THEN flag ELSE "none"]
      BY <2>3 DEF Descriptor
    <3>2. CASE k = n
      <4>1. Around(Base + k - 1) = fifo.current
        BY <1>1, <2>4, <3>2 DEF Base
      <4> QED
        BY <1>1, <2>1, <2>4, <3>1, <3>2, <4>1 DEF desc
    <3>3. CASE k # n
      <4>1. k \in 1 .. client.added
        BY <1>1, <3>3
      <4>2. Around(Base + k - 1) # fifo.current /\ Around(Base + k - 1) \in 0 .. fifo.size - 1
        <5>1. k - 1 \in 0 .. fifo.size - 1 /\ k - 1 # client.added /\ Base + k - 1 = Base + (k - 1)
          BY <1>0, <1>1, <2>0, <2>b, <4>1
        <5> QED
          BY <1>0, <2>4, <2>b, <5>1, AroundMoves
      <4>3. slots[Around(Base + k - 1)] = [round |-> client.round, k |-> k, flag |-> "none"]
        BY <2>2, <4>1 DEF RingInStep, Descriptor
      <4> QED
        BY <1>1, <2>1, <3>1, <3>3, <4>2, <4>3
    <3> QED
      BY <3>2, <3>3
  <2>9. told = <<>> /\ Len(processed) = 0 /\ ~TransferEnded /\ Len(told) = 0
    BY <1>1, <2>2, EmptySeq, LenProperties DEF RingInStep
  <2>10. RingInStep'
    <3>1. \A i : Around(i)' = Around(i)
      BY <2>5 DEF Around
    <3>2. Base' = Base
      BY <2>5 DEF Base
    <3>3. \A k \in 1 .. client'.added : slots'[Around(Base + k - 1)'] = Descriptor(k)'
      BY <2>3, <2>5, <2>8 DEF Around, Base
    <3>4. /\ fifo'.initialized /\ fifo'.offset \in 1 .. fifo'.size
          /\ client'.added \in 0 .. fifo'.size /\ client'.added > 0
      BY <1>0, <1>1, <1>4, <2>b, <2>3, <2>4, <2>5
    <3>8. Bp!ispow2(fifo'.size)
      BY <2>2, <2>5 DEF RingInStep
    <3>7. fifo'.current = Around(Base + client.added)'
      BY <2>3, <2>5 DEF Around, Base
    <3>5. engine'.at = Around(Base + Len(processed))' /\ engine'.event = Around(Base + Len(told))'
      BY <1>2, <2>2, <2>5 DEF RingInStep, Around, Base
    <3>6. ~TransferEnded' /\ told' = <<>> /\ Len(processed') = 0 /\ Len(told') = 0 /\ client'.at # "done"
      BY <1>2, <2>3, <2>9 DEF TransferEnded
    <3> QED
      BY <3>3, <3>4, <3>5, <3>6, <3>7, <3>8 DEF RingInStep
  <2> QED
    BY <2>3, <2>10 DEF BamInStep, RingSound
<1> QED
  BY <1>6

LEMMA TransferAnnounced ==
  ASSUME BamInStep, BamTypes', Bp!bam_sys_gen_event
  PROVE  BamInStep'
<1>0. fifo.size \in Nat /\ fifo.size > 0
  BY RingSize DEF BamInStep
<1>1. /\ client \in ClientStates /\ fifo \in FifoStates /\ slots \in [0 .. fifo.size - 1 -> Descriptors]
      /\ engine \in EngineStates /\ told \in Seq(Descriptors) /\ processed \in Seq(Descriptors)
      /\ client.added \in Nat
  BY DEF BamInStep, BamTypes, ClientStates
<1>2. /\ client.at = "added" /\ client' = [client EXCEPT !.at = "waiting"]
      /\ UNCHANGED <<fifo, slots, processed>>
  BY DEF Bp!bam_sys_gen_event
<1>3. RingInStep
  BY <1>2 DEF BamInStep, RingSound
<1>4. told = <<>> /\ Len(told) = 0 /\ Len(processed) = 0 /\ ~TransferEnded /\ client.added > 0
  BY <1>1, <1>2, <1>3, EmptySeq, LenProperties DEF RingInStep
<1>5. /\ client' \in ClientStates /\ client'.at = "waiting" /\ client'.added = client.added
      /\ client'.round = client.round /\ client'.flag = client.flag
  BY <1>1, <1>2 DEF ClientStates, Places
<1>6. /\ \A k : Descriptor(k)' = Descriptor(k) /\ \A i : Around(i)' = Around(i)
      /\ Base' = Base
  BY <1>2, <1>5 DEF Descriptor, Around, Base
<1>7. CASE client.added >= fifo.size
  <2>1. UNCHANGED <<engine, told>>
    BY <1>7 DEF Bp!bam_sys_gen_event
  <2>2. RingInStep'
    BY <1>2, <1>3, <1>4, <1>5, <1>6, <2>1 DEF RingInStep, TransferEnded
  <2>3. BamTypes'
    OBVIOUS
  <2> QED
    BY <1>5, <2>2, <2>3 DEF BamInStep, RingSound
<1>8. CASE ~(client.added >= fifo.size)
  <2>1. /\ \E event \in Bp!EventOffset(client.added) : engine' = [engine EXCEPT !.event = event]
        /\ told' = [k \in 1 .. client.added |->
                      [round |-> client.round, k |-> k,
                       flag |-> IF k = client.added THEN client.flag ELSE "none"]]
    BY <1>8 DEF Bp!bam_sys_gen_event
  <2>2. client.added < fifo.size /\ client.added \in 1 .. fifo.size - 1 /\ Base \in 0 .. fifo.size - 1
        /\ fifo.offset \in 1 .. fifo.size
    BY <1>0, <1>1, <1>3, <1>4, <1>8 DEF RingInStep, Base
  <2>3. Bp!EventOffset(client.added) = {Around(Base + client.added)} /\ Around(Base + client.added) \in Nat
    <3>1. client.added - 1 \in 0 .. fifo.size - 1
          /\ Base + (client.added - 1) + 1 = Base + client.added
          /\ client.added - 1 + fifo.offset = Base + client.added
          /\ client.added \in 0 .. fifo.size - 1
      BY <1>0, <2>2 DEF Base
    <3>2. Around(Base + (client.added - 1) + 1) = (Base + (client.added - 1) + 1) % fifo.size
      BY <1>0, <2>2, <3>1, AroundMoves
    <3>3. Around(Base + client.added) \in 0 .. fifo.size - 1
      BY <1>0, <2>2, <3>1, AroundMoves
    <3>4. Bp!EventOffset(client.added) = {(client.added - 1 + fifo.offset) % fifo.size}
      BY <1>3 DEF RingInStep, Bp!EventOffset, Bp!Masked
    <3> QED
      BY <3>1, <3>2, <3>3, <3>4
  <2>4. engine' \in EngineStates /\ engine'.event = Around(Base + client.added) /\ engine'.at = engine.at
        /\ engine'.irq = engine.irq
    <3> DEFINE e == Around(Base + client.added)
    <3>1. e \in Nat /\ e = Around(Base + client.added)
      BY <2>3
    <3>2. engine' = [engine EXCEPT !.event = e]
      BY <2>1, <2>3
    <3> HIDE DEF e
    <3> QED
      BY <1>1, <3>1, <3>2 DEF EngineStates
  <2>5. told' = [k \in 1 .. client.added |-> Descriptor(k)]
    BY <1>2, <2>1 DEF Descriptor
  <2>6. told' \in Seq(Descriptors) /\ Len(told') = client.added
    <3>1. \A k \in 1 .. client.added : Descriptor(k) \in Descriptors
      BY <1>1 DEF Descriptor, Descriptors, DescFlags, ClientStates
    <3>2. told' \in [1 .. client.added -> Descriptors]
      BY <2>5, <3>1, Zenon
    <3> QED
      BY <1>1, <3>2, FunctionIsSeq
  <2>7. told' = [k \in 1 .. client'.added |-> Descriptor(k)'] /\ told' # <<>>
    <3>1. told' = [k \in 1 .. client'.added |-> Descriptor(k)']
      BY <1>5, <1>6, <2>5
    <3>2. told' = <<>> => Len(told') = 0
      OBVIOUS
    <3> QED
      BY <1>1, <1>4, <2>6, <3>1, <3>2
  <2>8. RingInStep'
    <3>1. /\ fifo'.initialized /\ fifo'.offset \in 1 .. fifo'.size /\ Bp!ispow2(fifo'.size)
          /\ client'.added \in 0 .. fifo'.size /\ client'.added > 0
      BY <1>2, <1>3, <1>4, <1>5 DEF RingInStep
    <3>5. /\ fifo'.current = Around(Base + client.added)'
          /\ \A k \in 1 .. client'.added : slots'[Around(Base + k - 1)'] = Descriptor(k)'
      BY <1>2, <1>3, <1>5, <1>6 DEF RingInStep
    <3>2. engine'.at = Around(Base + Len(processed))' /\ engine'.event = Around(Base + Len(told))'
      <4>1. engine.at = Around(Base + Len(processed))
        BY <1>3 DEF RingInStep
      <4> QED
        BY <1>2, <2>4, <2>6, <4>1 DEF Around, Base
    <3>3. ~TransferEnded' /\ client'.at = "waiting"
      BY <1>4, <1>5, <2>4 DEF TransferEnded
    <3>4. Len(processed') = 0 /\ Len(told') \in Nat /\ client'.added < fifo'.size
      BY <1>1, <1>2, <1>4, <1>5, <2>2, <2>6
    <3> QED
      BY <2>7, <3>1, <3>2, <3>3, <3>4, <3>5 DEF RingInStep
  <2>9. BamTypes'
    OBVIOUS
  <2> QED
    BY <1>5, <2>8, <2>9 DEF BamInStep, RingSound
<1> QED
  BY <1>7, <1>8

\* The engine moves only through what it was told of.
LEMMA EngineMoves ==
  ASSUME BamInStep, BamTypes', Bp!EngineStep \/ Bp!EngineEmpty \/ Bp!EngineError
  PROVE  BamInStep'
<1>0. fifo.size \in Nat /\ fifo.size > 0
  BY RingSize DEF BamInStep
<1>1. /\ client \in ClientStates /\ fifo \in FifoStates /\ slots \in [0 .. fifo.size - 1 -> Descriptors]
      /\ engine \in EngineStates /\ told \in Seq(Descriptors) /\ processed \in Seq(Descriptors)
      /\ client.added \in Nat /\ Len(processed) \in Nat /\ Len(told) \in Nat
  BY DEF BamInStep, BamTypes, ClientStates
<1>2. CASE Bp!EngineEmpty \/ Bp!EngineError
  <2>1. UNCHANGED <<fifo, slots, client, told, processed>> /\ engine' \in EngineStates
        /\ engine'.at = engine.at /\ engine'.event = engine.event /\ engine'.irq \subseteq engine.irq \cup {"P_OUT_OF_DESC"}
        /\ engine.irq \subseteq engine'.irq
    BY <1>1, <1>2 DEF Bp!EngineEmpty, Bp!EngineError, EngineStates
  <2>2. TransferEnded' <=> TransferEnded
    BY <2>1 DEF TransferEnded
  <2>3. BamTypes'
    OBVIOUS
  <2>4. /\ \A k : Descriptor(k)' = Descriptor(k)
        /\ \A i : Around(i)' = Around(i)
        /\ Base' = Base
    BY <2>1 DEF Descriptor, Around, Base
  <2>5. RingSound'
    BY <2>1, <2>2, <2>4 DEF BamInStep, RingSound, RingQuiet, RingInStep
  <2> QED
    BY <2>3, <2>5 DEF BamInStep
<1>3. CASE Bp!EngineStep
  <2> DEFINE k == Len(processed) + 1
             desc == slots[engine.at]
  <2>1. /\ engine.at # engine.event /\ processed' = Append(processed, desc)
        /\ engine' = [engine EXCEPT !.at = (@ + 1) % fifo.size,
                                    !.irq = IF desc.flag = "none" THEN @
                                            ELSE @ \cup {Bp!InterruptOf[desc.flag]}]
        /\ UNCHANGED <<fifo, slots, client, told>>
    BY <1>3 DEF Bp!EngineStep
  <2>2. RingInStep
    BY <2>1 DEF BamInStep, RingSound, RingQuiet
  <2>3. Len(processed) < Len(told) /\ ~TransferEnded /\ client.at # "done"
    <3>1. Len(processed) # Len(told) /\ Len(processed) <= Len(told)
      BY <2>1, <2>2 DEF RingInStep
    <3> QED
      BY <1>1, <2>2, <3>1 DEF RingInStep
  <2>4. told # <<>> /\ client.added < fifo.size /\ told = [i \in 1 .. client.added |-> Descriptor(i)]
        /\ Len(told) = client.added /\ client.at \notin {"ready", "added"}
    <3>1. told # <<>>
      BY <1>1, <2>3, EmptySeq
    <3>2. client.added < fifo.size /\ told = [i \in 1 .. client.added |-> Descriptor(i)]
      BY <2>2, <3>1 DEF RingInStep
    <3>3. client.at \notin {"ready", "added"}
      BY <2>2, <3>1 DEF RingInStep
    <3> QED
      BY <1>1, <3>1, <3>2, <3>3
  <2>5. Base \in 0 .. fifo.size - 1 /\ k \in 1 .. client.added /\ Len(processed) \in 0 .. fifo.size - 1
        /\ Base + k - 1 = Base + Len(processed) /\ Base + k = Base + Len(processed) + 1
    <3>1. fifo.offset \in 1 .. fifo.size
      BY <2>2 DEF RingInStep
    <3>2. k \in 1 .. client.added /\ Len(processed) \in 0 .. fifo.size - 1
      BY <1>0, <1>1, <2>3, <2>4
    <3> QED
      BY <1>0, <3>1, <3>2 DEF Base
  <2>6. engine.at = Around(Base + Len(processed)) /\ engine.at \in 0 .. fifo.size - 1
        /\ (engine.at + 1) % fifo.size = Around(Base + k)
        /\ Around(Base + k) \in Nat
    <3>1. engine.at = Around(Base + Len(processed))
      BY <2>2 DEF RingInStep
    <3>2. Around(Base + Len(processed)) \in 0 .. fifo.size - 1
          /\ Around(Base + Len(processed) + 1) = (Around(Base + Len(processed)) + 1) % fifo.size
      BY <1>0, <2>5, AroundMoves
    <3>3. (engine.at + 1) % fifo.size \in Nat
      BY <1>0, <3>1, <3>2, Division
    <3> QED
      BY <2>5, <3>1, <3>2, <3>3
  <2>7. desc = told[k] /\ desc = Descriptor(k) /\ desc \in Descriptors
    <3>1. slots[Around(Base + k - 1)] = Descriptor(k)
      BY <2>2, <2>5 DEF RingInStep
    <3>2. told[k] = Descriptor(k)
      BY <2>4, <2>5
    <3> QED
      BY <1>1, <2>5, <2>6, <3>1, <3>2
  <2>8. desc.flag \in {"INT", "EOT", "none"} /\ (desc.flag # "none" => k = Len(told))
    BY <2>4, <2>7 DEF Descriptor, Descriptors, DescFlags
  <2> HIDE DEF desc, k
  <2>9. /\ engine' \in EngineStates /\ engine'.at = Around(Base + k) /\ engine'.event = engine.event
        /\ engine'.irq \subseteq IF desc.flag = "none" THEN engine.irq
                                 ELSE {"P_PRCSD_DESC", "P_TRNSFR_END", "P_OUT_OF_DESC"}
    <3>1. desc.flag # "none" => Bp!InterruptOf[desc.flag] \in {"P_PRCSD_DESC", "P_TRNSFR_END"}
      BY <2>8 DEF Bp!InterruptOf
    <3> DEFINE next == (engine.at + 1) % fifo.size
               irq2 == IF desc.flag = "none" THEN engine.irq
                      ELSE engine.irq \cup {Bp!InterruptOf[desc.flag]}
    <3>2. next \in Nat /\ next = Around(Base + k)
      BY <2>6
    <3>3. irq2 \in SUBSET {"P_PRCSD_DESC", "P_TRNSFR_END", "P_OUT_OF_DESC"}
          /\ irq2 \subseteq IF desc.flag = "none" THEN engine.irq
                           ELSE {"P_PRCSD_DESC", "P_TRNSFR_END", "P_OUT_OF_DESC"}
      BY <1>1, <3>1 DEF EngineStates
    <3>4. engine' = [engine EXCEPT !.at = next, !.irq = irq2]
      BY <2>1
    <3> HIDE DEF next, irq2
    <3> QED
      BY <1>1, <3>2, <3>3, <3>4 DEF EngineStates
  <2>10. processed' \in Seq(Descriptors) /\ Len(processed') = k /\ processed'[k] = told[k]
         /\ \A i \in 1 .. k - 1 : processed'[i] = processed[i]
    BY <1>1, <2>1, <2>7 DEF k
  <2>11. BamTypes'
    OBVIOUS
  <2>12. RingInStep'
    <3>1. /\ \A i : Descriptor(i)' = Descriptor(i)
          /\ \A i : Around(i)' = Around(i) 
          /\ Base' = Base
      BY <2>1 DEF Descriptor, Around, Base
    <3>2. \A i \in 1 .. Len(processed') : processed'[i] = told'[i]
      <4>1. \A i \in 1 .. Len(processed) : processed[i] = told[i]
        BY <2>2 DEF RingInStep
      <4> QED
        BY <1>1, <2>1, <2>10, <4>1 DEF k
    <3>3. Len(processed') <= Len(told')
      <4>1. k \in 1 .. client.added /\ Len(processed') = k /\ told' = told /\ Len(told) = client.added
        BY <2>1, <2>4, <2>5, <2>10
      <4> QED
        BY <1>1, <4>1
    <3>4. engine'.at = Around(Base + Len(processed))' /\ engine'.event = Around(Base + Len(told))'
      <4>1. engine.event = Around(Base + Len(told))
        BY <2>2 DEF RingInStep
      <4> QED
        BY <2>1, <2>9, <2>10, <4>1 DEF Around, Base
    <3>5. TransferEnded' => Len(processed') = Len(told')
      BY <2>1, <2>3, <2>8, <2>9, <2>10 DEF TransferEnded
    <3>6. /\ fifo'.initialized /\ fifo'.offset \in 1 .. fifo'.size /\ Bp!ispow2(fifo'.size)
          /\ client'.added \in 0 .. fifo'.size /\ (client'.at # "ready" => client'.added > 0)
          /\ fifo'.current = Around(Base + client.added)'
          /\ \A i \in 1 .. client'.added : slots'[Around(Base + i - 1)'] = Descriptor(i)'
      BY <2>1, <2>2, <3>1 DEF RingInStep
    <3>7. client'.added < fifo'.size /\ told' # <<>> /\ told' = [i \in 1 .. client'.added |-> Descriptor(i)']
      BY <2>1, <2>4, <3>1
    <3> QED
      BY <2>1, <2>3, <2>4, <3>2, <3>3, <3>4, <3>5, <3>6, <3>7 DEF RingInStep
  <2>13. client'.at \notin {"idle", "reset", "asserted"}
    BY <2>1 DEF BamInStep, RingSound, RingQuiet
  <2> QED
    BY <2>11, <2>12, <2>13 DEF BamInStep, RingSound
<1> QED
  BY <1>2, <1>3

LEMMA WaitEnds ==
  ASSUME BamInStep, BamTypes', Bp!bam_wait_for_interrupt
  PROVE  BamInStep'
<1>1. /\ client \in ClientStates /\ fifo \in FifoStates /\ slots \in [0 .. fifo.size - 1 -> Descriptors]
      /\ engine \in EngineStates /\ told \in Seq(Descriptors) /\ processed \in Seq(Descriptors)
  BY DEF BamInStep, BamTypes
<1>2. client.at = "waiting" /\ UNCHANGED <<fifo, slots, told, processed>> /\ RingInStep
  BY DEF Bp!bam_wait_for_interrupt, BamInStep, RingSound
<1>3. CASE client' = [client EXCEPT !.at = "failed"] /\ UNCHANGED engine
  <2>1. /\ client' \in ClientStates /\ client'.at = "failed" /\ client'.added = client.added
        /\ client'.round = client.round /\ client'.flag = client.flag
    BY <1>1, <1>3 DEF ClientStates, Places
  <2>2. /\ \A k : Descriptor(k)' = Descriptor(k)
        /\ \A i : Around(i)' = Around(i)
        /\ Base' = Base
        /\ TransferEnded' = TransferEnded
    BY <1>2, <1>3, <2>1 DEF Descriptor, Around, Base, TransferEnded
  <2>3. RingInStep'
    BY <1>2, <1>3, <2>1, <2>2 DEF RingInStep
  <2>4. BamTypes'
    OBVIOUS
  <2> QED
    BY <2>1, <2>3, <2>4 DEF BamInStep, RingSound
<1>4. CASE /\ Bp!InterruptOf[client.flag] \in engine.irq
           /\ client' = [client EXCEPT !.at = "done"]
           /\ engine' = [engine EXCEPT !.irq = {}]
  <2>1. /\ client' \in ClientStates /\ client'.at = "done" /\ client'.added = client.added
        /\ client'.round = client.round /\ client'.flag = client.flag
    BY <1>1, <1>4 DEF ClientStates, Places
  <2>2. engine' \in EngineStates /\ engine'.at = engine.at /\ engine'.event = engine.event /\ engine'.irq = {}
    BY <1>1, <1>4 DEF EngineStates
  <2>3. TransferEnded
    <3>1. client.flag \in {"INT", "EOT"}
      BY <1>1 DEF ClientStates
    <3>2. Bp!InterruptOf[client.flag] \in {"P_PRCSD_DESC", "P_TRNSFR_END"}
      BY <3>1 DEF Bp!InterruptOf
    <3> QED
      BY <1>4, <3>2 DEF TransferEnded
  <2>4. told # <<>> /\ Len(processed) = Len(told) /\ ~TransferEnded'
    BY <1>2, <2>2, <2>3 DEF RingInStep, TransferEnded
  <2>5. /\ \A k : Descriptor(k)' = Descriptor(k)
        /\ \A i : Around(i)' = Around(i)
        /\ Base' = Base
    BY <1>2, <2>1 DEF Descriptor, Around, Base
  <2>6. RingInStep'
    BY <1>2, <2>1, <2>2, <2>4, <2>5 DEF RingInStep
  <2>7. BamTypes'
    OBVIOUS
  <2> QED
    BY <2>1, <2>6, <2>7 DEF BamInStep, RingSound
<1> QED
  BY <1>3, <1>4 DEF Bp!bam_wait_for_interrupt

LEMMA OffsetsRead ==
  ASSUME BamInStep, BamTypes', fifo.size <= Offsets, Bp!bam_read_offset_update
  PROVE  BamInStep'
<1>0. fifo.size \in Nat /\ fifo.size > 0
  BY RingSize DEF BamInStep
<1>1. /\ client \in ClientStates /\ fifo \in FifoStates /\ slots \in [0 .. fifo.size - 1 -> Descriptors]
      /\ engine \in EngineStates /\ told \in Seq(Descriptors) /\ processed \in Seq(Descriptors)
      /\ Len(told) \in Nat /\ engine.at \in Nat
  BY DEF BamInStep, BamTypes, EngineStates
<1>2. /\ client.at = "done" /\ UNCHANGED <<slots, engine>> /\ told' = <<>> /\ processed' = <<>>
      /\ fifo' = [fifo EXCEPT !.current = engine.at, !.offset = engine.at + 1]
      /\ client' = [client EXCEPT !.at = "ready", !.round = @ + 1, !.added = 0]
  <2>1. engine.at % Offsets = engine.at
    <3>1. Offsets \in Nat /\ Offsets > 0 /\ engine.at \in Nat /\ engine.at < Offsets
      BY <1>0, <1>1, DevicesAssumption DEF Bp!SizesAssumption, BamInStep, BamTypes
    <3> QED
      BY <3>1
  <2> QED
    BY <2>1 DEF Bp!bam_read_offset_update
<1>3. RingInStep
  BY <1>2 DEF BamInStep, RingSound
<1>4. /\ client' \in ClientStates /\ client'.at = "ready" /\ client'.added = 0
  <2>1. client.round + 1 \in Nat /\ 0 \in Nat /\ "ready" \in Places
    BY <1>1 DEF ClientStates, Places
  <2> QED
    BY <1>1, <1>2, <2>1 DEF ClientStates
<1>5. /\ fifo' \in FifoStates /\ fifo'.size = fifo.size /\ fifo'.current = engine.at
      /\ fifo'.offset = engine.at + 1 /\ fifo'.initialized = fifo.initialized
  <2>1. engine.at + 1 \in Nat
    BY <1>1
  <2> QED
    BY <1>1, <1>2, <2>1 DEF FifoStates
<1>6. told # <<>> /\ Len(processed) = Len(told) /\ ~TransferEnded
  BY <1>2, <1>3 DEF RingInStep
<1>7. engine.event = engine.at /\ engine.at \in 0 .. fifo.size - 1 /\ fifo.initialized
  <2>1. engine.event = engine.at /\ engine.at = Around(Base + Len(told)) /\ fifo.initialized
    BY <1>3, <1>6 DEF RingInStep
  <2>2. client.added < fifo.size /\ told = [k \in 1 .. client.added |-> Descriptor(k)]
        /\ fifo.offset \in 1 .. fifo.size /\ client.added \in 0 .. fifo.size
    BY <1>3, <1>6 DEF RingInStep
  <2>3. Len(told) = client.added
    BY <2>2
  <2>4. Base \in 0 .. fifo.size - 1 /\ client.added \in 0 .. fifo.size - 1
    BY <1>0, <2>2 DEF Base
  <2> QED
    BY <1>0, <2>1, <2>3, <2>4, AroundMoves
<1>8. BamTypes'
  <2>1. told' \in Seq(Descriptors) /\ processed' \in Seq(Descriptors)
    BY <1>2, EmptySeq
  <2> QED
    BY <1>1, <1>2, <1>4, <1>5, <2>1 DEF BamTypes
<1>9. RingInStep'
  <2>1. Len(told') = 0 /\ Len(processed') = 0 /\ ~TransferEnded'
    BY <1>2, <1>6 DEF TransferEnded
  <2>2. Base' = engine.at /\ (Base' + 0 = engine.at) /\ Around(engine.at)' = engine.at
    BY <1>0, <1>2, <1>5, <1>7 DEF Base, Around
  <2>3. fifo'.current = Around(Base + client.added)' /\ engine'.at = Around(Base + Len(processed))'
        /\ engine'.event = Around(Base + Len(told))'
    BY <1>2, <1>4, <1>5, <1>7, <2>1, <2>2 DEF Around
  <2>4. fifo'.initialized /\ fifo'.offset \in 1 .. fifo'.size /\ client'.added \in 0 .. fifo'.size
        /\ Bp!ispow2(fifo'.size)
    BY <1>0, <1>3, <1>4, <1>5, <1>7 DEF RingInStep
  <2> QED
    BY <1>2, <1>4, <2>1, <2>3, <2>4 DEF RingInStep
<1> QED
  BY <1>4, <1>8, <1>9 DEF BamInStep, RingSound

\* As long as no descriptor is refused, the engine works through those it was
\* told of, in their order, and a wait that succeeds has seen them all, on
\* every ring that the sixteen bits of an offset reach and through any number
\* of transfers (bam.c 67-451).
THEOREM TransfersInOrder == DevicesSpec => []TransferredInOrder
<1>1. Bp!Init => BamSound
  <2> SUFFICES ASSUME Bp!Init PROVE BamSound
    OBVIOUS
  <2>1. PICK size \in Sizes :
          /\ fifo = [size |-> size, current |-> 0, offset |-> 0, initialized |-> FALSE]
          /\ slots = [i \in 0 .. size - 1 |-> Bp!Nobody]
    BY DEF Bp!Init
  <2>2. /\ engine = [at |-> 0, event |-> 0, irq |-> {}, error |-> FALSE, on |-> FALSE]
        /\ client = [at |-> "idle", round |-> 0, added |-> 0, flag |-> "INT"]
        /\ told = <<>> /\ processed = <<>> /\ skipped = FALSE
    BY DEF Bp!Init
  <2>3. Bp!Nobody \in Descriptors
    BY DEF Bp!Nobody, Descriptors, DescFlags
  <2>4. slots \in [0 .. fifo.size - 1 -> Descriptors] /\ fifo \in FifoStates
    BY <2>1, <2>3 DEF FifoStates
  <2>5. engine \in EngineStates /\ client \in ClientStates
    BY <2>2 DEF EngineStates, ClientStates, Places
  <2>6. told \in Seq(Descriptors) /\ processed \in Seq(Descriptors)
    BY <2>2, EmptySeq
  <2>7. RingQuiet /\ client.at = "idle"
    BY <2>1, <2>2 DEF RingQuiet, TransferEnded
  <2>8. engine.at < fifo.size /\ engine.event < fifo.size
    <3>1. size \in Nat /\ size > 0
      BY DevicesAssumption DEF Bp!SizesAssumption
    <3> QED
      BY <2>1, <2>2, <3>1
  <2> QED
    BY <2>2, <2>4, <2>5, <2>6, <2>7, <2>8 DEF BamSound, BamTypes, RingSound
<1>2. BamSound /\ [Bp!BamStep]_(Bp!bvars) => BamSound'
  <2> SUFFICES ASSUME BamSound, [Bp!BamStep]_(Bp!bvars) PROVE BamSound'
    OBVIOUS
  <2>1. CASE UNCHANGED Bp!bvars
    BY <2>1 DEF Bp!bvars, BamSound, BamTypes, Kept, RingSound, RingQuiet, RingInStep, TransferEnded, Around,
                Base, Descriptor
  <2>2. CASE Bp!BamStep
    <3>1. BamTypes /\ BamTypes' /\ fifo'.size = fifo.size
      BY <2>2, BamTyped DEF BamSound
    <3>2. SUFFICES ASSUME Kept' PROVE RingSound'
      BY <3>1 DEF BamSound
    <3>3. CASE Bp!PipeInit
      BY <3>1, <3>3, RingSetUp DEF BamInStep
    <3>4. CASE ~Bp!PipeInit
      <4>1. ~skipped' /\ fifo.size <= Offsets
        BY <3>1, <3>2 DEF Kept
      <4>2. ~skipped
        <5>1. ASSUME NEW last \in BOOLEAN, NEW flag \in Bp!Flags, NEW others \in SUBSET Bp!OtherFlags,
                     Bp!AddOne(last, flag, others)
              PROVE  ~skipped
          BY <4>1, <5>1, Zenon DEF Bp!AddOne, Bp!bam_add_one_desc
        <5>2. CASE Bp!bam_pipe_fifo_init \/ Bp!bam_sys_gen_event \/ Bp!bam_wait_for_interrupt
          BY <4>1, <5>2, Zenon DEF Bp!bam_pipe_fifo_init, Bp!bam_sys_gen_event, Bp!bam_wait_for_interrupt
        <5>3. CASE Bp!bam_read_offset_update \/ Bp!EngineStep \/ Bp!EngineEmpty \/ Bp!EngineError
          BY <4>1, <5>3, Zenon
          DEF Bp!bam_read_offset_update, Bp!EngineStep, Bp!EngineEmpty, Bp!EngineError
        <5> QED
          BY <2>2, <3>4, <5>1, <5>2, <5>3 DEF Bp!BamStep
      <4>3. RingSound /\ BamInStep
        BY <4>1, <4>2 DEF BamSound, Kept, BamInStep
      <4>4. BamInStep'
        BY <2>2, <3>1, <3>4, <4>1, <4>3, RingSetUp, DescriptorAdded, TransferAnnounced, EngineMoves,
           WaitEnds, OffsetsRead
        DEF Bp!BamStep
      <4> QED
        BY <4>4 DEF BamInStep
    <3> QED
      BY <3>3, <3>4
  <2> QED
    BY <2>1, <2>2
<1>3. BamSound => TransferredInOrder
  <2> SUFFICES ASSUME BamSound, Kept PROVE TransferredInOrder
    BY DEF Kept, TransferredInOrder, Bp!TransferredInOrder
  <2> DEFINE n == Len(processed)
  <2>1. /\ told \in Seq(Descriptors) /\ processed \in Seq(Descriptors) /\ Len(told) \in Nat /\ n \in Nat
    BY DEF BamSound, BamTypes
  <2>2. /\ n <= Len(told) /\ \A k \in 1 .. n : processed[k] = told[k]
        /\ client.at = "done" => told # <<>> /\ n = Len(told)
    <3>1. CASE client.at \in {"idle", "reset", "asserted"}
      BY <2>1, <3>1, EmptySeq DEF BamSound, RingSound, RingQuiet
    <3>2. CASE client.at \notin {"idle", "reset", "asserted"}
      BY <3>2 DEF BamSound, RingSound, RingInStep
    <3> QED
      BY <3>1, <3>2
  <2> DEFINE front == SubSeq(told, 1, n)
  <2>3. front \in Seq(Descriptors) /\ Len(front) = n /\ \A k \in 1 .. n : front[k] = told[k]
    BY <2>1, <2>2
  <2>4. processed = front
    BY <2>1, <2>2, <2>3, SeqEqual
  <2>5. n = Len(told) => processed = told
    BY <2>1, <2>2, SeqEqual
  <2> QED
    BY <2>2, <2>4, <2>5 DEF TransferredInOrder, Bp!TransferredInOrder
<1>4. DevicesInit => Bp!Init
  BY DEF DevicesInit
<1>5. [DevicesNext]_vars => [Bp!BamStep]_(Bp!bvars)
  BY DEF DevicesNext, ClocksNext, BamNext, ConsoleNext, KeysNext, KeypadNext, vars, bvars, Bp!bvars
<1> QED
  BY <1>1, <1>2, <1>3, <1>4, <1>5, PTL DEF DevicesSpec

-----------------------------------------------------------------------------
(* KeypadDxe.                                                               *)

\* What the driver has of its controller at each point of its life, and that
\* only a driver with a timer event polls.
Starts == {Kp!StartSteps[i] : i \in 1 .. 9}
Before(i) == {Kp!StartSteps[j] : j \in 1 .. i - 1} \cap Kp!Obtained
BindingSound ==
  /\ life \in {"stopped", "running", "stopping", "faulted"} \cup Starts
  /\ life = "stopped" => have = {} /\ NotifyList = <<>> /\ ~signalled
  /\ \A i \in 1 .. 9 : life = Kp!StartSteps[i] => have = Before(i)
  /\ life \in {"running", "stopping"} => Kp!Obtained \ {"TimerEvent"} \subseteq have
  /\ armed => life # "stopping" /\ {"ConsoleIn", "TimerEvent"} \subseteq have

\* An owed notification is one of a listed registration for the key, and the
\* key is queued or the handler has it in hand before the registration.
Registrations == [key : Patterns, fn : Functions]
NotifyTypes ==
  /\ NotifyList \in Seq(Registrations) /\ EfiKeyQueueForNotify \in Seq(Kp!KeyData)
  /\ hand = [at |-> hand.at, key |-> hand.key, i |-> hand.i] /\ hand.i \in Nat
  /\ hand.at \in {"idle", "pop", "walk"} /\ (hand.at = "walk" => hand.i > 0)
Queued(key) == key \in Kp!ToSet(EfiKeyQueueForNotify)
ListedFor(o) == /\ o = <<o[1], o[2]>> /\ Kp!IsKeyRegistered(o[2].key, o[1])
                /\ \E i \in 1 .. Len(NotifyList) : NotifyList[i] = o[2]
NotifySound ==
  /\ NotifyTypes
  /\ \A o \in owed : (Queued(o[1]) \/ Kp!InHand(o)) /\ ListedFor(o)
  /\ EfiKeyQueueForNotify # <<>> => signalled \/ hand.at # "idle"

\* The parts of a start, by place.
LEMMA StartOrder ==
  /\ DOMAIN Kp!StartSteps = 1 .. 9 /\ Len(Kp!StartSteps) = 9
  /\ \A i \in 1 .. 9 : Kp!After(Kp!StartSteps[i]) = IF i = 9 THEN "running" ELSE Kp!StartSteps[i + 1]
  /\ \A i, j \in 1 .. 9 : Kp!StartSteps[i] = Kp!StartSteps[j] => i = j
  /\ \A i \in 1 .. 9 : Kp!StartSteps[i] \notin {"stopped", "running", "stopping", "faulted"}
  /\ Kp!StartSteps[1] = "KeypadDevice" /\ Kp!StartSteps[2] = "ConsoleIn" /\ Kp!StartSteps[5] = "TimerEvent"
  /\ Kp!StartSteps[6] = "SetTimer" /\ Kp!StartSteps[8] = "Reset" /\ Kp!StartSteps[9] = "protocols"
<1>1. Kp!StartSteps = <<"KeypadDevice", "ConsoleIn", "WaitForKey", "WaitForKeyEx", "TimerEvent",
                        "SetTimer", "KeyNotifyProcessEvent", "Reset", "protocols">>
  BY DEF Kp!StartSteps
<1>2. DOMAIN Kp!StartSteps = 1 .. 9 /\ Len(Kp!StartSteps) = 9
  BY <1>1
<1>3. \A i, j \in 1 .. 9 : Kp!StartSteps[i] = Kp!StartSteps[j] => i = j
  BY <1>1
<1>4. \A i \in 1 .. 9 : Kp!StartSteps[i] \notin {"stopped", "running", "stopping", "faulted"}
  BY <1>1
<1>5. ASSUME NEW i \in 1 .. 9
      PROVE  Kp!After(Kp!StartSteps[i]) = IF i = 9 THEN "running" ELSE Kp!StartSteps[i + 1]
  <2> DEFINE place == CHOOSE j \in 1 .. Len(Kp!StartSteps) : Kp!StartSteps[j] = Kp!StartSteps[i]
  <2>1. i \in 1 .. Len(Kp!StartSteps)
    BY <1>2
  <2>2. place \in 1 .. Len(Kp!StartSteps) /\ Kp!StartSteps[place] = Kp!StartSteps[i]
    BY <2>1
  <2>3. Kp!After(Kp!StartSteps[i])
          = IF place = Len(Kp!StartSteps) THEN "running" ELSE Kp!StartSteps[place + 1]
    BY DEF Kp!After
  <2> HIDE DEF place
  <2>4. place = i
    BY <1>2, <1>3, <2>2
  <2> QED
    BY <1>2, <2>3, <2>4
<1> QED
  BY <1>1, <1>2, <1>3, <1>4, <1>5

\* What has been obtained before a step, and after the last.
LEMMA StartObtains ==
  /\ Before(1) = {}
  /\ \A i \in 1 .. 8 : Before(i + 1) = Before(i) \cup ({Kp!StartSteps[i]} \cap Kp!Obtained)
  /\ Kp!Obtained = Before(9) \cup ({Kp!StartSteps[9]} \cap Kp!Obtained)
  /\ \A i \in 1 .. 9 : Before(i) \subseteq Kp!ErrorExit
  /\ {"ConsoleIn", "TimerEvent"} \subseteq Before(6)
  /\ "TimerEvent" \notin Before(2)
<1>1. Before(1) = {}
  BY DEF Before
<1>2. ASSUME NEW i \in 1 .. 8
      PROVE  Before(i + 1) = Before(i) \cup ({Kp!StartSteps[i]} \cap Kp!Obtained)
  BY DEF Before
<1>3. Kp!Obtained = Before(9) \cup ({Kp!StartSteps[9]} \cap Kp!Obtained)
  <2>1. Kp!Obtained \subseteq {Kp!StartSteps[j] : j \in 1 .. 9}
    BY StartOrder DEF Kp!Obtained
  <2> QED
    BY <2>1 DEF Before
<1>4. ASSUME NEW i \in 1 .. 9 PROVE Before(i) \subseteq Kp!ErrorExit
  <2>1. \A j \in 1 .. i - 1 : Kp!StartSteps[j] # "protocols"
    BY StartOrder
  <2> QED
    BY <2>1 DEF Before, Kp!ErrorExit
<1>5. {"ConsoleIn", "TimerEvent"} \subseteq Before(6)
  <2>1. {"ConsoleIn", "TimerEvent"} \subseteq Kp!Obtained
    BY StartOrder DEF Kp!Obtained
  <2>2. 2 \in 1 .. 6 - 1 /\ 5 \in 1 .. 6 - 1
    OBVIOUS
  <2> QED
    BY <2>1, <2>2, StartOrder DEF Before
<1>6. "TimerEvent" \notin Before(2)
  <2>1. 1 .. 2 - 1 = {1}
    OBVIOUS
  <2> QED
    BY <2>1, StartOrder DEF Before
<1> QED
  BY <1>1, <1>2, <1>3, <1>4, <1>5, <1>6

LEMMA StartStep ==
  ASSUME BindingSound, NEW i \in 1 .. 9, Kp!StartProceeds(Kp!StartSteps[i]) \/ Kp!StartFails(Kp!StartSteps[i])
  PROVE  BindingSound'
<1> DEFINE step == Kp!StartSteps[i]
<1>1. life = step /\ have = Before(i) /\ life \notin {"stopped", "running", "stopping", "faulted"}
  BY StartOrder DEF Kp!StartProceeds, Kp!StartFails, Kp!Starting, BindingSound
<1>2. CASE Kp!StartProceeds(step)
  <2>1. /\ life' = Kp!After(step) /\ have' = have \cup ({step} \cap Kp!Obtained)
        /\ armed' = (armed \/ step = "SetTimer") /\ UNCHANGED <<signalled, NotifyList>>
    BY <1>2 DEF Kp!StartProceeds
  <2>2. CASE i = 9
    <3>1. life' = "running" /\ have' = Kp!Obtained
      BY <1>1, <2>1, <2>2, StartOrder, StartObtains
    <3>2. armed' => armed
      BY <2>1, <2>2, StartOrder
    <3> QED
      BY <2>1, <3>1, <3>2, StartOrder DEF BindingSound
  <2>3. CASE i # 9
    <3>1. i + 1 \in 1 .. 9 /\ life' = Kp!StartSteps[i + 1] /\ have' = Before(i + 1)
      BY <1>1, <2>1, <2>3, StartOrder, StartObtains
    <3>2. ASSUME NEW j \in 1 .. 9, life' = Kp!StartSteps[j] PROVE have' = Before(j)
      BY <3>1, <3>2, StartOrder
    <3>3. step = "SetTimer" => {"ConsoleIn", "TimerEvent"} \subseteq have'
      BY <1>1, <2>1, StartOrder, StartObtains
    <3>4. armed' => {"ConsoleIn", "TimerEvent"} \subseteq have'
      BY <2>1, <3>3 DEF BindingSound
    <3>5. life' \in Starts /\ life' \notin {"stopped", "running", "stopping", "faulted"}
      BY <3>1, StartOrder DEF Starts
    <3> QED
      BY <3>2, <3>4, <3>5 DEF BindingSound
  <2> QED
    BY <2>2, <2>3
<1>3. CASE Kp!StartFails(step)
  <2>1. /\ life' = IF step = "KeypadDevice" THEN "stopped" ELSE IF step = "ConsoleIn" THEN "faulted" ELSE "stopped"
        /\ have' = IF step = "ConsoleIn" THEN have ELSE have \ Kp!ErrorExit
        /\ armed' = (armed /\ "TimerEvent" \in have') /\ NotifyList' = <<>> /\ signalled' = FALSE
    BY <1>3 DEF Kp!StartFails, Kp!Freed
  <2>2. CASE step = "ConsoleIn"
    <3>1. i = 2 /\ have = Before(2) /\ ~armed
      BY <1>1, <2>2, StartOrder, StartObtains DEF BindingSound
    <3> QED
      BY <2>1, <2>2, <3>1, StartOrder DEF BindingSound
  <2>3. CASE step # "ConsoleIn"
    <3>1. life' = "stopped" /\ have' = {}
      BY <1>1, <2>1, <2>3, StartObtains
    <3> QED
      BY <2>1, <3>1, StartOrder DEF BindingSound
  <2> QED
    BY <2>2, <2>3
<1> QED
  BY <1>2, <1>3

LEMMA KeypadBinding ==
  ASSUME BindingSound, [Kp!KeypadStep]_(Kp!kvars)
  PROVE  BindingSound'
<1>1. CASE Kp!StartBegins
  <2>1. life = "stopped" /\ life' = Kp!StartSteps[1] /\ UNCHANGED <<have, armed>> /\ 1 \in 1 .. 9
    BY <1>1, StartOrder DEF Kp!StartBegins
  <2>2. have = Before(1) /\ life' \in Starts
    BY <2>1, StartObtains DEF BindingSound, Starts
  <2>3. ASSUME NEW j \in 1 .. 9, life' = Kp!StartSteps[j] PROVE have' = Before(j)
    BY <2>1, <2>2, <2>3, StartOrder
  <2>4. life' \notin {"stopped", "running", "stopping", "faulted"}
    BY <2>1, StartOrder
  <2> QED
    BY <2>1, <2>2, <2>3, <2>4 DEF BindingSound
<1>2. CASE Kp!StopBegins
  BY <1>2, StartOrder DEF Kp!StopBegins, Kp!Serving, BindingSound
<1>3. CASE Kp!StopEnds
  <2>1. life = "stopping" /\ armed' = armed
        /\ \/ life' = "running" /\ UNCHANGED have
           \/ life' = "stopped" /\ have' = {} /\ NotifyList' = <<>> /\ signalled' = FALSE /\ ~armed
    <3>1. life = "stopping" => ~armed
      BY DEF BindingSound
    <3> QED
      BY <1>3, <3>1 DEF Kp!StopEnds, Kp!Freed
  <2> QED
    BY <2>1, StartOrder DEF BindingSound
<1>4. CASE UNCHANGED Kp!kvars
  BY <1>4 DEF Kp!kvars, BindingSound
<1>5. CASE Kp!KeypadTimerHandler
  <2>1. armed /\ UNCHANGED <<life, have, armed, NotifyList>>
    BY <1>5 DEF Kp!KeypadTimerHandler, Kp!lvars
  <2>2. life # "stopped"
    BY <2>1 DEF BindingSound
  <2> QED
    BY <2>1, <2>2 DEF BindingSound
<1>6. CASE Kp!KeyNotifyProcessHandler
  <2>1. UNCHANGED <<life, have, armed, NotifyList>> /\ (signalled' => signalled)
    BY <1>6 DEF Kp!KeyNotifyProcessHandler, Kp!HandlerStarts, Kp!HandlerPops, Kp!HandlerWalks, Kp!lvars
  <2> QED
    BY <2>1 DEF BindingSound
<1>7. CASE \/ Kp!KeypadReadKeyStrokeEx \/ Kp!KeypadReadKeyStroke \/ Kp!KeypadWaitForKey
           \/ Kp!KeypadEfiReset \/ Kp!KeypadSetState \/ Kp!KeypadRegisterKeyNotify
           \/ Kp!KeypadUnregisterKeyNotify
  <2>1. life = "running" /\ UNCHANGED <<life, have, armed>>
    BY <1>7 DEF Kp!KeypadReadKeyStrokeEx, Kp!KeypadReadKeyStroke, Kp!KeypadWaitForKey, Kp!KeypadEfiReset,
                Kp!KeypadSetState, Kp!KeypadRegisterKeyNotify, Kp!KeypadUnregisterKeyNotify, Kp!Calls,
                Kp!Serving, Kp!lvars
  <2> QED
    BY <2>1 DEF BindingSound
<1> QED
  BY <1>1, <1>2, <1>3, <1>4, <1>5, <1>6, <1>7, StartStep, StartOrder DEF Kp!KeypadStep, Kp!Binding

\* Whatever step a start fails at, and whether or not a stop is refused, a
\* stopped driver holds nothing, polls nothing and has nobody registered
\* (Keypad.c 214-514).
THEOREM KeypadLeavesNothing == DevicesSpec => []NothingLeftBehind
<1>1. Kp!Init => BindingSound
  BY StartOrder DEF Kp!Init, BindingSound
<1>2. BindingSound /\ [Kp!KeypadStep]_(Kp!kvars) => BindingSound'
  BY KeypadBinding
<1>3. BindingSound => NothingLeftBehind
  BY DEF BindingSound, NothingLeftBehind, Kp!NothingLeftBehind
<1>4. DevicesInit => Kp!Init
  BY DEF DevicesInit
<1>5. [DevicesNext]_vars => [Kp!KeypadStep]_(Kp!kvars)
  BY DEF DevicesNext, ClocksNext, BamNext, ConsoleNext, KeysNext, KeypadNext, vars, kvars, Kp!kvars
<1> QED
  BY <1>1, <1>2, <1>3, <1>4, <1>5, PTL DEF DevicesSpec

\* The sequences of a sequence one after the other: a function that stands
\* for the concatenation of the first of them exists for every number.
LEMMA FlattenExists ==
  ASSUME NEW g, NEW n \in Nat
  PROVE  \E f : f = [i \in 1 .. n |-> IF i = 1 THEN g[i] ELSE f[i - 1] \o g[i]]
<1> DEFINE Up(f, m) == f = [i \in 1 .. m |-> IF i = 1 THEN g[i] ELSE f[i - 1] \o g[i]]
           S == {m \in Nat : \E f : Up(f, m)}
<1>1. 0 \in S
  <2>1. Up([i \in 1 .. 0 |-> 0], 0)
    OBVIOUS
  <2> QED
    BY <2>1
<1>2. ASSUME NEW m \in Nat, m \in S PROVE m + 1 \in S
  <2>1. PICK f : Up(f, m)
    BY <1>2
  <2> DEFINE h == [i \in 1 .. m + 1 |-> IF i = m + 1 THEN IF i = 1 THEN g[i] ELSE f[i - 1] \o g[i] ELSE f[i]]
  <2>2. \A i \in 1 .. m : f[i] = IF i = 1 THEN g[i] ELSE f[i - 1] \o g[i]
    BY <2>1
  <2>3. ASSUME NEW i \in 1 .. m + 1 PROVE h[i] = IF i = 1 THEN g[i] ELSE h[i - 1] \o g[i]
    <3>1. i # 1 => i - 1 \in 1 .. m /\ h[i - 1] = f[i - 1]
      OBVIOUS
    <3>2. i # m + 1 => i \in 1 .. m /\ h[i] = f[i]
      OBVIOUS
    <3>3. i = m + 1 => h[i] = IF i = 1 THEN g[i] ELSE f[i - 1] \o g[i]
      OBVIOUS
    <3> HIDE DEF h
    <3> QED
      BY <2>2, <3>1, <3>2, <3>3
  <2>4. Up(h, m + 1)
    <3>1. h = [i \in 1 .. m + 1 |-> h[i]]
      OBVIOUS
    <3> HIDE DEF h
    <3> QED
      BY <2>3, <3>1
  <2>5. m + 1 \in Nat
    OBVIOUS
  <2> HIDE DEF Up, h
  <2> QED
    BY <2>4, <2>5
<1>3. n \in S
  <2> HIDE DEF S
  <2> QED
    BY <1>1, <1>2, NatInductionSet
<1> QED
  BY <1>3

\* It holds the elements of every one of them and no others.
LEMMA FlattenProperties ==
  ASSUME NEW S, NEW n \in Nat, NEW g \in [1 .. n -> Seq(S)]
  PROVE  /\ Kp!FlattenSeq(g) \in Seq(S)
         /\ \A j \in 1 .. n : \A i \in 1 .. Len(g[j]) : g[j][i] \in Kp!ToSet(Kp!FlattenSeq(g))
<1>1. g \in Seq(Seq(S)) /\ Len(g) = n
  BY FunctionIsSeq
<1>2. CASE n = 0
  <2>1. g = <<>>
    BY <1>1, <1>2, EmptySeq
  <2>2. Kp!FlattenSeq(g) = g
    BY <1>1, <1>2 DEF Kp!FlattenSeq
  <2>3. Kp!FlattenSeq(g) = <<>>
    BY <2>1, <2>2
  <2>4. <<>> \in Seq(S) /\ 1 .. n = {}
    BY <1>2, EmptySeq
  <2> QED
    BY <2>3, <2>4
<1>3. CASE n > 0
  <2> DEFINE f == CHOOSE f : f = [i \in 1 .. n |-> IF i = 1 THEN g[i] ELSE f[i - 1] \o g[i]]
  <2>1. f = [i \in 1 .. n |-> IF i = 1 THEN g[i] ELSE f[i - 1] \o g[i]]
    BY FlattenExists
  <2>2. Kp!FlattenSeq(g) = f[n]
    BY <1>1, <1>3 DEF Kp!FlattenSeq
  <2> HIDE DEF f
  <2>9. \A i \in 1 .. n : f[i] = IF i = 1 THEN g[i] ELSE f[i - 1] \o g[i]
    BY <2>1
  <2> DEFINE Holds(m) == /\ f[m] \in Seq(S)
                         /\ \A j \in 1 .. m : \A i \in 1 .. Len(g[j]) : \E k \in 1 .. Len(f[m]) : f[m][k] = g[j][i]
             T == {m \in Nat : m \in 1 .. n => Holds(m)}
  <2>3. 0 \in T
    OBVIOUS
  <2>4. ASSUME NEW m \in Nat, m \in 1 .. n => Holds(m), m + 1 \in 1 .. n PROVE Holds(m + 1)
    <3> HIDE DEF Holds
    <3>1. CASE m = 0
      <4>1. f[1] = g[1] /\ g[1] \in Seq(S)
        BY <1>3, <2>9
      <4>2. 1 .. 1 = {1}
        OBVIOUS
      <4>3. Holds(1)
        BY <4>1, <4>2 DEF Holds
      <4>4. m + 1 = 1
        BY <3>1
      <4> QED
        BY <4>3, <4>4
    <3>2. CASE m # 0
      <4>1. m \in 1 .. n /\ Holds(m)
        BY <2>4, <3>2
      <4> DEFINE a == f[m]
                 b == g[m + 1]
                 c == f[m + 1]
      <4>2. c = a \o b /\ b \in Seq(S) /\ a \in Seq(S)
        <5>1. c = IF m + 1 = 1 THEN g[m + 1] ELSE f[m + 1 - 1] \o g[m + 1]
          BY <2>4, <2>9
        <5>2. m + 1 # 1 /\ m + 1 - 1 = m
          BY <3>2
        <5> QED
          BY <2>4, <4>1, <5>1, <5>2 DEF Holds
      <4> HIDE DEF a, b, c
      <4>3. /\ c \in Seq(S) /\ Len(c) = Len(a) + Len(b)
            /\ \A i \in 1 .. Len(a) + Len(b) : c[i] = IF i <= Len(a) THEN a[i] ELSE b[i - Len(a)]
        BY <4>2, ConcatProperties
      <4>4. Len(a) \in Nat /\ Len(b) \in Nat
        BY <4>2, LenProperties
      <4>5. ASSUME NEW j \in 1 .. m + 1, NEW i \in 1 .. Len(g[j])
            PROVE  \E k \in 1 .. Len(c) : c[k] = g[j][i]
        <5>1. CASE j = m + 1
          <6>1. i \in 1 .. Len(b) /\ g[j][i] = b[i]
            BY <5>1 DEF b
          <6>2. Len(a) + i \in 1 .. Len(c) /\ c[Len(a) + i] = b[i]
            <7>1. PICK la \in Nat, lb \in Nat : la = Len(a) /\ lb = Len(b)
              BY <4>4
            <7>2. la + i \in 1 .. la + lb /\ ~(la + i <= la) /\ la + i - la = i
              BY ONLY <6>1, <7>1
            <7>3. /\ Len(c) = la + lb
                  /\ \A q \in 1 .. la + lb : c[q] = IF q <= la THEN a[q] ELSE b[q - la]
              BY ONLY <4>3, <7>1
            <7>4. c[la + i] = b[la + i - la]
              BY ONLY <7>2, <7>3
            <7>5. b[la + i - la] = b[i]
              BY ONLY <7>2
            <7> QED
              BY ONLY <7>1, <7>2, <7>3, <7>4, <7>5
          <6> QED
            BY <6>1, <6>2
        <5>2. CASE j # m + 1
          <6>1. j \in 1 .. m
            BY <5>2
          <6>2. PICK k \in 1 .. Len(a) : a[k] = g[j][i]
            BY <4>1, <6>1 DEF Holds, a
          <6>3. k \in 1 .. Len(c) /\ c[k] = a[k]
            BY <4>3, <4>4, <6>2
          <6> QED
            BY <6>2, <6>3
        <5> QED
          BY <5>1, <5>2
      <4> QED
        BY <4>3, <4>5 DEF Holds, c
    <3> QED
      BY <3>1, <3>2
  <2>5. n \in T
    <3> HIDE DEF Holds
    <3>1. \A m \in Nat : m \in T => m + 1 \in T
      BY <2>4
    <3> HIDE DEF T
    <3> QED
      BY <2>3, <3>1, NatInductionSet
  <2>6. Holds(n)
    BY <1>3, <2>5
  <2>7. DOMAIN f[n] = 1 .. Len(f[n])
    BY <2>6, LenProperties
  <2> QED
    BY <2>2, <2>6, <2>7 DEF Kp!ToSet
<1> QED
  BY <1>2, <1>3

LEMMA KpCardinality == \A S : Kp!Cardinality(S) = Cardinality(S)
  BY DEF Kp!Cardinality, Cardinality

\* What a poll adds: the keys that have a registration are queued, in a full
\* queue without the oldest, and no others.
LEMMA KeysPushed ==
  ASSUME NotifySound, NEW pushed \in Kp!Polls, Kp!PushForNotify(pushed), UNCHANGED <<hand, NotifyList>>
  PROVE  NotifySound'
<1> DEFINE for(key) == IF Kp!Taken(key) THEN Kp!Matching(key) ELSE {}
           g == [j \in 1 .. Len(pushed) |-> [c \in 1 .. Kp!Cardinality(for(pushed[j])) |-> pushed[j]]]
           copies == Kp!FlattenSeq(g)
           lost == Len(EfiKeyQueueForNotify) + Len(copies) > Capacity
           due == owed \cup UNION {{<<k, NotifyList[i]>> : i \in for(k)} : k \in Kp!ToSet(pushed)}
           all == EfiKeyQueueForNotify \o copies
<1>1. /\ EfiKeyQueueForNotify' = Kp!Pushed(EfiKeyQueueForNotify, copies)
      /\ signalled' = (signalled \/ copies # <<>>)
      /\ owed' = {o \in due : lost => o[1] \in Kp!ToSet(EfiKeyQueueForNotify') \/ Kp!InHand(o)}
  BY DEF Kp!PushForNotify
<1>2. pushed \in Seq(Kp!KeyData) /\ Len(pushed) \in Nat /\ Kp!ToSet(pushed) = {pushed[j] : j \in 1 .. Len(pushed)}
  <2>1. PICK n \in 0 .. MaxPoll : pushed \in [1 .. n -> Kp!KeyData]
    BY DEF Kp!Polls
  <2>2. n \in Nat
    BY DevicesAssumption DEF Kp!QueuesAssumption
  <2>3. pushed \in Seq(Kp!KeyData) /\ Len(pushed) = n
    BY <2>1, <2>2, FunctionIsSeq
  <2> QED
    BY <2>2, <2>3, LenProperties DEF Kp!ToSet
<1>3. ASSUME NEW key PROVE IsFiniteSet(for(key)) /\ for(key) \subseteq 1 .. Len(NotifyList)
  <2>1. for(key) \subseteq 1 .. Len(NotifyList)
    BY DEF Kp!Matching
  <2>2. Len(NotifyList) \in Nat
    BY LenProperties DEF NotifySound, NotifyTypes
  <2>3. IsFiniteSet(1 .. Len(NotifyList))
    BY <2>2, FS_Interval
  <2> HIDE DEF for
  <2> QED
    BY <2>1, <2>3, FS_Subset
<1>4. ASSUME NEW key
      PROVE  Kp!Cardinality(for(key)) \in Nat /\ (for(key) # {} => Kp!Cardinality(for(key)) > 0)
  BY <1>3, FS_CardinalityType, FS_EmptySet, KpCardinality
<1>5. \A key : \A i \in for(key) : Kp!IsKeyRegistered(NotifyList[i].key, key)
  BY DEF Kp!Matching
<1> HIDE DEF for
<1>6. /\ g \in [1 .. Len(pushed) -> Seq(Kp!KeyData)]
      /\ \A j \in 1 .. Len(pushed) : for(pushed[j]) # {} => 1 \in 1 .. Len(g[j]) /\ g[j][1] = pushed[j]
  <2>1. ASSUME NEW j \in 1 .. Len(pushed)
        PROVE  /\ g[j] \in Seq(Kp!KeyData)
               /\ for(pushed[j]) # {} => 1 \in 1 .. Len(g[j]) /\ g[j][1] = pushed[j]
    <3> DEFINE n == Kp!Cardinality(for(pushed[j]))
    <3>1. n \in Nat /\ (for(pushed[j]) # {} => n > 0)
      BY <1>4
    <3>2. g[j] = [c \in 1 .. n |-> pushed[j]] /\ pushed[j] \in Kp!KeyData
      BY <1>2
    <3> HIDE DEF n, g
    <3>3. g[j] \in [1 .. n -> Kp!KeyData]
      BY <3>2
    <3>4. g[j] \in Seq(Kp!KeyData) /\ Len(g[j]) = n
      BY <3>1, <3>3, FunctionIsSeq
    <3> QED
      BY <3>1, <3>2, <3>4
  <2> QED
    BY <2>1
<1> HIDE DEF g
<1>7. copies \in Seq(Kp!KeyData)
      /\ \A k \in Kp!ToSet(pushed) : for(k) # {} => k \in Kp!ToSet(copies)
  <2>1. /\ copies \in Seq(Kp!KeyData)
        /\ \A j \in 1 .. Len(pushed) : \A i \in 1 .. Len(g[j]) : g[j][i] \in Kp!ToSet(copies)
    BY <1>2, <1>6, FlattenProperties
  <2>2. ASSUME NEW k \in Kp!ToSet(pushed), for(k) # {} PROVE k \in Kp!ToSet(copies)
    <3>1. PICK j \in 1 .. Len(pushed) : k = pushed[j]
      BY <1>2
    <3>2. 1 \in 1 .. Len(g[j]) /\ g[j][1] = k
      BY <1>6, <2>2, <3>1
    <3>3. g[j][1] \in Kp!ToSet(copies)
      BY <2>1, <3>2
    <3> QED
      BY <3>2, <3>3
  <2> QED
    BY <2>1, <2>2
<1> HIDE DEF copies
<1>8. /\ all \in Seq(Kp!KeyData) /\ Len(all) = Len(EfiKeyQueueForNotify) + Len(copies)
      /\ \A k : k \in Kp!ToSet(EfiKeyQueueForNotify) \/ k \in Kp!ToSet(copies) => k \in Kp!ToSet(all)
      /\ all # <<>> => EfiKeyQueueForNotify # <<>> \/ copies # <<>>
  <2>1. EfiKeyQueueForNotify \in Seq(Kp!KeyData)
    BY DEF NotifySound, NotifyTypes
  <2> DEFINE q == EfiKeyQueueForNotify
  <2>2. /\ all \in Seq(Kp!KeyData) /\ Len(all) = Len(q) + Len(copies)
        /\ \A i \in 1 .. Len(q) + Len(copies) : all[i] = IF i <= Len(q) THEN q[i] ELSE copies[i - Len(q)]
    BY <1>7, <2>1, ConcatProperties
  <2>3. /\ Len(q) \in Nat /\ Len(copies) \in Nat
        /\ DOMAIN q = 1 .. Len(q) /\ DOMAIN copies = 1 .. Len(copies) /\ DOMAIN all = 1 .. Len(all)
    BY <1>7, <2>1, <2>2, LenProperties
  <2> HIDE DEF all, q
  <2>4. ASSUME NEW k \in Kp!ToSet(q) PROVE k \in Kp!ToSet(all)
    <3>1. PICK i \in 1 .. Len(q) : q[i] = k
      BY <2>3, <2>4 DEF Kp!ToSet
    <3>2. i \in 1 .. Len(all) /\ all[i] = k
      BY <2>2, <2>3, <3>1
    <3> QED
      BY <2>3, <3>2 DEF Kp!ToSet
  <2>5. ASSUME NEW k \in Kp!ToSet(copies) PROVE k \in Kp!ToSet(all)
    <3>1. PICK i \in 1 .. Len(copies) : copies[i] = k
      BY <2>3, <2>5 DEF Kp!ToSet
    <3>2. Len(q) + i \in 1 .. Len(all) /\ all[Len(q) + i] = k
      BY <2>2, <2>3, <3>1
    <3> QED
      BY <2>3, <3>2 DEF Kp!ToSet
  <2>6. all # <<>> => q # <<>> \/ copies # <<>>
    BY <2>2, <2>3, EmptySeq
  <2> QED
    BY <2>2, <2>4, <2>5, <2>6 DEF q
<1> HIDE DEF all
<1>9. /\ EfiKeyQueueForNotify' \in Seq(Kp!KeyData)
      /\ ~lost => EfiKeyQueueForNotify' = all
      /\ EfiKeyQueueForNotify' # <<>> => all # <<>>
  <2>1. CASE Len(all) > Capacity
    <3>1. EfiKeyQueueForNotify' = SubSeq(all, Len(all) - Capacity + 1, Len(all))
      BY <1>1, <2>1 DEF Kp!Pushed, all
    <3>2. Capacity \in Nat /\ Len(all) \in Nat /\ all # <<>>
      BY <1>8, <2>1, DevicesAssumption, LenProperties, EmptySeq DEF Kp!QueuesAssumption
    <3>3. \A i \in Len(all) - Capacity + 1 .. Len(all) : all[i] \in Kp!KeyData
      BY <1>8, <2>1, <3>2, LenProperties
    <3>4. SubSeq(all, Len(all) - Capacity + 1, Len(all)) \in Seq(Kp!KeyData)
      BY <3>2, <3>3, SubSeqProperties
    <3>5. lost
      BY <1>8, <2>1
    <3> QED
      BY <3>1, <3>2, <3>4, <3>5
  <2>2. CASE ~(Len(all) > Capacity)
    <3>1. EfiKeyQueueForNotify' = all
      BY <1>1, <2>2 DEF Kp!Pushed, all
    <3> QED
      BY <1>8, <3>1
  <2> QED
    BY <2>1, <2>2
<1>10. ASSUME NEW o \in owed' PROVE (Queued(o[1])' \/ Kp!InHand(o)') /\ ListedFor(o)'
  <2>1. Kp!InHand(o)' <=> Kp!InHand(o)
    BY DEF Kp!InHand
  <2>2. ListedFor(o)' <=> ListedFor(o)
    BY DEF ListedFor
  <2>3. o \in due /\ (lost => o[1] \in Kp!ToSet(EfiKeyQueueForNotify') \/ Kp!InHand(o))
    BY <1>1, <1>10
  <2>4. CASE o \in owed
    <3>1. (Queued(o[1]) \/ Kp!InHand(o)) /\ ListedFor(o)
      BY <2>4 DEF NotifySound
    <3>2. ~lost /\ Queued(o[1]) => Queued(o[1])'
      BY <1>8, <1>9 DEF Queued
    <3> QED
      BY <2>1, <2>2, <2>3, <3>1, <3>2 DEF Queued
  <2>5. CASE o \notin owed
    <3>1. PICK k \in Kp!ToSet(pushed) : \E i \in for(k) : o = <<k, NotifyList[i]>>
      BY <2>3, <2>5
    <3>0. PICK i \in for(k) : o = <<k, NotifyList[i]>>
      BY <3>1
    <3>2. o[1] = k /\ o[2] = NotifyList[i] /\ i \in 1 .. Len(NotifyList)
      BY <1>3, <3>0
    <3>3. ListedFor(o)
      <4>1. Kp!IsKeyRegistered(o[2].key, o[1])
        BY <1>5, <3>0, <3>2
      <4>2. o = <<o[1], o[2]>>
        BY <3>0
      <4> QED
        BY <3>2, <4>1, <4>2 DEF ListedFor
    <3>4. k \in Kp!ToSet(all)
      BY <1>7, <1>8, <3>0, <3>1
    <3>5. ~lost => Queued(o[1])'
      BY <1>9, <3>2, <3>4 DEF Queued
    <3> QED
      BY <2>1, <2>2, <2>3, <3>3, <3>5 DEF Queued
  <2> QED
    BY <2>4, <2>5
<1>11. NotifyTypes'
  BY <1>9 DEF NotifySound, NotifyTypes
<1>12. EfiKeyQueueForNotify' # <<>> => signalled' \/ hand'.at # "idle"
  BY <1>1, <1>8, <1>9 DEF NotifySound
<1> QED
  BY <1>10, <1>11, <1>12 DEF NotifySound

\* A step that leaves the list, the handler and the notify queue alone.
LEMMA NothingQueued ==
  ASSUME NotifySound, UNCHANGED <<EfiKeyQueueForNotify, hand, NotifyList>>,
         owed' \subseteq owed, signalled => signalled'
  PROVE  NotifySound'
<1>1. \A o : Kp!InHand(o)' = Kp!InHand(o) /\ ListedFor(o)' = ListedFor(o)
  BY DEF Kp!InHand, ListedFor
<1> QED
  BY <1>1 DEF NotifySound, NotifyTypes, Queued

\* A step that empties the notify queue.
LEMMA QueueEmptied ==
  ASSUME NotifySound, EfiKeyQueueForNotify' = <<>>, UNCHANGED <<hand, NotifyList>>,
         owed' = {o \in owed : Kp!InHand(o)}
  PROVE  NotifySound'
<1>1. \A o : Kp!InHand(o)' = Kp!InHand(o) /\ ListedFor(o)' = ListedFor(o)
  BY DEF Kp!InHand, ListedFor
<1> QED
  BY <1>1, EmptySeq DEF NotifySound, NotifyTypes

\* A step that frees everything.
LEMMA AllFreed ==
  ASSUME Kp!Freed
  PROVE  NotifySound'
<1>1. /\ EfiKeyQueueForNotify' = <<>> /\ NotifyList' = <<>> /\ owed' = {}
      /\ hand' = [at |-> "idle", key |-> [scan |-> "NULL", shift |-> 0], i |-> 0]
  BY DEF Kp!Freed, Kp!Idle
<1> QED
  BY <1>1, EmptySeq DEF NotifySound, NotifyTypes

LEMMA Registered ==
  ASSUME NotifySound, Kp!KeypadRegisterKeyNotify
  PROVE  NotifySound'
<1>1. PICK entry \in Registrations :
        NotifyList' = Append(NotifyList, entry) /\ UNCHANGED <<EfiKeyQueueForNotify, signalled, hand, owed>>
  BY DEF Kp!KeypadRegisterKeyNotify, Registrations
<1>2. NotifyList \in Seq(Registrations) /\ Len(NotifyList) \in Nat
  BY LenProperties DEF NotifySound, NotifyTypes
<1>3. /\ NotifyList' \in Seq(Registrations) /\ Len(NotifyList') = Len(NotifyList) + 1
      /\ \A i \in 1 .. Len(NotifyList) : NotifyList'[i] = NotifyList[i]
  BY <1>1, <1>2, AppendProperties
<1>4. \A i \in 1 .. Len(NotifyList) : i \in 1 .. Len(NotifyList')
  BY <1>2, <1>3
<1>5. ASSUME NEW o \in owed PROVE (Queued(o[1])' \/ Kp!InHand(o)') /\ ListedFor(o)'
  <2>1. (Queued(o[1]) \/ Kp!InHand(o)) /\ ListedFor(o)
    BY DEF NotifySound
  <2>2. Queued(o[1])' <=> Queued(o[1])
    BY <1>1 DEF Queued
  <2>3. ListedFor(o)'
    BY <1>3, <1>4, <2>1 DEF ListedFor
  <2>4. Kp!InHand(o) => Kp!InHand(o)'
    <3> SUFFICES ASSUME Kp!InHand(o) PROVE Kp!InHand(o)'
      OBVIOUS
    <3>1. hand.at = "walk" /\ hand.key = o[1] /\ hand.i \in Nat /\ hand.i > 0
      BY DEF Kp!InHand, NotifySound, NotifyTypes
    <3>2. PICK i \in hand.i .. Len(NotifyList) : NotifyList[i] = o[2]
      BY DEF Kp!InHand
    <3>3. i \in 1 .. Len(NotifyList) /\ i \in hand'.i .. Len(NotifyList')
      BY <1>1, <1>2, <1>3, <3>1, <3>2
    <3>4. NotifyList'[i] = o[2]
      BY <1>3, <3>2, <3>3
    <3> QED
      BY <1>1, <3>1, <3>3, <3>4 DEF Kp!InHand
  <2> QED
    BY <2>1, <2>2, <2>3, <2>4
<1>6. NotifyTypes'
  BY <1>1, <1>3 DEF NotifySound, NotifyTypes
<1> QED
  BY <1>1, <1>5, <1>6 DEF NotifySound

LEMMA Unregistered ==
  ASSUME NotifySound, Kp!KeypadUnregisterKeyNotify
  PROVE  NotifySound'
<1>1. hand.at = "idle" /\ UNCHANGED <<EfiKeyQueueForNotify, signalled, hand>>
  BY DEF Kp!KeypadUnregisterKeyNotify
<1>2. PICK i \in 1 .. Len(NotifyList) :
        /\ NotifyList' = SubSeq(NotifyList, 1, i - 1) \o SubSeq(NotifyList, i + 1, Len(NotifyList))
        /\ owed' = {o \in owed : o[2] # NotifyList[i]}
  BY DEF Kp!KeypadUnregisterKeyNotify, Kp!RemoveAt
<1>3. NotifyList \in Seq(Registrations) /\ Len(NotifyList) \in Nat
  BY LenProperties DEF NotifySound, NotifyTypes
<1>4. /\ NotifyList' \in Seq(Registrations) /\ Len(NotifyList') = Len(NotifyList) - 1
      /\ \A j \in 1 .. Len(NotifyList) - 1 : NotifyList'[j] = IF j < i THEN NotifyList[j] ELSE NotifyList[j + 1]
  BY <1>2, <1>3, RemoveAtProperties
<1>5. ASSUME NEW o \in owed' PROVE Queued(o[1])' /\ ListedFor(o)'
  <2>1. o \in owed /\ o[2] # NotifyList[i]
    BY <1>2, <1>5
  <2>2. Queued(o[1])' /\ o = <<o[1], o[2]>> /\ Kp!IsKeyRegistered(o[2].key, o[1])
    BY <1>1, <2>1 DEF NotifySound, Queued, Kp!InHand, ListedFor
  <2>3. PICK k \in 1 .. Len(NotifyList) : NotifyList[k] = o[2]
    BY <2>1 DEF NotifySound, ListedFor
  <2>4. k # i
    BY <2>1, <2>3
  <2>5. CASE k < i
    <3>1. k \in 1 .. Len(NotifyList') /\ NotifyList'[k] = o[2]
      BY <1>3, <1>4, <2>3, <2>5
    <3> QED
      BY <2>2, <3>1 DEF ListedFor
  <2>6. CASE k > i
    <3>1. k - 1 \in 1 .. Len(NotifyList') /\ k - 1 \in 1 .. Len(NotifyList) - 1 /\ ~(k - 1 < i) /\ (k - 1) + 1 = k
      BY <1>3, <1>4, <2>3, <2>6
    <3>2. NotifyList'[k - 1] = o[2]
      BY <1>4, <2>3, <3>1
    <3> QED
      BY <2>2, <3>1, <3>2 DEF ListedFor
  <2> QED
    BY <2>4, <2>5, <2>6
<1>6. NotifyTypes'
  BY <1>1, <1>4 DEF NotifySound, NotifyTypes
<1> QED
  BY <1>1, <1>5, <1>6 DEF NotifySound

\* The handler takes a key: it has it in hand before the first registration.
LEMMA KeyTaken ==
  ASSUME NotifySound, Kp!HandlerPops
  PROVE  NotifySound'
<1> DEFINE q == EfiKeyQueueForNotify
<1>1. hand.at = "pop" /\ UNCHANGED <<NotifyList, signalled, owed>>
  BY DEF Kp!HandlerPops
<1>2. \A o \in owed : Queued(o[1]) /\ ListedFor(o)
  BY <1>1 DEF NotifySound, Kp!InHand
<1>3. q \in Seq(Kp!KeyData) /\ Len(q) \in Nat /\ DOMAIN q = 1 .. Len(q)
  BY LenProperties DEF NotifySound, NotifyTypes
<1>4. CASE q = <<>>
  <2>1. owed = {}
    BY <1>2, <1>3, <1>4, EmptySeq DEF Queued, Kp!ToSet
  <2>2. hand' = [at |-> "idle", key |-> [scan |-> "NULL", shift |-> 0], i |-> 0] /\ UNCHANGED EfiKeyQueueForNotify
    BY <1>4 DEF Kp!HandlerPops, Kp!Idle
  <2> QED
    BY <1>1, <1>4, <2>1, <2>2 DEF NotifySound, NotifyTypes
<1>5. CASE q # <<>>
  <2>1. hand' = [at |-> "walk", key |-> Head(q), i |-> 1] /\ EfiKeyQueueForNotify' = Tail(q)
    BY <1>5 DEF Kp!HandlerPops
  <2>2. /\ Tail(q) \in Seq(Kp!KeyData) /\ Len(Tail(q)) = Len(q) - 1 /\ Head(q) = q[1]
        /\ \A i \in 1 .. Len(q) - 1 : Tail(q)[i] = q[i + 1]
    BY <1>3, <1>5, HeadTailProperties, EmptySeq
  <2>3. DOMAIN Tail(q) = 1 .. Len(q) - 1
    BY <2>2, LenProperties
  <2>4. ASSUME NEW o \in owed PROVE (Queued(o[1])' \/ Kp!InHand(o)') /\ ListedFor(o)'
    <3>1. ListedFor(o) /\ ListedFor(o)'
      BY <1>1, <1>2 DEF ListedFor
    <3>2. PICK i \in 1 .. Len(q) : q[i] = o[1]
      BY <1>2, <1>3 DEF Queued, Kp!ToSet
    <3>3. CASE i = 1
      <4>1. hand'.at = "walk" /\ hand'.key = o[1] /\ hand'.i = 1
        BY <2>1, <2>2, <3>2, <3>3
      <4>2. \E j \in 1 .. Len(NotifyList) : NotifyList[j] = o[2]
        BY <3>1 DEF ListedFor
      <4> QED
        BY <1>1, <3>1, <4>1, <4>2 DEF Kp!InHand
    <3>4. CASE i # 1
      <4>1. i - 1 \in 1 .. Len(q) - 1 /\ (i - 1) + 1 = i
        BY <1>3, <3>2, <3>4
      <4>2. Tail(q)[i - 1] = o[1]
        BY <2>2, <3>2, <4>1
      <4>3. Queued(o[1])'
        BY <2>1, <2>3, <4>1, <4>2 DEF Queued, Kp!ToSet
      <4> QED
        BY <3>1, <4>3
    <3> QED
      BY <3>3, <3>4
  <2>5. NotifyTypes'
    BY <1>1, <2>1, <2>2 DEF NotifySound, NotifyTypes
  <2> QED
    BY <1>1, <2>1, <2>4, <2>5 DEF NotifySound
<1> QED
  BY <1>4, <1>5

\* It goes on to the next registration and, if the key is its own, calls it.
LEMMA HandlerGoesOn ==
  ASSUME NotifySound, Kp!HandlerWalks
  PROVE  NotifySound'
<1>1. hand.at = "walk" /\ hand.i \in Nat /\ hand.i > 0 /\ hand = [at |-> hand.at, key |-> hand.key, i |-> hand.i]
      /\ UNCHANGED <<EfiKeyQueueForNotify, NotifyList, signalled>>
  BY DEF Kp!HandlerWalks, NotifySound, NotifyTypes
<1>2. Len(NotifyList) \in Nat
  BY LenProperties DEF NotifySound, NotifyTypes
<1>3. \A o : ListedFor(o)' = ListedFor(o) /\ Queued(o[1])' = Queued(o[1])
  BY <1>1 DEF ListedFor, Queued
<1>4. CASE hand.i > Len(NotifyList)
  <2>1. hand' = [at |-> "pop", key |-> [scan |-> "NULL", shift |-> 0], i |-> 0] /\ owed' = owed
    BY <1>4 DEF Kp!HandlerWalks, Kp!NextKey, Kp!Idle
  <2>2. \A o \in owed : Queued(o[1])
    <3>1. hand.i .. Len(NotifyList) = {}
      BY <1>1, <1>2, <1>4
    <3> QED
      BY <3>1 DEF NotifySound, Kp!InHand
  <2>3. NotifyTypes'
    BY <1>1, <2>1 DEF NotifySound, NotifyTypes
  <2> QED
    BY <1>1, <1>3, <2>1, <2>2, <2>3 DEF NotifySound
<1>5. CASE ~(hand.i > Len(NotifyList))
  <2> DEFINE entry == NotifyList[hand.i]
  <2>1. /\ hand' = [at |-> "walk", key |-> hand.key, i |-> hand.i + 1]
        /\ owed' = IF Kp!IsKeyRegistered(entry.key, hand.key) THEN owed \ {<<hand.key, entry>>} ELSE owed
    BY <1>1, <1>5 DEF Kp!HandlerWalks
  <2>2. ASSUME NEW o \in owed' PROVE (Queued(o[1])' \/ Kp!InHand(o)') /\ ListedFor(o)'
    <3>1. o \in owed /\ (Queued(o[1]) \/ Kp!InHand(o)) /\ ListedFor(o)
      BY <2>1, <2>2 DEF NotifySound
    <3>2. CASE Kp!InHand(o)
      <4>1. hand.key = o[1]
        BY <3>2 DEF Kp!InHand
      <4>2. PICK i \in hand.i .. Len(NotifyList) : NotifyList[i] = o[2]
        BY <3>2 DEF Kp!InHand
      <4>3. i # hand.i
        <5> SUFFICES ASSUME i = hand.i PROVE FALSE
          OBVIOUS
        <5>1. o[2] = entry /\ Kp!IsKeyRegistered(entry.key, hand.key)
          BY <3>1, <4>1, <4>2 DEF ListedFor
        <5>2. o = <<o[1], o[2]>>
          BY <3>1 DEF ListedFor
        <5> QED
          BY <2>1, <2>2, <4>1, <5>1, <5>2
      <4>4. i \in hand'.i .. Len(NotifyList')
        BY <1>1, <1>2, <2>1, <4>2, <4>3
      <4> QED
        BY <1>1, <1>3, <2>1, <3>1, <4>1, <4>2, <4>4 DEF Kp!InHand
    <3>3. CASE Queued(o[1])
      BY <1>3, <3>1, <3>3
    <3> QED
      BY <3>1, <3>2, <3>3
  <2>3. NotifyTypes'
    BY <1>1, <2>1 DEF NotifySound, NotifyTypes
  <2> QED
    BY <1>1, <2>1, <2>2, <2>3 DEF NotifySound
<1> QED
  BY <1>4, <1>5

\* A notification that is due is called, unless a full queue or a reset
\* dropped its key, through registrations and removals, keys that come while
\* the handler runs, and starts and stops, for queues of every size and any
\* number of keys in a poll (Keypad.c 159-201, KeypadTextIn.c 660-699).
THEOREM NotificationsKept == DevicesSpec => []NotificationNotLost
<1>1. Kp!Init => NotifySound
  BY EmptySeq DEF Kp!Init, Kp!Idle, NotifySound, NotifyTypes
<1>2. NotifySound /\ [Kp!KeypadStep]_(Kp!kvars) => NotifySound'
  <2> SUFFICES ASSUME NotifySound, [Kp!KeypadStep]_(Kp!kvars) PROVE NotifySound'
    OBVIOUS
  <2>1. CASE Kp!KeypadTimerHandler \/ Kp!KeypadReadKeyStrokeEx \/ Kp!KeypadReadKeyStroke \/ Kp!KeypadWaitForKey
    <3>1. PICK pushed \in Kp!Polls : Kp!PushForNotify(pushed)
      BY <2>1 DEF Kp!KeypadTimerHandler, Kp!KeypadReadKeyStrokeEx, Kp!KeypadReadKeyStroke, Kp!KeypadWaitForKey
    <3>2. UNCHANGED <<hand, NotifyList>>
      BY <2>1 DEF Kp!KeypadTimerHandler, Kp!KeypadReadKeyStrokeEx, Kp!KeypadReadKeyStroke, Kp!KeypadWaitForKey
    <3> QED
      BY <3>1, <3>2, KeysPushed
  <2>2. CASE Kp!KeypadEfiReset
    BY <2>2, QueueEmptied DEF Kp!KeypadEfiReset, Kp!InitKeypad
  <2>3. CASE Kp!KeypadSetState \/ Kp!StartBegins \/ Kp!StopBegins \/ UNCHANGED Kp!kvars
    BY <2>3, NothingQueued DEF Kp!KeypadSetState, Kp!StartBegins, Kp!StopBegins, Kp!kvars
  <2>4. CASE Kp!HandlerStarts
    <3>1. /\ hand.at = "idle" /\ hand' = [hand EXCEPT !.at = "pop"]
          /\ UNCHANGED <<EfiKeyQueueForNotify, NotifyList, owed>>
      BY <2>4 DEF Kp!HandlerStarts
    <3>2. hand' = [at |-> "pop", key |-> hand.key, i |-> hand.i] /\ hand.i \in Nat
      BY <3>1 DEF NotifySound, NotifyTypes
    <3>3. \A o \in owed : Queued(o[1]) /\ ListedFor(o)
      BY <3>1 DEF NotifySound, Kp!InHand
    <3>4. \A o \in owed : Queued(o[1])' /\ ListedFor(o)'
      BY <3>1, <3>3 DEF Queued, ListedFor
    <3>5. NotifyTypes'
      BY <3>1, <3>2 DEF NotifySound, NotifyTypes
    <3> QED
      BY <3>1, <3>2, <3>4, <3>5 DEF NotifySound
  <2>5. ASSUME NEW step, Kp!StartProceeds(step) PROVE NotifySound'
    <3>1. CASE step = "Reset"
      BY <2>5, <3>1, QueueEmptied DEF Kp!StartProceeds, Kp!InitKeypad
    <3>2. CASE step # "Reset"
      BY <2>5, <3>2, NothingQueued DEF Kp!StartProceeds
    <3> QED
      BY <3>1, <3>2
  <2>6. ASSUME NEW step, Kp!StartFails(step) PROVE NotifySound'
    BY <2>6, AllFreed DEF Kp!StartFails
  <2>7. CASE Kp!StopEnds
    <3>1. CASE Kp!Freed
      BY <3>1, AllFreed
    <3>2. CASE ~Kp!Freed
      BY <2>7, <3>2, NothingQueued DEF Kp!StopEnds
    <3> QED
      BY <3>1, <3>2
  <2> QED
    BY <2>1, <2>2, <2>3, <2>4, <2>5, <2>6, <2>7, Registered, Unregistered, KeyTaken, HandlerGoesOn
    DEF Kp!KeypadStep, Kp!Binding, Kp!KeyNotifyProcessHandler
<1>3. NotifySound => NotificationNotLost
  BY DEF NotifySound, Queued, NotificationNotLost, Kp!NotificationNotLost
<1>4. DevicesInit => Kp!Init
  BY DEF DevicesInit
<1>5. [DevicesNext]_vars => [Kp!KeypadStep]_(Kp!kvars)
  BY DEF DevicesNext, ClocksNext, BamNext, ConsoleNext, KeysNext, KeypadNext, vars, kvars, Kp!kvars
<1> QED
  BY <1>1, <1>2, <1>3, <1>4, <1>5, PTL DEF DevicesSpec

-----------------------------------------------------------------------------
(* KeypadDevice.                                                            *)

KeyContexts == [Time : Nat, State : {"RELEASED", "PRESSED", "LONGPRESS_RELEASE"}, Repeat : BOOLEAN,
                Longpress : BOOLEAN]
KeysSent == {"none", "RETURN", "SCAN_UP", "SCAN_DOWN", "SCAN_ESC", "NULL", "s", "e", "SPACE"}
PressTypes == ctx \in [Kd!Keys -> KeyContexts] /\ sent \in [Kd!Keys -> Seq(KeysSent)]

\* What a press has sent at each point of it.
SoundPress(k, c, keys, quiet) ==
  /\ c.State = "RELEASED" => ~c.Longpress /\ ~c.Repeat
  /\ c.State = "LONGPRESS_RELEASE" => ~c.Longpress /\ ~c.Repeat /\ keys = <<Kd!KeyData[k]>>
  /\ c.State = "PRESSED" /\ ~c.Longpress => ~c.Repeat /\ keys = <<>>
  /\ c.Longpress => IF k = "Power" THEN ~c.Repeat /\ Len(keys) = 1 /\ keys # <<Kd!KeyData[k]>>
                    ELSE keys # <<>> \/ k \in quiet
PressSound(k) == SoundPress(k, ctx[k], sent[k], muted)
PressesSound == PressTypes /\ \A k \in Kd!Keys : PressSound(k)

LEMMA KeysHaveData ==
  ASSUME NEW k \in Kd!Keys
  PROVE  Kd!KeyData[k] \in KeysSent \ {"none"} /\ (k = "Power" => Kd!KeyData[k] = "RETURN")
<1>1. k \in {"Power", "VolumeUp", "VolumeDown", "Camera", "CameraFocus"}
  <2>1. DOMAIN Kd!KeyData = {"Power", "VolumeUp", "VolumeDown", "Camera", "CameraFocus"}
    BY DEF Kd!KeyData
  <2>2. \A i \in 1 .. Len(KeyList) : KeyList[i] \in DOMAIN Kd!KeyData
    BY DevicesAssumption, ElementOfSeq DEF Kd!LimitsAssumption
  <2> QED
    BY <2>1, <2>2 DEF Kd!Keys
<1>2. /\ Kd!KeyData["Power"] = "RETURN" /\ Kd!KeyData["VolumeUp"] = "SCAN_UP"
      /\ Kd!KeyData["VolumeDown"] = "SCAN_DOWN" /\ Kd!KeyData["Camera"] = "SCAN_ESC"
      /\ Kd!KeyData["CameraFocus"] = "NULL"
  BY DEF Kd!KeyData
<1> HIDE DEF Kd!KeyData
<1> QED
  BY <1>1, <1>2 DEF KeysSent

\* The changes a turn makes to a context.
LEMMA ContextChanges ==
  ASSUME NEW x \in KeyContexts
  PROVE  /\ LET y == [x EXCEPT !.Time = 0, !.State = "PRESSED"]
            IN  y \in KeyContexts /\ y.State = "PRESSED" /\ y.Longpress = x.Longpress /\ y.Repeat = x.Repeat
         /\ LET y == [x EXCEPT !.State = "LONGPRESS_RELEASE"]
            IN  y \in KeyContexts /\ y.State = "LONGPRESS_RELEASE" /\ y.Longpress = x.Longpress
                /\ y.Repeat = x.Repeat
         /\ LET y == [x EXCEPT !.Longpress = TRUE]
            IN  y \in KeyContexts /\ y.State = x.State /\ y.Longpress /\ y.Repeat = x.Repeat
         /\ LET y == [x EXCEPT !.Longpress = TRUE, !.Time = 0, !.Repeat = TRUE]
            IN  y \in KeyContexts /\ y.State = x.State /\ y.Longpress
         /\ LET y == [x EXCEPT !.Time = 0]
            IN  y \in KeyContexts /\ y.State = x.State /\ y.Longpress = x.Longpress /\ y.Repeat = x.Repeat
BY DEF KeyContexts

\* What a key's turn in a poll does to its press: it sees no press or the
\* first of one, ends one, goes on with a short one, sends the key of a long
\* one, sends that of a short one, or goes on with a long one.
NoPress(c, x, pushes) == c.State = "RELEASED" /\ ~pushes /\ ~x.Longpress /\ ~x.Repeat
                         /\ x.State \in {"RELEASED", "PRESSED"}
Ends(c, x, pushes) == (c.State = "LONGPRESS_RELEASE" \/ c.Longpress) /\ ~pushes /\ x = Kd!Released
GoesOn(k, c, x, pushes, keys) ==
  c.State = "PRESSED" /\ ~c.Longpress /\ x.State = "PRESSED" /\ ~pushes /\ ~x.Repeat
  /\ (x.Longpress => k # "Power" /\ "Power" \in keys)
TurnsLong(k, c, x, pushed) ==
  c.State = "PRESSED" /\ ~c.Longpress /\ x.State = "PRESSED" /\ x.Longpress /\ pushed # "none"
  /\ (k = "Power" => ~x.Repeat /\ pushed # Kd!KeyData[k])
IsLetGo(k, c, x, pushed) ==
  c.State = "PRESSED" /\ ~c.Longpress /\ x.State = "LONGPRESS_RELEASE" /\ ~x.Longpress /\ ~x.Repeat
  /\ pushed = Kd!KeyData[k]
StaysLong(k, c, x, pushes) ==
  c.State = "PRESSED" /\ c.Longpress /\ x.State = "PRESSED" /\ x.Longpress /\ x.Repeat = c.Repeat
  /\ (k = "Power" => ~pushes)
Turn(k, c, x, pushed, keys) ==
  \/ NoPress(c, x, pushed # "none")
  \/ Ends(c, x, pushed # "none")
  \/ GoesOn(k, c, x, pushed # "none", keys)
  \/ TurnsLong(k, c, x, pushed)
  \/ IsLetGo(k, c, x, pushed)
  \/ StaysLong(k, c, x, pushed # "none")

LEMMA TurnOfKey ==
  ASSUME PressesSound, NEW k \in Kd!Keys, NEW pressed \in BOOLEAN, NEW delta \in Deltas, NEW keys,
         NEW x, NEW pushed, <<x, pushed>> = Kd!LibKeyUpdateKeyStatus(k, pressed, delta, keys)
  PROVE  x \in KeyContexts /\ pushed \in KeysSent /\ Turn(k, ctx[k], x, pushed, keys)
<1> DEFINE t == Kd!Elapse(ctx[k].Time, delta)
           c == [ctx[k] EXCEPT !.Time = t]
           o == ctx[k]
<1>1. ctx[k] \in KeyContexts /\ t \in Nat
  BY DevicesAssumption DEF PressesSound, PressTypes, KeyContexts, Kd!Elapse, Kd!LimitsAssumption
<1>2. c \in KeyContexts /\ c.State = o.State /\ c.Longpress = o.Longpress /\ c.Repeat = o.Repeat
  BY <1>1 DEF KeyContexts
<1>3. <<x, pushed>> = CASE c.State = "RELEASED" -> IF pressed THEN Kd!Pressed(c) ELSE <<c, "none">>
                        [] c.State = "PRESSED" -> IF pressed THEN Kd!StillPressed(c, k, keys)
                                                  ELSE Kd!LetGo(c, k)
                        [] c.State = "LONGPRESS_RELEASE" -> <<Kd!Released, "none">>
  BY <1>2 DEF Kd!LibKeyUpdateKeyStatus
<1>4. Kd!Released \in KeyContexts
  BY DEF Kd!Released, KeyContexts
<1>5. Kd!KeyData[k] \in KeysSent /\ Kd!KeyData[k] # "none" /\ (k = "Power" => Kd!KeyData[k] = "RETURN")
  BY KeysHaveData
<1>6. PressSound(k)
  BY DEF PressesSound
<1>7. c.State \in {"RELEASED", "PRESSED", "LONGPRESS_RELEASE"}
  BY <1>2 DEF KeyContexts
<1> HIDE DEF c, o
<1>8. CASE c.State = "RELEASED"
  <2>1. ~o.Longpress /\ ~o.Repeat
    BY <1>2, <1>6, <1>8 DEF PressSound, SoundPress, o
  <2>2. CASE pressed
    <3>1. x = [c EXCEPT !.Time = 0, !.State = "PRESSED"] /\ pushed = "none"
      BY <1>3, <1>8, <2>2 DEF Kd!Pressed
    <3> QED
      BY <1>2, <1>8, <2>1, <3>1, ContextChanges DEF Turn, NoPress, KeysSent, o
  <2>3. CASE ~pressed
    <3>1. x = c /\ pushed = "none"
      BY <1>3, <1>8, <2>3
    <3> QED
      BY <1>2, <1>8, <2>1, <3>1 DEF Turn, NoPress, KeysSent, o
  <2> QED
    BY <2>2, <2>3
<1>9. CASE c.State = "LONGPRESS_RELEASE"
  <2>1. x = Kd!Released /\ pushed = "none"
    BY <1>3, <1>9
  <2> QED
    BY <1>2, <1>4, <1>9, <2>1 DEF Turn, Ends, KeysSent, o
<1>10. CASE c.State = "PRESSED" /\ ~c.Longpress
  <2>1. ~o.Repeat /\ o.State = "PRESSED" /\ ~o.Longpress
    BY <1>2, <1>6, <1>10 DEF PressSound, SoundPress, o
  <2>2. CASE ~pressed
    <3>1. x = [c EXCEPT !.State = "LONGPRESS_RELEASE"] /\ pushed = Kd!KeyData[k]
      BY <1>3, <1>10, <2>2 DEF Kd!LetGo, Kd!ShortRelease
    <3>2. x \in KeyContexts /\ x.State = "LONGPRESS_RELEASE" /\ ~x.Longpress /\ ~x.Repeat
      BY <1>2, <2>1, <3>1, ContextChanges
    <3>3. IsLetGo(k, o, x, pushed)
      BY <2>1, <3>1, <3>2 DEF IsLetGo
    <3> QED
      BY <1>5, <3>1, <3>2, <3>3 DEF Turn, KeysSent, o
  <2>3. CASE pressed /\ ~(c.Time >= LONGPRESS)
    <3>1. x = c /\ pushed = "none"
      BY <1>2, <1>3, <1>10, <2>1, <2>3 DEF Kd!StillPressed
    <3>2. GoesOn(k, o, x, pushed # "none", keys)
      BY <1>2, <2>1, <3>1 DEF GoesOn
    <3> QED
      BY <1>2, <3>1, <3>2 DEF Turn, KeysSent, o
  <2>4. CASE pressed /\ c.Time >= LONGPRESS
    <3>1. <<x, pushed>> = Kd!LongPress(c, k, keys)
      BY <1>2, <1>3, <1>10, <2>1, <2>4 DEF Kd!StillPressed
    <3>2. CASE k = "Power"
      <4>1. x = [c EXCEPT !.Longpress = TRUE] /\ pushed = Kd!PowerCombo(keys)
        BY <3>1, <3>2 DEF Kd!LongPress
      <4>2. x \in KeyContexts /\ x.State = "PRESSED" /\ x.Longpress /\ ~x.Repeat
        BY <1>2, <2>1, <4>1, ContextChanges
      <4>3. pushed = "s" \/ pushed = "e" \/ pushed = "SPACE"
        BY <4>1 DEF Kd!PowerCombo
      <4>4. pushed \in KeysSent /\ pushed # "none" /\ pushed # "RETURN"
        BY <4>3 DEF KeysSent
      <4>5. TurnsLong(k, o, x, pushed)
        BY <1>5, <2>1, <3>2, <4>2, <4>4 DEF TurnsLong
      <4> QED
        BY <4>2, <4>4, <4>5 DEF Turn, KeysSent, o
    <3>3. CASE k # "Power" /\ "Power" \in keys
      <4>1. x = [c EXCEPT !.Longpress = TRUE] /\ pushed = "none"
        BY <3>1, <3>3 DEF Kd!LongPress
      <4>2. x \in KeyContexts /\ x.State = "PRESSED" /\ x.Longpress /\ ~x.Repeat
        BY <1>2, <2>1, <4>1, ContextChanges
      <4>3. GoesOn(k, o, x, pushed # "none", keys)
        BY <2>1, <3>3, <4>1, <4>2 DEF GoesOn
      <4> QED
        BY <4>1, <4>2, <4>3 DEF Turn, KeysSent, o
    <3>4. CASE k # "Power" /\ "Power" \notin keys
      <4>1. x = [c EXCEPT !.Longpress = TRUE, !.Time = 0, !.Repeat = TRUE] /\ pushed = Kd!KeyData[k]
        BY <3>1, <3>4 DEF Kd!LongPress
      <4>2. x \in KeyContexts /\ x.State = "PRESSED" /\ x.Longpress
        BY <1>2, <2>1, <4>1, ContextChanges
      <4>3. TurnsLong(k, o, x, pushed)
        BY <1>5, <2>1, <3>4, <4>1, <4>2 DEF TurnsLong
      <4> QED
        BY <1>5, <4>1, <4>2, <4>3 DEF Turn, KeysSent, o
    <3> QED
      BY <3>2, <3>3, <3>4
  <2> QED
    BY <2>2, <2>3, <2>4
<1>11. CASE c.State = "PRESSED" /\ c.Longpress
  <2>1. (k = "Power" => ~o.Repeat) /\ o.State = "PRESSED" /\ o.Longpress
    BY <1>2, <1>6, <1>11 DEF PressSound, SoundPress, o
  <2>2. \/ x = Kd!Released /\ pushed = "none"
        \/ x = c /\ pushed = "none"
        \/ c.Repeat /\ x = [c EXCEPT !.Time = 0] /\ pushed = Kd!KeyData[k]
    BY <1>3, <1>11 DEF Kd!StillPressed, Kd!LetGo, Kd!RepeatKey
  <2>3. CASE x = Kd!Released /\ pushed = "none"
    BY <1>4, <2>1, <2>3 DEF Turn, Ends, KeysSent, o
  <2>4. CASE x = c /\ pushed = "none"
    <3>1. StaysLong(k, o, x, pushed # "none")
      BY <1>2, <2>1, <2>4 DEF StaysLong
    <3> QED
      BY <1>2, <2>4, <3>1 DEF Turn, KeysSent, o
  <2>5. CASE c.Repeat /\ x = [c EXCEPT !.Time = 0] /\ pushed = Kd!KeyData[k]
    <3>1. x \in KeyContexts /\ x.State = "PRESSED" /\ x.Longpress /\ x.Repeat = o.Repeat
      BY <1>2, <2>1, <2>5, ContextChanges
    <3>2. StaysLong(k, o, x, pushed # "none")
      BY <1>2, <2>1, <2>5, <3>1 DEF StaysLong
    <3> QED
      BY <1>5, <2>5, <3>1, <3>2 DEF Turn, KeysSent, o
  <2> QED
    BY <2>2, <2>3, <2>4, <2>5
<1> QED
  BY <1>7, <1>8, <1>9, <1>10, <1>11

\* A turn gives a context and what is pushed.
LEMMA PairOfTurn ==
  ASSUME NEW k \in Kd!Keys, ctx[k] \in KeyContexts, NEW pressed, NEW delta \in Deltas, NEW keys,
         NEW after, after = Kd!LibKeyUpdateKeyStatus(k, pressed, delta, keys)
  PROVE  after = <<after[1], after[2]>>
<1> DEFINE c == [ctx[k] EXCEPT !.Time = Kd!Elapse(@, delta)]
<1>1. c.State \in {"RELEASED", "PRESSED", "LONGPRESS_RELEASE"}
  BY DEF KeyContexts
<1> HIDE DEF c
<1>2. Kd!LibKeyUpdateKeyStatus(k, pressed, delta, keys)
        = CASE c.State = "RELEASED" -> IF pressed THEN Kd!Pressed(c) ELSE <<c, "none">>
            [] c.State = "PRESSED" -> IF pressed THEN Kd!StillPressed(c, k, keys) ELSE Kd!LetGo(c, k)
            [] c.State = "LONGPRESS_RELEASE" -> <<Kd!Released, "none">>
  BY DEF c, Kd!LibKeyUpdateKeyStatus
<1>3. Kd!Pressed(c) = <<Kd!Pressed(c)[1], Kd!Pressed(c)[2]>>
  BY DEF Kd!Pressed
<1>4. Kd!LongPress(c, k, keys) = <<Kd!LongPress(c, k, keys)[1], Kd!LongPress(c, k, keys)[2]>>
  BY DEF Kd!LongPress
<1>5. Kd!StillPressed(c, k, keys) = <<Kd!StillPressed(c, k, keys)[1], Kd!StillPressed(c, k, keys)[2]>>
  BY <1>4 DEF Kd!StillPressed, Kd!RepeatKey
<1>6. Kd!LetGo(c, k) = <<Kd!LetGo(c, k)[1], Kd!LetGo(c, k)[2]>>
  BY DEF Kd!LetGo, Kd!ShortRelease
<1> QED
  BY <1>1, <1>2, <1>3, <1>5, <1>6

\* A press that is sound goes on soundly with its key's turn in a poll: r is
\* what it has sent then, n who is muted then.
LEMMA PressGoesOn ==
  ASSUME NEW k \in Kd!Keys, NEW c \in KeyContexts, NEW s \in Seq(KeysSent), NEW m, SoundPress(k, c, s, m),
         NEW x \in KeyContexts, NEW pushed \in KeysSent, NEW ks, Turn(k, c, x, pushed, ks),
         NEW r, LET b == IF c.State = "RELEASED" THEN <<>> ELSE s
                IN  r = IF pushed = "none" \/ Len(b) = 2 THEN b ELSE Append(b, pushed),
         NEW n, k \in m /\ c.State # "RELEASED" => k \in n,
         k # "Power" /\ ~c.Longpress /\ x.Longpress /\ "Power" \in ks => k \in n
  PROVE  SoundPress(k, x, r, n)
<1>1. CASE NoPress(c, x, pushed # "none")
  <2>1. r = <<>>
    BY <1>1 DEF NoPress
  <2> QED
    BY <1>1, <2>1 DEF NoPress, SoundPress
<1>2. CASE Ends(c, x, pushed # "none")
  BY <1>2 DEF Ends, SoundPress, Kd!Released
<1>3. CASE GoesOn(k, c, x, pushed # "none", ks)
  <2>1. r = <<>>
    BY <1>3 DEF GoesOn, SoundPress
  <2> QED
    BY <1>3, <2>1 DEF GoesOn, SoundPress
<1>4. CASE TurnsLong(k, c, x, pushed)
  <2> HIDE DEF Kd!KeyData
  <2>1. c.State = "PRESSED" /\ pushed # "none" /\ s = <<>>
    BY <1>4 DEF TurnsLong, SoundPress
  <2>2. r = <<pushed>> /\ Len(r) = 1 /\ r # <<>> /\ r[1] = pushed
    <3>1. r = Append(<<>>, pushed)
      BY <2>1
    <3>2. Append(<<>>, pushed) = <<pushed>> /\ Len(<<pushed>>) = 1 /\ <<pushed>>[1] = pushed
      OBVIOUS
    <3>3. <<pushed>> # <<>>
      BY <3>2
    <3> QED
      BY <3>1, <3>2, <3>3
  <2>3. ASSUME k = "Power" PROVE r # <<Kd!KeyData[k]>>
    <3>1. r[1] # Kd!KeyData[k]
      BY <1>4, <2>2, <2>3 DEF TurnsLong
    <3> DEFINE own == Kd!KeyData[k]
    <3> HIDE DEF own
    <3>2. <<own>>[1] = own
      OBVIOUS
    <3> QED
      BY <3>1, <3>2 DEF own
  <2> QED
    BY <1>4, <2>2, <2>3 DEF TurnsLong, SoundPress
<1>5. CASE IsLetGo(k, c, x, pushed)
  <2>1. s = <<>> /\ pushed = Kd!KeyData[k] /\ pushed # "none"
    BY <1>5, KeysHaveData DEF IsLetGo, SoundPress
  <2>2. r = Append(<<>>, pushed)
    BY <1>5, <2>1 DEF IsLetGo
  <2>3. r = <<Kd!KeyData[k]>>
    BY <2>1, <2>2
  <2> QED
    BY <1>5, <2>3 DEF IsLetGo, SoundPress
<1>6. CASE StaysLong(k, c, x, pushed # "none")
  <2>1. k = "Power" => r = s
    BY <1>6 DEF StaysLong
  <2>2. s # <<>> => r # <<>>
    <3>1. Append(s, pushed) # <<>>
      BY AppendProperties
    <3> QED
      BY <1>6, <3>1 DEF StaysLong
  <2>3. k \in m => k \in n
    BY <1>6 DEF StaysLong
  <2> QED
    BY <1>6, <2>1, <2>2, <2>3 DEF StaysLong, SoundPress
<1> QED
  BY <1>1, <1>2, <1>3, <1>4, <1>5, <1>6 DEF Turn

\* A press that is over has sent its keys, and no press sends a key before it
\* is known what it is, for any order of keys, any times between polls and
\* any reads that fail (KeypadDeviceHelperLib.h 83-166).
THEOREM PressesSend == DevicesSpec => []PressSendsItsKeys
<1>1. Kd!Init => PressesSound
  <2> SUFFICES ASSUME Kd!Init PROVE PressesSound
    OBVIOUS
  <2>1. ctx = [k \in Kd!Keys |-> Kd!Released] /\ sent = [k \in Kd!Keys |-> <<>>]
    BY DEF Kd!Init
  <2>2. Kd!Released \in KeyContexts /\ Kd!Released.State = "RELEASED" /\ ~Kd!Released.Longpress /\ ~Kd!Released.Repeat
    BY DEF Kd!Released, KeyContexts
  <2> QED
    BY <2>1, <2>2, EmptySeq DEF PressesSound, PressTypes, PressSound, SoundPress
<1>2. PressesSound /\ [Kd!DeviceStep]_(Kd!dvars) => PressesSound'
  <2> SUFFICES ASSUME PressesSound, [Kd!DeviceStep]_(Kd!dvars) PROVE PressesSound'
    OBVIOUS
  <2>1. CASE UNCHANGED Kd!dvars
    BY <2>1 DEF Kd!dvars, PressesSound, PressTypes, PressSound, SoundPress
  <2>2. CASE Kd!KeypadDeviceImplReset
    <3>1. /\ ctx' = [k \in Kd!Keys |-> IF k = "CameraFocus" THEN ctx[k] ELSE Kd!Released]
          /\ sent' = [k \in Kd!Keys |-> IF k = "CameraFocus" THEN sent[k] ELSE <<>>]
          /\ muted' = muted \cap {"CameraFocus"}
      BY <2>2 DEF Kd!KeypadDeviceImplReset
    <3>2. Kd!Released \in KeyContexts /\ Kd!Released.State = "RELEASED" /\ ~Kd!Released.Longpress /\ ~Kd!Released.Repeat
      BY DEF Kd!Released, KeyContexts
    <3>3. PressTypes'
      BY <3>1, <3>2, EmptySeq DEF PressesSound, PressTypes
    <3>4. ASSUME NEW k \in Kd!Keys PROVE PressSound(k)'
      <4>1. CASE k = "CameraFocus"
        BY <3>1, <4>1 DEF PressesSound, PressSound, SoundPress
      <4>2. CASE k # "CameraFocus"
        BY <3>1, <3>2, <4>2 DEF PressSound, SoundPress
      <4> QED
        BY <4>1, <4>2
    <3>5. Kd!Keys' = Kd!Keys
      BY DEF Kd!Keys
    <3> QED
      BY <3>3, <3>4, <3>5 DEF PressesSound
  <2>3. ASSUME NEW read \in [Kd!Keys -> {"pressed", "released", "fails"}], NEW delta \in Deltas,
               Kd!KeypadDeviceImplGetKeys(read, delta)
        PROVE  PressesSound'
    <3> DEFINE index == [k \in Kd!Keys |-> CHOOSE i \in 1 .. Len(KeyList) : KeyList[i] = k]
               keys(k) == Kd!SeenBy(index[k], read)
               after == [k \in Kd!Keys |-> IF read[k] = "fails" THEN <<ctx[k], "none">>
                                          ELSE Kd!LibKeyUpdateKeyStatus(k, read[k] = "pressed", delta, keys(k))]
               IsFresh(k) == ctx[k].State = "RELEASED"
               before(k) == IF IsFresh(k) THEN <<>> ELSE sent[k]
    <3>1. /\ ctx' = [k \in Kd!Keys |-> after[k][1]]
          /\ sent' = [k \in Kd!Keys |-> IF after[k][2] = "none" \/ Len(before(k)) = 2 THEN before(k)
                                       ELSE Append(before(k), after[k][2])]
          /\ muted' = {k \in muted : ~IsFresh(k)}
                      \cup {k \in Kd!Keys \ {"Power"} : ~ctx[k].Longpress /\ after[k][1].Longpress /\ "Power" \in keys(k)}
      BY <2>3 DEF Kd!KeypadDeviceImplGetKeys
    <3>2. ASSUME NEW k \in Kd!Keys
          PROVE  /\ ctx'[k] \in KeyContexts /\ sent'[k] \in Seq(KeysSent) /\ PressSound(k)'
      <4> DEFINE a == after[k]
                 b == before(k)
                 ks == keys(k)
      <4>1. /\ ctx'[k] = a[1] /\ sent'[k] = IF a[2] = "none" \/ Len(b) = 2 THEN b ELSE Append(b, a[2])
            /\ k \in muted /\ ~IsFresh(k) => k \in muted'
            /\ k # "Power" /\ ~ctx[k].Longpress /\ a[1].Longpress /\ "Power" \in ks => k \in muted'
        BY <3>1
      <4>2. ctx[k] \in KeyContexts /\ sent[k] \in Seq(KeysSent) /\ PressSound(k)
        BY DEF PressesSound, PressTypes
      <4>3. b \in Seq(KeysSent) /\ Len(b) \in Nat
        <5>1. b \in Seq(KeysSent)
          BY <4>2, EmptySeq
        <5> HIDE DEF b
        <5> QED
          BY <5>1, LenProperties
      <4>4. Kd!KeyData[k] \in KeysSent \ {"none"}
        BY KeysHaveData
      <4>5. CASE read[k] = "fails"
        <5>1. a = <<ctx[k], "none">>
          BY <4>5
        <5> HIDE DEF a
        <5>2. ctx'[k] = ctx[k] /\ sent'[k] = b
          BY <4>1, <5>1
        <5>3. SoundPress(k, ctx[k], b, muted')
          BY <4>1, <4>2 DEF PressSound, SoundPress
        <5>4. PressSound(k)'
          BY <5>2, <5>3 DEF PressSound
        <5> QED
          BY <4>2, <4>3, <5>2, <5>4
      <4>6. CASE read[k] # "fails"
        <5>1. a = Kd!LibKeyUpdateKeyStatus(k, read[k] = "pressed", delta, ks)
          BY <4>6
        <5> HIDE DEF a, ks
        <5>2. (read[k] = "pressed") \in BOOLEAN
          OBVIOUS
        <5>3. a = <<a[1], a[2]>>
          BY <4>2, <5>1, <5>2, PairOfTurn
        <5>4. <<a[1], a[2]>> = Kd!LibKeyUpdateKeyStatus(k, read[k] = "pressed", delta, ks)
          BY <5>1, <5>3
        <5> DEFINE x == a[1]
                   pushed == a[2]
        <5> HIDE DEF x, pushed
        <5>5. x \in KeyContexts /\ pushed \in KeysSent /\ Turn(k, ctx[k], x, pushed, ks)
          BY <5>2, <5>4, TurnOfKey DEF x, pushed
        <5>6. ctx'[k] = x /\ sent'[k] = IF pushed = "none" \/ Len(b) = 2 THEN b ELSE Append(b, pushed)
          BY <4>1 DEF x, pushed
        <5>7. k # "Power" /\ ~ctx[k].Longpress /\ x.Longpress /\ "Power" \in ks => k \in muted'
          BY <4>1 DEF x
        <5>8. sent'[k] \in Seq(KeysSent)
          BY <4>3, <5>5, <5>6, AppendProperties
        <5>9. SoundPress(k, x, sent'[k], muted')
          <6>1. SoundPress(k, ctx[k], sent[k], muted) /\ (k \in muted /\ ~IsFresh(k) => k \in muted')
            BY <4>1, <4>2 DEF PressSound
          <6> QED
            BY <4>2, <5>5, <5>6, <5>7, <6>1, PressGoesOn
        <5>10. PressSound(k)'
          BY <5>6, <5>9 DEF PressSound
        <5> QED
          BY <5>5, <5>6, <5>8, <5>10
      <4> QED
        BY <4>5, <4>6
    <3> QED
      BY <3>1, <3>2 DEF PressesSound, PressTypes
  <2> QED
    BY <2>1, <2>2, <2>3 DEF Kd!DeviceStep
<1>3. PressesSound => PressSendsItsKeys
  <2> SUFFICES ASSUME PressesSound PROVE PressSendsItsKeys
    OBVIOUS
  <2>1. \A k \in Kd!Keys : PressSound(k) /\ ctx[k] \in KeyContexts
    BY DEF PressesSound, PressTypes
  <2> QED
    BY <2>1 DEF PressSound, SoundPress, KeyContexts, PressSendsItsKeys, Kd!PressSendsItsKeys
<1>4. DevicesInit => Kd!Init
  BY DEF DevicesInit
<1>5. [DevicesNext]_vars => [Kd!DeviceStep]_(Kd!dvars)
  BY DEF DevicesNext, ClocksNext, BamNext, ConsoleNext, KeysNext, KeypadNext, vars, dvars, Kd!dvars
<1> QED
  BY <1>1, <1>2, <1>3, <1>4, <1>5, PTL DEF DevicesSpec
=============================================================================
