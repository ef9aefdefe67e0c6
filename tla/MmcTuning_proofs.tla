--------------------------- MODULE MmcTuning_proofs ---------------------------
(***************************************************************************)
(* Tuning, for any number of phases and driver types, any card and any     *)
(* window of good phases, from sweep to sweep.                             *)
(***************************************************************************)
EXTENDS MmcTuning, DataLemmas

(***************************************************************************)
(* The rows of a table.                                                    *)
(***************************************************************************)

LEMMA IntervalCount ==
  ASSUME NEW a \in Nat, NEW b \in Nat, a <= b
  PROVE  IsFiniteSet(a .. b) /\ Cardinality(a .. b) = b - a + 1
<1>1. /\ IsFiniteSet(a .. b)
      /\ Cardinality(a .. b) = IF a > b THEN 0 ELSE b - a + 1
  BY FS_Interval
<1> QED
  BY <1>1

LEMMA PhasesCount == IsFiniteSet(Phases) /\ Cardinality(Phases) = MAX_PHASES
<1>1. MAX_PHASES - 1 \in Nat /\ 0 <= MAX_PHASES - 1
  BY TuningAssumption
<1>2. IsFiniteSet(0 .. MAX_PHASES - 1) /\ Cardinality(0 .. MAX_PHASES - 1) = (MAX_PHASES - 1) - 0 + 1
  BY <1>1, IntervalCount
<1> QED
  BY <1>2, TuningAssumption DEF Phases

\* A row reaches up to the phase before the next gap.
LEMMA RowIs ==
  ASSUME NEW table \in SUBSET Phases, NEW p \in table
  PROVE  \E e \in table : /\ p <= e /\ p .. e \subseteq table
                          /\ Row(table, p) = p .. e
                          /\ Cardinality(Row(table, p)) = e - p + 1
                          /\ e + 1 \notin table
<1> DEFINE S == {q \in Nat : q >= p /\ p .. q \subseteq table}
<1>0. p \in Nat /\ MAX_PHASES \in Nat /\ \A q \in table : q \in 0 .. MAX_PHASES - 1
  BY TuningAssumption DEF Phases
<1>1. S \in SUBSET Nat /\ p \in S
  BY <1>0
<1>2. \A q \in S : q <= MAX_PHASES
  BY <1>0
<1>3. PICK e \in S : \A q \in S : q <= e
  BY <1>0, <1>1, <1>2, GreatestElement
<1>4. e \in Nat /\ p <= e /\ p .. e \subseteq table /\ e \in table
  BY <1>0, <1>3
<1>5. e + 1 \notin table
  <2> SUFFICES ASSUME e + 1 \in table PROVE FALSE
    OBVIOUS
  <2>1. p .. e + 1 \subseteq table
    BY <1>0, <1>4
  <2>2. e + 1 \in S
    BY <2>1, <1>0, <1>4
  <2> QED
    BY <2>2, <1>3, <1>4
<1>6. Row(table, p) = p .. e
  <2>1. ASSUME NEW q \in Row(table, p) PROVE q \in p .. e
    BY <2>1, <1>0, <1>3 DEF Row
  <2>2. ASSUME NEW q \in p .. e PROVE q \in Row(table, p)
    BY <1>0, <1>4 DEF Row
  <2> QED
    BY <2>1, <2>2
<1>7. Cardinality(p .. e) = e - p + 1
  BY <1>0, <1>4, IntervalCount
<1> QED
  BY <1>4, <1>5, <1>6, <1>7

\* Each tuned phase lies in a row.
LEMMA RowOf ==
  ASSUME NEW table \in SUBSET Phases, NEW q \in table
  PROVE  \E r \in Rows(table) : r <= q /\ r .. q \subseteq table
<1> DEFINE S == {r \in Nat : r <= q /\ r .. q \subseteq table}
<1>0. q \in Nat /\ \A r \in table : r \in Nat
  BY TuningAssumption DEF Phases
<1>1. S \in SUBSET Nat /\ q \in S
  BY <1>0
<1>2. PICK r \in S : \A u \in S : r <= u
  BY <1>1, LeastElement
<1>3. r \in Nat /\ r <= q /\ r .. q \subseteq table /\ r \in table
  BY <1>0, <1>2
<1>4. r = 0 \/ r - 1 \notin table
  <2> SUFFICES ASSUME r # 0, r - 1 \in table PROVE FALSE
    OBVIOUS
  <2>1. (r - 1) .. q \subseteq table
    BY <1>0, <1>3
  <2>2. r - 1 \in S
    BY <2>1, <1>0, <1>3
  <2> QED
    BY <2>2, <1>2, <1>3
<1> QED
  BY <1>3, <1>4 DEF Rows

\* When the table holds both ends of the circle and has a gap, the last row
\* reaches the end, and the gap lies between row 0 and it.
LEMMA LastRowIs ==
  ASSUME NEW table \in SUBSET Phases, Merged(table)
  PROVE  LET p == LastRow(table) IN
         /\ p \in Rows(table) /\ p # 0 /\ 0 \in Rows(table)
         /\ p .. MAX_PHASES - 1 \subseteq table
         /\ Cardinality(Row(table, p)) = MAX_PHASES - p
         /\ Cardinality(Row(table, 0)) < p
         /\ \A q \in Nat : q < MAX_PHASES /\ q .. MAX_PHASES - 1 \subseteq table => p <= q
<1>0. /\ MAX_PHASES \in Nat /\ MAX_PHASES - 1 \in table /\ 0 \in table /\ MAX_PHASES - 1 \in Nat
      /\ \A q \in table : q \in 0 .. MAX_PHASES - 1
  BY TuningAssumption DEF Merged, found_loop, Phases
<1>1. PICK r \in Rows(table) : r <= MAX_PHASES - 1 /\ r .. MAX_PHASES - 1 \subseteq table
  BY <1>0, RowOf
<1>2. r \in table /\ r \in Nat /\ (r = 0 \/ r - 1 \notin table)
  BY <1>0, <1>1 DEF Rows
<1>3. \A q \in Rows(table) : q <= r
  <2> SUFFICES ASSUME NEW q \in Rows(table), q > r PROVE FALSE
    BY <1>0, <1>2 DEF Rows
  <2>1. q \in table /\ q # 0 /\ q - 1 \notin table
    BY <1>0, <1>2 DEF Rows
  <2>2. q - 1 \in r .. MAX_PHASES - 1
    BY <2>1, <1>0, <1>2
  <2> QED
    BY <2>1, <2>2, <1>1
<1>4. LastRow(table) = r
  <2>1. \E p \in Rows(table) : \A q \in Rows(table) : q <= p
    BY <1>1, <1>3
  <2>2. LastRow(table) \in Rows(table) /\ \A q \in Rows(table) : q <= LastRow(table)
    BY <2>1 DEF LastRow
  <2>3. LastRow(table) \in Nat
    BY <2>2, <1>0 DEF Rows
  <2> QED
    BY <2>2, <2>3, <1>1, <1>2, <1>3
<1>5. PICK g \in Phases : g \notin table
  <2> SUFFICES ASSUME Phases \subseteq table PROVE FALSE
    OBVIOUS
  <2>1. table = Phases
    OBVIOUS
  <2> QED
    BY <2>1, <1>0, PhasesCount DEF Merged
<1>6. g \in Nat /\ g < MAX_PHASES
  BY <1>0, <1>5 DEF Phases
<1>7. g < r
  BY <1>0, <1>1, <1>2, <1>5, <1>6
<1>8. PICK e \in table : /\ 0 <= e /\ 0 .. e \subseteq table
                         /\ Cardinality(Row(table, 0)) = e - 0 + 1
  BY <1>0, RowIs
<1>9. e < g
  BY <1>0, <1>5, <1>6, <1>8
<1>10. PICK f \in table : /\ r <= f /\ r .. f \subseteq table
                          /\ Cardinality(Row(table, r)) = f - r + 1 /\ f + 1 \notin table
  BY <1>2, RowIs
<1>11. f = MAX_PHASES - 1
  <2> SUFFICES ASSUME f < MAX_PHASES - 1 PROVE FALSE
    BY <1>0, <1>10
  <2>1. f + 1 \in r .. MAX_PHASES - 1
    BY <1>0, <1>2, <1>10
  <2> QED
    BY <2>1, <1>1, <1>10
<1>12. ASSUME NEW q \in Nat, q < MAX_PHASES, q .. MAX_PHASES - 1 \subseteq table PROVE r <= q
  <2> SUFFICES ASSUME q < r PROVE FALSE
    BY <1>2, <1>12
  <2>1. r - 1 \in q .. MAX_PHASES - 1
    BY <1>0, <1>2
  <2> QED
    BY <2>1, <1>2, <1>12
<1>13. 0 \in Rows(table)
  BY <1>0 DEF Rows
<1> QED
  BY <1>0, <1>1, <1>2, <1>4, <1>6, <1>7, <1>8, <1>9, <1>10, <1>11, <1>12, <1>13

\* The length of a row is what phases_per_row says, and each of its phases is tuned.
LEMMA RowLength ==
  ASSUME NEW table \in SUBSET Phases, NEW p \in Rows(table)
  PROVE  /\ phases_per_row(table, p) \in 0 .. MAX_PHASES
         /\ ~(Merged(table) /\ p = 0) => phases_per_row(table, p) >= 1
         /\ \A i \in Nat : i < phases_per_row(table, p) => (p + i) % MAX_PHASES \in table
<1>0. /\ MAX_PHASES \in Nat \ {0} /\ p \in table /\ p \in Nat
      /\ \A q \in table : q \in 0 .. MAX_PHASES - 1
  BY TuningAssumption DEF Rows, Phases
<1>1. PICK e \in table : /\ p <= e /\ p .. e \subseteq table
                         /\ Cardinality(Row(table, p)) = e - p + 1
  BY <1>0, RowIs
<1>2. \A k \in Nat : k < MAX_PHASES => k % MAX_PHASES = k /\ (k + MAX_PHASES) % MAX_PHASES = k
  BY <1>0
<1>3. CASE Merged(table) /\ p = 0
  BY <1>0, <1>3 DEF phases_per_row
<1>4. CASE Merged(table) /\ p # 0 /\ p = LastRow(table)
  <2>1. /\ p .. MAX_PHASES - 1 \subseteq table /\ Cardinality(Row(table, p)) = MAX_PHASES - p
        /\ Cardinality(Row(table, 0)) < p
    BY <1>4, LastRowIs
  <2>2. 0 \in table
    BY <1>4 DEF Merged, found_loop
  <2>3. PICK f \in table : /\ 0 <= f /\ 0 .. f \subseteq table /\ Cardinality(Row(table, 0)) = f - 0 + 1
    BY <2>2, RowIs
  <2>4. phases_per_row(table, p) = (MAX_PHASES - p) + (f + 1)
    BY <1>0, <1>4, <2>1, <2>3 DEF phases_per_row
  <2>5. ASSUME NEW i \in Nat, i < phases_per_row(table, p) PROVE (p + i) % MAX_PHASES \in table
    <3>1. CASE p + i < MAX_PHASES
      <4>1. p + i \in p .. MAX_PHASES - 1 /\ (p + i) % MAX_PHASES = p + i
        BY <3>1, <1>0, <1>2
      <4> QED
        BY <4>1, <2>1
    <3>2. CASE p + i >= MAX_PHASES
      <4>1. p + i - MAX_PHASES \in 0 .. f /\ p + i - MAX_PHASES < MAX_PHASES
        BY <3>2, <2>3, <2>4, <2>5, <1>0
      <4>2. ((p + i - MAX_PHASES) + MAX_PHASES) % MAX_PHASES = p + i - MAX_PHASES
        BY <4>1, <1>0, <1>2
      <4>3. (p + i - MAX_PHASES) + MAX_PHASES = p + i
        BY <1>0
      <4> QED
        BY <4>1, <4>2, <4>3, <2>3
    <3> QED
      BY <3>1, <3>2, <1>0
  <2> QED
    BY <1>0, <1>4, <2>1, <2>3, <2>4, <2>5
<1>5. CASE ~Merged(table) \/ (p # 0 /\ p # LastRow(table))
  <2>1. phases_per_row(table, p) = e - p + 1
    BY <1>1, <1>5 DEF phases_per_row
  <2>2. ASSUME NEW i \in Nat, i < phases_per_row(table, p) PROVE (p + i) % MAX_PHASES \in table
    <3>1. p + i \in p .. e /\ p + i < MAX_PHASES
      BY <2>1, <2>2, <1>0, <1>1
    <3>2. (p + i) % MAX_PHASES = p + i
      BY <3>1, <1>0, <1>2
    <3> QED
      BY <3>1, <3>2, <1>1
  <2> QED
    BY <2>1, <2>2, <1>0, <1>1
<1> QED
  BY <1>3, <1>4, <1>5

\* The row chosen exists and no other is longer.
LEMMA LongestRow ==
  ASSUME NEW table \in SUBSET Phases, table # {}
  PROVE  LET p == max_phases_row(table) IN
         /\ p \in Rows(table) /\ p \in Phases
         /\ phases_per_row(table, p) \in 1 .. MAX_PHASES
         /\ \A q \in Rows(table) : phases_per_row(table, q) <= phases_per_row(table, p)
<1> DEFINE len(q) == phases_per_row(table, q)
<1>0. Rows(table) \in SUBSET Nat /\ \A q \in Rows(table) : len(q) \in 0 .. MAX_PHASES /\ q \in Phases
  <2>1. \A q \in Rows(table) : q \in Phases /\ q \in Nat
    BY TuningAssumption DEF Rows, Phases
  <2> QED
    BY <2>1, RowLength
<1>1. Rows(table) # {}
  BY RowOf
<1>2. MAX_PHASES \in Nat
  BY TuningAssumption
<1> DEFINE Lens == {n \in Nat : \E q \in Rows(table) : len(q) = n}
<1>3. PICK m \in Lens : \A n \in Lens : n <= m
  <2>1. Lens \in SUBSET Nat /\ Lens # {} /\ \A n \in Lens : n <= MAX_PHASES
    BY <1>0, <1>1, <1>2
  <2> QED
    BY <2>1, <1>2, GreatestElement
<1>4. \A q \in Rows(table) : len(q) <= m
  BY <1>0, <1>3
<1> DEFINE Best == {q \in Rows(table) : len(q) = m}
<1>5. PICK p \in Best : \A q \in Best : p <= q
  <2>1. Best \in SUBSET Nat /\ Best # {}
    BY <1>0, <1>3
  <2> QED
    BY <2>1, LeastElement
<1>6. p \in Rows(table) /\ \A q \in Rows(table) : len(q) < len(p) \/ (len(q) = len(p) /\ p <= q)
  BY <1>0, <1>3, <1>4, <1>5
<1> DEFINE c == max_phases_row(table)
<1>7. c \in Rows(table) /\ \A q \in Rows(table) : len(q) < len(c) \/ (len(q) = len(c) /\ c <= q)
  BY <1>6 DEF max_phases_row
<1>8. len(c) >= 1
  <2>1. CASE Merged(table)
    <3>1. LastRow(table) \in Rows(table) /\ len(LastRow(table)) >= 1
      BY <2>1, LastRowIs, RowLength
    <3> HIDE DEF c, len
    <3> QED
      BY <3>1, <1>0, <1>7
  <2>2. CASE ~Merged(table)
    BY <2>2, <1>7, RowLength
  <2> QED
    BY <2>1, <2>2
<1> HIDE DEF len
<1>9. \A q \in Rows(table) : len(q) <= len(c)
  BY <1>0, <1>7
<1> HIDE DEF c
<1> QED
  BY <1>0, <1>7, <1>8, <1>9 DEF len, c

\* Every run of tuned phases around the circle fits in some row.
LEMMA RunInRow ==
  ASSUME NEW table \in SUBSET Phases, NEW q \in Phases, NEW m \in 1 .. MAX_PHASES,
         Arc(q, m) \subseteq table
  PROVE  \E r \in Rows(table) : phases_per_row(table, r) >= m
<1>0. /\ MAX_PHASES \in Nat \ {0} /\ q \in Nat /\ q < MAX_PHASES /\ m \in Nat /\ m >= 1 /\ m <= MAX_PHASES
      /\ \A k \in table : k \in 0 .. MAX_PHASES - 1
  BY TuningAssumption DEF Phases
<1>1. \A i \in 0 .. m - 1 : (q + i) % MAX_PHASES \in table
  BY DEF Arc
<1>2. \A k \in Nat : k < MAX_PHASES => k % MAX_PHASES = k /\ (k + MAX_PHASES) % MAX_PHASES = k
  BY <1>0
<1>3. q \in table
  <2>1. 0 \in 0 .. m - 1 /\ (q + 0) % MAX_PHASES = q
    BY <1>0, <1>2
  <2> QED
    BY <2>1, <1>1
<1>4. CASE q + m - 1 < MAX_PHASES
  <2>1. q .. q + m - 1 \subseteq table
    <3> SUFFICES ASSUME NEW k \in q .. q + m - 1 PROVE k \in table
      OBVIOUS
    <3>1. k - q \in 0 .. m - 1 /\ q + (k - q) = k /\ k \in Nat /\ k < MAX_PHASES
      BY <1>0, <1>4
    <3> QED
      BY <3>1, <1>1, <1>2
  <2>2. PICK r \in Rows(table) : r <= q /\ r .. q \subseteq table
    BY <1>3, RowOf
  <2>3. r \in table /\ r \in Nat
    BY <1>0 DEF Rows
  <2>4. PICK e \in table : /\ r <= e /\ r .. e \subseteq table
                           /\ Cardinality(Row(table, r)) = e - r + 1 /\ e + 1 \notin table
    BY <2>3, RowIs
  <2>5. e >= q + m - 1
    <3> SUFFICES ASSUME e < q + m - 1 PROVE FALSE
      BY <1>0, <2>4
    <3>1. e + 1 \in r .. q \/ e + 1 \in q .. q + m - 1
      BY <1>0, <2>3, <2>4
    <3> QED
      BY <3>1, <2>1, <2>2, <2>4
  <2>6. Cardinality(Row(table, r)) >= m /\ Cardinality(Row(table, r)) \in Nat
    BY <1>0, <2>2, <2>3, <2>4, <2>5
  <2>7. CASE Merged(table) /\ r = 0
    <3>1. LastRow(table) \in Rows(table) /\ LastRow(table) # 0
          /\ Cardinality(Row(table, LastRow(table))) = MAX_PHASES - LastRow(table)
      BY <2>7, LastRowIs
    <3>2. LastRow(table) \in Nat /\ LastRow(table) < MAX_PHASES
      <4>1. LastRow(table) \in table
        BY <3>1 DEF Rows
      <4>2. \A k \in table : k \in Nat /\ k < MAX_PHASES
        BY <1>0
      <4> QED
        BY <4>1, <4>2
    <3>3. phases_per_row(table, LastRow(table)) >= m
      BY <3>1, <3>2, <2>6, <2>7, <1>0 DEF phases_per_row
    <3> QED
      BY <3>1, <3>3
  <2>8. CASE Merged(table) /\ r # 0 /\ r = LastRow(table)
    <3>1. 0 \in table
      BY <2>8 DEF Merged, found_loop
    <3>2. Cardinality(Row(table, 0)) \in Nat
      <4>1. PICK f \in table : 0 <= f /\ Cardinality(Row(table, 0)) = f - 0 + 1
        BY <3>1, RowIs
      <4> QED
        BY <4>1, <1>0
    <3>3. phases_per_row(table, r) = Cardinality(Row(table, r)) + Cardinality(Row(table, 0))
      BY <2>8 DEF phases_per_row
    <3> QED
      BY <3>2, <3>3, <2>6, <1>0
  <2>9. CASE ~Merged(table) \/ (r # 0 /\ r # LastRow(table))
    BY <2>6, <2>9 DEF phases_per_row
  <2> QED
    BY <2>7, <2>8, <2>9
<1>5. CASE q + m - 1 >= MAX_PHASES
  <2>1. q .. MAX_PHASES - 1 \subseteq table
    <3> SUFFICES ASSUME NEW k \in q .. MAX_PHASES - 1 PROVE k \in table
      OBVIOUS
    <3>1. k - q \in 0 .. m - 1 /\ q + (k - q) = k /\ k \in Nat /\ k < MAX_PHASES
      BY <1>0, <1>5
    <3> QED
      BY <3>1, <1>1, <1>2
  <2>2. 0 .. q + m - 1 - MAX_PHASES \subseteq table
    <3> SUFFICES ASSUME NEW k \in 0 .. q + m - 1 - MAX_PHASES PROVE k \in table
      OBVIOUS
    <3>1. k + MAX_PHASES - q \in 0 .. m - 1 /\ q + (k + MAX_PHASES - q) = k + MAX_PHASES
          /\ k \in Nat /\ k < MAX_PHASES
      BY <1>0, <1>5
    <3> QED
      BY <3>1, <1>1, <1>2
  <2>3. MAX_PHASES - 1 \in table /\ 0 \in table /\ found_loop(table)
    BY <2>1, <2>2, <1>0, <1>5 DEF found_loop
  <2>4. PICK f \in table : /\ 0 <= f /\ 0 .. f \subseteq table
                           /\ Cardinality(Row(table, 0)) = f - 0 + 1 /\ f + 1 \notin table
    BY <2>3, RowIs
  <2>5. f >= q + m - 1 - MAX_PHASES
    <3> SUFFICES ASSUME f < q + m - 1 - MAX_PHASES PROVE FALSE
      BY <1>0, <2>4
    <3>1. f + 1 \in 0 .. q + m - 1 - MAX_PHASES
      BY <1>0, <2>4
    <3> QED
      BY <3>1, <2>2, <2>4
  <2>6. CASE Merged(table)
    <3> DEFINE p == LastRow(table)
    <3>1. /\ p \in Rows(table) /\ p # 0 /\ p <= q
          /\ Cardinality(Row(table, p)) = MAX_PHASES - p
      BY <2>1, <2>6, <1>0, LastRowIs
    <3>2. p \in Nat
      <4>1. p \in table
        BY <3>1 DEF Rows
      <4>2. \A k \in table : k \in Nat /\ k < MAX_PHASES
        BY <1>0
      <4> QED
        BY <4>1, <4>2
    <3>3. phases_per_row(table, p) = (MAX_PHASES - p) + (f + 1)
      BY <3>1, <2>4, <2>6, <1>0 DEF phases_per_row
    <3>4. phases_per_row(table, p) >= m
      BY <3>1, <3>2, <3>3, <2>4, <2>5, <1>0
    <3> QED
      BY <3>1, <3>4
  <2>7. CASE ~Merged(table)
    <3>1. table = Phases
      <4>1. Cardinality(table) <= MAX_PHASES /\ IsFiniteSet(table)
        BY PhasesCount, FS_Subset
      <4>2. Cardinality(table) = MAX_PHASES
        BY <4>1, <2>3, <2>7, <1>0, FS_CardinalityType DEF Merged
      <4> QED
        BY <4>2, PhasesCount, FS_Subset
    <3>2. 0 \in Rows(table)
      BY <2>3 DEF Rows
    <3>3. f = MAX_PHASES - 1
      BY <3>1, <2>4, <1>0 DEF Phases
    <3>4. phases_per_row(table, 0) = MAX_PHASES
      BY <2>4, <2>7, <3>3, <1>0 DEF phases_per_row
    <3> QED
      BY <3>2, <3>4, <1>0
  <2> QED
    BY <2>6, <2>7
<1> QED
  BY <1>4, <1>5, <1>0

\* What SelectedInWidestWindow asks of the phase chosen.
InWidestWindow(table, selected) ==
  \E p \in Phases, n \in 1 .. MAX_PHASES :
    /\ Arc(p, n) \subseteq table
    /\ \A q \in Phases, m \in n + 1 .. MAX_PHASES : ~(Arc(q, m) \subseteq table)
    /\ selected \in Arc(p, n)
    /\ n >= 3 => selected \in Arc(p + 1, n - 2)

\* The phase three quarters into the longest row is in the widest window of
\* good phases, and off its edges when the window has three or more.
THEOREM ChosenPhase ==
  ASSUME NEW table \in SUBSET Phases, table # {}
  PROVE  LET selected == sdhci_msm_find_appropriate_phase(table) IN
         selected \in table /\ selected \in Phases /\ InWidestWindow(table, selected)
<1> DEFINE p == max_phases_row(table)
           n == phases_per_row(table, p)
           i == max_phases_3_4_idx(n)
           selected == sdhci_msm_find_appropriate_phase(table)
<1>0. MAX_PHASES \in Nat \ {0}
  BY TuningAssumption
<1>1. /\ p \in Rows(table) /\ p \in Phases /\ n \in 1 .. MAX_PHASES
      /\ \A q \in Rows(table) : phases_per_row(table, q) <= n
  BY LongestRow
<1>2. \A k \in Nat : k < n => (p + k) % MAX_PHASES \in table
  BY <1>1, RowLength
<1>3. selected = (p + i) % MAX_PHASES
  BY DEF sdhci_msm_find_appropriate_phase, sub_phases
<1>4. \A q \in Rows(table) : phases_per_row(table, q) \in Nat
  BY RowLength
<1> HIDE DEF n, p
<1>5. i \in 0 .. n - 1 /\ (n >= 3 => i - 1 \in 0 .. n - 3)
  BY <1>1 DEF max_phases_3_4_idx
<1> HIDE DEF i, selected
<1>6. p \in Nat
  BY <1>1 DEF Phases
<1>7. Arc(p, n) \subseteq table
  BY <1>1, <1>2 DEF Arc
<1>8. selected \in Arc(p, n)
  BY <1>3, <1>5 DEF Arc
<1>9. n >= 3 => selected \in Arc(p + 1, n - 2)
  <2> SUFFICES ASSUME n >= 3 PROVE selected \in Arc(p + 1, n - 2)
    OBVIOUS
  <2>1. i - 1 \in 0 .. (n - 2) - 1 /\ (p + 1) + (i - 1) = p + i
    BY <1>1, <1>5, <1>6
  <2> QED
    BY <2>1, <1>3 DEF Arc
<1>10. ASSUME NEW q \in Phases, NEW m \in n + 1 .. MAX_PHASES, Arc(q, m) \subseteq table
       PROVE  FALSE
  <2>1. m \in 1 .. MAX_PHASES /\ m > n
    BY <1>0, <1>1
  <2>2. PICK r \in Rows(table) : phases_per_row(table, r) >= m
    BY <1>10, <2>1, RunInRow
  <2> QED
    BY <2>1, <2>2, <1>1, <1>4
<1>11. selected \in table /\ selected \in Phases
  BY <1>7, <1>8
<1> QED
  BY <1>1, <1>7, <1>8, <1>9, <1>10, <1>11 DEF InWidestWindow, selected

(***************************************************************************)
(* The sweeps.                                                             *)
(***************************************************************************)

Place == {"idle", "initDll", "calibrate", "sweep", "nextDrv", "restore", "select", "out"}

TuningTypes ==
  /\ pc \in Place
  /\ phase \in 0 .. MAX_PHASES
  /\ tuned_phases \in SUBSET Phases
  /\ ret \in {0, 1}
  /\ result \in {"none", "tuned", "calibrated", "failed"}
  /\ pc \in {"initDll", "sweep", "nextDrv", "restore", "select"} => ret = 0
  /\ pc \in {"idle", "calibrate"} => tuned_phases = {}

\* What the phases kept and the saved phase are worth at each place.
TunedSound ==
  /\ ~stale => tuned_phases \subseteq passed
  /\ pc = "calibrate" => tuning_done
  /\ ~stale /\ ~unset =>
       /\ Succeeded \/ (pc = "out" /\ ret = 0) => saved_phase \in passed /\ dll = saved_phase
       /\ pc = "calibrate" => saved_phase \in passed
  /\ pc = "out" /\ ret = 0 /\ ~tuning_done /\ ~unset => InWidestWindow(tuned_phases, saved_phase)

\* Where the card may be on another driver type than its default.
DrvSound ==
  /\ pc \in {"initDll", "sweep", "nextDrv", "restore"} => ~lost
  /\ ~refused /\ ~lost /\ 0 \in SupportedDrv =>
       /\ pc \in {"initDll", "calibrate", "select"} => card_drv = 0
       /\ pc \in {"sweep", "nextDrv", "restore"} => drv_type_changed \/ card_drv = 0
       /\ pc = "out" /\ ret = 0 => card_drv = 0
       /\ pc = "idle" /\ result # "failed" => card_drv = 0
  /\ pc = "idle" /\ ~tuning_done => card_drv = 0

TuningSound == TuningTypes /\ TunedSound /\ DrvSound

LEMMA TuningStart == Init => TuningSound
<1> SUFFICES ASSUME Init PROVE TuningSound
  OBVIOUS
<1>1. phase = 0 /\ 0 \in 0 .. MAX_PHASES
  BY TuningAssumption DEF Init
<1>2. TuningTypes
  BY <1>1 DEF Init, TuningTypes, Place
<1>3. TunedSound /\ DrvSound
  BY DEF Init, TunedSound, DrvSound, Succeeded
<1> QED
  BY <1>2, <1>3 DEF TuningSound

LEMMA EntriesSound ==
  ASSUME TuningSound, ExecuteTuningHS200 \/ ExecuteTuningHS400 \/ Reinitialise
  PROVE  TuningSound'
<1> USE DEF TuningSound, TuningTypes, TunedSound, DrvSound, Succeeded, Place, localVars, hostVars, historyVars
<1>0. 0 \in 0 .. MAX_PHASES
  BY TuningAssumption
<1>1. CASE ExecuteTuningHS200
  BY <1>0, <1>1 DEF ExecuteTuningHS200, Forgets
<1>2. CASE ExecuteTuningHS400
  BY <1>2 DEF ExecuteTuningHS400
<1>3. CASE Reinitialise
  BY <1>3 DEF Reinitialise, Forgets
<1> QED
  BY <1>1, <1>2, <1>3

\* A turn of the sweep keeps a phase that read the block, unless it is marked stale.
LEMMA SweepSound ==
  ASSUME TuningSound, (\E read \in Reads : TunePhase(read)) \/ TunePhaseDllFails \/ SweepDone
  PROVE  TuningSound'
<1> USE DEF TuningSound, Place
<1>1. ASSUME NEW read \in Reads, TunePhase(read) PROVE TuningSound'
  <2>1. /\ pc = "sweep" /\ pc' = "sweep" /\ phase \in Phases /\ phase + 1 \in 0 .. MAX_PHASES
        /\ phase' = phase + 1
    BY <1>1, TuningAssumption DEF TunePhase, TuningTypes, Phases
  <2>2. tuned_phases' = IF Kept(read) THEN tuned_phases \cup {phase} ELSE tuned_phases
    BY <1>1 DEF TunePhase
  <2>3. ~stale' => tuned_phases' \subseteq passed'
    BY <1>1, <2>2 DEF TunePhase, TunedSound
  <2>4. UNCHANGED <<ret, hostVars, card_drv, unset, refused, lost, result, drv_type_changed>>
    BY <1>1 DEF TunePhase
  <2>5. TuningTypes'
    BY <2>1, <2>2, <2>4 DEF TuningTypes
  <2>6. TunedSound'
    BY <2>1, <2>3 DEF TunedSound, Succeeded
  <2>7. DrvSound'
    BY <2>1, <2>4 DEF DrvSound
  <2> QED
    BY <2>5, <2>6, <2>7
<1>2. CASE TunePhaseDllFails
  BY <1>2 DEF TunePhaseDllFails, TuningTypes, TunedSound, DrvSound, Succeeded, localVars, hostVars, historyVars
<1>3. CASE SweepDone
  BY <1>3 DEF SweepDone, TuningTypes, TunedSound, DrvSound, Succeeded, localVars, hostVars, historyVars
<1> QED
  BY <1>1, <1>2, <1>3

\* The next driver type starts a new sweep; the default comes back at the end.
LEMMA DrvTypesSound ==
  ASSUME TuningSound,
         (\E changed, switched \in BOOLEAN :
             NextDrvType(changed, switched) \/ RestoreDrvType(changed, switched)) \/ NoMoreDrvTypes
  PROVE  TuningSound'
<1> USE DEF TuningSound, Place, TuningTypes, TunedSound, DrvSound, Succeeded, localVars, hostVars, historyVars
<1>0. 0 \in 0 .. MAX_PHASES
  BY TuningAssumption
<1>1. ASSUME NEW changed \in BOOLEAN, NEW switched \in BOOLEAN, NextDrvType(changed, switched)
      PROVE  TuningSound'
  BY <1>0, <1>1 DEF NextDrvType, mmc_set_drv_type
<1>2. ASSUME NEW changed \in BOOLEAN, NEW switched \in BOOLEAN, RestoreDrvType(changed, switched)
      PROVE  TuningSound'
  BY <1>2 DEF RestoreDrvType, mmc_set_drv_type
<1>3. CASE NoMoreDrvTypes
  BY <1>3 DEF NoMoreDrvTypes
<1> QED
  BY <1>1, <1>2, <1>3

\* The phase chosen is one that was kept, in the widest window.
LEMMA SelectSound ==
  ASSUME TuningSound, NEW set \in BOOLEAN, SelectPhase(set)
  PROVE  TuningSound'
<1> DEFINE selected == sdhci_msm_find_appropriate_phase(tuned_phases)
<1> USE DEF TuningSound
<1>1. /\ pc = "select" /\ pc' = "out" /\ tuned_phases' = tuned_phases /\ card_drv' = card_drv
      /\ passed' = passed /\ stale' = stale /\ refused' = refused /\ lost' = lost /\ result' = result
      /\ tuning_done' = tuning_done /\ tuned_phases \in SUBSET Phases
  BY DEF SelectPhase, TuningTypes
<1>2. CASE tuned_phases = {}
  <2>1. ret' = 1 /\ phase' = phase
    BY <1>2 DEF SelectPhase
  <2> QED
    BY <1>1, <2>1 DEF TuningTypes, TunedSound, DrvSound, Succeeded, Place
<1>3. CASE tuned_phases # {}
  <2>1. /\ ret' = 0 /\ phase' = selected
        /\ IF set THEN dll' = selected /\ saved_phase' = selected /\ unset' = unset
           ELSE unset' = TRUE
    BY <1>3 DEF SelectPhase
  <2>2. selected \in tuned_phases /\ selected \in Phases /\ InWidestWindow(tuned_phases, selected)
    BY <1>1, <1>3, ChosenPhase
  <2> HIDE DEF selected
  <2>3. selected \in 0 .. MAX_PHASES
    BY <2>2, TuningAssumption DEF Phases
  <2>4. TuningTypes'
    BY <1>1, <2>1, <2>3 DEF TuningTypes, Place
  <2>5. InWidestWindow(tuned_phases, selected) = InWidestWindow(tuned_phases', selected)
    BY <1>1
  <2>6. TunedSound'
    <3>1. CASE set
      BY <3>1, <1>1, <2>1, <2>2 DEF TunedSound, Succeeded
    <3>2. CASE ~set
      BY <3>2, <1>1, <2>1 DEF TunedSound, Succeeded
    <3> QED
      BY <3>1, <3>2
  <2>7. DrvSound'
    BY <1>1, <2>1 DEF DrvSound
  <2> QED
    BY <2>4, <2>6, <2>7
<1> QED
  BY <1>2, <1>3

LEMMA EndsSound ==
  ASSUME TuningSound, (\E ok \in BOOLEAN : HS400Calibration(ok) \/ InitDll(ok)) \/ Out
  PROVE  TuningSound'
<1> USE DEF TuningSound, Place, TuningTypes, TunedSound, DrvSound, Succeeded, localVars, hostVars, historyVars
<1>0. 0 \in 0 .. MAX_PHASES
  BY TuningAssumption
<1>1. ASSUME NEW ok \in BOOLEAN, HS400Calibration(ok) PROVE TuningSound'
  BY <1>1 DEF HS400Calibration
<1>2. ASSUME NEW ok \in BOOLEAN, InitDll(ok) PROVE TuningSound'
  BY <1>2 DEF InitDll
<1>3. CASE Out
  BY <1>0, <1>3 DEF Out
<1> QED
  BY <1>1, <1>2, <1>3

\* The delay line's clock stops and starts beside it all.
LEMMA ClockStops ==
  ASSUME TuningSound, StopClock \/ HwClockStops
  PROVE  TuningSound'
BY DEF StopClock, HwClockStops, localVars, hostVars, historyVars, TuningSound, TuningTypes, TunedSound,
       DrvSound, Succeeded, InWidestWindow

\* The inductive invariant.
THEOREM TuningTracked == Spec => []TuningSound
<1>1. TuningSound /\ [Next]_vars => TuningSound'
  <2> SUFFICES ASSUME TuningSound, [Next]_vars PROVE TuningSound'
    OBVIOUS
  <2>1. CASE UNCHANGED vars
    BY <2>1 DEF vars, localVars, hostVars, historyVars, TuningSound, TuningTypes, TunedSound, DrvSound,
                Succeeded, InWidestWindow
  <2> QED
    BY <2>1, EntriesSound, SweepSound, DrvTypesSound, SelectSound, EndsSound, ClockStops DEF Next, Tuning
<1> QED
  BY <1>1, TuningStart, PTL DEF Spec

\* A success leaves the delay line on a phase that read the block, unless a
\* phase was kept on stale data or the selected one could not be set.
THEOREM SuccessIsTuned == Spec => []TunedUnlessMasked
<1>1. TuningSound => TunedUnlessMasked
  BY DEF TuningSound, TunedSound, TunedUnlessMasked, SuccessMeansTuned
<1> QED
  BY <1>1, TuningTracked, PTL

\* The phase selected is in the widest window of good phases.
THEOREM WidestWindow == Spec => []SelectedInWidestWindow
<1>1. TuningSound => SelectedInWidestWindow
  BY DEF TuningSound, TunedSound, SelectedInWidestWindow, InWidestWindow
<1> QED
  BY <1>1, TuningTracked, PTL

\* The card gets its default driver type back however many were tried, unless
\* the restore is lost while errors are ignored or a switch is reported failed.
THEOREM DefaultDrvType == Spec => []DrvTypeRestored
<1>1. TuningSound => DrvTypeRestored
  BY DEF TuningSound, DrvSound, DrvTypeRestored
<1> QED
  BY <1>1, TuningTracked, PTL
=============================================================================
