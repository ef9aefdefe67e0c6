-------------------------- MODULE MmcBlockIo_proofs --------------------------
(***************************************************************************)
(* Proofs about MmcBlockIo: block reads and writes move what was asked for *)
(* and nothing else, for every block size, descriptor line, command size,  *)
(* card size and set of requests.                                          *)
(***************************************************************************)
EXTENDS MmcBlockIo, DataLemmas

LEMMA ParametersAreNatural ==
  /\ block_size \in Nat /\ block_size > 0
  /\ SDHCI_ADMA_DESC_LINE_SZ \in Nat /\ SDHCI_ADMA_DESC_LINE_SZ > 0
  /\ MAX_BLOCKS \in Nat /\ MAX_BLOCKS > 0
  /\ LastBlock \in Nat /\ LbaModulus \in Nat /\ LbaModulus > LastBlock
  BY BlockIoAssumption

-----------------------------------------------------------------------------
(* The descriptor table.                                                    *)

\* There are as many lines as it takes to hold the data, and no more.
LEMMA LinesHoldData ==
  ASSUME NEW len \in Nat \ {0}
  PROVE  /\ sg_len(len) \in Nat \ {0}
         /\ (sg_len(len) - 1) * SDHCI_ADMA_DESC_LINE_SZ < len
         /\ len <= sg_len(len) * SDHCI_ADMA_DESC_LINE_SZ
<1> DEFINE L == SDHCI_ADMA_DESC_LINE_SZ
           q == len \div L
           r == len % L
<1>1. q \in Nat /\ r \in 0 .. L - 1 /\ q * L \in Nat /\ len = q * L + r
  BY ParametersAreNatural
<1>2. CASE len <= L
  BY <1>2, ParametersAreNatural DEF sg_len
<1>3. CASE len > L
  <2>1. q # 0
    BY <1>1, <1>3, ParametersAreNatural
  <2>2. sg_len(len) = IF r = 0 THEN q ELSE q + 1
    BY <1>1, <1>3, ParametersAreNatural DEF sg_len
  <2>3. (q - 1) * L = q * L - L /\ (q + 1) * L = q * L + L
    BY <1>1, ParametersAreNatural
  <2> HIDE DEF q, r, L
  <2>4. L \in Nat /\ L > 0
    BY ParametersAreNatural DEF L
  <2>5. CASE r = 0
    BY <1>1, <2>1, <2>2, <2>3, <2>4, <2>5 DEF L
  <2>6. CASE r # 0
    BY <1>1, <2>1, <2>2, <2>3, <2>4, <2>6 DEF L
  <2> QED
    BY <2>5, <2>6
<1> QED
  BY <1>2, <1>3, ParametersAreNatural

\* Every line but the last moves a full line, the last what is left.
LEMMA TableLines ==
  ASSUME NEW data \in Nat, NEW len \in Nat \ {0}, NEW i \in 1 .. sg_len(len)
  PROVE  LET line == sdhci_prep_desc_table(data, len)[i]
             before == (i - 1) * SDHCI_ADMA_DESC_LINE_SZ
         IN  /\ line.addr = data + before
             /\ line.end = (i = sg_len(len))
             /\ LineBytes(line) = IF i = sg_len(len) THEN len - before
                                  ELSE SDHCI_ADMA_DESC_LINE_SZ
<1> DEFINE L == SDHCI_ADMA_DESC_LINE_SZ
           N == sg_len(len)
           before == (i - 1) * L
           line == sdhci_prep_desc_table(data, len)[i]
<1>1. line = [addr |-> data + before, len |-> LineLength(len - before), end |-> i = N]
  BY DEF sdhci_prep_desc_table
<1>2. /\ N \in Nat \ {0} /\ (N - 1) * L < len /\ len <= N * L
      /\ L \in Nat /\ L > 0
  BY LinesHoldData, ParametersAreNatural
<1>3. before \in Nat /\ N * L = (N - 1) * L + L
  BY <1>2
<1>4. i # N => before + L <= (N - 1) * L
  <2>1. i # N => i <= N - 1
    <3> HIDE DEF N
    <3>1. i \in 1 .. N /\ N \in Nat
      BY <1>2 DEF N
    <3> QED
      BY <3>1
  <2>2. before + L = i * L
    BY <1>2
  <2>3. i <= N - 1 => i * L <= (N - 1) * L
    <3>1. i \in Nat /\ N - 1 \in Nat /\ L \in Nat
      BY <1>2
    <3> QED
      BY <3>1, TimesKeepsOrder
  <2> QED
    BY <2>1, <2>2, <2>3
<1>5. line.addr = data + before /\ line.end = (i = N) /\ line.len = LineLength(len - before)
  BY <1>1
<1> HIDE DEF N, line
<1>6. CASE i = N
  <2>1. len - before \in 1 .. L
    <3> HIDE DEF L
    <3> QED
      BY <1>2, <1>3, <1>6
  <2>2. LineBytes(line) = len - before
    BY <1>2, <1>5, <2>1 DEF LineBytes, LineLength
  <2> QED
    BY <1>5, <1>6, <2>2 DEF N, line
<1>7. CASE i # N
  <2>1. ~(len - before < L)
    <3> HIDE DEF L, before
    <3>1. (N - 1) * L \in Nat
      BY <1>2
    <3> QED
      BY <1>2, <1>3, <1>4, <1>7, <3>1
  <2>2. LineBytes(line) = L
    BY <1>5, <2>1 DEF LineBytes, LineLength
  <2> QED
    BY <1>5, <1>7, <2>2 DEF N, line
<1> QED
  BY <1>6, <1>7

\* The controller reads the table to its last line.
LEMMA TableEnds ==
  ASSUME NEW data \in Nat, NEW len \in Nat \ {0}
  PROVE  LastLine(sdhci_prep_desc_table(data, len)) = sg_len(len)
<1> DEFINE table == sdhci_prep_desc_table(data, len)
           N == sg_len(len)
           Ends(i) == table[i].end /\ \A k \in 1 .. i - 1 : ~table[k].end
<1>1. N \in Nat \ {0}
  BY LinesHoldData
<1>2. DOMAIN table = 1 .. N
  BY DEF sdhci_prep_desc_table
<1>3. \A i \in 1 .. N : table[i].end = (i = N)
  BY TableLines
<1> HIDE DEF table, N
<1>4. N \in DOMAIN table /\ Ends(N)
  <2>1. N \in 1 .. N
    BY <1>1
  <2>1a. table[N].end
    <3>1. table[N].end = (N = N)
      BY <1>3, <2>1
    <3> QED
      BY <3>1, Zenon
  <2>2. ASSUME NEW k \in 1 .. N - 1 PROVE ~table[k].end
    <3>1. k \in 1 .. N /\ k # N
      BY <1>1
    <3> QED
      BY <1>3, <3>1
  <2> QED
    BY <1>2, <2>1, <2>1a, <2>2
<1>5. \A i \in DOMAIN table : Ends(i) => i = N
  BY <1>2, <1>3
<1>6. LastLine(table) = CHOOSE i \in DOMAIN table : Ends(i)
  BY DEF LastLine
<1> QED
  BY <1>4, <1>5, <1>6 DEF table, N

\* The lines are laid end to end.
LEMMA TableStarts ==
  ASSUME NEW data \in Nat, NEW len \in Nat \ {0}
  PROVE  Starts(sdhci_prep_desc_table(data, len))
           = [i \in 1 .. sg_len(len) |-> (i - 1) * SDHCI_ADMA_DESC_LINE_SZ]
<1> DEFINE table == sdhci_prep_desc_table(data, len)
           N == sg_len(len)
           L == SDHCI_ADMA_DESC_LINE_SZ
           step(s) == [i \in 1 .. N |-> IF i = 1 THEN 0 ELSE s[i - 1] + LineBytes(table[i - 1])]
           laid == [i \in 1 .. N |-> (i - 1) * L]
<1>1. N \in Nat \ {0} /\ L \in Nat
  BY LinesHoldData, ParametersAreNatural
<1>2. \A i \in 1 .. N : i # N => LineBytes(table[i]) = L
  BY TableLines
<1>3. Starts(table) = CHOOSE s : s = step(s)
  BY TableEnds DEF Starts
<1> HIDE DEF table, N, L
<1>4. laid = step(laid)
  <2>1. ASSUME NEW i \in 1 .. N, i # 1 PROVE laid[i] = laid[i - 1] + LineBytes(table[i - 1])
    <3>1. i - 1 \in 1 .. N /\ i - 1 # N
      BY <1>1, <2>1
    <3>2. LineBytes(table[i - 1]) = L
      BY <1>2, <3>1
    <3>3. (i - 1) * L = ((i - 1) - 1) * L + L
      BY <1>1
    <3> QED
      BY <3>1, <3>2, <3>3
  <2>2. ASSUME NEW i \in 1 .. N, i = 1 PROVE laid[i] = 0
    BY <1>1, <2>2
  <2> QED
    BY <2>1, <2>2
<1>5. ASSUME NEW s, s = step(s) PROVE s = laid
  <2> DEFINE S == {n \in Nat : n + 1 \in 1 .. N => s[n + 1] = n * L}
  <2>1. 0 \in S
    <3>1. 1 \in 1 .. N => s[1] = 0
      BY <1>5
    <3> QED
      BY <1>1, <3>1
  <2>2. ASSUME NEW n \in Nat, n \in S PROVE n + 1 \in S
    <3> SUFFICES ASSUME (n + 1) + 1 \in 1 .. N PROVE s[(n + 1) + 1] = (n + 1) * L
      OBVIOUS
    <3>1. n + 1 \in 1 .. N /\ n + 1 # N /\ (n + 1) + 1 # 1 /\ ((n + 1) + 1) - 1 = n + 1
      BY <1>1
    <3>2. s[n + 1] = n * L
      BY <2>2, <3>1
    <3>3. s[(n + 1) + 1] = s[n + 1] + LineBytes(table[n + 1])
      BY <1>5, <3>1
    <3>4. LineBytes(table[n + 1]) = L
      BY <1>2, <3>1
    <3>5. n * L + L = (n + 1) * L
      BY <1>1
    <3> QED
      BY <3>2, <3>3, <3>4, <3>5
  <2> HIDE DEF S
  <2>3. Nat \subseteq S
    BY <2>1, <2>2, NatInductionSet
  <2>4. ASSUME NEW i \in 1 .. N PROVE s[i] = laid[i]
    <3>1. i - 1 \in Nat /\ (i - 1) + 1 = i
      BY <1>1
    <3>2. i - 1 \in S
      BY <2>3, <3>1
    <3> QED
      BY <3>1, <3>2 DEF S
  <2>5. s = [i \in 1 .. N |-> s[i]]
    BY <1>5
  <2> QED
    BY <2>4, <2>5
<1> HIDE DEF step, laid
<1>6. (CHOOSE s : s = step(s)) = laid
  BY <1>4, <1>5
<1> QED
  BY <1>3, <1>6 DEF table, N, L, laid

\* Byte j of the transfer is byte j of the buffer, whichever line moves it.
LEMMA TableAddress ==
  ASSUME NEW data \in Nat, NEW len \in Nat \ {0}, NEW j \in 0 .. len - 1
  PROVE  LET table == sdhci_prep_desc_table(data, len)
         IN  Address(table, Starts(table), j) = data + j
<1> DEFINE table == sdhci_prep_desc_table(data, len)
           starts == Starts(table)
           N == sg_len(len)
           L == SDHCI_ADMA_DESC_LINE_SZ
           Holds(i) == j - starts[i] \in 0 .. LineBytes(table[i]) - 1
           q == j \div L
<1>1. N \in Nat \ {0} /\ (N - 1) * L < len /\ len <= N * L /\ L \in Nat /\ L > 0 /\ j \in Nat
  BY LinesHoldData, ParametersAreNatural
<1>2. starts = [i \in 1 .. N |-> (i - 1) * L]
  BY TableStarts
<1>3. \A i \in 1 .. N :
        /\ table[i].addr = data + (i - 1) * L
        /\ LineBytes(table[i]) = IF i = N THEN len - (i - 1) * L ELSE L
  BY TableLines
<1>4. q \in Nat /\ q * L <= j /\ j < q * L + L
  BY <1>1
<1> HIDE DEF table, starts, N, L, q
<1>5. DOMAIN starts = 1 .. N /\ \A i \in 1 .. N : starts[i] = (i - 1) * L
  BY <1>2
<1>6. q < N
  <2> SUFFICES ASSUME N <= q PROVE FALSE
    BY <1>1, <1>4
  <2>1. N * L <= q * L
    BY <1>1, <1>4, TimesKeepsOrder
  <2>2. N * L \in Nat /\ q * L \in Nat
    BY <1>1, <1>4
  <2> QED
    BY <1>1, <1>4, <2>1, <2>2
<1>7. q + 1 \in 1 .. N /\ Holds(q + 1)
  <2>1. q + 1 \in 1 .. N /\ (q + 1) - 1 = q
    BY <1>1, <1>4, <1>6
  <2>2. starts[q + 1] = q * L
    BY <1>5, <2>1
  <2>3. LineBytes(table[q + 1]) = IF q + 1 = N THEN len - q * L ELSE L
    BY <1>3, <2>1
  <2>4. q * L \in Nat
    BY <1>1, <1>4
  <2> QED
    BY <1>1, <1>4, <2>1, <2>2, <2>3, <2>4
<1> DEFINE i == CHOOSE i \in DOMAIN starts : Holds(i)
<1>8. i \in 1 .. N
  BY <1>5, <1>7
<1>9. Address(table, starts, j) = table[i].addr + (j - starts[i])
  BY DEF Address
<1> HIDE DEF i
<1>10. table[i].addr = data + (i - 1) * L /\ starts[i] = (i - 1) * L /\ (i - 1) * L \in Int
  BY <1>1, <1>3, <1>5, <1>8
<1>11. Address(table, starts, j) = data + j
  BY <1>1, <1>9, <1>10
<1> QED
  BY <1>11 DEF table, starts

-----------------------------------------------------------------------------
(* The bytes a command moves.                                               *)

\* The command's argument names the block it was made from.
LEMMA ArgumentNamesBlock ==
  ASSUME NEW b \in Nat
  PROVE  FirstBlock(Argument(b)) = b
<1>1. (b * block_size) \div block_size = b
  BY ParametersAreNatural
<1> QED
  BY <1>1 DEF FirstBlock, Argument

\* The first n blocks of a command continue the request where it stands.
LEMMA CommandMoves ==
  ASSUME NEW d \in Nat, NEW count \in Nat \ {0}, NEW n \in 0 .. count,
         req.Lba \in Nat, sptr = d * block_size
  PROVE  Requested(d) \cup Moves(req.Lba + d, count, n) = Requested(d + n)
<1> DEFINE table == sdhci_prep_desc_table(sptr, count * block_size)
           starts == Starts(table)
           len == count * block_size
<1>1. block_size \in Nat /\ block_size > 0 /\ n \in Nat /\ n <= count
  BY ParametersAreNatural
<1>2. sptr \in Nat /\ len \in Nat \ {0}
  BY <1>1
<1>3. ASSUME NEW b \in 0 .. n - 1, NEW k \in 0 .. block_size - 1
      PROVE  Address(table, starts, b * block_size + k) = (d + b) * block_size + k
  <2>1. b * block_size + k \in 0 .. len - 1
    <3>1. b + 1 \in Nat /\ b + 1 <= count /\ count \in Nat
      BY <1>1
    <3>2. (b + 1) * block_size <= count * block_size
      BY <1>1, <3>1, TimesKeepsOrder
    <3>3. (b + 1) * block_size = b * block_size + block_size /\ b * block_size \in Nat
      BY <1>1
    <3> HIDE DEF table, starts
    <3> QED
      BY <1>1, <1>2, <3>2, <3>3
  <2>2. Address(table, starts, b * block_size + k) = sptr + (b * block_size + k)
    <3> DEFINE j == b * block_size + k
    <3> HIDE DEF j
    <3>1. j \in 0 .. len - 1
      BY <2>1 DEF j
    <3>2. Address(table, starts, j) = sptr + j
      BY <1>2, <3>1, TableAddress
    <3> QED
      BY <3>2 DEF j
  <2>3. d * block_size + (b * block_size + k) = (d + b) * block_size + k
    BY <1>1
  <2> QED
    BY <2>2, <2>3
<1>4. Moves(req.Lba + d, count, n)
        = {<<(req.Lba + d) + b, k, Address(table, starts, b * block_size + k)>> :
             b \in 0 .. n - 1, k \in 0 .. block_size - 1}
  <2>1. req.Lba + d \in Nat
    OBVIOUS
  <2> QED
    BY <2>1, ArgumentNamesBlock DEF Moves
<1> HIDE DEF table, starts, len
<1>5. ASSUME NEW m \in Moves(req.Lba + d, count, n) PROVE m \in Requested(d + n)
  <2>1. PICK b \in 0 .. n - 1, k \in 0 .. block_size - 1 :
          m = <<(req.Lba + d) + b, k, Address(table, starts, b * block_size + k)>>
    BY <1>4
  <2>2. m = <<req.Lba + (d + b), k, (d + b) * block_size + k>>
    BY <1>3, <2>1
  <2>3. d + b \in 0 .. (d + n) - 1
    BY <1>1
  <2> QED
    BY <2>2, <2>3 DEF Requested
<1>6. ASSUME NEW m \in Requested(d) PROVE m \in Requested(d + n)
  <2>1. 0 .. d - 1 \subseteq 0 .. (d + n) - 1
    BY <1>1
  <2> QED
    BY <2>1 DEF Requested
<1>7. ASSUME NEW m \in Requested(d + n), m \notin Requested(d)
      PROVE  m \in Moves(req.Lba + d, count, n)
  <2>1. PICK i \in 0 .. (d + n) - 1, k \in 0 .. block_size - 1 :
          m = <<req.Lba + i, k, i * block_size + k>>
    BY DEF Requested
  <2>2. ~(i \in 0 .. d - 1)
    BY <1>7, <2>1 DEF Requested
  <2> DEFINE b == i - d
  <2>3. b \in 0 .. n - 1 /\ d + b = i /\ (req.Lba + d) + b = req.Lba + i
    BY <1>1, <2>2
  <2> HIDE DEF b
  <2>4. m = <<(req.Lba + d) + b, k, Address(table, starts, b * block_size + k)>>
    BY <1>3, <2>1, <2>3
  <2> QED
    BY <1>4, <2>3, <2>4
<1> QED
  BY <1>5, <1>6, <1>7

\* A longer part of the request holds a shorter one.
LEMMA RequestedGrows ==
  ASSUME NEW m \in Nat, NEW n \in Nat, m <= n
  PROVE  Requested(m) \subseteq Requested(n)
<1>1. 0 .. m - 1 \subseteq 0 .. n - 1
  OBVIOUS
<1> QED
  BY <1>1 DEF Requested

\* Nothing is asked of a call of no blocks.
LEMMA NothingRequested == Requested(0) = {}
  BY DEF Requested

-----------------------------------------------------------------------------
(* The inductive invariant.                                                 *)

BlockTypes ==
  /\ pc \in {"idle", "chunk", "stop"}
  /\ req \in Request
  /\ failed \in BOOLEAN /\ masked \in BOOLEAN

\* The loop's locals after the first d blocks of the request.
At(d) ==
  /\ data_addr = (req.Lba + d) * block_size
  /\ data_len = (Blocks - d) * block_size
  /\ sptr = d * block_size

\* Between two commands the first d blocks have moved, and no byte of another;
\* a command that failed may have moved some of its own.
ChunkSound ==
  pc # "idle" => \E d \in 0 .. Blocks - 1 :
    /\ At(d)
    /\ pc = "chunk" => moved \subseteq Requested(d) /\ (~masked => moved = Requested(d))
    /\ pc = "stop" =>
         /\ failed
         /\ moved \subseteq Requested(d + num_blocks)
         /\ ~masked => \E n \in 0 .. d + num_blocks : moved = Requested(n)

\* What the call as a whole has moved.
CallSound ==
  /\ moved \subseteq Requested(Blocks)
  /\ ~masked => \E n \in 0 .. Blocks : moved = Requested(n)
  /\ ~masked /\ pc = "idle" /\ status = "EFI_SUCCESS" => moved = Requested(Blocks)
  /\ pc # "idle" => status = "EFI_NOT_READY"
  /\ status = "EFI_DEVICE_ERROR" => failed
  /\ pc # "idle" \/ moved # {} => req.Lba + Blocks <= LastBlock + 1

BlockIoSound == BlockTypes /\ ChunkSound /\ CallSound

\* The call's size in blocks and the first block are numbers.
LEMMA RequestNumbers ==
  ASSUME NEW r \in Request
  PROVE  /\ r.Lba \in Nat /\ r.Lba < LbaModulus
         /\ r.BufferSize \in Nat /\ LastBlock + r.BufferSize <= LbaModulus
         /\ r.BufferSize \div block_size \in Nat
         /\ r.BufferSize \div block_size <= r.BufferSize
         /\ r.BufferSize % block_size = 0 =>
              r.BufferSize = (r.BufferSize \div block_size) * block_size
<1>1. /\ r.Lba \in Nat /\ r.Lba < LbaModulus
      /\ r.BufferSize \in Nat /\ LastBlock + r.BufferSize <= LbaModulus
  <2>1. r.Lba \in 0 .. LbaModulus - 1 /\ r.BufferSize \in BufferSizes
    BY BlockIoAssumption DEF Request
  <2>2. r.BufferSize \in Nat /\ LastBlock + r.BufferSize <= LbaModulus
    BY <2>1, BlockIoAssumption
  <2> QED
    BY <2>1, <2>2, ParametersAreNatural
<1>2. block_size \in Nat /\ block_size > 0
  BY ParametersAreNatural
<1> DEFINE q == r.BufferSize \div block_size
           m == r.BufferSize % block_size
<1>3. q \in Nat /\ m \in 0 .. block_size - 1 /\ r.BufferSize = q * block_size + m
  BY <1>1, <1>2, Division
<1> HIDE DEF q, m
<1>4. q <= r.BufferSize
  <2>1. q * 1 <= q * block_size
    BY <1>2, <1>3
  <2> QED
    BY <1>1, <1>2, <1>3, <2>1
<1>5. m = 0 => r.BufferSize = q * block_size
  BY <1>1, <1>2, <1>3
<1> QED
  BY <1>1, <1>3, <1>4, <1>5 DEF q, m

\* A call that is not rejected fits the card: the check cannot wrap.
LEMMA AcceptedFits ==
  ASSUME NEW r \in Request, Rejected(r) = "EFI_SUCCESS", r.BufferSize # 0
  PROVE  LET n == r.BufferSize \div block_size
         IN  n \in Nat \ {0} /\ r.BufferSize = n * block_size /\ r.Lba + n <= LastBlock + 1
<1> DEFINE n == r.BufferSize \div block_size
<1>1. /\ r.Lba \in Nat /\ r.BufferSize \in Nat /\ LastBlock + r.BufferSize <= LbaModulus
      /\ n \in Nat /\ n <= r.BufferSize
      /\ r.BufferSize % block_size = 0 => r.BufferSize = n * block_size
  BY RequestNumbers
<1>2. /\ ~(r.Lba > LastBlock)
      /\ ~((r.Lba + (n - 1)) % LbaModulus > LastBlock)
      /\ r.BufferSize % block_size = 0
  <2>1. ~(r.Lba > LastBlock)
    BY DEF Rejected
  <2>2. ~((r.Lba + (n - 1)) % LbaModulus > LastBlock)
    BY <2>1 DEF Rejected
  <2>3. r.BufferSize % block_size = 0
    BY <2>1, <2>2 DEF Rejected
  <2> QED
    BY <2>1, <2>2, <2>3
<1>3. n # 0
  <2>1. n = 0 => n * block_size = 0
    BY ParametersAreNatural
  <2> HIDE DEF n
  <2> QED
    BY <1>1, <1>2, <2>1
<1> HIDE DEF n
<1>4. r.Lba + (n - 1) \in 0 .. LbaModulus - 1
  BY <1>1, <1>2, <1>3, ParametersAreNatural
<1>5. (r.Lba + (n - 1)) % LbaModulus = r.Lba + (n - 1)
  BY <1>4, ParametersAreNatural
<1>6. r.Lba + n <= LastBlock + 1
  BY <1>1, <1>2, <1>4, <1>5, ParametersAreNatural
<1> QED
  BY <1>1, <1>2, <1>3, <1>6 DEF n

\* The size of the next command.
LEMMA ChunkBlocks ==
  ASSUME NEW d \in 0 .. Blocks - 1, Blocks \in Nat, At(d)
  PROVE  /\ num_blocks = IF Blocks - d > MAX_BLOCKS THEN MAX_BLOCKS ELSE Blocks - d
         /\ data_len > SDHCI_ADMA_MAX_TRANS_SZ <=> Blocks - d > MAX_BLOCKS
         /\ num_blocks \in Nat \ {0} /\ d + num_blocks <= Blocks
<1> DEFINE rest == Blocks - d
<1>1. /\ rest \in Nat /\ rest > 0 /\ d \in Nat /\ data_len = rest * block_size
      /\ block_size \in Nat /\ block_size > 0 /\ MAX_BLOCKS \in Nat /\ MAX_BLOCKS > 0
  BY ParametersAreNatural DEF At
<1>2. rest * block_size > MAX_BLOCKS * block_size <=> rest > MAX_BLOCKS
  <2> HIDE DEF rest
  <2>1. rest <= MAX_BLOCKS => rest * block_size <= MAX_BLOCKS * block_size
    BY <1>1, TimesKeepsOrder
  <2>2. rest > MAX_BLOCKS => (MAX_BLOCKS + 1) * block_size <= rest * block_size
    BY <1>1, TimesKeepsOrder
  <2>3. (MAX_BLOCKS + 1) * block_size = MAX_BLOCKS * block_size + block_size
    BY <1>1
  <2>4. rest * block_size \in Nat /\ MAX_BLOCKS * block_size \in Nat
    BY <1>1
  <2> QED
    BY <1>1, <2>1, <2>2, <2>3, <2>4
<1>3. /\ (MAX_BLOCKS * block_size) \div block_size = MAX_BLOCKS
      /\ (rest * block_size) \div block_size = rest
  BY <1>1
<1>4. num_blocks = IF rest > MAX_BLOCKS THEN MAX_BLOCKS ELSE rest
  BY <1>1, <1>2, <1>3 DEF num_blocks, ChunkLength, SDHCI_ADMA_MAX_TRANS_SZ
<1>5. data_len > SDHCI_ADMA_MAX_TRANS_SZ <=> rest > MAX_BLOCKS
  BY <1>1, <1>2 DEF SDHCI_ADMA_MAX_TRANS_SZ
<1> QED
  BY <1>1, <1>4, <1>5

LEMMA BlockIoStart == Init => BlockIoSound
<1> SUFFICES ASSUME Init PROVE BlockIoSound
  OBVIOUS
<1>1. req.BufferSize = 0 /\ Blocks = 0
  BY ParametersAreNatural DEF Init, Blocks
<1>2. moved = Requested(Blocks) /\ moved = {}
  BY <1>1, NothingRequested DEF Init
<1>3. 0 \in 0 .. Blocks
  BY <1>1
<1> QED
  BY <1>1, <1>2, <1>3 DEF Init, BlockIoSound, BlockTypes, ChunkSound, CallSound

LEMMA CallStarts ==
  ASSUME BlockIoSound, NEW r \in Request, NEW name, BlocksCall(name, r)
  PROVE  BlockIoSound'
<1> DEFINE n == r.BufferSize \div block_size
<1>1. /\ pc = "idle" /\ req' = r /\ moved' = {} /\ failed' = FALSE /\ masked' = FALSE
  BY DEF BlocksCall
<1>2. n \in Nat /\ Blocks' = n
  BY <1>1, RequestNumbers DEF Blocks
<1>3. CASE Rejected(r) # "EFI_SUCCESS" \/ r.BufferSize = 0
  <2>1. pc' = "idle" /\ status' = Rejected(r)
    BY <1>1, <1>3 DEF BlocksCall
  <2>2. status' # "EFI_DEVICE_ERROR" /\ (status' = "EFI_SUCCESS" => n = 0)
    BY <1>3, <2>1, ParametersAreNatural DEF Rejected
  <2>3. 0 \in 0 .. n
    BY <1>2
  <2>4. moved' = Requested(0)' /\ moved' \subseteq Requested(n)'
    BY <1>1, NothingRequested DEF Requested
  <2>5. CallSound'
    BY <1>1, <1>2, <2>1, <2>2, <2>3, <2>4 DEF CallSound
  <2> QED
    BY <1>1, <2>1, <2>5 DEF BlockIoSound, BlockTypes, ChunkSound
<1>4. CASE Rejected(r) = "EFI_SUCCESS" /\ r.BufferSize # 0
  <2>1. /\ n \in Nat \ {0} /\ r.BufferSize = n * block_size /\ r.Lba + n <= LastBlock + 1
    BY <1>4, AcceptedFits
  <2>2. /\ pc' = "chunk" /\ status' = "EFI_NOT_READY"
        /\ data_addr' = r.Lba * block_size /\ data_len' = r.BufferSize /\ sptr' = 0
    BY <1>4 DEF BlocksCall
  <2>3. 0 \in 0 .. n - 1 /\ 0 \in 0 .. n
    BY <2>1
  <2>4. moved' = Requested(0)' /\ moved' \subseteq Requested(n)'
    BY <1>1, NothingRequested DEF Requested
  <2>5. At(0)'
    <3>1. r.Lba + 0 = r.Lba /\ n - 0 = n /\ 0 * block_size = 0
      BY <2>1, RequestNumbers, ParametersAreNatural
    <3> QED
      BY <1>1, <1>2, <2>1, <2>2, <3>1 DEF At
  <2>6. ChunkSound'
    BY <1>2, <2>2, <2>3, <2>4, <2>5 DEF ChunkSound
  <2>7. CallSound'
    BY <1>1, <1>2, <2>1, <2>2, <2>3, <2>4 DEF CallSound
  <2> QED
    BY <1>1, <2>2, <2>6, <2>7 DEF BlockIoSound, BlockTypes
<1> QED
  BY <1>3, <1>4

\* A failed command ends the call, one that did not is followed by the next
\* part of the request, or was the last.
LEMMA CommandEnds ==
  ASSUME NEW d \in 0 .. Blocks - 1, Blocks \in Nat, req.Lba \in Nat, At(d), req' = req,
         NEW ret, NextChunk(ret)
  PROVE  \/ ret # 0 /\ pc' = "idle" /\ status' = "EFI_DEVICE_ERROR"
         \/ /\ ret = 0 /\ pc' = "chunk" /\ status' = status
            /\ \E e \in 0 .. Blocks - 1 : e = d + num_blocks /\ At(e)'
         \/ ret = 0 /\ pc' = "idle" /\ status' = "EFI_SUCCESS" /\ d + num_blocks = Blocks
<1>1. /\ num_blocks = IF Blocks - d > MAX_BLOCKS THEN MAX_BLOCKS ELSE Blocks - d
      /\ data_len > SDHCI_ADMA_MAX_TRANS_SZ <=> Blocks - d > MAX_BLOCKS
  BY ChunkBlocks
<1>2. CASE ret # 0
  BY <1>2 DEF NextChunk
<1>3. CASE ret = 0 /\ ~(data_len > SDHCI_ADMA_MAX_TRANS_SZ)
  <2>1. pc' = "idle" /\ status' = "EFI_SUCCESS"
    BY <1>3 DEF NextChunk
  <2>2. d + num_blocks = Blocks
    BY <1>1, <1>3
  <2> QED
    BY <1>3, <2>1, <2>2
<1>4. CASE ret = 0 /\ data_len > SDHCI_ADMA_MAX_TRANS_SZ
  <2>1. /\ pc' = "chunk" /\ status' = status
        /\ data_addr' = data_addr + MAX_BLOCKS * block_size
        /\ data_len' = data_len - MAX_BLOCKS * block_size
        /\ sptr' = sptr + MAX_BLOCKS * block_size
    BY <1>4 DEF NextChunk, SDHCI_ADMA_MAX_TRANS_SZ
  <2>2. num_blocks = MAX_BLOCKS /\ Blocks - d > MAX_BLOCKS
    BY <1>1, <1>4
  <2>3. d + MAX_BLOCKS \in 0 .. Blocks - 1
    BY <2>2, ParametersAreNatural
  <2>4. /\ ((req.Lba + d) * block_size) + MAX_BLOCKS * block_size
             = (req.Lba + (d + MAX_BLOCKS)) * block_size
        /\ ((Blocks - d) * block_size) - MAX_BLOCKS * block_size
             = (Blocks - (d + MAX_BLOCKS)) * block_size
        /\ (d * block_size) + MAX_BLOCKS * block_size = (d + MAX_BLOCKS) * block_size
    BY ParametersAreNatural
  <2>5. Blocks' = Blocks
    BY DEF Blocks
  <2>6. At(d + MAX_BLOCKS)'
    BY <2>1, <2>4, <2>5 DEF At
  <2> QED
    BY <1>4, <2>1, <2>2, <2>3, <2>6
<1> QED
  BY <1>2, <1>3, <1>4, Zenon

\* The places of a transfer in progress.
LEMMA InProgress ==
  ASSUME BlockIoSound, pc # "idle"
  PROVE  /\ Blocks \in Nat /\ req.Lba \in Nat /\ req.Lba + Blocks <= LastBlock + 1
         /\ status = "EFI_NOT_READY"
  BY RequestNumbers DEF BlockIoSound, BlockTypes, CallSound, Blocks

\* What a command did to the request's part that moved.
LEMMA CommandPart ==
  ASSUME NEW d \in Nat, Blocks \in Nat, req.Lba \in Nat, At(d),
         num_blocks \in Nat \ {0}, NEW n \in 0 .. num_blocks,
         moved \subseteq Requested(d), ~masked => moved = Requested(d),
         moved' = moved \cup Moves(data_addr \div block_size, num_blocks, n)
  PROVE  /\ moved' \subseteq Requested(d + num_blocks)
         /\ ~masked => moved' = Requested(d + n)
<1>1. data_addr \div block_size = req.Lba + d /\ sptr = d * block_size
  <2>1. ((req.Lba + d) * block_size) \div block_size = req.Lba + d
    BY ParametersAreNatural
  <2> QED
    BY <2>1 DEF At
<1>2. Requested(d) \cup Moves(req.Lba + d, num_blocks, n) = Requested(d + n)
  BY <1>1, CommandMoves
<1>3. Requested(d + n) \subseteq Requested(d + num_blocks)
  BY RequestedGrows
<1> QED
  BY <1>1, <1>2, <1>3

LEMMA CommandSound ==
  ASSUME BlockIoSound, NEW o \in Outcome(num_blocks), pc = "chunk", mmc_sdhci_transfer(o),
         req' = req
  PROVE  BlockIoSound'
<1> DEFINE ret == mmc_parse_response(o.resp)
<1>1. /\ Blocks \in Nat /\ req.Lba \in Nat /\ req.Lba + Blocks <= LastBlock + 1
      /\ status = "EFI_NOT_READY"
  BY InProgress
<1>2. PICK d \in 0 .. Blocks - 1 :
        At(d) /\ moved \subseteq Requested(d) /\ (~masked => moved = Requested(d))
  BY DEF BlockIoSound, ChunkSound
<1>3. num_blocks \in Nat \ {0} /\ d + num_blocks <= Blocks
  BY <1>1, <1>2, ChunkBlocks
<1>4. o.n \in 0 .. num_blocks /\ (o.ret = 0 /\ o.resp = "tran" => o.n = num_blocks)
  BY <1>3 DEF Outcome
<1>5. moved' = moved \cup Moves(data_addr \div block_size, num_blocks, o.n)
  BY DEF mmc_sdhci_transfer
<1>6. moved' \subseteq Requested(d + num_blocks) /\ (~masked => moved' = Requested(d + o.n))
  BY <1>1, <1>2, <1>3, <1>4, <1>5, CommandPart
<1>7. /\ \A k : Requested(k)' = Requested(k)
      /\ Blocks' = Blocks
  BY DEF Requested, Blocks
<1>8. failed' = (failed \/ o.ret # 0 \/ o.resp # "tran") /\ failed' \in BOOLEAN
  BY DEF mmc_sdhci_transfer, BlockIoSound, BlockTypes
<1>9. /\ moved' \subseteq Requested(Blocks)
      /\ d + o.n \in 0 .. Blocks /\ d + o.n \in 0 .. d + num_blocks
  BY <1>1, <1>3, <1>4, <1>6, RequestedGrows
<1>10. CASE o.ret # 0 /\ num_blocks > 1
  <2>1. /\ pc' = "stop" /\ status' = status /\ masked' = masked
        /\ data_addr' = data_addr /\ data_len' = data_len /\ sptr' = sptr
    BY <1>10 DEF mmc_sdhci_transfer, loopVars
  <2>2. At(d)' /\ num_blocks' = num_blocks
    BY <1>2, <1>7, <2>1 DEF At, num_blocks, ChunkLength
  <2>3. failed'
    BY <1>8, <1>10
  <2>4. ChunkSound'
    BY <1>6, <1>7, <1>9, <2>1, <2>2, <2>3 DEF ChunkSound
  <2>5. CallSound'
    BY <1>1, <1>6, <1>7, <1>9, <2>1 DEF CallSound
  <2> QED
    BY <1>8, <2>1, <2>4, <2>5 DEF BlockIoSound, BlockTypes
<1>11. CASE ~(o.ret # 0 /\ num_blocks > 1)
  <2>1. NextChunk(ret) /\ masked' = (masked \/ (o.ret # 0 /\ ret = 0))
    BY <1>11 DEF mmc_sdhci_transfer
  <2>2. ret = 0 <=> o.resp = "tran"
    BY DEF mmc_parse_response
  <2>3. /\ masked' \in BOOLEAN
        /\ ~masked' => moved' = Requested(d + o.n)
        /\ ~masked' /\ ret = 0 => moved' = Requested(d + num_blocks)
    BY <1>4, <1>6, <2>1, <2>2 DEF BlockIoSound, BlockTypes
  <2>4. ret # 0 => failed'
    BY <1>8, <2>2
  <2>5. \/ ret # 0 /\ pc' = "idle" /\ status' = "EFI_DEVICE_ERROR"
        \/ /\ ret = 0 /\ pc' = "chunk" /\ status' = status
           /\ \E e \in 0 .. Blocks - 1 : e = d + num_blocks /\ At(e)'
        \/ ret = 0 /\ pc' = "idle" /\ status' = "EFI_SUCCESS" /\ d + num_blocks = Blocks
    BY <1>1, <1>2, <2>1, CommandEnds
  <2> HIDE DEF ret
  <2>6. BlockTypes'
    BY <1>8, <2>3, <2>5 DEF BlockTypes, BlockIoSound
  <2>7. ChunkSound'
    <3>1. CASE pc' = "idle"
      BY <3>1 DEF ChunkSound
    <3>2. CASE pc' = "chunk" /\ ret = 0
      <4>1. PICK e \in 0 .. Blocks - 1 : e = d + num_blocks /\ At(e)'
        BY <2>5, <3>2
      <4>2. moved' \subseteq Requested(e)' /\ (~masked' => moved' = Requested(e)')
        BY <1>6, <1>7, <2>3, <3>2, <4>1
      <4> QED
        BY <1>7, <3>2, <4>1, <4>2 DEF ChunkSound
    <3> QED
      BY <2>5, <3>1, <3>2
  <2>8. CallSound'
    BY <1>1, <1>7, <1>9, <2>3, <2>4, <2>5 DEF CallSound
  <2> QED
    BY <2>6, <2>7, <2>8 DEF BlockIoSound
<1> QED
  BY <1>10, <1>11

LEMMA StopSound ==
  ASSUME BlockIoSound, NEW o \in StopOutcome, mmc_stop_command(o)
  PROVE  BlockIoSound'
<1> DEFINE ret == IF o.ret # 0 THEN o.ret ELSE mmc_parse_response(o.resp)
<1>1. /\ pc = "stop" /\ masked' = (masked \/ ret = 0) /\ NextChunk(ret)
      /\ req' = req /\ moved' = moved /\ failed' = failed
  BY DEF mmc_stop_command
<1> HIDE DEF ret
<1>2. /\ Blocks \in Nat /\ req.Lba \in Nat /\ req.Lba + Blocks <= LastBlock + 1
      /\ status = "EFI_NOT_READY"
  BY <1>1, InProgress
<1>3. PICK d \in 0 .. Blocks - 1 :
        /\ At(d) /\ failed /\ moved \subseteq Requested(d + num_blocks)
        /\ ~masked => \E n \in 0 .. d + num_blocks : moved = Requested(n)
  BY <1>1 DEF BlockIoSound, ChunkSound
<1>4. /\ \A k : Requested(k)' = Requested(k)
      /\ Blocks' = Blocks
  BY <1>1 DEF Requested, Blocks
<1>5. \/ ret # 0 /\ pc' = "idle" /\ status' = "EFI_DEVICE_ERROR"
      \/ /\ ret = 0 /\ pc' = "chunk" /\ status' = status
         /\ \E e \in 0 .. Blocks - 1 : e = d + num_blocks /\ At(e)'
      \/ ret = 0 /\ pc' = "idle" /\ status' = "EFI_SUCCESS" /\ d + num_blocks = Blocks
  BY <1>1, <1>2, <1>3, CommandEnds
<1>6. moved \subseteq Requested(Blocks) /\ (~masked => \E n \in 0 .. Blocks : moved = Requested(n))
  BY DEF BlockIoSound, CallSound
<1>7. masked' \in BOOLEAN /\ (ret = 0 => masked') /\ (~masked' => ~masked)
  BY <1>1 DEF BlockIoSound, BlockTypes
<1>8. BlockTypes'
  BY <1>1, <1>5, <1>7 DEF BlockTypes, BlockIoSound
<1>9. ChunkSound'
  <2>1. CASE pc' = "idle"
    BY <2>1 DEF ChunkSound
  <2>2. CASE pc' = "chunk" /\ ret = 0
    <3>1. PICK e \in 0 .. Blocks - 1 : e = d + num_blocks /\ At(e)'
      BY <1>5, <2>2
    <3>2. moved' \subseteq Requested(e)' /\ masked'
      BY <1>1, <1>3, <1>4, <1>7, <2>2, <3>1
    <3> QED
      BY <1>4, <2>2, <3>1, <3>2 DEF ChunkSound
  <2> QED
    BY <1>5, <2>1, <2>2
<1>10. CallSound'
  BY <1>1, <1>2, <1>3, <1>4, <1>5, <1>6, <1>7 DEF CallSound
<1> QED
  BY <1>8, <1>9, <1>10 DEF BlockIoSound

\* The inductive invariant.
THEOREM TransferTracked == Spec => []BlockIoSound
<1>1. BlockIoSound /\ [Next]_vars => BlockIoSound'
  <2> SUFFICES ASSUME BlockIoSound, [Next]_vars PROVE BlockIoSound'
    OBVIOUS
  <2>1. CASE UNCHANGED vars
    BY <2>1 DEF vars, loopVars, BlockIoSound, BlockTypes, ChunkSound, CallSound, At, Requested, Blocks,
                num_blocks, ChunkLength
  <2>2. ASSUME NEW o \in Outcome(num_blocks), mmc_sdhci_read(o) \/ mmc_sdhci_write(o)
        PROVE  BlockIoSound'
    BY <2>2, CommandSound DEF mmc_sdhci_read, mmc_sdhci_write
  <2>3. ASSUME NEW o \in StopOutcome, mmc_stop_command(o) PROVE BlockIoSound'
    BY <2>3, StopSound
  <2>4. ASSUME NEW r \in Request, MMCHSReadBlocks(r) \/ MMCHSWriteBlocks(r) PROVE BlockIoSound'
    BY <2>4, CallStarts DEF MMCHSReadBlocks, MMCHSWriteBlocks
  <2> QED
    BY <2>1, <2>2, <2>3, <2>4 DEF Next, Transfer
<1> QED
  BY <1>1, BlockIoStart, PTL DEF Spec

\* Nothing but what was asked for is touched, on the card or in memory: the
\* cut into commands and descriptor lines is exact, the address is never off
\* the card, and the check of the last block does not wrap.
THEOREM NothingElseMoves == Spec => []OnlyRequested
<1>1. BlockIoSound => OnlyRequested
  <2> SUFFICES ASSUME BlockIoSound PROVE OnlyRequested
    OBVIOUS
  <2>1. moved \subseteq Requested(Blocks) /\ (moved # {} => req.Lba + Blocks <= LastBlock + 1)
    BY DEF BlockIoSound, CallSound
  <2>2. req.Lba \in Nat /\ Blocks \in Nat
    BY RequestNumbers DEF BlockIoSound, BlockTypes, Blocks
  <2>3. ASSUME NEW m \in moved PROVE m[1] \in 0 .. LastBlock
    <3>1. PICK i \in 0 .. Blocks - 1, k \in 0 .. block_size - 1 :
            m = <<req.Lba + i, k, i * block_size + k>>
      BY <2>1 DEF Requested
    <3>2. m[1] = req.Lba + i
      BY <3>1
    <3> QED
      BY <2>1, <2>2, <3>2, ParametersAreNatural
  <2> QED
    BY <2>1, <2>3 DEF OnlyRequested
<1> QED
  BY <1>1, TransferTracked, PTL

\* A success moved everything and a failure a first part, unless a failed
\* command was reported to its caller as a success.
THEOREM WholeOrPrefix == Spec => []WholeOrPrefixUnlessMasked
<1>1. BlockIoSound => WholeOrPrefixUnlessMasked
  BY DEF BlockIoSound, CallSound, WholeOrPrefixUnlessMasked
<1> QED
  BY <1>1, TransferTracked, PTL

\* EFI_DEVICE_ERROR always has a cause on the card or the controller.
THEOREM ErrorsAreReal == Spec => []DeviceErrorIsReal
<1>1. BlockIoSound => DeviceErrorIsReal
  BY DEF BlockIoSound, CallSound, DeviceErrorIsReal
<1> QED
  BY <1>1, TransferTracked, PTL
=============================================================================
