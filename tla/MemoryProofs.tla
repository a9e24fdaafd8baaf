---------------------------- MODULE MemoryProofs ----------------------------
(* tkmc_memset() and tkmc_memcpy() stay inside their destination, store      *)
(* every byte right and use words at word boundaries only, for every size,   *)
(* alignment, word and block.                                                *)
EXTENDS Memory, TLAPS

\* What InBounds rests on: no loop takes off more bytes than are left, and the two
\* cursors move together.
BoundsInv ==
  /\ size \in 0..MaxSize
  /\ n \in 0..size
  /\ d8 = size - n
  /\ s8 = IF op = "memset" THEN 0 ELSE d8
  /\ mem \in [Near -> Int]
  /\ InBounds

\* A store of bytes that are left stays in the destination.
LEMMA StoreInBounds ==
  ASSUME BoundsInv, NEW bytes \in Nat, bytes <= n, Store(bytes)
  PROVE  BoundsInv'
<1>1. /\ size' = size /\ op' = op /\ n' = n - bytes /\ d8' = d8 + bytes
      /\ s8' = IF op = "memset" THEN s8 ELSE s8 + bytes
      /\ size \in Nat /\ n \in Nat /\ n <= size /\ d8 = size - n
  BY MemoryAssumption DEF BoundsInv, Store
<1>2. n' \in 0..size
  BY <1>1
<1>3. mem' = [i \in Near |-> IF i \in d8..d8 + bytes - 1 THEN Byte(s8 + (i - d8)) ELSE mem[i]]
  BY DEF Store, Copied
<1>4. \A i \in Near : i \in d8..d8 + bytes - 1 => i \in 0..size - 1
  BY <1>1, MemoryAssumption DEF Near
<1>5. s8 \in Int /\ d8 \in Int
  BY <1>1 DEF BoundsInv
<1>6. \A i \in Near : i \in Int /\ Byte(s8 + (i - d8)) \in Int
  BY <1>5, MemoryAssumption DEF Near, Byte
<1>7. mem' \in [Near -> Int]
  BY <1>3, <1>6 DEF BoundsInv
<1>8. d8' = size' - n' /\ s8' = (IF op' = "memset" THEN 0 ELSE d8') /\ s8' <= size'
  BY <1>1 DEF BoundsInv
<1>9. InBounds'
  BY <1>1, <1>3, <1>4, <1>8 DEF BoundsInv, InBounds
<1> QED
  BY <1>1, <1>2, <1>7, <1>8, <1>9 DEF BoundsInv

\* Every turn of a loop stores no more bytes than are left.
LEMMA StepInBounds ==
  ASSUME BoundsInv, [Next]_vars
  PROVE  BoundsInv'
<1>0. n \in Nat /\ WORD \in Nat /\ BLOCK \in Nat
  BY MemoryAssumption DEF BoundsInv
<1>1. CASE UNCHANGED <<op, size, n, d8, s8, mem>>
  BY <1>1 DEF BoundsInv, InBounds
<1>2. CASE n > 0 /\ Store(1)
  BY <1>0, <1>2, StoreInBounds
<1>3. CASE n >= WORD /\ Store(WORD)
  BY <1>0, <1>3, StoreInBounds
<1>4. CASE n >= BLOCK /\ Store(BLOCK)
  BY <1>0, <1>4, StoreInBounds
<1>5. Start \/ Return \/ UNCHANGED vars => UNCHANGED <<op, size, n, d8, s8, mem>>
  BY DEF Start, Return, GoTo, vars
<1>6. HeadBytes \/ Bytes => (n > 0 /\ Store(1)) \/ UNCHANGED <<op, size, n, d8, s8, mem>>
  BY DEF HeadBytes, Bytes, ByteLeft, GoTo
<1>7. Words => (n >= WORD /\ Store(WORD)) \/ UNCHANGED <<op, size, n, d8, s8, mem>>
  BY DEF Words, GoTo
<1>8. Blocks => (n >= BLOCK /\ Store(BLOCK)) \/ UNCHANGED <<op, size, n, d8, s8, mem>>
  BY DEF Blocks, BlockLeft, GoTo
<1> QED
  BY <1>1, <1>2, <1>3, <1>4, <1>5, <1>6, <1>7, <1>8 DEF Next

\* tkmc_memset() and tkmc_memcpy() write no byte outside their destination.
THEOREM MemoryInBounds == Spec => []InBounds
<1>1. Init => BoundsInv
  BY MemoryAssumption DEF Init, BoundsInv, InBounds, Near, Untouched
<1>2. BoundsInv /\ [Next]_vars => BoundsInv'
  BY StepInBounds
<1>3. BoundsInv => InBounds
  BY DEF BoundsInv
<1> QED
  BY <1>1, <1>2, <1>3, PTL DEF Spec

-----------------------------------------------------------------------------
\* The bytes before d8 are stored, and a call that returns has none left.
StoredInv ==
  /\ BoundsInv
  /\ \A i \in 0..d8 - 1 : mem[i] = Byte(i)
  /\ pc = "done" => n = 0

\* A call that returns has stored every byte right: what StoresAll says of the
\* end, without that the end is reached.
StoredRight == pc = "done" => \A i \in 0..size - 1 : mem[i] = Byte(i)

\* A store puts the bytes next to those that are stored.
LEMMA StoreRight ==
  ASSUME StoredInv, NEW bytes \in Nat, bytes <= n, Store(bytes), pc # "done"
  PROVE  StoredInv'
<1>1. BoundsInv'
  BY StoreInBounds DEF StoredInv
<1>2. size \in Nat /\ n \in Nat /\ size <= MaxSize /\ n <= size
  BY MemoryAssumption DEF StoredInv, BoundsInv
<1>3. d8' = d8 + bytes /\ d8 \in Nat /\ d8' \in Nat /\ d8' <= MaxSize
  BY <1>2, MemoryAssumption DEF Store, StoredInv, BoundsInv
<1>4. \A i \in 0..d8' - 1 : i \in Near
  BY <1>3, MemoryAssumption DEF Near
<1>5. \A i \in Int : Byte(i)' = Byte(i) /\ Byte(s8 + (i - d8)) = Byte(i)
  BY <1>3 DEF Store, Byte, StoredInv, BoundsInv
<1>6. \A i \in 0..d8' - 1 : i \in Int /\ (i \in 0..d8 - 1 \/ i \in d8..d8 + bytes - 1)
  BY <1>3
<1>7. \A i \in 0..d8' - 1 : mem'[i] = Byte(i)'
  <2>1. \A i \in Near : mem'[i] = IF i \in d8..d8 + bytes - 1 THEN Byte(s8 + (i - d8)) ELSE mem[i]
    BY DEF Store, Copied
  <2> QED
    BY <1>4, <1>5, <1>6, <2>1 DEF StoredInv
<1>8. pc' # "done"
  BY DEF Store
<1> QED
  BY <1>1, <1>7, <1>8 DEF StoredInv

\* The invariant holds throughout.
LEMMA StoredInvHolds == Spec => []StoredInv
<1>1. Init => StoredInv
  <2>1. Init => BoundsInv
    BY MemoryAssumption DEF Init, BoundsInv, InBounds, Near, Untouched
  <2>2. Init => d8 = 0 /\ pc # "done"
    BY MemoryAssumption DEF Init
  <2> QED
    BY <2>1, <2>2 DEF StoredInv
<1>2. StoredInv /\ [Next]_vars => StoredInv'
  <2> SUFFICES ASSUME StoredInv, [Next]_vars PROVE StoredInv'
    OBVIOUS
  <2>0. n \in Nat /\ WORD \in Nat /\ BLOCK \in Nat
    BY MemoryAssumption DEF StoredInv, BoundsInv
  <2>1. ASSUME UNCHANGED <<op, size, n, d8, s8, mem>>, pc' = "done" => n = 0 PROVE StoredInv'
    <3>1. BoundsInv'
      BY <2>1 DEF StoredInv, BoundsInv, InBounds
    <3> QED
      BY <2>1, <3>1 DEF StoredInv, Byte
  <2>2. ASSUME UNCHANGED vars PROVE StoredInv'
    BY <2>1, <2>2 DEF vars, StoredInv
  <2>3. ASSUME NEW at, GoTo(at), at # "done" PROVE StoredInv'
    BY <2>1, <2>3 DEF GoTo
  <2>4. CASE Start
    BY <2>3, <2>4 DEF Start
  <2>5. CASE HeadBytes
    BY <2>0, <2>3, <2>5, StoreRight DEF HeadBytes
  <2>6. CASE Blocks
    BY <2>0, <2>3, <2>6, StoreRight DEF Blocks, BlockLeft
  <2>7. CASE Words
    BY <2>0, <2>3, <2>7, StoreRight DEF Words
  <2>8. CASE Bytes
    <3>1. CASE n > 0
      BY <2>0, <2>8, <3>1, StoreRight DEF Bytes, ByteLeft
    <3>2. CASE ~(n > 0)
      BY <2>0, <2>1, <2>8, <3>2 DEF Bytes, ByteLeft, GoTo
    <3> QED
      BY <3>1, <3>2
  <2>9. CASE Return
    BY <2>2, <2>9 DEF Return
  <2> QED
    BY <2>2, <2>4, <2>5, <2>6, <2>7, <2>8, <2>9 DEF Next
<1> QED
  BY <1>1, <1>2, PTL DEF Spec

\* tkmc_memset() and tkmc_memcpy() return with every byte of the destination
\* stored as a plain loop over the bytes stores it.
THEOREM MemoryStoredRight == Spec => []StoredRight
<1>1. StoredInv => StoredRight
  <2> SUFFICES ASSUME StoredInv, pc = "done" PROVE \A i \in 0..size - 1 : mem[i] = Byte(i)
    BY DEF StoredRight
  <2>1. d8 = size
    BY MemoryAssumption DEF StoredInv, BoundsInv
  <2> QED
    BY <2>1 DEF StoredInv
<1> QED
  BY <1>1, StoredInvHolds, PTL

-----------------------------------------------------------------------------
\* The word loops run with equal alignments and from a word boundary; only when
\* less than a word is left may they stand elsewhere.
AlignInv ==
  /\ BoundsInv
  /\ dest \in Nat
  /\ pc \in {"head", "blocks", "words"} => SameAlignment
  /\ pc \in {"blocks", "words"} /\ n >= WORD => (dest + d8) % WORD = 0

\* Multiples of a word.
LEMMA Multiples ==
  ASSUME NEW a \in Nat, NEW b \in Nat, NEW w \in Nat, w >= 1, a % w = 0, b % w = 0
  PROVE  (a + b) % w = 0
<1>1. a = w * (a \div w) /\ b = w * (b \div w) /\ a \div w \in Nat /\ b \div w \in Nat
  OBVIOUS
<1> DEFINE q == a \div w + b \div w
<1>2. a + b = w * q /\ q \in Nat
  BY <1>1
<1> DEFINE d == (a + b) \div w
           r == (a + b) % w
<1>3. a + b = w * d + r /\ d \in Nat /\ r \in Nat /\ r < w
  OBVIOUS
<1> HIDE DEF q, d, r
<1>4. r = w * (q - d) /\ q - d \in Int
  BY <1>2, <1>3
<1>5. q - d >= 1 => w * (q - d) >= w
  BY <1>4
<1>6. q - d <= -1 => w * (q - d) <= -w
  BY <1>4
<1>7. q - d = 0 /\ r = 0
  BY <1>3, <1>4, <1>5, <1>6
<1> QED
  BY <1>7 DEF r

\* The invariant holds throughout: a word and a block are multiples of a word.
LEMMA AlignInvHolds == Spec => []AlignInv
<1>1. Init => AlignInv
  <2>1. Init => BoundsInv
    BY MemoryAssumption DEF Init, BoundsInv, InBounds, Near, Untouched
  <2> QED
    BY <2>1, MemoryAssumption DEF Init, AlignInv
<1>2. AlignInv /\ [Next]_vars => AlignInv'
  <2> SUFFICES ASSUME AlignInv, [Next]_vars PROVE AlignInv'
    OBVIOUS
  <2>0. /\ n \in Nat /\ WORD \in Nat /\ WORD >= 1 /\ BLOCK \in Nat /\ BLOCK > 0
        /\ BLOCK % WORD = 0 /\ WORD % WORD = 0 /\ dest \in Nat
        /\ size \in Nat /\ n <= size /\ dest + d8 \in Nat /\ d8 \in Nat
    BY MemoryAssumption DEF AlignInv, BoundsInv
  <2>1. BoundsInv'
    BY StepInBounds DEF AlignInv
  <2>2. ASSUME UNCHANGED vars PROVE AlignInv'
    BY <2>1, <2>2 DEF vars, AlignInv, SameAlignment
  <2>3. ASSUME GoTo("bytes") \/ GoTo("done") PROVE AlignInv'
    BY <2>1, <2>3 DEF GoTo, AlignInv
  <2>4. CASE Start
    <3>1. CASE GoTo("bytes")
      BY <2>3, <3>1
    <3>2. CASE GoTo("head") /\ SameAlignment
      BY <2>1, <3>2 DEF GoTo, AlignInv, SameAlignment
    <3> QED
      BY <2>4, <3>1, <3>2 DEF Start
  <2>5. CASE HeadBytes
    <3>1. CASE Store(1)
      BY <2>1, <2>5, <3>1 DEF Store, HeadBytes, AlignInv, SameAlignment
    <3>2. CASE GoTo("blocks") /\ ((dest + d8) % WORD = 0 \/ ~(n > 0))
      <4>1. n >= WORD => (dest + d8) % WORD = 0
        BY <2>0, <3>2
      <4> QED
        BY <2>1, <2>5, <3>2, <4>1 DEF GoTo, HeadBytes, AlignInv, SameAlignment
    <3> QED
      BY <2>5, <3>1, <3>2 DEF HeadBytes
  <2>6. ASSUME NEW bytes \in Nat, bytes % WORD = 0, bytes <= n, n >= WORD,
               pc \in {"blocks", "words"}, Store(bytes)
        PROVE  AlignInv'
    <3>1. (dest + d8) % WORD = 0
      BY <2>6 DEF AlignInv
    <3>2. (dest + d8 + bytes) % WORD = 0
      BY <2>0, <2>6, <3>1, Multiples
    <3>3. dest' + d8' = dest + d8 + bytes
      BY <2>0, <2>6 DEF Store
    <3> QED
      BY <2>1, <2>6, <3>2, <3>3 DEF Store, AlignInv, SameAlignment
  <2>7. CASE Blocks
    <3>1. CASE BlockLeft /\ Store(BLOCK)
      <4>1. WORD <= BLOCK
        BY <2>0
      <4>2. BLOCK <= n /\ n >= WORD
        BY <2>0, <3>1, <4>1 DEF BlockLeft
      <4> QED
        BY <2>0, <2>6, <2>7, <3>1, <4>2 DEF Blocks
    <3>2. CASE GoTo("words")
      BY <2>1, <2>7, <3>2 DEF GoTo, Blocks, AlignInv, SameAlignment
    <3> QED
      BY <2>7, <3>1, <3>2 DEF Blocks
  <2>8. CASE Words
    BY <2>0, <2>3, <2>6, <2>8 DEF Words
  <2>9. CASE Bytes
    <3>1. CASE Store(1)
      BY <2>1, <2>9, <3>1 DEF Store, Bytes, AlignInv
    <3> QED
      BY <2>3, <2>9, <3>1 DEF Bytes
  <2>10. CASE Return
    BY <2>2, <2>10 DEF Return
  <2> QED
    BY <2>2, <2>4, <2>5, <2>7, <2>8, <2>9, <2>10 DEF Next
<1> QED
  BY <1>1, <1>2, PTL DEF Spec

\* The word and block loops of tkmc_memset() and tkmc_memcpy() access words at
\* word boundaries only, in the source as in the destination.
THEOREM MemoryAligned == Spec => []WordsAligned
<1>1. AlignInv => WordsAligned
  BY DEF AlignInv, BoundsInv, WordsAligned, SameAlignment
<1> QED
  BY <1>1, AlignInvHolds, PTL

-----------------------------------------------------------------------------
\* The loops that are still to come, the one that runs included.
LoopsLeft ==
  CASE pc = "start"  -> 5
    [] pc = "head"   -> 4
    [] pc = "blocks" -> 3
    [] pc = "words"  -> 2
    [] pc = "bytes"  -> 1
    [] OTHER         -> 0

\* No more turns than this are to come.
TurnsLeft == n + LoopsLeft

TurnCounts == TurnsLeft \in Nat /\ TurnsLeft' \in Nat /\ TurnsLeft' < TurnsLeft

\* No loop of tkmc_memset() and tkmc_memcpy() turns without storing a byte or
\* giving way to the next loop, and the loops have an order: every step takes
\* from the turns that are left, of which there is a natural number.
EveryTurnCounts == [][TurnCounts]_vars

\* A call of size bytes makes at most size + 5 steps, whatever the word, the
\* block and the alignments: what StoresAll needs besides the fairness.
THEOREM MemoryTurnsEnd == Spec => EveryTurnCounts
<1>1. Spec => []BoundsInv
  <2>1. Init => BoundsInv
    BY MemoryAssumption DEF Init, BoundsInv, InBounds, Near, Untouched
  <2>2. BoundsInv /\ [Next]_vars => BoundsInv'
    BY StepInBounds
  <2> QED
    BY <2>1, <2>2, PTL DEF Spec
<1>2. BoundsInv /\ BoundsInv' /\ [Next]_vars
        => [TurnCounts]_vars
  <2> SUFFICES ASSUME BoundsInv, BoundsInv', Next, ~UNCHANGED vars
               PROVE  TurnsLeft \in Nat /\ TurnsLeft' \in Nat /\ TurnsLeft' < TurnsLeft
    BY DEF TurnCounts
  <2>1. /\ n \in Nat /\ n' \in Nat
        /\ WORD \in Nat /\ WORD >= 1 /\ BLOCK \in Nat /\ BLOCK >= 1
    BY MemoryAssumption DEF BoundsInv
  <2>2. LoopsLeft \in Nat /\ LoopsLeft' \in Nat
    BY DEF LoopsLeft
  <2>3. TurnsLeft = n + LoopsLeft /\ TurnsLeft' = n' + LoopsLeft'
    BY DEF TurnsLeft
  <2>4. ASSUME NEW bytes \in Nat, bytes >= 1, Store(bytes),
               pc \in {"head", "blocks", "words", "bytes"}
        PROVE  LoopsLeft > 0 /\ n' + LoopsLeft' < n + LoopsLeft
    <3>1. n' = n - bytes /\ pc' = pc
      BY <2>4 DEF Store
    <3>2. LoopsLeft' = LoopsLeft /\ LoopsLeft > 0
      BY <2>4, <3>1 DEF LoopsLeft
    <3> QED
      BY <2>1, <2>2, <2>4, <3>1, <3>2
  <2>5. LoopsLeft > 0 /\ n' + LoopsLeft' < n + LoopsLeft
    <3>1. CASE Start
      BY <2>1, <3>1 DEF Start, GoTo, LoopsLeft
    <3>2. CASE HeadBytes
      BY <2>1, <2>4, <3>2 DEF HeadBytes, GoTo, LoopsLeft
    <3>3. CASE Blocks
      BY <2>1, <2>4, <3>3 DEF Blocks, GoTo, LoopsLeft
    <3>4. CASE Words
      BY <2>1, <2>4, <3>4 DEF Words, GoTo, LoopsLeft
    <3>5. CASE Bytes
      BY <2>1, <2>4, <3>5 DEF Bytes, GoTo, LoopsLeft
    <3>6. CASE Return
      BY <3>6 DEF Return
    <3> QED
      BY <3>1, <3>2, <3>3, <3>4, <3>5, <3>6 DEF Next
  <2>6. n + LoopsLeft \in Nat /\ n' + LoopsLeft' \in Nat
    <3>1. \A a, b \in Nat : a + b \in Nat
      OBVIOUS
    <3> QED
      BY <2>1, <2>2, <3>1, Zenon
  <2> QED
    BY <2>3, <2>5, <2>6, Zenon
<1> QED
  BY <1>1, <1>2, PTL DEF Spec, EveryTurnCounts
=============================================================================
