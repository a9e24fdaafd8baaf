------------------------------- MODULE Memory -------------------------------
(***************************************************************************)
(* tkmc_memset() and tkmc_memcpy() (kernel/memset.c, kernel/memcpy.c): the *)
(* byte, word and block loops over a destination of any alignment.  A step *)
(* is one turn of a loop.                                                  *)
(***************************************************************************)
EXTENDS Integers

CONSTANTS
  WORD,     \* bytes of a word, 4
  BLOCK,    \* bytes of a turn of the unrolled loop, 32
  MaxSize   \* bound: the most bytes of a call

ASSUME MemoryAssumption ==
  /\ WORD \in Nat /\ WORD >= 1
  /\ BLOCK \in Nat /\ BLOCK % WORD = 0 /\ BLOCK > 0
  /\ MaxSize \in Nat

VARIABLES
  op,        \* "memset" or "memcpy"
  dest, src, \* the two addresses, modulo a word
  size,      \* the argument n
  n,         \* bytes that are left
  d8, s8,    \* the two cursors, as distances from dest and src
  pc,        \* the loop that runs
  mem        \* what was stored at each distance from dest: Untouched, or the
             \* number of the source byte

vars == <<op, dest, src, size, n, d8, s8, pc, mem>>

Untouched == -1
Near == -WORD..MaxSize + BLOCK   \* dest and its surroundings

\* What is read at distance i: byte i of the source, or the fill byte, which is
\* byte 0.
Byte(i) == IF op = "memset" THEN 0 ELSE i

Init ==
  /\ op \in {"memset", "memcpy"}
  /\ dest \in 0..WORD - 1
  /\ src \in (IF op = "memset" THEN {0} ELSE 0..WORD - 1)
  /\ size \in 0..MaxSize
  /\ n = size
  /\ d8 = 0 /\ s8 = 0
  /\ pc = "start"
  /\ mem = [i \in Near |-> Untouched]

\* The bytes from s8 on are stored from d8 on, one byte, one word, or the words of a
\* block.
Copied(bytes) == [i \in Near |-> IF i \in d8..d8 + bytes - 1 THEN Byte(s8 + (i - d8)) ELSE mem[i]]

\* Mutation: the source moves by a word when a block was stored.
StoreDrifts(bytes) ==
  /\ mem' = Copied(bytes)
  /\ d8' = d8 + bytes
  /\ s8' = IF op = "memset" THEN s8 ELSE IF bytes = BLOCK THEN s8 + WORD ELSE s8 + bytes
  /\ n' = n - bytes
  /\ UNCHANGED <<op, dest, src, size, pc>>

\* Both cursors move past the bytes; tkmc_memset() has the first one only.
Store(bytes) ==
  /\ mem' = Copied(bytes)
  /\ d8' = d8 + bytes
  /\ s8' = IF op = "memset" THEN s8 ELSE s8 + bytes
  /\ n' = n - bytes
  /\ UNCHANGED <<op, dest, src, size, pc>>

GoTo(at) == pc' = at /\ UNCHANGED <<op, dest, src, size, n, d8, s8, mem>>

-----------------------------------------------------------------------------
\* Mutation: the alignment of the source is not looked at.
SameAlignmentAssumed == TRUE

\* (d8 ^ s8) & 3 is 0; memset has no source.
SameAlignment == op = "memset" \/ dest = src

\* Small sizes, and a copy between different alignments, go byte by byte.
Start == pc = "start" /\ GoTo(IF n < BLOCK \/ ~SameAlignment THEN "bytes" ELSE "head")

\* Byte by byte up to a word boundary.
HeadBytes ==
  /\ pc = "head"
  /\ IF (dest + d8) % WORD # 0 /\ n > 0 THEN Store(1) ELSE GoTo("blocks")

\* Mutation: a block that is not complete any more is stored too.
BlockLeftShort == n >= BLOCK - WORD

BlockLeft == n >= BLOCK

Blocks == pc = "blocks" /\ IF BlockLeft THEN Store(BLOCK) ELSE GoTo("words")

Words == pc = "words" /\ IF n >= WORD THEN Store(WORD) ELSE GoTo("bytes")

ByteLeft == n > 0

Bytes == pc = "bytes" /\ IF ByteLeft THEN Store(1) ELSE GoTo("done")

Return == pc = "done" /\ UNCHANGED vars

Next == Start \/ HeadBytes \/ Blocks \/ Words \/ Bytes \/ Return

Spec == Init /\ [][Next]_vars /\ WF_vars(Next)

-----------------------------------------------------------------------------
\* No byte outside the destination is ever written and none past the source read:
\* no loop runs past the size for any alignment or size around the limits of the
\* loops.
InBounds ==
  /\ \A i \in Near : i \notin 0..size - 1 => mem[i] = Untouched
  /\ s8 <= size

\* Every call ends, with every byte of the destination stored right, from the same
\* place of the source: what a plain loop over the bytes gives.
StoresAll == <>(pc = "done" /\ \A i \in 0..size - 1 : mem[i] = Byte(i))

\* Words are read and written at word boundaries only, in the source and in the
\* destination: RV32 may trap on any other.
WordsAligned ==
  pc \in {"blocks", "words"} /\ n >= WORD =>
    /\ (dest + d8) % WORD = 0
    /\ op = "memcpy" => (src + s8) % WORD = 0
=============================================================================
