-------------------------------- MODULE MemTest --------------------------------
(***************************************************************************)
(* The test of the memories (memorytest.c) with the two subtests of        *)
(* xil_testmem.c it uses: walking ones over the first words of a range,    *)
(* and counting 16-bit values over its first TEST_WORDS.  A step is one    *)
(* access of the program; the ranges in the PL are device memory, the DDR  *)
(* of the processor lies behind a write-back cache that may write a        *)
(* location back at any time.                                              *)
(*                                                                         *)
(* A fault is [kind, range, a, b]: a "cell" a that returns another value   *)
(* than was written, or an address "line" that makes b the same as a.      *)
(***************************************************************************)
EXTENDS Naturals, FiniteSets

CONSTANTS NRanges,    \* memory ranges, 3 in the code
          Cached,     \* those behind the cache
          Size,       \* locations of a range
          TestWords,  \* locations the counting test covers, 16 M in the code
          WalkWords,  \* locations, and patterns, of the walking ones, 32 in the code
          Wrap,       \* number of values of a location, 2^16 in the code
          CacheSize   \* locations the cache holds

Locations == 0..(Size - 1)
NoFault == [kind |-> "none", range |-> 1, a |-> 0, b |-> 0]
Faults == {NoFault}
            \cup [kind : {"cell"}, range : 1..NRanges, a : Locations, b : {0}]
            \cup {f \in [kind : {"line"}, range : 1..NRanges, a : Locations, b : Locations] :
                    f.a < f.b}

VARIABLES pc,      \* the loop the test is in; "off" between tests
          range,   \* i of memtest
          j,       \* j of Xil_TestMem32
          at,      \* I of Xil_TestMem32 and Xil_TestMem16
          dram,    \* what the cells hold
          cache,   \* locations written and not yet written back, of this range
          fault,   \* of this board
          ret      \* what the last test returned; None while it runs

vars == <<pc, range, j, at, dram, cache, fault, ret>>

None == 2

Init == /\ pc = "off" /\ range = 1 /\ j = 0 /\ at = 0
        /\ dram = [r \in 1..NRanges |-> [c \in Locations |-> 0]]
        /\ cache = [c \in {} |-> 0] /\ fault \in Faults /\ ret = None

--------------------------------------------------------------------------------
\* The cell behind a location, and what reading it returns.
Cell(c) == IF fault.kind = "line" /\ fault.range = range /\ c = fault.b THEN fault.a ELSE c

FromDram(c) ==
    IF fault.kind = "cell" /\ fault.range = range /\ c = fault.a
      THEN (dram[range][c] + 1) % Wrap ELSE dram[range][Cell(c)]

Load(c) == IF c \in DOMAIN cache THEN cache[c] ELSE FromDram(c)

Store(c, v) ==
    IF range \in Cached
      THEN /\ c \in DOMAIN cache \/ Cardinality(DOMAIN cache) < CacheSize
           /\ cache' = [x \in DOMAIN cache \cup {c} |-> IF x = c THEN v ELSE cache[x]]
           /\ UNCHANGED dram
      ELSE dram' = [dram EXCEPT ![range][Cell(c)] = v] /\ UNCHANGED cache

WriteBack(c) ==
    /\ c \in DOMAIN cache
    /\ dram' = [dram EXCEPT ![range][Cell(c)] = cache[c]]
    /\ cache' = [x \in DOMAIN cache \ {c} |-> cache[x]]
    /\ UNCHANGED <<pc, range, j, at, fault, ret>>

\* Seeded fault: the counter is wider than a location.
CountingWide(c) == c

\* The values written: a one that walks from word to word, and a counter of 16 bits.
Walking(c) == (j + c) % Wrap
Counting(c) == c % Wrap

--------------------------------------------------------------------------------
\* What the cache still holds after a failed range goes before another range is tested.
Call == /\ pc = "off"
        /\ DOMAIN cache = {} \/ range = 1
        /\ pc' = "walkWrite" /\ range' = 1 /\ j' = 0 /\ at' = 0 /\ ret' = None
        /\ UNCHANGED <<dram, cache, fault>>

\* A loop over n locations goes on, or is followed by another.
Loop(n, next) == IF at + 1 < n THEN at' = at + 1 /\ UNCHANGED pc
                 ELSE at' = 0 /\ pc' = next

WalkWrite == /\ pc = "walkWrite"
             /\ Store(at, Walking(at)) /\ Loop(WalkWords, "walkRead")
             /\ UNCHANGED <<range, j, fault, ret>>

\* Seeded fault: a failed range does not end the test.
FailsLate == /\ IF range < NRanges THEN pc' = "drain" /\ UNCHANGED ret
                ELSE pc' = "off" /\ ret' = 1

\* The first mismatch ends the subtest, the range and the test.
Fails == pc' = "off" /\ ret' = 1

WalkRead ==
    /\ pc = "walkRead"
    /\ IF Load(at) # Walking(at) THEN Fails /\ UNCHANGED <<at, j>>
       ELSE /\ UNCHANGED ret
            /\ IF at + 1 = WalkWords /\ j + 1 < WalkWords
                 THEN j' = j + 1 /\ at' = 0 /\ pc' = "walkWrite"
                 ELSE UNCHANGED j /\ Loop(WalkWords, "countWrite")
    /\ UNCHANGED <<range, dram, cache, fault>>

CountWrite == /\ pc = "countWrite"
              /\ Store(at, Counting(at)) /\ Loop(TestWords, "countRead")
              /\ UNCHANGED <<range, j, fault, ret>>

CountRead ==
    /\ pc = "countRead"
    /\ IF Load(at) # Counting(at) THEN Fails /\ UNCHANGED at
       ELSE Loop(TestWords, "drain") /\ UNCHANGED ret
    /\ UNCHANGED <<range, j, dram, cache, fault>>

\* The next range.  What the cache still holds of this one goes with it.
NextRange ==
    /\ pc = "drain" /\ DOMAIN cache = {}
    /\ IF range < NRanges
         THEN pc' = "walkWrite" /\ range' = range + 1 /\ j' = 0 /\ at' = 0 /\ UNCHANGED ret
         ELSE pc' = "off" /\ ret' = 0 /\ UNCHANGED <<range, j, at>>
    /\ UNCHANGED <<dram, cache, fault>>

Software == WalkWrite \/ WalkRead \/ CountWrite \/ CountRead \/ NextRange

Cache == \E c \in DOMAIN cache : WriteBack(c)

--------------------------------------------------------------------------------
TypeOK == /\ pc \in {"off", "walkWrite", "walkRead", "countWrite", "countRead", "drain"}
          /\ range \in 1..NRanges /\ j \in 0..(WalkWords - 1) /\ at \in Locations
          /\ dram \in [1..NRanges -> [Locations -> 0..(Wrap - 1)]]
          /\ DOMAIN cache \subseteq Locations
          /\ \A c \in DOMAIN cache : cache[c] \in 0..(Wrap - 1)
          /\ fault \in Faults /\ ret \in {0, 1, None}

\* A fault the test is bound to find: where no cache stands before the memory, a bad
\* cell among those the counting test covers, and an address line that joins two of
\* them, unless they lie a multiple of the counter's range apart.
MustFind(f) ==
    /\ f.range \notin Cached
    /\ \/ f.kind = "cell" /\ f.a < TestWords
       \/ f.kind = "line" /\ f.b < TestWords /\ (f.b - f.a) % Wrap # 0

\* The verdict: a sound board passes, whatever the cache does, and no board passes
\* with a fault the test is bound to find, in whichever range it is.
Verdict == /\ ret = 0 => ~MustFind(fault)
           /\ ret = 1 => fault # NoFault
================================================================================
