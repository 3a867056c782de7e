------------------------------- MODULE FlashTest -------------------------------
(***************************************************************************)
(* The flash test of the board application (boe_factory_test/src/          *)
(* flashtest.c): identify the flash, enter 4-byte addressing, erase the    *)
(* sectors at TEST_ADDRESS, write a pattern page by page, read it back,    *)
(* leave 4-byte addressing.  One or two chips hang on the controller, used *)
(* in single, stacked or parallel mode; every command goes to the chips    *)
(* that are selected at that moment.                                       *)
(*                                                                         *)
(* A step is one transfer.  Transfers never fail (XQspiPsu_PolledTransfer  *)
(* refuses only while another one runs, and nothing else uses it), so the  *)
(* error returns behind them are left out.  Addresses count chip pages     *)
(* (256 bytes).  The chips are modelled by what their data sheets make of  *)
(* the commands sent here: they run beside the program, ignore everything  *)
(* but a status request while busy, and erase and program only when write  *)
(* enabled and addressed with as many bytes as their mode asks for.        *)
(***************************************************************************)
EXTENDS Integers

CONSTANTS PAGE_COUNT,    \* pages the test writes, 32 in the code
          SECTOR,        \* pages of a sector, 256 in the chips
          SIXTEENMB,     \* pages in 16 MB; TEST_ADDRESS is twice that
          AddressByte,   \* pages that make the second lowest address byte, 256
          Boards,        \* the boards: mode, make and size of the chips
          Faults,        \* how a chip may break: "stuck", "high", "low"
          MaxTests       \* bound: times the test is called

Chips == {"lower", "upper"}
TEST_ADDRESS == 2 * SIXTEENMB

\* What a page holds: its delivery contents, nothing, something spoilt, or the
\* pattern.  The pattern is the same in every test and every page; here it is
\* the number of the test that wrote it, which no one can read (history).
Old == -1
Erased == 0
Spoilt == -2

VARIABLES board,         \* the board, fixed
          chip,          \* the chips: write enable, 4-byte mode, busy, contents
          health,        \* "good", "stuck" (keeps its contents, else alive), or
                         \* dead with its data line "high" or "low"
          pc,
          cs,            \* the chips XQspiPsu_SelectFlash has selected
          flashMake,     \* FlashMake
          fct,           \* Flash_Config_Table[FCTIndex]
          enable,        \* Enable of FlashEnterExit4BAddMode
          addr,          \* Address of FlashErase and FlashWrite
          count,         \* Sector of FlashErase, Page of the write loop
          ret,           \* value of flashtest, None before it returns
          tests          \* history: calls of flashtest

vars == <<board, chip, health, pc, cs, flashMake, fct, enable, addr, count, ret, tests>>
global == <<flashMake, fct>>

None == 2
Populated == IF board.mode = "single" THEN {"lower"} ELSE Chips

--------------------------------------------------------------------------------
(***************************************************************************)
(* Flash_Config_Table and the address computations.                        *)
(***************************************************************************)
MB(n) == (n * SIXTEENMB) \div 16

Sizes == [spansion |-> {MB(16), MB(32), MB(64)},
          micron   |-> {MB(16), MB(32), MB(64), MB(128)},
          winbond  |-> {MB(16)},
          macronix |-> {MB(128)},
          issi     |-> {MB(32)}]

\* The test writes less than a sector, and the largest sectors divide 16 MB.  The two
\* chips of a board are of one kind, which the table knows.
ASSUME FlashAssumption == /\ PAGE_COUNT \in Nat \ {0}
                          /\ SECTOR \in Nat /\ PAGE_COUNT < SECTOR
                          /\ SIXTEENMB \in Nat \ {0} /\ SIXTEENMB % (4 * SECTOR) = 0
                          /\ AddressByte \in Nat \ {0}
                          /\ Faults \subseteq {"stuck", "high", "low"}
                          /\ MaxTests \in Nat

ASSUME BoardsAssumption ==
         \A b \in Boards : \E make \in DOMAIN Sizes : \E size \in Sizes[make] :
           /\ b.mode \in {"single", "stacked", "parallel"}
           /\ b.make = [c \in Chips |-> make]
           /\ b.size = [c \in Chips |-> size]

\* The entry for one make, size of ONE chip, and mode; sizes of pages and
\* sectors are doubled in parallel mode.
Info(make, size, mode) ==
  LET width == IF mode = "parallel" THEN 2 ELSE 1
      big   == make = "spansion" /\ size = MB(64)
  IN  [size |-> size,
       page |-> width * (IF big THEN 2 ELSE 1),
       sect |-> width * (IF big THEN 4 * SECTOR ELSE SECTOR),
       dies |-> IF make = "spansion" THEN 1
                ELSE IF size = MB(128) THEN 4 ELSE IF size = MB(64) THEN 2 ELSE 1,
       inTable |-> make = "issi" => mode = "single"]

\* FCTIndex is 0 until a flash has been identified.
Entry0 == Info("spansion", MB(16), "single")

FourByte == fct.size > SIXTEENMB

\* READ_FLAG_STATUS_CMD is used instead of READ_STATUS_CMD.
FSRFlag == fct.dies > 1 /\ flashMake = "micron"

MaxData == PAGE_COUNT * fct.page

\* Whether a stacked address belongs to the upper chip.
InUpper(a) == (a \div fct.size) % 2 = 1

\* GetRealAddr: the chips it selects, and the address it returns for them.
Selected(a) == CASE board.mode = "single"   -> {"lower"}
                 [] board.mode = "stacked"  -> IF InUpper(a) THEN {"upper"} ELSE {"lower"}
                 [] board.mode = "parallel" -> Chips

RealAddr(a) == CASE board.mode = "single"   -> a
                 [] board.mode = "stacked"  -> IF InUpper(a) THEN a - fct.size ELSE a
                 [] board.mode = "parallel" -> a \div 2

\* The address bytes that are sent: three of them cut it at 16 MB.
AddrSent(a) == IF FourByte THEN RealAddr(a) ELSE RealAddr(a) % SIXTEENMB

\* Seeded fault: two sectors too many.
NumSectMore(a, bytes) == bytes \div fct.sect + 3

\* FlashErase: the number of sectors for a range of bytes.
NumSect(a, bytes) ==
  LET n == bytes \div fct.sect + 1
  IN  IF (a + bytes) \div fct.sect = (a + n * fct.sect) \div fct.sect THEN n + 1 ELSE n

\* Pages of one chip that a transfer of so many bytes of data fills.
PerChip(bytes) == IF board.mode = "parallel" THEN (bytes + 1) \div 2 ELSE bytes

--------------------------------------------------------------------------------
(***************************************************************************)
(* The chips.                                                              *)
(***************************************************************************)
SizeOf(c) == board.size[c]

\* A chip's own sector; only Spansion's 64 MB parts have larger ones.
ChipSector(c) == Info(board.make[c], SizeOf(c), "single").sect

\* The chips of set S that can take a command are then in the state after[c].
Command(S, after) ==
  chip' = [c \in Chips |->
             IF c \in S \cap Populated /\ health[c] \in {"good", "stuck"} /\ ~ chip[c].wip
             THEN after[c] ELSE chip[c]]

WriteEnabled[c \in Chips] == [chip[c] EXCEPT !.wel = TRUE]
WriteDisabled[c \in Chips] == [chip[c] EXCEPT !.wel = FALSE]

\* Micron's and ISSI's chips change the address mode only when write enabled.
ModeChanged[c \in Chips] ==
  IF board.make[c] \in {"micron", "issi"} => chip[c].wel
  THEN [chip[c] EXCEPT !.mode4 = enable] ELSE chip[c]

BankWritten[c \in Chips] == [chip[c] EXCEPT !.mode4 = enable]

\* An erase with too many or too few address bytes is not carried out.
EraseStarted[c \in Chips] ==
  LET first == AddrSent(addr) % SizeOf(c)
      Hit(x) == x \div ChipSector(c) = first \div ChipSector(c)
  IN  IF ~ chip[c].wel \/ chip[c].mode4 # FourByte THEN chip[c]
      ELSE [chip[c] EXCEPT
              !.wel = FALSE, !.wip = TRUE,
              !.mem = IF health[c] = "stuck" THEN @
                      ELSE [x \in DOMAIN @ |-> IF Hit(x) THEN Erased ELSE @[x]]]

\* Programming clears bits.  A chip that takes the last address byte for data
\* programs a mix of things at an address that is off by one byte.
Programmed(was) == IF was = Erased THEN tests ELSE IF was > 0 THEN was ELSE Spoilt

ProgramStarted[c \in Chips] ==
  LET first == AddrSent(addr) % SizeOf(c)
      Hit(x) == x \in first .. first + PerChip(fct.page) - 1
      stray == (AddrSent(addr) \div AddressByte) % SizeOf(c)
      after == IF chip[c].mode4 = FourByte
               THEN [x \in 0 .. SizeOf(c) - 1 |->
                       IF Hit(x) THEN Programmed(chip[c].mem[x]) ELSE chip[c].mem[x]]
               ELSE [chip[c].mem EXCEPT ![stray] = Spoilt]
  IN  IF ~ chip[c].wel THEN chip[c]
      ELSE [chip[c] EXCEPT !.wel = FALSE, !.wip = TRUE,
                           !.mem = IF health[c] = "stuck" THEN @ ELSE after]

\* What the data of a read from chip c compare to: the pattern on every page.
ReadsPattern(c) ==
  LET first == AddrSent(TEST_ADDRESS) % SizeOf(c)
  IN  /\ health[c] \in {"good", "stuck"} /\ ~ chip[c].wip
      /\ chip[c].mode4 = FourByte
      /\ \A x \in first .. first + PerChip(MaxData) - 1 :
           x < SizeOf(c) /\ chip[c].mem[x] > 0

\* The ready bit in the status byte of a chip: flag status has 1 for ready, the
\* status register 0.
ReadyBit(c) == CASE health[c] = "high" -> FSRFlag
                 [] health[c] = "low"  -> ~ FSRFlag
                 [] OTHER              -> ~ chip[c].wip

\* Seeded fault: in parallel mode only one chip's status is looked at.
ReadyOne == \E c \in cs : ReadyBit(c)

\* Seeded fault: the flag status is tested as if it were the status register.
ReadyNoFlag == \A c \in cs : IF FSRFlag THEN ~ ReadyBit(c) ELSE ReadyBit(c)

\* The status bytes, in parallel mode of both chips taken together, say ready.
Ready == \A c \in cs : ReadyBit(c)

--------------------------------------------------------------------------------
Init == /\ board \in Boards
        /\ chip = [c \in Chips |-> [wel |-> FALSE, mode4 |-> FALSE, wip |-> FALSE,
                                    mem |-> [x \in 0 .. board.size[c] - 1 |-> Old]]]
        /\ health = [c \in Chips |-> "good"]
        /\ pc = "idle" /\ cs = {"lower"}
        /\ flashMake = "none" /\ fct = Entry0
        /\ enable = FALSE /\ addr = 0 /\ count = 0
        /\ ret = None /\ tests = 0

\* flashtest is called: the driver is initialised and the lower chip selected.
Call == /\ pc = "idle"
        /\ tests < MaxTests
        /\ tests' = tests + 1 /\ ret' = None
        /\ cs' = {"lower"}
        /\ pc' = "readId"
        /\ UNCHANGED <<board, chip, health, global, enable, addr, count>>

\* FlashReadID.  It reports success whatever it reads: of an unknown make
\* nothing is changed, of an unknown size only the make.
ReadID == /\ pc = "readId"
          /\ LET make == board.make["lower"]
                 size == SizeOf("lower")
             IN  IF health["lower"] \in {"good", "stuck"} /\ ~ chip["lower"].wip
                 THEN /\ flashMake' = make
                      /\ fct' = IF size \in Sizes[make]
                                THEN Info(make, size, board.mode) ELSE fct
                 ELSE UNCHANGED global
          /\ pc' = IF ~ fct'.inTable THEN "undefined"
                   ELSE IF fct'.size > SIXTEENMB THEN "modeEnable" ELSE "eraseEnable"
          /\ enable' = TRUE
          /\ addr' = TEST_ADDRESS /\ count' = 0
          /\ UNCHANGED <<board, chip, health, cs, ret, tests>>

\* After FlashEnterExit4BAddMode: FlashErase, or the end of a good test.
AfterMode == IF enable THEN pc' = "eraseEnable" /\ UNCHANGED ret
                       ELSE pc' = "idle" /\ ret' = 0

\* Spansion's chips: the bank register is all there is to write.
ModeBank == /\ pc = "modeEnable"
            /\ flashMake = "spansion"
            /\ Command(cs, BankWritten)
            /\ AfterMode
            /\ UNCHANGED <<board, health, cs, global, enable, addr, count, tests>>

\* The others: write enable for Micron and ISSI, to the chips that are selected ...
ModeEnable == /\ pc = "modeEnable"
              /\ flashMake # "spansion"
              /\ IF flashMake \in {"micron", "issi"} THEN Command(cs, WriteEnabled)
                                                     ELSE UNCHANGED chip
              /\ pc' = "modeCommand"
              /\ UNCHANGED <<board, health, cs, global, enable, addr, count, ret, tests>>

\* ... then GetRealAddr selects those of TEST_ADDRESS, and the command follows.
ModeCommand == /\ pc = "modeCommand"
               /\ cs' = Selected(TEST_ADDRESS)
               /\ Command(cs', ModeChanged)
               /\ pc' = "modeWait"
               /\ UNCHANGED <<board, health, global, enable, addr, count, ret, tests>>

ModeWait == /\ pc = "modeWait"
            /\ Ready
            /\ IF flashMake \in {"micron", "issi"} THEN Command(cs, WriteDisabled)
                                                   ELSE UNCHANGED chip
            /\ AfterMode
            /\ UNCHANGED <<board, health, cs, global, enable, addr, count, tests>>

--------------------------------------------------------------------------------
\* One turn of FlashErase's loop in three transfers.
EraseEnable == /\ pc = "eraseEnable"
               /\ cs' = Selected(addr)
               /\ Command(cs', WriteEnabled)
               /\ pc' = "eraseCommand"
               /\ UNCHANGED <<board, health, global, enable, addr, count, ret, tests>>

EraseCommand == /\ pc = "eraseCommand"
                /\ Command(cs, EraseStarted)
                /\ pc' = "eraseWait"
                /\ UNCHANGED <<board, health, cs, global, enable, addr, count, ret, tests>>

EraseWait == /\ pc = "eraseWait"
             /\ Ready
             /\ \/ /\ count + 1 < NumSect(TEST_ADDRESS, MaxData)
                   /\ count' = count + 1
                   /\ addr' = addr + fct.sect
                   /\ pc' = "eraseEnable"
                \/ /\ count + 1 >= NumSect(TEST_ADDRESS, MaxData)
                   /\ count' = 0 /\ addr' = TEST_ADDRESS
                   /\ pc' = "writeEnable"
             /\ UNCHANGED <<board, chip, health, cs, global, enable, ret, tests>>

\* FlashWrite for one page in three transfers.
WriteEnable == /\ pc = "writeEnable"
               /\ cs' = Selected(addr)
               /\ Command(cs', WriteEnabled)
               /\ pc' = "writeCommand"
               /\ UNCHANGED <<board, health, global, enable, addr, count, ret, tests>>

WriteCommand == /\ pc = "writeCommand"
                /\ Command(cs, ProgramStarted)
                /\ pc' = "writeWait"
                /\ UNCHANGED <<board, health, cs, global, enable, addr, count, ret, tests>>

\* Seeded fault: one page is left out.
LastPageEarly(p) == p + 2 >= PAGE_COUNT

\* The page the write loop ends with.
LastPage(p) == p + 1 >= PAGE_COUNT

\* Seeded fault: one page too many.
WriteWaitLong == /\ pc = "writeWait"
                 /\ Ready
                 /\ count' = count + 1
                 /\ addr' = addr + fct.page
                 /\ pc' = IF count < PAGE_COUNT THEN "writeEnable" ELSE "read"
                 /\ UNCHANGED <<board, chip, health, cs, global, enable, ret, tests>>

WriteWait == /\ pc = "writeWait"
             /\ Ready
             /\ count' = count + 1
             /\ addr' = addr + fct.page
             /\ pc' = IF LastPage(count) THEN "read" ELSE "writeEnable"
             /\ UNCHANGED <<board, chip, health, cs, global, enable, ret, tests>>

\* Seeded fault: the data of one of the chips decide.
SomeMatches(S) == \E c \in S : ReadsPattern(c)

\* The comparison of the data read with the pattern.
DataMatch(S) == \A c \in S : ReadsPattern(c)

\* Seeded fault: success returns as early as failure.
AfterReadEarly == pc' = "idle" /\ ret' = 0

AfterRead == IF FourByte THEN pc' = "modeEnable" /\ UNCHANGED ret
                         ELSE pc' = "idle" /\ ret' = 0

\* FlashRead and the comparison; a failed one returns at once.
Read == /\ pc = "read"
        /\ cs' = Selected(TEST_ADDRESS)
        /\ \/ DataMatch(cs') /\ AfterRead
           \/ ~ DataMatch(cs') /\ pc' = "idle" /\ ret' = 1
        /\ enable' = FALSE
        /\ UNCHANGED <<board, chip, health, global, addr, count, tests>>

Software == \/ ReadID
            \/ ModeBank \/ ModeEnable \/ ModeCommand \/ ModeWait
            \/ EraseEnable \/ EraseCommand \/ EraseWait
            \/ WriteEnable \/ WriteCommand \/ WriteWait
            \/ Read

\* Hardware: a chip has finished its erase or program operation.
ChipDone == \E c \in Populated :
              /\ chip[c].wip
              /\ chip' = [chip EXCEPT ![c].wip = FALSE]
              /\ UNCHANGED <<board, health, pc, cs, global, enable, addr, count, ret, tests>>

Break == \E c \in Populated, h \in Faults :
           /\ health[c] = "good"
           /\ health' = [health EXCEPT ![c] = h]
           /\ UNCHANGED <<board, chip, pc, cs, global, enable, addr, count, ret, tests>>

Next == Call \/ Software \/ ChipDone \/ Break

Spec == Init /\ [][Next]_vars

\* The processor runs; a chip finishes what it has begun.
FairSpec == Spec /\ WF_vars(Software) /\ WF_vars(ChipDone)

--------------------------------------------------------------------------------
(***************************************************************************)
(* Where the test should work, in terms of the chips alone: the pages the  *)
(* range at TEST_ADDRESS of the board's address space lies on, and the     *)
(* sectors around them.                                                    *)
(***************************************************************************)
Logical(c, x) == CASE board.mode = "single"   -> x
                   [] board.mode = "stacked"  -> IF c = "upper" THEN SizeOf("lower") + x
                                                 ELSE x
                   [] board.mode = "parallel" -> 2 * x

TestPages(c) ==
  LET bytes == PAGE_COUNT * Info(board.make["lower"], SizeOf("lower"), board.mode).page
  IN  {x \in 0 .. SizeOf(c) - 1 :
         Logical(c, x) \in TEST_ADDRESS .. TEST_ADDRESS + bytes - 1}

TestSectors(c) == {x \in 0 .. SizeOf(c) - 1 :
                     \E y \in TestPages(c) : y \div ChipSector(c) = x \div ChipSector(c)}

TypeOK == /\ \A c \in Chips : /\ chip[c].wel \in BOOLEAN /\ chip[c].wip \in BOOLEAN
                              /\ chip[c].mode4 \in BOOLEAN
                              /\ chip[c].mem \in [0 .. SizeOf(c) - 1 -> -2 .. tests]
          /\ health \in [Chips -> {"good"} \cup Faults]
          /\ pc \in {"idle", "readId", "modeEnable", "modeCommand", "modeWait",
                     "eraseEnable", "eraseCommand", "eraseWait",
                     "writeEnable", "writeCommand", "writeWait", "read", "undefined"}
          /\ cs \subseteq Chips /\ count \in 0 .. PAGE_COUNT
          /\ ret \in {0, 1, None} /\ tests \in 0 .. MaxTests

\* No command ever meets a chip that is still busy, or it would be lost: the
\* status polls wait for both chips of a parallel pair, whichever is slower.
NoCommandWhileBusy ==
  pc \in {"readId", "modeEnable", "modeCommand", "eraseEnable", "eraseCommand",
          "writeEnable", "writeCommand", "read"} =>
    \A c \in Populated : health[c] \in {"good", "stuck"} => ~ chip[c].wip

\* Success would be success of this very test: every page at TEST_ADDRESS, of both
\* chips of a parallel pair, holds what this call has written.  A second test does
\* not tell, since the pattern is the same.
SuccessMeansWritten ==
  pc = "idle" /\ ret = 0 =>
    \A c \in Populated : \A x \in TestPages(c) : chip[c].mem[x] = tests

\* The first test of a board cannot be deceived by a chip that stops erasing and
\* writing at any point of it, even between the last page and the comparison.
FirstTestHonest == tests = 1 => SuccessMeansWritten

\* A chip whose data line is dead.
Dead == \E c \in Populated : health[c] \in {"high", "low"}

\* The megabytes below TEST_ADDRESS hold the boot image: nothing but the sectors
\* of the test range is ever touched.  A chip that cannot be identified is
\* excepted: FlashReadID goes on with the entry of a 16 MB flash, and in parallel
\* mode the other chip loses its first sector.
OutsideUntouched ==
  ~ Dead => \A c \in Populated : \A x \in (DOMAIN chip[c].mem) \ TestSectors(c) :
              chip[c].mem[x] = Old

\* A good test leaves every chip in the address mode it was found in: after a
\* restart the boot ROM reads them with three address bytes.
ModeRestored == pc = "idle" /\ ret = 0 /\ ~ Dead => \A c \in Populated : ~ chip[c].mode4

\* A board without a fault passes.
HealthyPasses == (\A c \in Populated : health[c] = "good") => ret # 1

\* flashtest returns, unless the data line of a chip is dead: its polls have no
\* limit, and a status that never says ready keeps it for ever.
TestReturns == (pc # "idle") ~> (pc = "idle" \/ Dead)
================================================================================
