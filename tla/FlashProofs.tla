------------------------------ MODULE FlashProofs ------------------------------
(***************************************************************************)
(* Theorems about FlashTest, for every flash of the table in every mode,   *)
(* every number of pages, sizes and calls.                                 *)
(***************************************************************************)
EXTENDS FlashTest, TLAPS

Alive(c) == health[c] \in {"good", "stuck"}

\* What a board of the table is made of.
Make == board.make["lower"]
Size == board.size["lower"]
BoardOK == /\ board.mode \in {"single", "stacked", "parallel"}
           /\ Make \in {"spansion", "micron", "winbond", "macronix", "issi"}
           /\ Size \in {SIXTEENMB, 2 * SIXTEENMB, 4 * SIXTEENMB, 8 * SIXTEENMB}
           /\ Size \in Sizes[Make]
           /\ \A c \in Chips : board.make[c] = Make /\ board.size[c] = Size

LEMMA BoardsOK == Init => BoardOK
<1> SUFFICES ASSUME Init
             PROVE  BoardOK
  OBVIOUS
<1>1. PICK make \in DOMAIN Sizes : \E size \in Sizes[make] :
           /\ board.mode \in {"single", "stacked", "parallel"}
           /\ board.make = [c \in Chips |-> make]
           /\ board.size = [c \in Chips |-> size]
  BY BoardsAssumption DEF Init
<1>2. PICK size \in Sizes[make] :
           /\ board.mode \in {"single", "stacked", "parallel"}
           /\ board.make = [c \in Chips |-> make]
           /\ board.size = [c \in Chips |-> size]
  BY <1>1
<1>3. Make = make /\ Size = size /\ \A c \in Chips : board.make[c] = Make /\ board.size[c] = Size
  BY <1>2 DEF Make, Size, Chips
<1>4. make \in {"spansion", "micron", "winbond", "macronix", "issi"}
  BY <1>1 DEF Sizes
<1>5. /\ MB(16) = SIXTEENMB /\ MB(32) = 2 * SIXTEENMB
      /\ MB(64) = 4 * SIXTEENMB /\ MB(128) = 8 * SIXTEENMB
  BY FlashAssumption DEF MB
<1>6. size \in {MB(16), MB(32), MB(64), MB(128)}
  BY <1>2, <1>4 DEF Sizes
<1>7. Size \in {SIXTEENMB, 2 * SIXTEENMB, 4 * SIXTEENMB, 8 * SIXTEENMB}
  BY <1>3, <1>5, <1>6
<1> QED
  BY <1>2, <1>3, <1>4, <1>7 DEF BoardOK

--------------------------------------------------------------------------------
(***************************************************************************)
(* What the commands make of a chip.                                       *)
(***************************************************************************)
Contents == -2 .. tests
ChipState == [wel : BOOLEAN, mode4 : BOOLEAN, wip : BOOLEAN,
              mem : [0 .. Size - 1 -> Contents]]
ChipsOK == chip \in [Chips -> ChipState]

\* The configuration the driver works with: the first entry, or the right one.
Entry == Info(Make, Size, board.mode)
ConfigOK == fct \in {Entry0, Entry} /\ flashMake \in {"none", Make}

\* A command that neither erases nor programs.
Light(c, s) == s \in ChipState /\ s.mem = chip[c].mem /\ s.wip = chip[c].wip

LEMMA LightCommands ==
  ASSUME ChipsOK, enable \in BOOLEAN, NEW c \in Chips
  PROVE  /\ Light(c, WriteEnabled[c]) /\ WriteEnabled[c].wel
         /\ WriteEnabled[c].mode4 = chip[c].mode4
         /\ Light(c, WriteDisabled[c]) /\ ~ WriteDisabled[c].wel
         /\ WriteDisabled[c].mode4 = chip[c].mode4
         /\ Light(c, BankWritten[c]) /\ BankWritten[c].mode4 = enable
         /\ Light(c, ModeChanged[c]) /\ ModeChanged[c].mode4 \in {chip[c].mode4, enable}
         /\ (board.make[c] \in {"micron", "issi"} => chip[c].wel) =>
              ModeChanged[c].mode4 = enable
<1>1. chip[c] \in ChipState
  BY DEF ChipsOK
<1>2. /\ WriteEnabled[c] = [chip[c] EXCEPT !.wel = TRUE]
      /\ WriteDisabled[c] = [chip[c] EXCEPT !.wel = FALSE]
      /\ BankWritten[c] = [chip[c] EXCEPT !.mode4 = enable]
  BY DEF WriteEnabled, WriteDisabled, BankWritten
<1>3. ModeChanged[c] = IF board.make[c] \in {"micron", "issi"} => chip[c].wel
                       THEN [chip[c] EXCEPT !.mode4 = enable] ELSE chip[c]
  BY DEF ModeChanged
<1> QED
  BY <1>1, <1>2, <1>3 DEF ChipState, Light

\* The pages an erase or program command reaches in chip c.
ErasedPages(c) ==
  {x \in 0 .. Size - 1 :
     x \div ChipSector(c) = (AddrSent(addr) % SizeOf(c)) \div ChipSector(c)}
ProgrammedPages(c) ==
  {x \in 0 .. Size - 1 :
     x \in (AddrSent(addr) % SizeOf(c))
             .. (AddrSent(addr) % SizeOf(c)) + PerChip(fct.page) - 1}

LEMMA EraseIs ==
  ASSUME ChipsOK, BoardOK, tests \in Nat, NEW c \in Chips,
         NEW s, s = EraseStarted[c]
  PROVE  /\ s \in ChipState /\ s.mode4 = chip[c].mode4
         /\ ~ chip[c].wel \/ chip[c].mode4 # FourByte => s = chip[c]
         /\ \A x \in 0 .. Size - 1 : \/ s.mem[x] = chip[c].mem[x]
                                     \/ x \in ErasedPages(c) /\ s.mem[x] = Erased
         /\ health[c] # "stuck" /\ chip[c].wel /\ chip[c].mode4 = FourByte =>
              \A x \in ErasedPages(c) : s.mem[x] = Erased
<1> DEFINE m == chip[c].mem
           Hit(x) == x \div ChipSector(c) = (AddrSent(addr) % SizeOf(c)) \div ChipSector(c)
           after == IF health[c] = "stuck" THEN m
                    ELSE [x \in DOMAIN m |-> IF Hit(x) THEN Erased ELSE m[x]]
           e == [chip[c] EXCEPT !.wel = FALSE, !.wip = TRUE, !.mem = after]
<1>1. chip[c] \in ChipState /\ m \in [0 .. Size - 1 -> Contents] /\ Erased \in Contents
  BY DEF ChipsOK, ChipState, Contents, Erased
<1>2. s = IF ~ chip[c].wel \/ chip[c].mode4 # FourByte THEN chip[c] ELSE e
  BY <1>1 DEF EraseStarted, ChipState
<1>3. /\ after \in [0 .. Size - 1 -> Contents]
      /\ \A x \in 0 .. Size - 1 : \/ after[x] = m[x]
                                  \/ Hit(x) /\ after[x] = Erased
      /\ health[c] # "stuck" => \A x \in 0 .. Size - 1 : Hit(x) => after[x] = Erased
  BY <1>1
<1>4. e \in ChipState /\ e.mem = after /\ e.mode4 = chip[c].mode4
  <2> HIDE DEF after
  <2> QED
    BY <1>1, <1>3 DEF ChipState
<1>5. \A x \in 0 .. Size - 1 : Hit(x) <=> x \in ErasedPages(c)
  BY DEF ErasedPages
<1>6. ErasedPages(c) \subseteq 0 .. Size - 1
  BY DEF ErasedPages
<1> HIDE DEF after, e, Hit
<1>7. CASE ~ chip[c].wel \/ chip[c].mode4 # FourByte
  <2>1. s = chip[c]
    BY <1>2, <1>7
  <2> QED
    BY <1>1, <1>7, <2>1
<1>8. CASE ~ (~ chip[c].wel \/ chip[c].mode4 # FourByte)
  <2>1. s = e
    BY <1>2, <1>8
  <2>2. s.mem = after /\ s \in ChipState /\ s.mode4 = chip[c].mode4
    BY <1>4, <2>1
  <2>3. \A x \in 0 .. Size - 1 : \/ s.mem[x] = chip[c].mem[x]
                                 \/ x \in ErasedPages(c) /\ s.mem[x] = Erased
    BY <1>3, <1>5, <2>2
  <2>4. health[c] # "stuck" => \A x \in ErasedPages(c) : s.mem[x] = Erased
    BY <1>3, <1>5, <1>6, <2>2
  <2> QED
    BY <1>8, <2>2, <2>3, <2>4
<1> QED
  BY <1>7, <1>8

\* The page that takes data of a program command with too few or too many address bytes.
StrayPage(c) == (AddrSent(addr) \div AddressByte) % SizeOf(c)

LEMMA ProgramIs ==
  ASSUME ChipsOK, BoardOK, tests \in Nat, NEW c \in Chips,
         NEW s, s = ProgramStarted[c]
  PROVE  /\ s \in ChipState /\ s.mode4 = chip[c].mode4
         /\ ~ chip[c].wel => s = chip[c]
         /\ chip[c].mode4 = FourByte =>
              \A x \in 0 .. Size - 1 :
                \/ s.mem[x] = chip[c].mem[x] /\ (chip[c].wel /\ health[c] # "stuck" =>
                                                  x \notin ProgrammedPages(c))
                \/ x \in ProgrammedPages(c) /\ s.mem[x] = Programmed(chip[c].mem[x])
<1> DEFINE m == chip[c].mem
           Hit(x) == x \in (AddrSent(addr) % SizeOf(c))
                             .. (AddrSent(addr) % SizeOf(c)) + PerChip(fct.page) - 1
           hits == [x \in 0 .. Size - 1 |-> IF Hit(x) THEN Programmed(m[x]) ELSE m[x]]
           stray == [m EXCEPT ![StrayPage(c)] = Spoilt]
           after == IF health[c] = "stuck" THEN m
                    ELSE IF chip[c].mode4 = FourByte THEN hits ELSE stray
           e == [chip[c] EXCEPT !.wel = FALSE, !.wip = TRUE, !.mem = after]
<1>1. chip[c] \in ChipState /\ m \in [0 .. Size - 1 -> Contents] /\ SizeOf(c) = Size
  BY DEF ChipsOK, ChipState, BoardOK, SizeOf
<1>2. s = IF ~ chip[c].wel THEN chip[c] ELSE e
  BY <1>1 DEF ProgramStarted, ChipState, StrayPage
<1>3. \A x \in 0 .. Size - 1 : Programmed(m[x]) \in Contents
  <2>1. \A x \in 0 .. Size - 1 : m[x] \in Contents
    BY <1>1
  <2>2. tests \in Contents /\ Spoilt \in Contents
    BY DEF Contents, Spoilt
  <2> QED
    BY <2>1, <2>2, Zenon DEF Programmed
<1>4. hits \in [0 .. Size - 1 -> Contents]
  <2> HIDE DEF Hit
  <2> QED
    BY <1>1, <1>3
<1>5. stray \in [0 .. Size - 1 -> Contents]
  <2>1. Spoilt \in Contents
    BY DEF Contents, Spoilt
  <2> QED
    BY <1>1, <2>1
<1>6. after \in [0 .. Size - 1 -> Contents]
  <2> HIDE DEF hits, stray
  <2> QED
    BY <1>1, <1>4, <1>5
<1>7. e \in ChipState /\ e.mem = after /\ e.mode4 = chip[c].mode4
  <2> HIDE DEF after
  <2> QED
    BY <1>1, <1>6 DEF ChipState
<1>8. chip[c].mode4 = FourByte =>
        \A x \in 0 .. Size - 1 :
          after[x] = IF health[c] # "stuck" /\ Hit(x) THEN Programmed(m[x]) ELSE m[x]
  <2> HIDE DEF Hit
  <2> QED
    BY <1>1
<1>9. \A x \in 0 .. Size - 1 : Hit(x) <=> x \in ProgrammedPages(c)
  BY DEF ProgrammedPages
<1> HIDE DEF after, e, Hit
<1>10. CASE ~ chip[c].wel
  <2>1. s = chip[c]
    BY <1>2, <1>10
  <2> QED
    BY <1>1, <1>10, <2>1
<1>11. CASE chip[c].wel
  <2>1. s = e
    BY <1>2, <1>11
  <2>2. s.mem = after /\ s \in ChipState /\ s.mode4 = chip[c].mode4
    BY <1>7, <2>1
  <2>3. chip[c].mode4 = FourByte =>
          \A x \in 0 .. Size - 1 :
            \/ s.mem[x] = chip[c].mem[x] /\ (chip[c].wel /\ health[c] # "stuck" =>
                                               x \notin ProgrammedPages(c))
            \/ x \in ProgrammedPages(c) /\ s.mem[x] = Programmed(chip[c].mem[x])
    BY <1>8, <1>9, <2>2
  <2> QED
    BY <1>11, <2>2, <2>3
<1> QED
  BY <1>10, <1>11

--------------------------------------------------------------------------------
(***************************************************************************)
(* The address computations.                                               *)
(***************************************************************************)
\* A quotient and a remainder are what multiplies and adds up.
LEMMA Quotient ==
  ASSUME NEW d \in Nat \ {0}, NEW q \in Nat, NEW r \in 0 .. d - 1
  PROVE  (q * d + r) \div d = q /\ (q * d + r) % d = r
  OBVIOUS

LEMMA Multiple ==
  ASSUME NEW d \in Nat \ {0}, NEW a \in Nat, a % d = 0
  PROVE  a \div d \in Nat /\ a = (a \div d) * d
  OBVIOUS

LEMMA DivSmall ==
  ASSUME NEW d \in Nat \ {0}, NEW a \in 0 .. d - 1
  PROVE  a \div d = 0 /\ a % d = a
  OBVIOUS

\* The sizes of pages and sectors the driver works with.
LEMMA Geometry ==
  ASSUME BoardOK, ConfigOK
  PROVE  /\ fct.size \in {SIXTEENMB, Size}
         /\ \/ fct.page = 1 /\ fct.sect = SECTOR
            \/ fct.page = 2 /\ fct.sect = 4 * SECTOR
            \/ fct.page = 2 /\ fct.sect = 2 * SECTOR
            \/ fct.page = 4 /\ fct.sect = 8 * SECTOR
         /\ fct.page \in {2, 4} \/ fct = Entry0 \/ board.mode # "parallel"
         /\ fct.page \in {1, 2} \/ (fct = Entry /\ board.mode = "parallel")
<1>1. MB(16) = SIXTEENMB /\ SECTOR \in Nat
  BY FlashAssumption DEF MB
<1> QED
  BY <1>1 DEF ConfigOK, Entry0, Entry, Info

LEMMA FewBytes ==
  ASSUME BoardOK, ConfigOK
  PROVE  MaxData \in Nat /\ 0 < MaxData /\ MaxData < fct.sect /\ fct.sect \in Nat
<1>1. PAGE_COUNT \in Nat \ {0} /\ SECTOR \in Nat /\ PAGE_COUNT < SECTOR
  BY FlashAssumption
<1>2. MaxData = PAGE_COUNT * fct.page
  BY DEF MaxData
<1> QED
  BY <1>1, <1>2, Geometry

\* The range of the test needs one sector, or two if it were not aligned.
LEMMA FewSectors ==
  ASSUME BoardOK, ConfigOK
  PROVE  NumSect(TEST_ADDRESS, MaxData) \in {1, 2}
<1>1. MaxData \div fct.sect = 0
  BY FewBytes, DivSmall
<1> QED
  BY <1>1 DEF NumSect

--------------------------------------------------------------------------------
(***************************************************************************)
(* Types.                                                                  *)
(***************************************************************************)
Pcs == {"idle", "readId", "modeEnable", "modeCommand", "modeWait",
        "eraseEnable", "eraseCommand", "eraseWait",
        "writeEnable", "writeCommand", "writeWait", "read", "undefined"}

TypeInv == /\ BoardOK /\ ChipsOK /\ ConfigOK
           /\ health \in [Chips -> {"good"} \cup Faults]
           /\ pc \in Pcs /\ cs \subseteq Chips /\ enable \in BOOLEAN
           /\ count \in 0 .. PAGE_COUNT
           /\ pc \in {"writeEnable", "writeCommand", "writeWait"} => count < PAGE_COUNT
           /\ ret \in {0, 1, None} /\ tests \in 0 .. MaxTests

LEMMA SelectedChips ==
  ASSUME BoardOK, NEW a
  PROVE  Selected(a) \subseteq Chips
  BY DEF BoardOK, Selected, Chips

\* A command changes the chips one by one.
LEMMA CommandIs ==
  ASSUME ChipsOK, NEW S, NEW after, Command(S, after), UNCHANGED <<board, tests>>,
         \A c \in Chips : after[c] \in ChipState
  PROVE  /\ ChipsOK'
         /\ \A c \in Chips : chip'[c] = IF c \in S \cap Populated /\ Alive(c) /\ ~ chip[c].wip
                                        THEN after[c] ELSE chip[c]
<1>1. chip' = [c \in Chips |-> IF c \in S \cap Populated /\ Alive(c) /\ ~ chip[c].wip
                               THEN after[c] ELSE chip[c]]
  BY DEF Command, Alive
<1>2. ChipState' = ChipState
  BY DEF ChipState, Contents, Size
<1>3. \A c \in Chips : chip[c] \in ChipState
  BY DEF ChipsOK
<1> QED
  BY <1>1, <1>2, <1>3 DEF ChipsOK

\* Transfers that set modes and enable writing, and those that send no command.
LEMMA LightStep ==
  ASSUME TypeInv,
         \/ Call \/ ReadID \/ ModeBank \/ ModeEnable \/ ModeCommand \/ ModeWait
         \/ EraseEnable \/ EraseWait \/ WriteEnable \/ WriteWait \/ Read
  PROVE  ChipsOK' /\ \A c \in Chips : /\ chip'[c].mem = chip[c].mem
                                      /\ chip'[c].wip = chip[c].wip
<1> USE DEF TypeInv
<1>1. CASE UNCHANGED <<chip, tests>> \/ Call
  <2>1. chip' = chip /\ tests' \in {tests, tests + 1} /\ board' = board /\ tests \in Nat
    BY <1>1, FlashAssumption DEF Call, ReadID, ModeBank, ModeEnable, ModeCommand, ModeWait,
       EraseEnable, EraseWait, WriteEnable, WriteWait, Read
  <2>2. ChipsOK'
    <3>1. Contents \subseteq Contents' /\ Size' = Size
      BY <2>1 DEF Contents, Size
    <3>2. ChipState \subseteq ChipState'
      BY <3>1 DEF ChipState
    <3> QED
      BY <2>1, <3>2 DEF ChipsOK
  <2> QED
    BY <2>1, <2>2
<1>2. ASSUME NEW S, NEW a \in {WriteEnabled, WriteDisabled, BankWritten, ModeChanged},
             Command(S, a), UNCHANGED <<board, tests>>
      PROVE  ChipsOK' /\ \A c \in Chips : /\ chip'[c].mem = chip[c].mem
                                          /\ chip'[c].wip = chip[c].wip
  <2>1. \A c \in Chips : Light(c, a[c])
    BY <1>2, LightCommands
  <2>2. \A c \in Chips : a[c] \in ChipState /\ a[c].mem = chip[c].mem /\ a[c].wip = chip[c].wip
    BY <2>1 DEF Light
  <2> QED
    BY <1>2, <2>2, CommandIs
<1>3. CASE ~ (UNCHANGED <<chip, tests>> \/ Call)
  <2>1. UNCHANGED <<board, tests>>
    BY <1>3 DEF ReadID, ModeBank, ModeEnable, ModeCommand, ModeWait,
       EraseEnable, EraseWait, WriteEnable, WriteWait, Read
  <2>2. \E S : \E a \in {WriteEnabled, WriteDisabled, BankWritten, ModeChanged} : Command(S, a)
    BY <1>3 DEF ReadID, ModeBank, ModeEnable, ModeCommand, ModeWait,
       EraseEnable, EraseWait, WriteEnable, WriteWait, Read
  <2> QED
    BY <1>2, <2>1, <2>2
<1> QED
  BY <1>1, <1>3

\* Those that erase or program.
LEMMA HeavyStep ==
  ASSUME TypeInv, EraseCommand \/ WriteCommand
  PROVE  /\ ChipsOK'
         /\ \A c \in Chips : c \notin cs \/ ~ Alive(c) \/ chip[c].wip => chip'[c] = chip[c]
<1> USE DEF TypeInv
<1>1. PICK a \in {EraseStarted, ProgramStarted} :
        Command(cs, a) /\ UNCHANGED <<board, tests>>
  BY DEF EraseCommand, WriteCommand
<1>2. tests \in Nat
  BY FlashAssumption
<1>3. \A c \in Chips : EraseStarted[c] \in ChipState /\ ProgramStarted[c] \in ChipState
  BY <1>2, EraseIs, ProgramIs
<1> QED
  BY <1>1, <1>3, CommandIs

LEMMA TypeStart == Init => TypeInv
<1> SUFFICES ASSUME Init
             PROVE  TypeInv
  OBVIOUS
<1>1. BoardOK
  BY BoardsOK
<1>2. tests = 0 /\ \A c \in Chips : board.size[c] = Size
  BY <1>1 DEF Init, BoardOK
<1>3. ChipsOK
  <2>1. Old \in Contents
    BY <1>2 DEF Old, Contents
  <2>2. \A c \in Chips : [wel |-> FALSE, mode4 |-> FALSE, wip |-> FALSE,
                          mem |-> [x \in 0 .. board.size[c] - 1 |-> Old]] \in ChipState
    BY <1>2, <2>1 DEF ChipState
  <2> QED
    BY <2>2 DEF Init, ChipsOK
<1>4. health \in [Chips -> {"good"} \cup Faults] /\ ConfigOK
  BY DEF Init, ConfigOK
<1>5. /\ pc \in Pcs /\ pc \notin {"writeEnable", "writeCommand", "writeWait"}
      /\ cs \subseteq Chips /\ enable \in BOOLEAN /\ ret \in {0, 1, None}
  BY DEF Init, Pcs, Chips
<1>6. count \in 0 .. PAGE_COUNT /\ tests \in 0 .. MaxTests
  BY FlashAssumption DEF Init
<1> QED
  BY <1>1, <1>3, <1>4, <1>5, <1>6 DEF TypeInv

LEMMA ReadIDTypes ==
  ASSUME TypeInv, ReadID
  PROVE  ConfigOK' /\ pc' \in {"undefined", "modeEnable", "eraseEnable"}
<1> USE DEF TypeInv
<1>1. /\ UNCHANGED board
      /\ \/ UNCHANGED global
         \/ flashMake' = Make /\ fct' \in {fct, Entry}
      /\ pc' \in {"undefined", "modeEnable", "eraseEnable"}
  BY DEF ReadID, Make, Size, SizeOf, Entry
<1>2. Entry' = Entry /\ Entry0' = Entry0 /\ Make' = Make
  BY <1>1 DEF Entry, Entry0, Make, Size
<1> QED
  BY <1>1, <1>2 DEF ConfigOK, global

LEMMA TypeStep == TypeInv /\ [Next]_vars => TypeInv'
<1> SUFFICES ASSUME TypeInv, [Next]_vars
             PROVE  TypeInv'
  OBVIOUS
<1> USE DEF TypeInv
<1>0. board' = board
  BY DEF Next, vars, Software, Call, ReadID, ModeBank, ModeEnable, ModeCommand, ModeWait,
     EraseEnable, EraseCommand, EraseWait, WriteEnable, WriteCommand, WriteWait, Read,
     ChipDone, Break
<1>1. BoardOK'
  BY <1>0 DEF BoardOK, Make, Size
<1>2. Entry' = Entry /\ Make' = Make
  BY <1>0 DEF Entry, Make, Size
<1>3. ASSUME UNCHANGED <<global, health, tests>>, ChipsOK', pc' \in Pcs, cs' \subseteq Chips,
             enable' \in BOOLEAN, count' \in 0 .. PAGE_COUNT, ret' \in {0, 1, None},
             pc' \in {"writeEnable", "writeCommand", "writeWait"} => count' < PAGE_COUNT
      PROVE  TypeInv'
  BY <1>1, <1>2, <1>3 DEF ConfigOK, global
<1>4. \A a : Selected(a) \subseteq Chips
  BY SelectedChips
<1>5. CASE Call
  <2>1. tests' \in 0 .. MaxTests
    BY <1>5, FlashAssumption DEF Call
  <2> QED
    BY <1>1, <1>2, <1>5, <2>1, LightStep DEF Call, ConfigOK, global, Pcs, Chips
<1>6. CASE ReadID
  <2>1. 0 \in 0 .. PAGE_COUNT
    BY FlashAssumption
  <2>2. enable' = TRUE /\ count' = 0 /\ UNCHANGED <<health, cs, ret, tests>>
    BY <1>6 DEF ReadID
  <2> QED
    BY <1>1, <1>6, <2>1, <2>2, LightStep, ReadIDTypes DEF Pcs
<1>7. CASE ModeBank \/ ModeEnable \/ ModeCommand \/ ModeWait
  <2>1. /\ UNCHANGED <<global, health, tests, enable, count>>
        /\ pc' \in {"idle", "modeCommand", "modeWait", "eraseEnable"}
        /\ ret' \in {ret, 0} /\ cs' \in {cs, Selected(TEST_ADDRESS)}
    BY <1>7 DEF ModeBank, ModeEnable, ModeCommand, ModeWait, AfterMode
  <2>2. ChipsOK'
    BY <1>7, LightStep
  <2> QED
    BY <1>3, <1>4, <2>1, <2>2 DEF Pcs
<1>8. CASE EraseEnable \/ EraseCommand \/ WriteEnable \/ WriteCommand
  <2>1. /\ UNCHANGED <<global, health, tests, enable, count, ret>>
        /\ pc' \in {"eraseCommand", "eraseWait", "writeCommand", "writeWait"}
        /\ pc' \in {"writeCommand", "writeWait"} => pc \in {"writeEnable", "writeCommand"}
        /\ cs' \in {cs, Selected(addr)}
    BY <1>8 DEF EraseEnable, EraseCommand, WriteEnable, WriteCommand
  <2>2. ChipsOK'
    BY <1>8, LightStep, HeavyStep
  <2> QED
    BY <1>3, <1>4, <2>1, <2>2 DEF Pcs
<1>9. CASE EraseWait
  <2>1. /\ UNCHANGED <<global, health, tests, enable, ret, cs>>
        /\ \/ count + 1 < NumSect(TEST_ADDRESS, MaxData) /\ count' = count + 1
              /\ pc' = "eraseEnable"
           \/ count' = 0 /\ pc' = "writeEnable"
    BY <1>9 DEF EraseWait
  <2>2. ChipsOK'
    BY <1>9, LightStep
  <2>3. count' \in 0 .. PAGE_COUNT /\ (pc' = "writeEnable" => count' < PAGE_COUNT)
    BY <2>1, FewSectors, FlashAssumption
  <2> QED
    BY <1>3, <2>1, <2>2, <2>3 DEF Pcs
<1>10. CASE WriteWait
  <2>1. /\ UNCHANGED <<global, health, tests, enable, ret, cs>>
        /\ count' = count + 1 /\ count < PAGE_COUNT
        /\ \/ pc' = "read"
           \/ pc' = "writeEnable" /\ ~ LastPage(count)
    BY <1>10 DEF WriteWait
  <2>2. ChipsOK'
    BY <1>10, LightStep
  <2>3. count' \in 0 .. PAGE_COUNT /\ (pc' = "writeEnable" => count' < PAGE_COUNT)
    BY <2>1, FlashAssumption DEF LastPage
  <2> QED
    BY <1>3, <2>1, <2>2, <2>3 DEF Pcs
<1>11. CASE Read
  <2>1. /\ UNCHANGED <<global, health, tests, count>>
        /\ pc' \in {"idle", "modeEnable"} /\ ret' \in {ret, 0, 1}
        /\ cs' = Selected(TEST_ADDRESS) /\ enable' = FALSE
    BY <1>11 DEF Read, AfterRead
  <2>2. ChipsOK'
    BY <1>11, LightStep
  <2> QED
    BY <1>3, <1>4, <2>1, <2>2 DEF Pcs
<1>12. CASE ChipDone
  <2>1. PICK c \in Populated : chip' = [chip EXCEPT ![c].wip = FALSE]
    BY <1>12 DEF ChipDone
  <2>2. UNCHANGED <<health, pc, cs, global, enable, addr, count, ret, tests>>
    BY <1>12 DEF ChipDone
  <2>3. c \in Chips /\ ChipState' = ChipState
    BY <1>0, <2>2 DEF Populated, Chips, ChipState, Contents, Size
  <2>4. [chip[c] EXCEPT !.wip = FALSE] \in ChipState
    <3>1. chip[c] \in ChipState
      BY <2>3 DEF ChipsOK
    <3> QED
      BY <3>1 DEF ChipState
  <2>5. ChipsOK'
    BY <2>1, <2>3, <2>4 DEF ChipsOK
  <2> QED
    BY <1>3, <2>2, <2>5
<1>13. CASE Break
  <2>1. PICK c \in Populated, h \in Faults : health' = [health EXCEPT ![c] = h]
    BY <1>13 DEF Break
  <2>2. health' \in [Chips -> {"good"} \cup Faults]
    BY <2>1 DEF Populated, Chips
  <2>3. UNCHANGED <<chip, pc, cs, global, enable, addr, count, ret, tests>>
    BY <1>13 DEF Break
  <2>4. ChipsOK'
    BY <1>0, <2>3 DEF ChipsOK, ChipState, Contents, Size
  <2> QED
    BY <1>1, <1>2, <2>2, <2>3, <2>4 DEF ConfigOK, global
<1>14. CASE UNCHANGED vars
  <2>1. UNCHANGED <<global, health, tests, chip, pc, cs, enable, count, ret>>
    BY <1>14 DEF vars, global
  <2>2. ChipsOK'
    BY <1>0, <2>1 DEF ChipsOK, ChipState, Contents, Size
  <2> QED
    BY <1>3, <2>1, <2>2
<1> QED
  BY <1>5, <1>6, <1>7, <1>8, <1>9, <1>10, <1>11, <1>12, <1>13, <1>14 DEF Next, Software

\* The chips keep their form, no page holds what no call has written, and neither the
\* sector loop nor the page loop runs past its end.
THEOREM TypeCorrect == Spec => []TypeOK
<1>1. TypeInv => TypeOK
  <2> SUFFICES ASSUME TypeInv
               PROVE  TypeOK
    OBVIOUS
  <2>1. \A c \in Chips : chip[c] \in ChipState /\ SizeOf(c) = Size
    BY DEF TypeInv, ChipsOK, BoardOK, SizeOf
  <2> QED
    BY <2>1 DEF TypeInv, TypeOK, ChipState, Contents, Pcs
<1> QED
  BY <1>1, TypeStart, TypeStep, PTL DEF Spec

--------------------------------------------------------------------------------
(***************************************************************************)
(* Busy chips.                                                             *)
(***************************************************************************)
Waiting == pc \in {"eraseWait", "writeWait"}

\* A chip is busy only while the driver waits, and then it is one of those it waits for.
BusyInv == \A c \in Populated : Alive(c) /\ chip[c].wip => Waiting /\ c \in cs

LEMMA BusyStep == TypeInv /\ BusyInv /\ [Next]_vars => BusyInv'
<1> SUFFICES ASSUME TypeInv, BusyInv, [Next]_vars
             PROVE  BusyInv'
  OBVIOUS
<1>0. /\ Populated' = Populated /\ Populated \subseteq Chips
  BY DEF Next, vars, Software, Call, ReadID, ModeBank, ModeEnable, ModeCommand, ModeWait,
     EraseEnable, EraseCommand, EraseWait, WriteEnable, WriteCommand, WriteWait, Read,
     ChipDone, Break, Populated, Chips
<1>1. CASE Call \/ ReadID \/ ModeBank \/ ModeEnable \/ ModeCommand \/ ModeWait
           \/ EraseEnable \/ WriteEnable \/ Read
  <2>1. \A c \in Populated : chip'[c].wip = chip[c].wip
    BY <1>0, <1>1, LightStep
  <2>2. ~ Waiting
    BY <1>1 DEF Waiting, Call, ReadID, ModeBank, ModeEnable, ModeCommand, ModeWait,
       EraseEnable, WriteEnable, Read
  <2>3. \A c \in Populated : Alive(c)' => Alive(c)
    BY <1>1 DEF Alive, Call, ReadID, ModeBank, ModeEnable, ModeCommand, ModeWait,
       EraseEnable, WriteEnable, Read
  <2> QED
    BY <1>0, <2>1, <2>2, <2>3 DEF BusyInv
<1>2. CASE EraseCommand \/ WriteCommand
  <2>1. /\ health' = health /\ cs' = cs /\ Waiting'
        /\ \A c \in Populated : c \notin cs \/ ~ Alive(c) \/ chip[c].wip => chip'[c] = chip[c]
    BY <1>0, <1>2, HeavyStep DEF EraseCommand, WriteCommand, Waiting
  <2> QED
    BY <1>0, <2>1 DEF BusyInv, Alive
<1>3. CASE EraseWait \/ WriteWait
  <2>1. Ready /\ UNCHANGED <<chip, health>>
    BY <1>3 DEF EraseWait, WriteWait
  <2>2. \A c \in cs : Alive(c) => ~ chip[c].wip
    BY <2>1 DEF Ready, ReadyBit, Alive
  <2> QED
    BY <1>0, <2>1, <2>2 DEF BusyInv, Alive
<1>4. CASE ChipDone
  <2>1. PICK c \in Populated : chip' = [chip EXCEPT ![c].wip = FALSE]
    BY <1>4 DEF ChipDone
  <2>2. UNCHANGED <<health, pc, cs>>
    BY <1>4 DEF ChipDone
  <2>3. \A d \in Populated : chip'[d].wip => chip[d].wip
    BY <1>0, <2>1 DEF TypeInv, ChipsOK, ChipState
  <2> QED
    BY <1>0, <2>2, <2>3 DEF BusyInv, Alive, Waiting
<1>5. CASE Break
  <2>1. PICK c \in Populated, h \in Faults : health[c] = "good" /\ health' = [health EXCEPT ![c] = h]
    BY <1>5 DEF Break
  <2>2. UNCHANGED <<chip, pc, cs>>
    BY <1>5 DEF Break
  <2>3. \A d \in Populated : Alive(d)' => Alive(d)
    BY <1>0, <2>1 DEF TypeInv, Alive
  <2> QED
    BY <1>0, <2>2, <2>3 DEF BusyInv, Waiting
<1>6. CASE UNCHANGED vars
  BY <1>6 DEF vars, BusyInv, Alive, Waiting, Populated
<1> QED
  BY <1>1, <1>2, <1>3, <1>4, <1>5, <1>6 DEF Next, Software

LEMMA BusyStart == Init => BusyInv
  BY DEF Init, BusyInv, Populated, Chips

\* No command ever meets a chip that is still busy, or it would be lost: the status polls
\* wait for both chips of a parallel pair, whichever is slower.
THEOREM NoCommandWhileBusyAlways == Spec => []NoCommandWhileBusy
<1>1. BusyInv => NoCommandWhileBusy
  BY DEF BusyInv, NoCommandWhileBusy, Alive, Waiting
<1> QED
  BY <1>1, TypeStart, TypeStep, BusyStart, BusyStep, PTL DEF Spec

--------------------------------------------------------------------------------
(***************************************************************************)
(* The test range: where it lies on the chips, and where FlashRead looks.  *)
(***************************************************************************)
FirstPage(c) == AddrSent(TEST_ADDRESS) % SizeOf(c)

\* With the entry of the flash, the pages of the range are those that are read, on the
\* chips that are selected for it.
LEMMA RangeRead ==
  ASSUME BoardOK, fct = Entry, NEW c \in Populated, NEW x \in TestPages(c)
  PROVE  /\ c \in Selected(TEST_ADDRESS)
         /\ x \in FirstPage(c) .. FirstPage(c) + PerChip(MaxData) - 1
<1> DEFINE S == SIXTEENMB
<1>1. /\ S \in Nat \ {0} /\ TEST_ADDRESS = 2 * S /\ Size \in {S, 2 * S, 4 * S, 8 * S}
      /\ fct.size = Size /\ SizeOf("lower") = Size /\ c \in Chips /\ SizeOf(c) = Size
  BY FlashAssumption DEF TEST_ADDRESS, BoardOK, Entry, Info, SizeOf, Populated, Chips
<1>2. MaxData \in Nat /\ MaxData > 0 /\ MaxData < 2 * S
  <2>1. /\ PAGE_COUNT \in Nat \ {0} /\ SECTOR \in Nat /\ PAGE_COUNT < SECTOR
        /\ fct.page \in {1, 2, 4} /\ MaxData = PAGE_COUNT * fct.page
    BY FlashAssumption DEF MaxData, Entry, Info
  <2>2. 4 * SECTOR <= S
    BY FlashAssumption, DivSmall
  <2> QED
    BY <1>1, <2>1, <2>2
<1>3. /\ x \in 0 .. Size - 1
      /\ Logical(c, x) \in TEST_ADDRESS .. TEST_ADDRESS + MaxData - 1
  BY <1>1 DEF TestPages, MaxData, Entry, Make
<1>4. FirstPage(c) = AddrSent(TEST_ADDRESS) % Size
  BY <1>1 DEF FirstPage
<1>5. CASE board.mode = "single"
  <2>1. x \in 2 * S .. 2 * S + MaxData - 1
    BY <1>1, <1>3, <1>5 DEF Logical
  <2>2. Size \in {4 * S, 8 * S}
    BY <1>1, <1>2, <1>3, <2>1
  <2>3. AddrSent(TEST_ADDRESS) = 2 * S
    BY <1>1, <1>5, <2>2 DEF AddrSent, RealAddr, FourByte
  <2>4. FirstPage(c) = 2 * S
    BY <1>1, <1>4, <2>2, <2>3, DivSmall
  <2> QED
    BY <1>1, <1>2, <1>5, <2>1, <2>4 DEF Selected, Populated, PerChip
<1>6. CASE board.mode = "stacked" /\ c = "lower"
  <2>1. x \in 2 * S .. 2 * S + MaxData - 1
    BY <1>1, <1>3, <1>6 DEF Logical
  <2>2. Size \in {4 * S, 8 * S}
    BY <1>1, <1>2, <1>3, <2>1
  <2>3. (2 * S) \div Size = 0 /\ (2 * S) % Size = 2 * S
    BY <1>1, <2>2, DivSmall
  <2>4. ~ InUpper(TEST_ADDRESS)
    BY <1>1, <2>3 DEF InUpper
  <2>5. AddrSent(TEST_ADDRESS) = 2 * S
    BY <1>1, <1>6, <2>2, <2>4 DEF AddrSent, RealAddr, FourByte
  <2> QED
    BY <1>1, <1>2, <1>4, <1>6, <2>1, <2>3, <2>4, <2>5 DEF Selected, PerChip
<1>7. CASE board.mode = "stacked" /\ c = "upper"
  <2>1. Size + x \in 2 * S .. 2 * S + MaxData - 1
    BY <1>1, <1>3, <1>7 DEF Logical
  <2>2. Size = 2 * S
    BY <1>1, <1>2, <1>3, <2>1
  <2>3. (2 * S) \div Size = 1 /\ 0 % Size = 0
    BY <1>1, <2>2, DivSmall, Quotient
  <2>4. InUpper(TEST_ADDRESS)
    BY <1>1, <2>3 DEF InUpper
  <2>5. AddrSent(TEST_ADDRESS) = 0
    BY <1>1, <1>7, <2>2, <2>4 DEF AddrSent, RealAddr, FourByte
  <2>6. FirstPage(c) = 0 /\ x \in 0 .. MaxData - 1
    BY <1>1, <1>2, <1>3, <1>4, <2>1, <2>2, <2>3, <2>5
  <2>7. PerChip(MaxData) = MaxData
    BY <1>7 DEF PerChip
  <2> QED
    BY <1>2, <1>7, <2>4, <2>6, <2>7 DEF Selected
<1>8. CASE board.mode = "parallel"
  <2>1. 2 * x \in 2 * S .. 2 * S + MaxData - 1
    BY <1>1, <1>3, <1>8 DEF Logical
  <2>2. Size \in {2 * S, 4 * S, 8 * S}
    BY <1>1, <1>2, <1>3, <2>1
  <2>3. AddrSent(TEST_ADDRESS) = S
    BY <1>1, <1>8, <2>2 DEF AddrSent, RealAddr, FourByte
  <2>4. S % Size = S
    BY <1>1, <2>2, DivSmall
  <2>5. PerChip(MaxData) = (MaxData + 1) \div 2
    BY <1>8 DEF PerChip
  <2>6. x \in S .. S + (MaxData + 1) \div 2 - 1
    BY <1>1, <1>2, <1>3, <2>1
  <2> QED
    BY <1>1, <1>4, <1>8, <2>3, <2>4, <2>5, <2>6 DEF Selected
<1> QED
  BY <1>1, <1>5, <1>6, <1>7, <1>8 DEF BoardOK, Chips

--------------------------------------------------------------------------------
(***************************************************************************)
(* Success.  Between a comparison that found the pattern and the end of    *)
(* the test only the address mode changes.                                 *)
(***************************************************************************)
Succeeding == \/ pc \in {"modeEnable", "modeCommand", "modeWait"} /\ ~ enable
              \/ pc = "idle" /\ ret = 0

Written == \A c \in Populated : \A x \in TestPages(c) : chip[c].mem[x] = tests

\* The driver works with the right entry, or it could not identify the flash because the
\* lower chip is dead.
Identified == pc \notin {"idle", "readId"} => fct = Entry \/ ~ Alive("lower")

WrittenInv == Identified /\ (tests = 1 /\ Succeeding => Written)

\* In the first test a page that compares to the pattern was written in that test.
LEMMA MatchWritten ==
  ASSUME TypeInv, Identified, pc = "read", tests = 1, DataMatch(Selected(TEST_ADDRESS))
  PROVE  Written
<1> USE DEF TypeInv
<1>1. fct = Entry
  <2> SUFFICES ASSUME fct # Entry
               PROVE  FALSE
    OBVIOUS
  <2>1. ~ Alive("lower") /\ fct = Entry0
    BY DEF Identified, ConfigOK
  <2>2. "lower" \in Selected(TEST_ADDRESS)
    <3>1. fct.size = SIXTEENMB /\ SIXTEENMB \in Nat \ {0}
      BY <2>1, FlashAssumption DEF Entry0, Info, MB
    <3>2. TEST_ADDRESS \div fct.size = 2
      <4>1. (2 * SIXTEENMB + 0) \div SIXTEENMB = 2
        BY <3>1, Quotient
      <4> QED
        BY <3>1, <4>1 DEF TEST_ADDRESS
    <3>3. ~ InUpper(TEST_ADDRESS)
      BY <3>2 DEF InUpper
    <3> QED
      BY <3>3 DEF Selected, BoardOK, Chips
  <2> QED
    BY <2>1, <2>2 DEF DataMatch, ReadsPattern, Alive
<1>2. ASSUME NEW c \in Populated, NEW x \in TestPages(c)
      PROVE  chip[c].mem[x] = tests
  <2>1. ReadsPattern(c) /\ x \in FirstPage(c) .. FirstPage(c) + PerChip(MaxData) - 1
    BY <1>1, <1>2, RangeRead DEF DataMatch
  <2>2. chip[c].mem[x] > 0
    BY <2>1 DEF ReadsPattern, FirstPage
  <2>3. c \in Chips /\ x \in 0 .. Size - 1
    BY <1>2 DEF Populated, Chips, TestPages, SizeOf, BoardOK
  <2>4. chip[c].mem \in [0 .. Size - 1 -> Contents]
    BY <2>3 DEF ChipsOK, ChipState
  <2>5. chip[c].mem[x] \in Contents
    BY <2>3, <2>4
  <2> QED
    BY <2>2, <2>5 DEF Contents
<1> QED
  BY <1>2 DEF Written

\* A step that leaves the contents alone and does not enter the end of a test.
LEMMA WrittenStays ==
  ASSUME TypeInv, WrittenInv, UNCHANGED <<board, tests>>, Identified',
         \A c \in Chips : chip'[c].mem = chip[c].mem,
         Succeeding' => Succeeding
  PROVE  WrittenInv'
<1>1. Populated' = Populated /\ Populated \subseteq Chips
  BY DEF Populated, Chips
<1>2. \A c \in Populated : TestPages(c)' = TestPages(c)
  BY DEF TestPages, SizeOf, Logical
<1> QED
  BY <1>1, <1>2 DEF WrittenInv, Written

LEMMA WrittenStep == TypeInv /\ BusyInv /\ WrittenInv /\ [Next]_vars => WrittenInv'
<1> SUFFICES ASSUME TypeInv, BusyInv, WrittenInv, [Next]_vars
             PROVE  WrittenInv'
  OBVIOUS
<1>1. CASE Call
  BY <1>1 DEF Call, WrittenInv, Identified, Succeeding
<1>2. CASE ReadID
  <2>1. pc' \notin {"idle", "readId"} /\ enable' = TRUE
    BY <1>2, ReadIDTypes DEF ReadID
  <2>2. UNCHANGED <<board, chip, health, tests>>
    BY <1>2 DEF ReadID
  <2>3. Identified'
    <3>1. CASE Alive("lower")
      <4>1. ~ chip["lower"].wip
        BY <1>2, <3>1 DEF BusyInv, Waiting, ReadID, Populated, Chips
      <4>2. fct' = Entry
        BY <1>2, <3>1, <4>1 DEF ReadID, Alive, TypeInv, BoardOK, Entry, Make, Size, SizeOf
      <4> QED
        BY <2>2, <4>2 DEF Identified, Entry, Make, Size
    <3>2. CASE ~ Alive("lower")
      BY <2>2, <3>2 DEF Identified, Alive
    <3> QED
      BY <3>1, <3>2
  <2> QED
    BY <2>1, <2>3 DEF WrittenInv, Succeeding
<1>3. CASE Read
  <2>1. UNCHANGED <<board, chip, health, tests, fct>> /\ pc = "read"
    BY <1>3 DEF Read, global
  <2>2. Identified'
    BY <2>1 DEF WrittenInv, Identified, Entry, Make, Size, Alive
  <2>3. CASE DataMatch(Selected(TEST_ADDRESS))
    <3>1. tests = 1 => Written
      BY <2>1, <2>3, MatchWritten DEF WrittenInv
    <3>2. tests = 1 => Written'
      BY <2>1, <3>1 DEF Written, Populated, TestPages, SizeOf, Logical
    <3> QED
      BY <2>1, <2>2, <3>2 DEF WrittenInv
  <2>4. CASE ~ DataMatch(Selected(TEST_ADDRESS))
    <3>1. ~ Succeeding'
      BY <1>3, <2>4 DEF Read, Succeeding, DataMatch
    <3> QED
      BY <2>2, <3>1 DEF WrittenInv
  <2> QED
    BY <2>3, <2>4
<1>4. CASE ModeBank \/ ModeEnable \/ ModeCommand \/ ModeWait \/ EraseEnable \/ EraseWait
           \/ WriteEnable \/ WriteWait
  <2>1. /\ UNCHANGED <<board, health, tests, fct, enable>>
        /\ pc \notin {"idle", "readId"}
        /\ Succeeding' => Succeeding
    BY <1>4 DEF ModeBank, ModeEnable, ModeCommand, ModeWait, EraseEnable, EraseWait,
       WriteEnable, WriteWait, AfterMode, Succeeding, global
  <2>2. \A c \in Chips : chip'[c].mem = chip[c].mem
    BY <1>4, LightStep
  <2>3. Identified'
    BY <2>1 DEF WrittenInv, Identified, Entry, Make, Size, Alive
  <2> QED
    BY <2>1, <2>2, <2>3, WrittenStays
<1>5. CASE EraseCommand \/ WriteCommand
  <2>1. UNCHANGED <<board, health, fct>> /\ pc \notin {"idle", "readId"} /\ ~ Succeeding'
    BY <1>5 DEF EraseCommand, WriteCommand, Succeeding, global
  <2> QED
    BY <2>1 DEF WrittenInv, Identified, Entry, Make, Size, Alive
<1>6. CASE ChipDone \/ Break \/ UNCHANGED vars
  <2>1. UNCHANGED <<board, pc, fct, enable, ret, tests>>
    BY <1>6 DEF ChipDone, Break, vars, global
  <2>2. \A c \in Chips : chip'[c].mem = chip[c].mem
    BY <1>6 DEF ChipDone, Break, vars, TypeInv, ChipsOK, ChipState, Populated, Chips
  <2>3. Alive("lower")' => Alive("lower")
    BY <1>6 DEF ChipDone, Break, vars, Alive, TypeInv, Populated, Chips
  <2>4. Identified'
    BY <2>1, <2>3 DEF WrittenInv, Identified, Entry, Make, Size
  <2> QED
    BY <2>1, <2>2, <2>4, WrittenStays DEF Succeeding
<1> QED
  BY <1>1, <1>2, <1>3, <1>4, <1>5, <1>6 DEF Next, Software

\* The first test of a board cannot be deceived by a chip that stops erasing and writing,
\* or dies, at any point of it: whatever flash of the table, in whatever mode.
THEOREM FirstTestHonestAlways == Spec => []FirstTestHonest
<1>1. WrittenInv => FirstTestHonest
  BY DEF WrittenInv, FirstTestHonest, SuccessMeansWritten, Succeeding, Written
<1>2. Init => WrittenInv
  BY DEF Init, WrittenInv, Identified
<1> QED
  BY <1>1, <1>2, TypeStart, TypeStep, BusyStart, BusyStep, WrittenStep, PTL DEF Spec

--------------------------------------------------------------------------------
(***************************************************************************)
(* The address mode.  A mode command reaches the chips of TEST_ADDRESS,    *)
(* but Spansion's reaches the chips selected before: those of the call     *)
(* when the mode is entered, those of the comparison when it is left.      *)
(***************************************************************************)
Target == CASE board.mode = "single"   -> {"lower"}
            [] board.mode = "stacked"  -> IF Size = 2 * SIXTEENMB THEN {"upper"} ELSE {"lower"}
            [] board.mode = "parallel" -> Chips

Switching == pc \in {"modeEnable", "modeCommand", "modeWait"}
InTest == pc \notin {"idle", "readId"}

\* What enters the mode reaches only chips that are made to leave it.
LowerReached == Make = "spansion" => "lower" \in Target

ModeOK == /\ InTest => fct = Entry /\ flashMake = Make
          /\ \A c \in Populated : chip[c].mode4 => c \in Target /\ Size > SIXTEENMB
          /\ Switching => Size > SIXTEENMB
          /\ pc \in {"readId", "modeEnable"} /\ (Switching => enable) => cs = {"lower"}
          /\ Switching /\ ~ enable => cs = Target
          /\ pc = "modeCommand" /\ ~ enable /\ Make \in {"micron", "issi"} =>
               \A c \in Target \cap Populated : chip[c].wel
          /\ pc = "modeWait" /\ ~ enable => \A c \in Populated : ~ chip[c].mode4
          /\ pc = "idle" /\ ret = 0 => \A c \in Populated : ~ chip[c].mode4

ModeInv == LowerReached /\ (~ Dead => ModeOK)

LEMMA TargetSelected ==
  ASSUME BoardOK, fct = Entry
  PROVE  Selected(TEST_ADDRESS) = Target
<1> DEFINE S == SIXTEENMB
<1>1. /\ S \in Nat \ {0} /\ TEST_ADDRESS = 2 * S /\ Size \in {S, 2 * S, 4 * S, 8 * S}
      /\ fct.size = Size
  BY FlashAssumption DEF TEST_ADDRESS, BoardOK, Entry, Info
<1>2. CASE board.mode = "stacked"
  <2>1. Size = S => (2 * S) \div Size = 2
    <3>1. (2 * S + 0) \div S = 2
      BY <1>1, Quotient
    <3> QED
      BY <1>1, <3>1
  <2>2. Size = 2 * S => (2 * S) \div Size = 1
    BY <1>1, Quotient
  <2>3. Size \in {4 * S, 8 * S} => (2 * S) \div Size = 0
    BY <1>1, DivSmall
  <2>4. InUpper(TEST_ADDRESS) <=> Size = 2 * S
    BY <1>1, <2>1, <2>2, <2>3 DEF InUpper
  <2> QED
    BY <1>2, <2>4 DEF Selected, Target
<1> QED
  BY <1>2 DEF Selected, Target, BoardOK

\* While no data line is dead, every chip there is takes the commands.
LEMMA AliveAll ==
  ASSUME TypeInv, BusyInv, ~ Dead, NEW c \in Populated
  PROVE  c \in Chips /\ Alive(c) /\ (~ Waiting => ~ chip[c].wip)
<1>1. c \in Chips
  BY DEF Populated, Chips
<1>2. health[c] \in {"good", "stuck", "high", "low"}
  BY <1>1, FlashAssumption DEF TypeInv
<1> QED
  BY <1>1, <1>2 DEF Dead, Alive, BusyInv

\* A light command, while no data line is dead and nobody is busy: it reaches exactly the
\* chips it is for.
LEMMA Reaches ==
  ASSUME TypeInv, BusyInv, ~ Dead, ~ Waiting, UNCHANGED <<board, tests>>, NEW S,
         NEW a \in {WriteEnabled, WriteDisabled, BankWritten, ModeChanged}, Command(S, a)
  PROVE  \A c \in Populated : chip'[c] = IF c \in S THEN a[c] ELSE chip[c]
<1>1. \A c \in Chips : a[c] \in ChipState
  BY LightCommands DEF TypeInv, Light
<1>2. \A c \in Chips : chip'[c] = IF c \in S \cap Populated /\ Alive(c) /\ ~ chip[c].wip
                                  THEN a[c] ELSE chip[c]
  BY <1>1, CommandIs DEF TypeInv
<1> QED
  BY <1>2, AliveAll

LEMMA ModeStays ==
  ASSUME board' = board
  PROVE  /\ Target' = Target /\ Make' = Make /\ Size' = Size /\ Entry' = Entry
         /\ Populated' = Populated /\ (LowerReached => LowerReached')
<1>1. Make' = Make /\ Size' = Size /\ Populated' = Populated
  BY DEF Make, Size, Populated
<1>2. Target' = Target
  BY <1>1 DEF Target
<1>3. Entry' = Entry
  BY <1>1 DEF Entry
<1> QED
  BY <1>1, <1>2, <1>3 DEF LowerReached

\* A step that leaves the modes alone, outside of the switching.
LEMMA ModeIdle ==
  ASSUME TypeInv, ModeOK, UNCHANGED <<board, fct, flashMake>>,
         \A c \in Populated : chip'[c].mode4 => chip[c].mode4,
         InTest' => InTest, ~ Switching', pc' # "readId",
         pc' = "idle" /\ ret' = 0 => \A c \in Populated : ~ chip[c].mode4
  PROVE  ModeOK'
  BY ModeStays DEF ModeOK, Switching, InTest

\* One of the transfers of FlashEnterExit4BAddMode.
LEMMA SwitchStep ==
  ASSUME TypeInv, BusyInv, LowerReached, ModeOK, ~ Dead,
         ModeBank \/ ModeEnable \/ ModeCommand \/ ModeWait
  PROVE  ModeOK'
<1>1. /\ UNCHANGED <<board, tests, fct, flashMake, enable>> /\ Switching
      /\ fct = Entry /\ flashMake = Make /\ Size > SIXTEENMB /\ enable \in BOOLEAN
  BY DEF ModeBank, ModeEnable, ModeCommand, ModeWait, global, ModeOK, Switching, InTest,
     TypeInv
<1>2. ~ Waiting /\ ChipsOK /\ BoardOK
  BY <1>1 DEF Waiting, Switching, TypeInv
<1>3. \A c \in Populated : c \in Chips /\ board.make[c] = Make
  BY <1>2 DEF Populated, Chips, BoardOK
<1>4. CASE ModeBank
  <2>1. /\ Command(cs, BankWritten) /\ Make = "spansion" /\ AfterMode /\ pc = "modeEnable"
        /\ UNCHANGED cs
    BY <1>1, <1>4 DEF ModeBank
  <2>2. \A c \in Populated : chip'[c] = IF c \in cs THEN BankWritten[c] ELSE chip[c]
    BY <1>1, <1>2, <2>1, Reaches
  <2>3. \A c \in Populated : chip'[c].mode4 = IF c \in cs THEN enable ELSE chip[c].mode4
    BY <1>1, <1>2, <1>3, <2>2, LightCommands
  <2>4. cs \subseteq Target /\ (~ enable => cs = Target)
    BY <1>1, <2>1 DEF ModeOK, LowerReached, Switching
  <2>5. \A c \in Populated : /\ chip'[c].mode4 => c \in Target
                             /\ ~ enable => ~ chip'[c].mode4
    BY <2>3, <2>4 DEF ModeOK
  <2>6. pc' \in {"eraseEnable", "idle"} /\ (pc' = "idle" => ~ enable)
    BY <2>1 DEF AfterMode
  <2> QED
    BY <1>1, <2>5, <2>6, ModeStays DEF ModeOK, Switching, InTest
<1>5. CASE ModeEnable
  <2>1. /\ \/ Command(cs, WriteEnabled)
           \/ Make \notin {"micron", "issi"} /\ chip' = chip
        /\ pc' = "modeCommand" /\ UNCHANGED cs /\ pc = "modeEnable"
    BY <1>1, <1>5 DEF ModeEnable
  <2>2. \A c \in Populated :
          /\ chip'[c].mode4 = chip[c].mode4
          /\ Make \in {"micron", "issi"} /\ c \in cs => chip'[c].wel
    <3>1. CASE Command(cs, WriteEnabled)
      <4>1. \A c \in Populated : chip'[c] = IF c \in cs THEN WriteEnabled[c] ELSE chip[c]
        BY <1>1, <1>2, <3>1, Reaches
      <4> QED
        BY <1>1, <1>2, <1>3, <4>1, LightCommands
    <3>2. CASE Make \notin {"micron", "issi"} /\ chip' = chip
      BY <3>2
    <3> QED
      BY <2>1, <3>1, <3>2
  <2> QED
    BY <1>1, <2>1, <2>2, ModeStays DEF ModeOK, Switching, InTest
<1>6. CASE ModeCommand
  <2>1. Command(cs', ModeChanged) /\ cs' = Target /\ pc' = "modeWait" /\ pc = "modeCommand"
    BY <1>1, <1>2, <1>6, TargetSelected DEF ModeCommand
  <2>2. \A c \in Populated : chip'[c] = IF c \in Target THEN ModeChanged[c] ELSE chip[c]
    BY <1>1, <1>2, <2>1, Reaches
  <2>3. \A c \in Populated : chip'[c].mode4 => c \in Target
    BY <2>2 DEF ModeOK
  <2>4. ~ enable => \A c \in Populated : ~ chip'[c].mode4
    <3> SUFFICES ASSUME ~ enable, NEW c \in Populated
                 PROVE  ~ chip'[c].mode4
      OBVIOUS
    <3>1. CASE c \in Target
      <4>1. Make \in {"micron", "issi"} => chip[c].wel
        BY <1>1, <2>1, <3>1 DEF ModeOK
      <4>2. ModeChanged[c].mode4 = enable
        BY <1>1, <1>2, <1>3, <4>1, LightCommands
      <4> QED
        BY <2>2, <3>1, <4>2
    <3>2. CASE c \notin Target
      BY <2>2, <3>2 DEF ModeOK
    <3> QED
      BY <3>1, <3>2
  <2> QED
    BY <1>1, <2>1, <2>3, <2>4, ModeStays DEF ModeOK, Switching, InTest
<1>7. CASE ModeWait
  <2>1. /\ Command(cs, WriteDisabled) \/ chip' = chip
        /\ AfterMode /\ UNCHANGED cs /\ pc = "modeWait"
    BY <1>7 DEF ModeWait
  <2>2. \A c \in Populated : chip'[c].mode4 = chip[c].mode4
    <3>1. CASE Command(cs, WriteDisabled)
      <4>1. \A c \in Populated : chip'[c] = IF c \in cs THEN WriteDisabled[c] ELSE chip[c]
        BY <1>1, <1>2, <3>1, Reaches
      <4> QED
        BY <1>1, <1>2, <1>3, <4>1, LightCommands
    <3> QED
      BY <2>1, <3>1
  <2>3. pc' \in {"eraseEnable", "idle"} /\ (pc' = "idle" => ~ enable)
    BY <2>1 DEF AfterMode
  <2> QED
    BY <1>1, <2>1, <2>2, <2>3, ModeStays DEF ModeOK, Switching, InTest
<1> QED
  BY <1>4, <1>5, <1>6, <1>7

LEMMA ModeStart ==
  ASSUME Init
  PROVE  ModeOK
<1>1. \A c \in Populated : ~ chip[c].mode4
  BY DEF Init, Populated, Chips
<1> QED
  BY <1>1 DEF Init, ModeOK, InTest, Switching

LEMMA StaysAlive ==
  ASSUME TypeInv, [Next]_vars, ~ Dead'
  PROVE  ~ Dead
<1>1. Populated' = Populated /\ Populated \subseteq Chips
  BY DEF Next, vars, Software, Call, ReadID, ModeBank, ModeEnable, ModeCommand, ModeWait,
     EraseEnable, EraseCommand, EraseWait, WriteEnable, WriteCommand, WriteWait, Read,
     ChipDone, Break, Populated, Chips
<1>2. CASE Break
  <2>1. PICK c \in Populated, h \in Faults : health[c] = "good" /\ health' = [health EXCEPT ![c] = h]
    BY <1>2 DEF Break
  <2> QED
    BY <1>1, <2>1 DEF TypeInv, Dead
<1>3. CASE ~ Break
  <2>1. health' = health
    BY <1>3 DEF Next, vars, Software, Call, ReadID, ModeBank, ModeEnable, ModeCommand, ModeWait,
       EraseEnable, EraseCommand, EraseWait, WriteEnable, WriteCommand, WriteWait, Read,
       ChipDone
  <2> QED
    BY <1>1, <2>1 DEF Dead
<1> QED
  BY <1>2, <1>3

\* The transfers of FlashErase and FlashWrite leave the modes alone.
LEMMA ModeKept ==
  ASSUME TypeInv, BusyInv, ~ Dead,
         \/ EraseEnable \/ EraseCommand \/ EraseWait
         \/ WriteEnable \/ WriteCommand \/ WriteWait
  PROVE  \A c \in Populated : chip'[c].mode4 = chip[c].mode4
<1>1. TypeInv /\ ChipsOK /\ BoardOK /\ tests \in Nat /\ enable \in BOOLEAN
  BY FlashAssumption DEF TypeInv
<1>2. Populated \subseteq Chips
  BY DEF Populated, Chips
<1>3. CASE EraseEnable \/ WriteEnable
  <2>1. /\ Command(cs', WriteEnabled) /\ UNCHANGED <<board, tests>>
        /\ pc \in {"eraseEnable", "writeEnable"}
    BY <1>3 DEF EraseEnable, WriteEnable
  <2>2. \A c \in Populated : chip'[c] = IF c \in cs' THEN WriteEnabled[c] ELSE chip[c]
    BY <2>1, Reaches DEF Waiting
  <2> QED
    BY <1>1, <1>2, <2>2, LightCommands
<1>4. CASE EraseCommand \/ WriteCommand
  <2>1. PICK a \in {EraseStarted, ProgramStarted} :
          Command(cs, a) /\ UNCHANGED <<board, tests>>
    BY <1>4 DEF EraseCommand, WriteCommand
  <2>2. \A c \in Chips : a[c] \in ChipState /\ a[c].mode4 = chip[c].mode4
    BY <1>1, EraseIs, ProgramIs
  <2>3. \A c \in Chips : chip'[c] \in {a[c], chip[c]}
    BY <1>1, <2>1, <2>2, CommandIs
  <2> QED
    BY <1>2, <2>2, <2>3
<1>5. CASE EraseWait \/ WriteWait
  BY <1>5 DEF EraseWait, WriteWait
<1> QED
  BY <1>3, <1>4, <1>5

LEMMA ModeStep == TypeInv /\ BusyInv /\ ModeInv /\ [Next]_vars => ModeInv'
<1> SUFFICES ASSUME TypeInv, BusyInv, ModeInv, [Next]_vars, ~ Dead'
             PROVE  ModeOK'
  <2>1. ASSUME [Next]_vars
        PROVE  board' = board
    BY <2>1 DEF Next, vars, Software, Call, ReadID, ModeBank, ModeEnable, ModeCommand,
       ModeWait, EraseEnable, EraseCommand, EraseWait, WriteEnable, WriteCommand, WriteWait,
       Read, ChipDone, Break
  <2> QED
    BY <2>1, ModeStays DEF ModeInv
<1>0. ~ Dead /\ ModeOK /\ LowerReached /\ ChipsOK /\ BoardOK
  BY StaysAlive DEF ModeInv, TypeInv
<1>1. CASE Call
  <2>1. pc' = "readId" /\ cs' = {"lower"} /\ UNCHANGED <<board, chip, enable>>
    BY <1>1 DEF Call
  <2> QED
    BY <1>0, <2>1, ModeStays DEF ModeOK, InTest, Switching
<1>2. CASE ReadID
  <2>1. /\ pc = "readId" /\ enable' = TRUE /\ UNCHANGED <<board, chip, cs>> /\ cs = {"lower"}
    BY <1>0, <1>2 DEF ReadID, ModeOK, Switching
  <2>2. "lower" \in Populated
    BY DEF Populated, Chips
  <2>3. Alive("lower") /\ ~ chip["lower"].wip
    BY <1>0, <2>1, <2>2, AliveAll DEF Waiting
  <2>4. fct' = Entry /\ flashMake' = Make
    BY <1>0, <1>2, <2>3 DEF ReadID, Alive, BoardOK, Entry, Make, Size, SizeOf
  <2>5. /\ pc' \in {"undefined", "modeEnable", "eraseEnable"}
        /\ pc' = "modeEnable" => Size > SIXTEENMB
    BY <1>2, <2>4 DEF ReadID, Entry, Info
  <2> QED
    BY <1>0, <2>1, <2>4, <2>5, ModeStays DEF ModeOK, InTest, Switching
<1>3. CASE ModeBank \/ ModeEnable \/ ModeCommand \/ ModeWait
  BY <1>0, <1>3, SwitchStep
<1>4. CASE \/ EraseEnable \/ EraseCommand \/ EraseWait
           \/ WriteEnable \/ WriteCommand \/ WriteWait
  <2>1. \A c \in Populated : chip'[c].mode4 = chip[c].mode4
    BY <1>0, <1>4, ModeKept
  <2>2. UNCHANGED <<board, fct, flashMake>> /\ InTest /\ ~ Switching'
        /\ pc' \notin {"idle", "readId"}
    BY <1>4 DEF EraseEnable, EraseCommand, EraseWait, WriteEnable, WriteCommand, WriteWait,
       InTest, Switching, global
  <2> QED
    BY <1>0, <2>1, <2>2, ModeIdle
<1>5. CASE Read
  <2>1. /\ UNCHANGED <<board, chip, fct, flashMake>> /\ pc = "read" /\ enable' = FALSE
        /\ cs' = Selected(TEST_ADDRESS)
        /\ \/ pc' = "idle" /\ ret' = 1
           \/ pc' = "modeEnable" /\ FourByte
           \/ pc' = "idle" /\ ret' = 0 /\ ~ FourByte
    BY <1>5 DEF Read, AfterRead, global
  <2>2. fct = Entry /\ cs' = Target
    BY <1>0, <2>1, TargetSelected DEF ModeOK, InTest
  <2>3. FourByte <=> Size > SIXTEENMB
    BY <2>2 DEF FourByte, Entry, Info
  <2> QED
    BY <1>0, <2>1, <2>2, <2>3, ModeStays DEF ModeOK, InTest, Switching
<1>6. CASE ChipDone \/ Break \/ UNCHANGED vars
  <2>1. UNCHANGED <<board, pc, cs, fct, flashMake, enable, ret>>
    BY <1>6 DEF ChipDone, Break, vars, global
  <2>2. \A c \in Populated : chip'[c].mode4 = chip[c].mode4 /\ chip'[c].wel = chip[c].wel
    BY <1>0, <1>6 DEF ChipDone, Break, vars, ChipsOK, ChipState, Populated, Chips
  <2> QED
    BY <1>0, <2>1, <2>2, ModeStays DEF ModeOK, InTest, Switching
<1> QED
  BY <1>1, <1>2, <1>3, <1>4, <1>5, <1>6 DEF Next, Software

\* A good test leaves every chip in the address mode it was found in.  A stacked pair of
\* 32 MB Spansion chips is excepted: its lower chip enters the mode and the upper chip
\* leaves it.
THEOREM ModeRestoredAlways ==
  ASSUME \A b \in Boards : ~ (/\ b.mode = "stacked" /\ b.make["lower"] = "spansion"
                              /\ b.size["lower"] = 2 * SIXTEENMB)
  PROVE  Spec => []ModeRestored
<1>1. Init => ModeInv
  <2> SUFFICES ASSUME Init
               PROVE  ModeInv
    OBVIOUS
  <2>1. LowerReached
    BY BoardsOK DEF Init, LowerReached, Target, BoardOK, Make, Size, Chips
  <2> QED
    BY <2>1, ModeStart DEF ModeInv
<1>2. ModeInv => ModeRestored
  BY DEF ModeInv, ModeOK, ModeRestored
<1> QED
  BY <1>1, <1>2, TypeStart, TypeStep, BusyStart, BusyStep, ModeStep, PTL DEF Spec

--------------------------------------------------------------------------------
(***************************************************************************)
(* Boards on which the range lies inside the flash and the mode commands   *)
(* reach every chip of it: there the test works where it should, and a     *)
(* board without a fault passes.                                           *)
(***************************************************************************)
GoodBoard == Size \in {4 * SIXTEENMB, 8 * SIXTEENMB}
             /\ (board.mode = "parallel" => Make = "macronix")

\* On each chip of Target: the first page of the range, and the pages of one transfer.
Base == IF board.mode = "parallel" THEN SIXTEENMB ELSE 2 * SIXTEENMB
Step == PerChip(Entry.page)
TestRange == Base .. Base + PAGE_COUNT * Step - 1

Erasing == {"eraseEnable", "eraseCommand", "eraseWait"}
Writing == {"writeEnable", "writeCommand", "writeWait"}

\* The chips of the range are in 4-byte mode while the driver works on them.
ModeOn == /\ pc \in Erasing \cup Writing \cup {"read"} \/ (pc = "modeWait" /\ enable) =>
               \A c \in Target : chip[c].mode4
          /\ pc = "modeCommand" /\ enable /\ Make \in {"micron", "issi"} =>
               \A c \in Target : chip[c].wel

\* Where the next transfer goes.
Where == /\ pc \in Erasing \/ (Switching /\ enable) => addr = TEST_ADDRESS /\ count = 0
         /\ pc \in Writing => addr = TEST_ADDRESS + count * fct.page
         /\ pc \in {"eraseCommand", "eraseWait", "writeCommand", "writeWait"} => cs = Target

Outside == \A c \in Populated : \A x \in (0 .. Size - 1) \ TestSectors(c) : chip[c].mem[x] = Old

OutsideInv == GoodBoard /\ (~ Dead => ModeOn /\ Where /\ Outside)

AllGood == \A c \in Populated : health[c] = "good"

\* How many pages of the range are written, on each chip.
Filled == IF pc = "writeWait" THEN count + 1 ELSE IF pc = "read" THEN PAGE_COUNT ELSE count

\* The first n pages of the range are written, the others are erased.
RangeHolds(n) == \A c \in Target : \A x \in TestRange :
                   IF x < Base + n * Step THEN chip[c].mem[x] > 0 ELSE chip[c].mem[x] = Erased

\* What the range holds in a test of a board without a fault.
Content == /\ ret # 1
           /\ pc # "idle" => tests > 0
           /\ pc \in {"eraseCommand", "writeCommand"} => \A c \in Target : chip[c].wel
           /\ pc \in {"eraseWait", "read"} \cup Writing => RangeHolds(Filled)

HealthyInv == AllGood => Content

\* A sector of one chip.
Wide == Info(Make, Size, "single").sect

\* The three geometries.
LEMMA GoodShape ==
  ASSUME BoardOK, GoodBoard, fct = Entry
  PROVE  /\ FourByte /\ fct.size = Size /\ Target = (IF board.mode = "parallel" THEN Chips ELSE {"lower"})
         /\ \A c \in Chips : SizeOf(c) = Size /\ ChipSector(c) = Wide
         /\ PerChip(fct.page) = Step
         /\ \/ board.mode # "parallel" /\ fct.page = 1 /\ Step = 1 /\ Wide = SECTOR /\ fct.sect = SECTOR
            \/ /\ board.mode # "parallel" /\ fct.page = 2 /\ Step = 2
               /\ Wide = 4 * SECTOR /\ fct.sect = 4 * SECTOR
            \/ /\ board.mode = "parallel" /\ fct.page = 2 /\ Step = 1 /\ Wide = SECTOR
               /\ fct.sect = 2 * SECTOR
<1> DEFINE S == SIXTEENMB
<1>1. /\ S \in Nat \ {0} /\ Size \in {4 * S, 8 * S} /\ MB(64) = 4 * S /\ MB(128) = 8 * S
      /\ SECTOR \in Nat /\ board.mode \in {"single", "stacked", "parallel"}
      /\ \A c \in Chips : board.make[c] = Make /\ board.size[c] = Size
      /\ board.mode = "parallel" => Make = "macronix"
  BY FlashAssumption DEF BoardOK, GoodBoard, MB
<1>2. fct.size = Size /\ FourByte
  BY <1>1 DEF Entry, Info, FourByte
<1>3. Target = IF board.mode = "parallel" THEN Chips ELSE {"lower"}
  BY <1>1 DEF Target
<1>4. \A c \in Chips : SizeOf(c) = Size /\ ChipSector(c) = Wide
  BY <1>1 DEF SizeOf, ChipSector, Wide
<1>5. PerChip(fct.page) = Step
  BY DEF Step
<1>6. CASE board.mode # "parallel" /\ ~ (Make = "spansion" /\ Size = MB(64))
  <2>1. fct.page = 1 /\ fct.sect = SECTOR /\ Wide = SECTOR
    BY <1>1, <1>6 DEF Entry, Info, Wide
  <2>2. Step = 1
    BY <1>6, <2>1 DEF Step, PerChip
  <2> QED
    BY <1>2, <1>3, <1>4, <1>5, <1>6, <2>1, <2>2
<1>7. CASE board.mode # "parallel" /\ Make = "spansion" /\ Size = MB(64)
  <2>1. fct.page = 2 /\ fct.sect = 4 * SECTOR /\ Wide = 4 * SECTOR
    BY <1>1, <1>7 DEF Entry, Info, Wide
  <2>2. Step = 2
    BY <1>7, <2>1 DEF Step, PerChip
  <2> QED
    BY <1>2, <1>3, <1>4, <1>5, <1>7, <2>1, <2>2
<1>8. CASE board.mode = "parallel"
  <2>1. fct.page = 2 /\ fct.sect = 2 * SECTOR /\ Wide = SECTOR
    BY <1>1, <1>8 DEF Entry, Info, Wide
  <2>2. Step = 1
    BY <1>8, <2>1 DEF Step, PerChip
  <2> QED
    BY <1>2, <1>3, <1>4, <1>5, <1>8, <2>1, <2>2
<1> QED
  BY <1>6, <1>7, <1>8

\* The range lies within one sector.
LEMMA GoodRange ==
  ASSUME BoardOK, GoodBoard, fct = Entry
  PROVE  /\ Wide \in Nat \ {0} /\ Step \in {1, 2} /\ PAGE_COUNT * Step < Wide
         /\ Base \in Nat /\ Base + Wide <= Size /\ Size \in Nat \ {0}
         /\ \A n \in 0 .. Wide - 1 : (Base + n) \div Wide = Base \div Wide
         /\ TEST_ADDRESS % fct.sect = 0 /\ fct.sect \in Nat \ {0}
<1> DEFINE S == SIXTEENMB
<1>1. /\ S \in Nat \ {0} /\ Size \in {4 * S, 8 * S} /\ TEST_ADDRESS = 2 * S
      /\ PAGE_COUNT \in Nat \ {0} /\ SECTOR \in Nat \ {0} /\ PAGE_COUNT < SECTOR
  BY FlashAssumption DEF GoodBoard, TEST_ADDRESS
<1>2. PICK q \in Nat \ {0} : S = q * (4 * SECTOR)
  <2>1. 4 * SECTOR \in Nat \ {0} /\ S \in Nat /\ S % (4 * SECTOR) = 0
    BY <1>1, FlashAssumption
  <2>2. S \div (4 * SECTOR) \in Nat /\ S = (S \div (4 * SECTOR)) * (4 * SECTOR)
    BY <2>1, Multiple
  <2>3. S \div (4 * SECTOR) # 0
    BY <1>1, <2>2
  <2> QED
    BY <2>2, <2>3
<1>3. 4 * SECTOR <= S
  BY <1>1, <1>2
<1>4. /\ Wide \in {SECTOR, 4 * SECTOR} /\ Step \in {1, 2} /\ PAGE_COUNT * Step < Wide
      /\ Base \in {S, 2 * S}
  BY <1>1, GoodShape DEF Base
<1>5. PICK m \in Nat : Base = m * Wide
  <2>1. CASE Wide = SECTOR
    <3>1. CASE Base = S
      <4>1. Base = (4 * q) * Wide
        BY <1>1, <1>2, <2>1, <3>1
      <4> QED
        BY <1>2, <4>1
    <3>2. CASE Base = 2 * S
      <4>1. Base = (8 * q) * Wide
        BY <1>1, <1>2, <2>1, <3>2
      <4> QED
        BY <1>2, <4>1
    <3> QED
      BY <1>4, <3>1, <3>2
  <2>2. CASE Wide = 4 * SECTOR
    <3>1. CASE Base = S
      BY <1>2, <2>2, <3>1
    <3>2. CASE Base = 2 * S
      <4>1. Base = (2 * q) * Wide
        BY <1>1, <1>2, <2>2, <3>2
      <4> QED
        BY <1>2, <4>1
    <3> QED
      BY <1>4, <3>1, <3>2
  <2> QED
    BY <1>4, <2>1, <2>2
<1>6. Wide \in Nat \ {0} /\ Base \in Nat /\ Base + Wide <= Size /\ Size \in Nat \ {0}
  BY <1>1, <1>3, <1>4
<1>7. ASSUME NEW n \in 0 .. Wide - 1
      PROVE  (Base + n) \div Wide = Base \div Wide
  <2>1. (m * Wide + n) \div Wide = m
    BY <1>6, Quotient
  <2>2. (m * Wide + 0) \div Wide = m
    BY <1>6, Quotient
  <2>3. m * Wide + 0 = m * Wide
    BY <1>5, <1>6
  <2> QED
    BY <1>5, <2>1, <2>2, <2>3
<1>8. fct.sect \in Nat \ {0} /\ \E k \in Nat : TEST_ADDRESS = k * fct.sect
  <2>1. fct.sect \in {SECTOR, 2 * SECTOR, 4 * SECTOR}
    BY GoodShape
  <2>2. CASE fct.sect = SECTOR
    <3>1. TEST_ADDRESS = (8 * q) * fct.sect
      BY <1>1, <1>2, <2>2
    <3> QED
      BY <1>1, <1>2, <2>2, <3>1
  <2>3. CASE fct.sect = 2 * SECTOR
    <3>1. TEST_ADDRESS = (4 * q) * fct.sect
      BY <1>1, <1>2, <2>3
    <3> QED
      BY <1>1, <1>2, <2>3, <3>1
  <2>4. CASE fct.sect = 4 * SECTOR
    <3>1. TEST_ADDRESS = (2 * q) * fct.sect
      BY <1>1, <1>2, <2>4
    <3> QED
      BY <1>1, <1>2, <2>4, <3>1
  <2> QED
    BY <2>1, <2>2, <2>3, <2>4
<1>9. TEST_ADDRESS % fct.sect = 0
  <2>1. PICK k \in Nat : TEST_ADDRESS = k * fct.sect
    BY <1>8
  <2>2. (k * fct.sect + 0) % fct.sect = 0
    BY <1>8, Quotient
  <2>3. k * fct.sect + 0 = k * fct.sect
    BY <1>8, <2>1
  <2> QED
    BY <2>1, <2>2, <2>3
<1> QED
  BY <1>4, <1>6, <1>7, <1>8, <1>9

\* One sector is erased.
LEMMA OneSector ==
  ASSUME BoardOK, GoodBoard, fct = Entry
  PROVE  NumSect(TEST_ADDRESS, MaxData) = 1
<1>1. /\ fct.sect \in Nat \ {0} /\ TEST_ADDRESS % fct.sect = 0 /\ TEST_ADDRESS \in Nat
  BY GoodRange, FlashAssumption DEF TEST_ADDRESS
<1>2. MaxData \in Nat /\ MaxData < fct.sect
  <2>1. PAGE_COUNT \in Nat \ {0} /\ SECTOR \in Nat \ {0} /\ PAGE_COUNT < SECTOR
    BY FlashAssumption
  <2> QED
    BY <2>1, GoodShape DEF MaxData
<1>3. PICK k \in Nat : TEST_ADDRESS = k * fct.sect
  BY <1>1, Multiple
<1>4. PICK d : d = fct.sect
  OBVIOUS
<1>5. PICK b : b = MaxData
  OBVIOUS
<1>6. d \in Nat \ {0} /\ b \in 0 .. d - 1 /\ TEST_ADDRESS = k * d
  BY <1>1, <1>2, <1>3, <1>4, <1>5
<1>7. b \div d = 0
  BY <1>6, DivSmall
<1>8. (TEST_ADDRESS + b) \div d = k
  BY <1>6, Quotient
<1>9. (TEST_ADDRESS + 1 * d) \div d = k + 1
  <2>1. ((k + 1) * d + 0) \div d = k + 1
    BY <1>6, Quotient
  <2>2. (k + 1) * d + 0 = TEST_ADDRESS + 1 * d
    BY <1>6
  <2> QED
    BY <2>1, <2>2
<1>10. NumSect(TEST_ADDRESS, MaxData) =
         IF (TEST_ADDRESS + b) \div d = (TEST_ADDRESS + 1 * d) \div d THEN 2 ELSE 1
  BY <1>4, <1>5, <1>7 DEF NumSect
<1> QED
  BY <1>8, <1>9, <1>10

\* Where page n of the range goes.
LEMMA GoodTarget ==
  ASSUME BoardOK, GoodBoard, fct = Entry, NEW n \in 0 .. PAGE_COUNT - 1,
         NEW a, a = TEST_ADDRESS + n * fct.page
  PROVE  /\ Selected(a) = Target
         /\ AddrSent(a) % Size = Base + n * Step
<1> DEFINE S == SIXTEENMB
<1>1. /\ S \in Nat \ {0} /\ Size \in {4 * S, 8 * S} /\ TEST_ADDRESS = 2 * S
      /\ PAGE_COUNT \in Nat \ {0} /\ SECTOR \in Nat \ {0} /\ PAGE_COUNT < SECTOR
      /\ board.mode \in {"single", "stacked", "parallel"}
  BY FlashAssumption DEF GoodBoard, TEST_ADDRESS, BoardOK
<1>2. /\ FourByte /\ fct.size = Size
      /\ Target = IF board.mode = "parallel" THEN Chips ELSE {"lower"}
  BY GoodShape
<1>3. /\ PAGE_COUNT * Step < Wide /\ Base + Wide <= Size /\ Base \in Nat /\ Wide \in Nat
      /\ Step \in {1, 2} /\ Size \in Nat \ {0}
  BY GoodRange
<1>4. n * Step \in Nat /\ n * Step <= PAGE_COUNT * Step
  BY <1>1, <1>3
<1>5. Base + n * Step \in 0 .. Size - 1
  BY <1>1, <1>3, <1>4
<1>6. CASE board.mode # "parallel"
  <2>1. a = Base + n * Step
    BY <1>1, <1>6, GoodShape DEF Base
  <2>2. a \div Size = 0 /\ a % Size = a
    BY <1>3, <1>5, <2>1, DivSmall
  <2>3. ~ InUpper(a)
    BY <1>2, <2>2 DEF InUpper
  <2> QED
    BY <1>1, <1>2, <1>6, <2>1, <2>2, <2>3 DEF Selected, AddrSent, RealAddr
<1>7. CASE board.mode = "parallel"
  <2>1. a = 2 * S + n * 2 /\ Base = S /\ Step = 1
    BY <1>1, <1>7, GoodShape DEF Base
  <2>2. a \div 2 = S + n
    BY <1>1, <2>1
  <2>3. (S + n) % Size = S + n
    <3>1. S + n \in 0 .. Size - 1
      BY <1>1, <1>5, <2>1
    <3> QED
      BY <1>3, <3>1, DivSmall
  <2> QED
    BY <1>1, <1>2, <1>7, <2>1, <2>2, <2>3 DEF Selected, AddrSent, RealAddr
<1> QED
  BY <1>6, <1>7

\* The range, said with the addresses of the board, is that of the transfers.
LEMMA GoodPages ==
  ASSUME BoardOK, GoodBoard, fct = Entry, NEW c \in Target
  PROVE  /\ c \in Populated /\ c \in Chips
         /\ TestRange \subseteq 0 .. Size - 1 /\ TestPages(c) = TestRange
         /\ \A x \in 0 .. Size - 1 : x \div Wide = Base \div Wide => x \in TestSectors(c)
         /\ \A x \in TestRange : x \div Wide = Base \div Wide
         /\ FirstPage(c) = Base /\ PerChip(MaxData) = PAGE_COUNT * Step
<1> DEFINE S == SIXTEENMB
<1>1. /\ S \in Nat \ {0} /\ Size \in {4 * S, 8 * S} /\ TEST_ADDRESS = 2 * S
      /\ PAGE_COUNT \in Nat \ {0} /\ board.mode \in {"single", "stacked", "parallel"}
  BY FlashAssumption DEF GoodBoard, TEST_ADDRESS, BoardOK
<1>2. /\ Target = (IF board.mode = "parallel" THEN Chips ELSE {"lower"})
      /\ \A d \in Chips : SizeOf(d) = Size /\ ChipSector(d) = Wide
  BY GoodShape
<1>3. c \in Populated /\ c \in Chips
  BY <1>2 DEF Populated, Chips
<1>4. /\ PAGE_COUNT * Step < Wide /\ Base + Wide <= Size /\ Base \in Nat /\ Wide \in Nat
      /\ Step \in {1, 2} /\ Size \in Nat \ {0}
      /\ \A n \in 0 .. Wide - 1 : (Base + n) \div Wide = Base \div Wide
  BY GoodRange
<1>5. TestRange \subseteq 0 .. Size - 1
  BY <1>1, <1>4 DEF TestRange
<1>6. \A x \in TestRange : x \div Wide = Base \div Wide
  <2> SUFFICES ASSUME NEW x \in TestRange
               PROVE  x \div Wide = Base \div Wide
    OBVIOUS
  <2>1. x - Base \in 0 .. Wide - 1 /\ x = Base + (x - Base)
    BY <1>1, <1>4 DEF TestRange
  <2> QED
    BY <1>4, <2>1
<1>7. TestPages(c) = TestRange
  <2>1. TestPages(c) = {x \in 0 .. Size - 1 :
                          Logical(c, x) \in 2 * S .. 2 * S + PAGE_COUNT * Entry.page - 1}
    <3>1. "lower" \in Chips /\ board.make["lower"] = Make /\ SizeOf("lower") = Size
      BY <1>2 DEF Chips, Make
    <3> QED
      BY <1>1, <1>2, <1>3, <3>1 DEF TestPages, Entry
  <2>2. CASE board.mode # "parallel"
    <3>1. \A x : Logical(c, x) = x
      BY <1>1, <1>2, <2>2 DEF Logical
    <3>2. Base = 2 * S /\ Entry.page = Step
      BY <2>2, GoodShape DEF Base
    <3> QED
      BY <1>5, <2>1, <3>1, <3>2 DEF TestRange
  <2>3. CASE board.mode = "parallel"
    <3>1. \A x : Logical(c, x) = 2 * x
      BY <1>1, <2>3 DEF Logical
    <3>2. Base = S /\ Entry.page = 2 /\ Step = 1
      BY <2>3, GoodShape DEF Base
    <3>3. \A x \in 0 .. Size - 1 : 2 * x \in 2 * S .. 2 * S + PAGE_COUNT * 2 - 1 <=>
                                   x \in S .. S + PAGE_COUNT * 1 - 1
      BY <1>1, <1>4
    <3>4. TestPages(c) = {x \in 0 .. Size - 1 : x \in S .. S + PAGE_COUNT * 1 - 1}
      BY <2>1, <3>1, <3>2, <3>3
    <3>5. TestRange = S .. S + PAGE_COUNT * 1 - 1
      BY <3>2 DEF TestRange
    <3> QED
      BY <1>5, <3>4, <3>5
  <2> QED
    BY <2>2, <2>3
<1>8. ASSUME NEW x \in 0 .. Size - 1, x \div Wide = Base \div Wide
      PROVE  x \in TestSectors(c)
  <2>1. Base \in TestRange
    BY <1>1, <1>4 DEF TestRange
  <2> QED
    BY <1>2, <1>3, <1>7, <1>8, <2>1 DEF TestSectors
<1>9. FirstPage(c) = Base
  <2>1. 0 \in 0 .. PAGE_COUNT - 1 /\ fct.page \in {1, 2}
    BY <1>1, GoodShape
  <2>2. TEST_ADDRESS = TEST_ADDRESS + 0 * fct.page /\ Base + 0 * Step = Base
    BY <1>1, <1>4, <2>1
  <2>3. AddrSent(TEST_ADDRESS) % Size = Base + 0 * Step
    BY <2>1, <2>2, GoodTarget
  <2> QED
    BY <1>2, <1>3, <2>2, <2>3 DEF FirstPage
<1>10. PerChip(MaxData) = PAGE_COUNT * Step
  <2>1. CASE board.mode # "parallel"
    BY <2>1, GoodShape DEF PerChip, MaxData
  <2>2. CASE board.mode = "parallel"
    <3>1. MaxData = PAGE_COUNT * 2 /\ Step = 1
      BY <2>2, GoodShape DEF MaxData
    <3>2. (PAGE_COUNT * 2 + 1) \div 2 = PAGE_COUNT
      BY <1>1
    <3> QED
      BY <1>1, <2>2, <3>1, <3>2 DEF PerChip
  <2> QED
    BY <2>1, <2>2
<1> QED
  BY <1>3, <1>5, <1>6, <1>7, <1>8, <1>9, <1>10

\* The pages the commands reach.
LEMMA GoodErased ==
  ASSUME BoardOK, GoodBoard, fct = Entry, addr = TEST_ADDRESS, NEW c \in Target
  PROVE  /\ ErasedPages(c) \subseteq TestSectors(c)
         /\ TestRange \subseteq ErasedPages(c)
<1>1. c \in Chips /\ SizeOf(c) = Size /\ ChipSector(c) = Wide
  BY GoodShape, GoodPages
<1>2. AddrSent(addr) % SizeOf(c) = Base
  BY <1>1, GoodPages DEF FirstPage
<1>3. ErasedPages(c) = {x \in 0 .. Size - 1 : x \div Wide = Base \div Wide}
  BY <1>1, <1>2 DEF ErasedPages
<1> QED
  BY <1>3, GoodPages

LEMMA GoodProgrammed ==
  ASSUME BoardOK, GoodBoard, fct = Entry, NEW n \in 0 .. PAGE_COUNT - 1,
         addr = TEST_ADDRESS + n * fct.page, NEW c \in Target
  PROVE  /\ ProgrammedPages(c) \subseteq TestRange
         /\ \A x \in TestRange :
              x \in ProgrammedPages(c) <=> Base + n * Step <= x /\ x < Base + (n + 1) * Step
<1>1. c \in Chips /\ SizeOf(c) = Size /\ TestRange \subseteq 0 .. Size - 1
  BY GoodShape, GoodPages
<1>2. AddrSent(addr) % SizeOf(c) = Base + n * Step
  BY <1>1, GoodTarget
<1>3. /\ Base \in Nat /\ Step \in {1, 2} /\ Size \in Nat /\ PAGE_COUNT \in Nat \ {0}
      /\ PerChip(fct.page) = Step
  BY GoodRange, GoodShape, FlashAssumption
<1>4. ProgrammedPages(c) = {x \in 0 .. Size - 1 : x \in Base + n * Step .. Base + n * Step + Step - 1}
  BY <1>1, <1>2, <1>3 DEF ProgrammedPages
<1>5. n * Step + Step = (n + 1) * Step /\ (n + 1) * Step <= PAGE_COUNT * Step
      /\ n * Step \in Nat /\ PAGE_COUNT * Step \in Nat /\ (n + 1) * Step \in Nat
  BY <1>3
<1>6. \A x \in Base + n * Step .. Base + n * Step + Step - 1 : x \in TestRange
  BY <1>3, <1>5 DEF TestRange
<1>7. \A x \in TestRange : x \in Base + n * Step .. Base + n * Step + Step - 1 <=>
                           Base + n * Step <= x /\ x < Base + (n + 1) * Step
  BY <1>3, <1>5 DEF TestRange
<1> QED
  BY <1>1, <1>4, <1>6, <1>7

--------------------------------------------------------------------------------
(***************************************************************************)
(* Nothing outside the sectors of the range is touched.                    *)
(***************************************************************************)
LEMMA GoodStays ==
  ASSUME board' = board
  PROVE  /\ (GoodBoard => GoodBoard') /\ Base' = Base /\ Step' = Step /\ TestRange' = TestRange
         /\ Make' = Make /\ Size' = Size /\ Entry' = Entry /\ Target' = Target
         /\ Populated' = Populated
         /\ \A c : TestSectors(c)' = TestSectors(c)
<1>1. Make' = Make /\ Size' = Size /\ Populated' = Populated /\ Entry' = Entry /\ Target' = Target
  BY ModeStays
<1>2. Base' = Base /\ Step' = Step /\ (GoodBoard => GoodBoard')
  BY <1>1 DEF Base, Step, PerChip, GoodBoard
<1>3. \A c : TestSectors(c)' = TestSectors(c)
  BY DEF TestSectors, TestPages, ChipSector, SizeOf, Logical
<1> QED
  BY <1>1, <1>2, <1>3 DEF TestRange

\* What an erase or program command makes of the chips while no data line is dead.
LEMMA GoodCommand ==
  ASSUME TypeInv, BusyInv, ModeOK, ModeOn, Where, GoodBoard, ~ Dead,
         EraseCommand \/ WriteCommand
  PROVE  /\ UNCHANGED <<board, health, cs, fct, flashMake, enable, addr, count, ret, tests>>
         /\ fct = Entry /\ Size > SIXTEENMB /\ cs = Target /\ BoardOK /\ tests \in Nat
         /\ EraseCommand => pc = "eraseCommand" /\ pc' = "eraseWait" /\ addr = TEST_ADDRESS
                            /\ count = 0
         /\ WriteCommand => pc = "writeCommand" /\ pc' = "writeWait"
                            /\ count \in 0 .. PAGE_COUNT - 1
                            /\ addr = TEST_ADDRESS + count * fct.page
         /\ \A c \in Populated :
              /\ chip'[c].mode4 = chip[c].mode4 /\ c \in Chips
              /\ c \notin Target => chip'[c] = chip[c]
              /\ c \in Target =>
                   /\ chip[c].mode4 = FourByte
                   /\ EraseCommand => chip'[c] = EraseStarted[c]
                   /\ WriteCommand => chip'[c] = ProgramStarted[c]
<1>1. /\ UNCHANGED <<board, health, cs, fct, flashMake, enable, addr, count, ret, tests>>
      /\ EraseCommand => pc = "eraseCommand" /\ pc' = "eraseWait" /\ Command(cs, EraseStarted)
      /\ WriteCommand => pc = "writeCommand" /\ pc' = "writeWait" /\ Command(cs, ProgramStarted)
      /\ pc \in {"eraseCommand", "writeCommand"}
  BY DEF EraseCommand, WriteCommand, global
<1>2. fct = Entry /\ cs = Target /\ BoardOK /\ ChipsOK /\ tests \in Nat
  BY <1>1, FlashAssumption DEF ModeOK, InTest, Where, TypeInv
<1>3. /\ pc = "eraseCommand" => addr = TEST_ADDRESS /\ count = 0
      /\ pc = "writeCommand" => addr = TEST_ADDRESS + count * fct.page /\ count < PAGE_COUNT
      /\ count \in 0 .. PAGE_COUNT /\ PAGE_COUNT \in Nat
  BY FlashAssumption DEF Where, Erasing, Writing, TypeInv
<1>4. FourByte /\ \A c \in Target : chip[c].mode4 = TRUE
  BY <1>1, <1>2, GoodShape, GoodPages DEF ModeOn, Erasing, Writing, ChipsOK, ChipState
<1>5. \A c \in Target : c \in Populated
  BY <1>2, GoodPages
<1>6. \A c \in Populated : c \in Chips /\ Alive(c) /\ ~ chip[c].wip
  BY <1>1, AliveAll DEF Waiting
<1>7. \A c \in Chips : /\ EraseStarted[c] \in ChipState /\ EraseStarted[c].mode4 = chip[c].mode4
                       /\ ProgramStarted[c] \in ChipState
                       /\ ProgramStarted[c].mode4 = chip[c].mode4
  BY <1>2, EraseIs, ProgramIs
<1>8. ASSUME NEW a \in {EraseStarted, ProgramStarted}, Command(cs, a)
      PROVE  \A c \in Populated : /\ c \notin Target => chip'[c] = chip[c]
                                  /\ c \in Target => chip'[c] = a[c]
  <2>1. \A c \in Chips : a[c] \in ChipState
    BY <1>7
  <2>2. \A c \in Chips : chip'[c] = IF c \in cs \cap Populated /\ Alive(c) /\ ~ chip[c].wip
                                    THEN a[c] ELSE chip[c]
    BY <1>1, <1>2, <1>8, <2>1, CommandIs
  <2> QED
    BY <1>2, <1>6, <2>2
<1>9. Size > SIXTEENMB
  BY FlashAssumption DEF GoodBoard
<1>10. CASE EraseCommand
  <2>1. pc = "eraseCommand" /\ ~ WriteCommand
    BY <1>1, <1>10
  <2>2. \A c \in Populated : /\ c \notin Target => chip'[c] = chip[c]
                             /\ c \in Target => chip'[c] = EraseStarted[c]
    BY <1>1, <1>8, <1>10
  <2> QED
    BY <1>1, <1>2, <1>3, <1>4, <1>6, <1>7, <1>9, <1>10, <2>1, <2>2
<1>11. CASE WriteCommand
  <2>1. pc = "writeCommand" /\ ~ EraseCommand
    BY <1>1, <1>11
  <2>2. \A c \in Populated : /\ c \notin Target => chip'[c] = chip[c]
                             /\ c \in Target => chip'[c] = ProgramStarted[c]
    BY <1>1, <1>8, <1>11
  <2>3. count \in 0 .. PAGE_COUNT - 1
    BY <1>3, <2>1
  <2> QED
    BY <1>1, <1>2, <1>3, <1>4, <1>6, <1>7, <1>9, <1>11, <2>1, <2>2, <2>3
<1> QED
  BY <1>10, <1>11

\* The facts the steps below start from.
LEMMA GoodNow ==
  ASSUME TypeInv, BusyInv, ModeOK, GoodBoard, ~ Dead
  PROVE  /\ BoardOK /\ ChipsOK /\ tests \in Nat /\ enable \in BOOLEAN
         /\ Size > SIXTEENMB /\ LowerReached
         /\ board.mode # "parallel" => Target = {"lower"}
         /\ Target \subseteq Populated /\ Populated \subseteq Chips
         /\ InTest => fct = Entry /\ flashMake = Make
         /\ \A c \in Populated : board.make[c] = Make
<1>1. BoardOK /\ ChipsOK /\ tests \in Nat /\ enable \in BOOLEAN /\ Size > SIXTEENMB
      /\ board.mode \in {"single", "stacked", "parallel"}
  BY FlashAssumption DEF TypeInv, GoodBoard, BoardOK
<1>2. Target = IF board.mode = "parallel" THEN Chips ELSE {"lower"}
  BY <1>1, FlashAssumption DEF Target, GoodBoard
<1>3. Target \subseteq Populated /\ Populated \subseteq Chips
  BY <1>2 DEF Populated, Chips
<1>4. LowerReached
  BY <1>2 DEF LowerReached, Chips
<1> QED
  BY <1>1, <1>2, <1>3, <1>4 DEF ModeOK, BoardOK

\* The modes of the chips of the range.
LEMMA ModeOnStep ==
  ASSUME TypeInv, BusyInv, ModeOK, ModeOn, Where, GoodBoard, ~ Dead, [Next]_vars
  PROVE  ModeOn'
<1>0. /\ BoardOK /\ ChipsOK /\ tests \in Nat /\ enable \in BOOLEAN /\ Size > SIXTEENMB
      /\ board.mode # "parallel" => Target = {"lower"}
      /\ Target \subseteq Populated /\ Populated \subseteq Chips
      /\ InTest => fct = Entry /\ flashMake = Make
      /\ \A c \in Populated : board.make[c] = Make
      /\ board.mode = "parallel" => Make = "macronix"
  BY GoodNow DEF GoodBoard
<1>1. board' = board => Target' = Target /\ Make' = Make
  BY ModeStays
<1>2. CASE Call
  BY <1>2 DEF Call, ModeOn, Erasing, Writing
<1>3. CASE ReadID
  <2>1. pc = "readId" /\ board' = board
    BY <1>3 DEF ReadID
  <2>2. Alive("lower") /\ ~ chip["lower"].wip
    BY <2>1, AliveAll DEF Waiting, Populated, Chips
  <2>3. fct' = Entry
    BY <1>0, <1>3, <2>2 DEF ReadID, Alive, BoardOK, Entry, Make, Size, SizeOf
  <2>4. pc' \in {"undefined", "modeEnable"}
    BY <1>0, <1>3, <2>3 DEF ReadID, Entry, Info
  <2> QED
    BY <2>4 DEF ModeOn, Erasing, Writing
<1>4. CASE ModeBank
  <2>1. /\ pc = "modeEnable" /\ Make = "spansion" /\ Command(cs, BankWritten) /\ AfterMode
        /\ UNCHANGED <<board, tests, enable>>
    BY <1>0, <1>4 DEF ModeBank, InTest
  <2>2. CASE enable
    <3>1. cs = Target
      BY <1>0, <2>1, <2>2 DEF ModeOK, Switching
    <3>2. \A c \in Populated : chip'[c] = IF c \in cs THEN BankWritten[c] ELSE chip[c]
      BY <2>1, Reaches DEF Waiting
    <3>3. \A c \in Target : chip'[c].mode4 = TRUE
      BY <1>0, <2>2, <3>1, <3>2, LightCommands
    <3> QED
      BY <1>1, <2>1, <2>2, <3>3 DEF ModeOn, AfterMode
  <2>3. CASE ~ enable
    BY <2>1, <2>3 DEF AfterMode, ModeOn, Erasing, Writing
  <2> QED
    BY <2>2, <2>3
<1>5. CASE ModeEnable
  <2>1. /\ pc = "modeEnable" /\ pc' = "modeCommand" /\ UNCHANGED <<board, tests, enable>>
        /\ Make \in {"micron", "issi"} => Command(cs, WriteEnabled)
    BY <1>0, <1>5 DEF ModeEnable, InTest
  <2>2. CASE enable /\ Make \in {"micron", "issi"}
    <3>1. cs = Target
      BY <1>0, <2>1, <2>2 DEF ModeOK, Switching
    <3>2. \A c \in Populated : chip'[c] = IF c \in cs THEN WriteEnabled[c] ELSE chip[c]
      BY <2>1, <2>2, Reaches DEF Waiting
    <3>3. \A c \in Target : chip'[c].wel
      BY <1>0, <3>1, <3>2, LightCommands
    <3> QED
      BY <1>1, <2>1, <3>3 DEF ModeOn, Erasing, Writing
  <2>3. CASE ~ (enable /\ Make \in {"micron", "issi"})
    BY <1>1, <2>1, <2>3 DEF ModeOn, Erasing, Writing
  <2> QED
    BY <2>2, <2>3
<1>6. CASE ModeCommand
  <2>1. /\ pc = "modeCommand" /\ pc' = "modeWait" /\ UNCHANGED <<board, tests, enable>>
        /\ Command(cs', ModeChanged) /\ cs' = Selected(TEST_ADDRESS)
    BY <1>6 DEF ModeCommand
  <2>2. cs' = Target
    BY <1>0, <2>1, TargetSelected DEF InTest
  <2>3. \A c \in Populated : chip'[c] = IF c \in cs' THEN ModeChanged[c] ELSE chip[c]
    BY <2>1, Reaches DEF Waiting
  <2>4. enable => \A c \in Target : chip'[c].mode4 = TRUE
    <3> SUFFICES ASSUME enable, NEW c \in Target
                 PROVE  chip'[c].mode4 = TRUE
      OBVIOUS
    <3>1. Make \in {"micron", "issi"} => chip[c].wel
      BY <2>1 DEF ModeOn
    <3>2. ModeChanged[c].mode4 = enable
      BY <1>0, <3>1, LightCommands
    <3> QED
      BY <1>0, <2>2, <2>3, <3>2
  <2> QED
    BY <1>1, <2>1, <2>4 DEF ModeOn, Erasing, Writing
<1>7. CASE ModeWait
  <2>1. /\ pc = "modeWait" /\ UNCHANGED <<board, tests, enable>> /\ AfterMode
        /\ Command(cs, WriteDisabled) \/ chip' = chip
    BY <1>7 DEF ModeWait
  <2>2. \A c \in Populated : chip'[c].mode4 = chip[c].mode4
    <3>1. CASE Command(cs, WriteDisabled)
      <4>1. \A c \in Populated : chip'[c] = IF c \in cs THEN WriteDisabled[c] ELSE chip[c]
        BY <2>1, <3>1, Reaches DEF Waiting
      <4> QED
        BY <1>0, <4>1, LightCommands
    <3> QED
      BY <2>1, <3>1
  <2>3. pc' = "idle" \/ (pc' = "eraseEnable" /\ enable)
    BY <2>1 DEF AfterMode
  <2> QED
    BY <1>0, <1>1, <2>1, <2>2, <2>3 DEF ModeOn, Erasing, Writing
<1>8. CASE \/ EraseEnable \/ EraseCommand \/ EraseWait
           \/ WriteEnable \/ WriteCommand \/ WriteWait
  <2>1. \A c \in Populated : chip'[c].mode4 = chip[c].mode4
    BY <1>8, ModeKept
  <2>2. pc \in Erasing \cup Writing /\ pc' # "modeCommand" /\ board' = board
    BY <1>8 DEF EraseEnable, EraseCommand, EraseWait, WriteEnable, WriteCommand, WriteWait,
       Erasing, Writing
  <2> QED
    BY <1>0, <1>1, <2>1, <2>2 DEF ModeOn
<1>9. CASE Read
  <2>1. enable' = FALSE /\ pc' \in {"idle", "modeEnable"}
    BY <1>9 DEF Read, AfterRead
  <2> QED
    BY <2>1 DEF ModeOn, Erasing, Writing
<1>10. CASE ChipDone \/ Break \/ UNCHANGED vars
  <2>1. UNCHANGED <<board, pc, enable>>
    BY <1>10 DEF ChipDone, Break, vars
  <2>2. \A c \in Populated : chip'[c].mode4 = chip[c].mode4 /\ chip'[c].wel = chip[c].wel
    BY <1>0, <1>10 DEF ChipDone, Break, vars, ChipsOK, ChipState
  <2> QED
    BY <1>0, <1>1, <2>1, <2>2 DEF ModeOn
<1> QED
  BY <1>2, <1>3, <1>4, <1>5, <1>6, <1>7, <1>8, <1>9, <1>10 DEF Next, Software

\* Where the transfers go.
LEMMA WhereStep ==
  ASSUME TypeInv, BusyInv, ModeOK, ModeOn, Where, GoodBoard, ~ Dead, [Next]_vars
  PROVE  Where'
<1>0. /\ BoardOK /\ Size > SIXTEENMB /\ (InTest => fct = Entry)
      /\ PAGE_COUNT \in Nat \ {0} /\ TEST_ADDRESS \in Nat /\ count \in 0 .. PAGE_COUNT
      /\ Writing = {"writeEnable", "writeCommand", "writeWait"}
  BY GoodNow, FlashAssumption DEF TypeInv, TEST_ADDRESS, Writing
<1>1. board' = board => Target' = Target
  BY ModeStays
<1>2. CASE Call
  BY <1>2 DEF Call, Where, Erasing, Writing, Switching
<1>3. CASE ReadID
  <2>1. pc' \in {"undefined", "modeEnable", "eraseEnable"} /\ addr' = TEST_ADDRESS /\ count' = 0
    BY <1>3, ReadIDTypes DEF ReadID
  <2> QED
    BY <2>1 DEF Where, Erasing, Writing, Switching
<1>4. CASE ModeBank \/ ModeEnable \/ ModeCommand \/ ModeWait
  <2>1. /\ UNCHANGED <<addr, count, enable>> /\ Switching
        /\ pc' \in {"modeCommand", "modeWait", "eraseEnable", "idle"}
        /\ pc' = "eraseEnable" => enable
    BY <1>4 DEF ModeBank, ModeEnable, ModeCommand, ModeWait, AfterMode, Switching
  <2> QED
    BY <2>1 DEF Where, Erasing, Writing, Switching
<1>5. CASE EraseEnable \/ EraseCommand
  <2>1. /\ UNCHANGED <<board, addr, count>> /\ pc \in {"eraseEnable", "eraseCommand"}
        /\ pc' \in {"eraseCommand", "eraseWait"}
        /\ pc = "eraseEnable" => cs' = Selected(addr)
        /\ pc = "eraseCommand" => cs' = cs
    BY <1>5 DEF EraseEnable, EraseCommand
  <2>2. addr = TEST_ADDRESS /\ count = 0 /\ fct = Entry
    BY <1>0, <2>1 DEF Where, Erasing, InTest
  <2>3. cs' = Target
    BY <1>0, <2>1, <2>2, TargetSelected DEF Where
  <2> QED
    BY <1>1, <2>1, <2>2, <2>3 DEF Where, Erasing, Writing, Switching
<1>6. CASE EraseWait
  <2>1. fct = Entry /\ count = 0 /\ UNCHANGED <<board, fct>>
    BY <1>0, <1>6 DEF EraseWait, Where, Erasing, InTest, global
  <2>2. NumSect(TEST_ADDRESS, MaxData) = 1
    BY <1>0, <2>1, OneSector
  <2>3. count' = 0 /\ addr' = TEST_ADDRESS /\ pc' = "writeEnable"
    BY <1>6, <2>1, <2>2 DEF EraseWait
  <2>4. fct.page \in {1, 2}
    BY <1>0, <2>1, GoodShape
  <2>5. addr' = TEST_ADDRESS + count' * fct'.page
    BY <1>0, <2>1, <2>3, <2>4
  <2> QED
    BY <2>3, <2>5 DEF Where, Erasing, Writing, Switching
<1>7. CASE WriteEnable \/ WriteCommand
  <2>1. /\ UNCHANGED <<board, addr, count, fct>> /\ pc \in {"writeEnable", "writeCommand"}
        /\ pc' \in {"writeCommand", "writeWait"}
        /\ pc = "writeEnable" => cs' = Selected(addr)
        /\ pc = "writeCommand" => cs' = cs
    BY <1>7 DEF WriteEnable, WriteCommand, global
  <2>2. addr = TEST_ADDRESS + count * fct.page /\ fct = Entry
    BY <1>0, <2>1 DEF Where, InTest
  <2>3. count \in 0 .. PAGE_COUNT - 1
    BY <1>0, <2>1 DEF TypeInv
  <2>4. cs' = Target
    BY <1>0, <2>1, <2>2, <2>3, GoodTarget DEF Where
  <2> QED
    BY <1>1, <2>1, <2>2, <2>4 DEF Where, Erasing, Writing, Switching
<1>8. CASE WriteWait
  <2>1. /\ UNCHANGED <<board, fct, cs>> /\ pc = "writeWait" /\ pc' \in {"read", "writeEnable"}
        /\ addr' = addr + fct.page /\ count' = count + 1
    BY <1>8 DEF WriteWait, global
  <2>2. addr = TEST_ADDRESS + count * fct.page /\ fct = Entry
    BY <1>0, <2>1 DEF Where, InTest
  <2>3. fct.page \in {1, 2}
    BY <1>0, <2>2, GoodShape
  <2>4. addr' = TEST_ADDRESS + count' * fct'.page
    BY <1>0, <2>1, <2>2, <2>3
  <2> QED
    BY <2>1, <2>4 DEF Where, Erasing, Writing, Switching
<1>9. CASE Read
  <2>1. enable' = FALSE /\ pc' \in {"idle", "modeEnable"}
    BY <1>9 DEF Read, AfterRead
  <2> QED
    BY <2>1 DEF Where, Erasing, Writing, Switching
<1>10. CASE ChipDone \/ Break \/ UNCHANGED vars
  <2>1. UNCHANGED <<board, pc, enable, addr, count, fct, cs>>
    BY <1>10 DEF ChipDone, Break, vars, global
  <2> QED
    BY <1>1, <2>1 DEF Where, Switching
<1> QED
  BY <1>2, <1>3, <1>4, <1>5, <1>6, <1>7, <1>8, <1>9, <1>10 DEF Next, Software

\* Only an erase or program command changes what a chip holds.
LEMMA MemStays ==
  ASSUME TypeInv, [Next]_vars, ~ EraseCommand, ~ WriteCommand
  PROVE  \A c \in Chips : chip'[c].mem = chip[c].mem
<1>1. CASE \/ Call \/ ReadID \/ ModeBank \/ ModeEnable \/ ModeCommand \/ ModeWait
           \/ EraseEnable \/ EraseWait \/ WriteEnable \/ WriteWait \/ Read
  BY <1>1, LightStep
<1>2. CASE ChipDone \/ Break \/ UNCHANGED vars
  BY <1>2 DEF ChipDone, Break, vars, TypeInv, ChipsOK, ChipState
<1> QED
  BY <1>1, <1>2 DEF Next, Software

\* The pages outside of the sectors of the range.
LEMMA OutsideStep ==
  ASSUME TypeInv, BusyInv, ModeOK, ModeOn, Where, Outside, GoodBoard, ~ Dead, [Next]_vars
  PROVE  Outside'
<1>0. /\ BoardOK /\ ChipsOK /\ tests \in Nat /\ Populated \subseteq Chips
  BY GoodNow
<1>1. board' = board
  BY DEF Next, vars, Software, Call, ReadID, ModeBank, ModeEnable, ModeCommand,
     ModeWait, EraseEnable, EraseCommand, EraseWait, WriteEnable, WriteCommand, WriteWait,
     Read, ChipDone, Break
<1>2. SUFFICES ASSUME NEW c \in Populated, NEW x \in (0 .. Size - 1) \ TestSectors(c)
               PROVE  chip'[c].mem[x] = chip[c].mem[x]
  BY <1>1, GoodStays DEF Outside
<1>3. CASE ~ EraseCommand /\ ~ WriteCommand
  BY <1>0, <1>3, MemStays
<1>4. CASE EraseCommand /\ c \in Target
  <2>1. fct = Entry /\ addr = TEST_ADDRESS /\ chip'[c] = EraseStarted[c]
    BY <1>2, <1>4, GoodCommand
  <2>2. x \notin ErasedPages(c)
    BY <1>0, <1>2, <1>4, <2>1, GoodErased
  <2> QED
    BY <1>0, <1>2, <2>1, <2>2, EraseIs
<1>5. CASE WriteCommand /\ c \in Target
  <2>1. /\ fct = Entry /\ addr = TEST_ADDRESS + count * fct.page
        /\ count \in 0 .. PAGE_COUNT - 1
        /\ chip'[c] = ProgramStarted[c] /\ chip[c].mode4 = FourByte
    BY <1>2, <1>5, GoodCommand
  <2>2. TestRange \subseteq TestSectors(c)
    BY <1>0, <1>5, <2>1, GoodPages
  <2>3. x \notin ProgrammedPages(c)
    BY <1>0, <1>2, <1>5, <2>1, <2>2, GoodProgrammed
  <2> QED
    BY <1>0, <1>2, <2>1, <2>3, ProgramIs
<1>6. CASE (EraseCommand \/ WriteCommand) /\ c \notin Target
  BY <1>2, <1>6, GoodCommand
<1> QED
  BY <1>3, <1>4, <1>5, <1>6

LEMMA OutsideInvStep ==
  TypeInv /\ BusyInv /\ ModeInv /\ OutsideInv /\ [Next]_vars => OutsideInv'
<1> SUFFICES ASSUME TypeInv, BusyInv, ModeInv, OutsideInv, [Next]_vars
             PROVE  OutsideInv'
  OBVIOUS
<1>1. GoodBoard'
  <2>1. board' = board
    BY DEF Next, vars, Software, Call, ReadID, ModeBank, ModeEnable, ModeCommand,
       ModeWait, EraseEnable, EraseCommand, EraseWait, WriteEnable, WriteCommand, WriteWait,
       Read, ChipDone, Break
  <2> QED
    BY <2>1, GoodStays DEF OutsideInv
<1>2. ASSUME ~ Dead'
      PROVE  (ModeOn /\ Where /\ Outside)'
  <2>1. ~ Dead
    BY <1>2, StaysAlive
  <2>2. GoodBoard /\ ModeOK /\ ModeOn /\ Where /\ Outside
    BY <2>1 DEF OutsideInv, ModeInv
  <2> QED
    BY <2>1, <2>2, ModeOnStep, WhereStep, OutsideStep
<1> QED
  BY <1>1, <1>2 DEF OutsideInv

\* What the theorems below ask of the boards.
RangeFits == \A b \in Boards : /\ b.size["lower"] \in {4 * SIXTEENMB, 8 * SIXTEENMB}
                               /\ b.mode = "parallel" => b.make["lower"] = "macronix"

LEMMA OutsideStart ==
  ASSUME RangeFits, Init
  PROVE  ModeInv /\ OutsideInv
<1>1. GoodBoard /\ BoardOK
  <2>1. board \in Boards
    BY DEF Init
  <2>2. /\ board.size["lower"] \in {4 * SIXTEENMB, 8 * SIXTEENMB}
        /\ board.mode = "parallel" => board.make["lower"] = "macronix"
    BY <2>1 DEF RangeFits
  <2> QED
    BY <2>2, BoardsOK DEF GoodBoard, Make, Size
<1>2. LowerReached
  BY <1>1, FlashAssumption DEF LowerReached, Target, GoodBoard, BoardOK, Chips
<1>3. ModeOn /\ Where
  BY DEF Init, ModeOn, Where, Erasing, Writing, Switching
<1>4. \A c \in Chips : \A x \in 0 .. Size - 1 : chip[c].mem[x] = Old
  BY <1>1 DEF Init, BoardOK
<1>5. Outside
  BY <1>4 DEF Outside, Populated, Chips
<1> QED
  BY <1>1, <1>2, <1>3, <1>5, ModeStart DEF ModeInv, OutsideInv

\* The boot image is safe: no test touches a page outside of the sectors of its range.
THEOREM OutsideUntouchedAlways ==
  ASSUME RangeFits
  PROVE  Spec => []OutsideUntouched
<1>1. Init => ModeInv /\ OutsideInv
  BY OutsideStart
<1>2. TypeInv /\ OutsideInv => OutsideUntouched
  <2> SUFFICES ASSUME TypeInv, OutsideInv, ~ Dead, NEW c \in Populated
               PROVE  \A x \in (DOMAIN chip[c].mem) \ TestSectors(c) : chip[c].mem[x] = Old
    BY DEF OutsideUntouched
  <2>1. DOMAIN chip[c].mem = 0 .. Size - 1
    BY DEF TypeInv, ChipsOK, ChipState, Populated, Chips
  <2> QED
    BY <2>1 DEF OutsideInv, Outside
<1> QED
  BY <1>1, <1>2, TypeStart, TypeStep, BusyStart, BusyStep, ModeStep, OutsideInvStep, PTL DEF Spec

--------------------------------------------------------------------------------
(***************************************************************************)
(* A board without a fault passes: the range is erased, then filled page   *)
(* by page, and read with the address and the mode it was written with.    *)
(***************************************************************************)

\* What holds in every state of such a test.
Healthy == /\ TypeInv /\ BusyInv /\ ModeOK /\ ModeOn /\ Where /\ GoodBoard /\ ~ Dead
           /\ AllGood /\ Content

\* A step that changes no page and does not count one.
LEMMA RangeKept ==
  ASSUME Healthy, UNCHANGED board, \A c \in Chips : chip'[c].mem = chip[c].mem,
         pc \in {"eraseWait", "read"} \cup Writing, Filled' = Filled
  PROVE  RangeHolds(Filled)'
<1>1. Target \subseteq Chips
  BY GoodNow DEF Healthy
<1>2. RangeHolds(Filled)
  BY DEF Healthy, Content
<1> QED
  BY <1>1, <1>2, GoodStays DEF RangeHolds

\* The write enable in front of an erase or program command.
LEMMA EnableStep ==
  ASSUME Healthy, EraseEnable \/ WriteEnable
  PROVE  Content'
<1>0. /\ BoardOK /\ ChipsOK /\ tests \in Nat /\ enable \in BOOLEAN
      /\ Target \subseteq Populated /\ Populated \subseteq Chips /\ (InTest => fct = Entry)
  BY GoodNow DEF Healthy
<1>1. /\ UNCHANGED <<board, tests, ret, addr, count>> /\ ~ EraseCommand /\ ~ WriteCommand
      /\ cs' = Selected(addr) /\ Command(cs', WriteEnabled)
      /\ \/ pc = "eraseEnable" /\ pc' = "eraseCommand"
         \/ pc = "writeEnable" /\ pc' = "writeCommand"
  BY DEF EraseEnable, WriteEnable, EraseCommand, WriteCommand
<1>2. cs' = Target
  <2>1. fct = Entry /\ PAGE_COUNT \in Nat /\ count \in 0 .. PAGE_COUNT
    BY <1>0, <1>1, FlashAssumption DEF InTest, Healthy, TypeInv
  <2>2. CASE pc = "eraseEnable"
    <3>1. addr = TEST_ADDRESS
      BY <2>2 DEF Healthy, Where, Erasing
    <3> QED
      BY <1>0, <1>1, <2>1, <3>1, TargetSelected
  <2>3. CASE pc = "writeEnable"
    <3>1. addr = TEST_ADDRESS + count * fct.page /\ count \in 0 .. PAGE_COUNT - 1
      BY <2>1, <2>3 DEF Healthy, Where, Writing, TypeInv
    <3> QED
      BY <1>0, <1>1, <2>1, <3>1, GoodTarget DEF Healthy
  <2> QED
    BY <1>1, <2>2, <2>3
<1>3. \A c \in Populated : chip'[c] = IF c \in cs' THEN WriteEnabled[c] ELSE chip[c]
  BY <1>1, Reaches DEF Healthy, Waiting
<1>4. \A c \in Target : chip'[c].wel
  BY <1>0, <1>2, <1>3, LightCommands
<1>5. Target' = Target
  BY <1>1, GoodStays
<1>6. pc = "writeEnable" => RangeHolds(Filled)'
  <2>1. \A c \in Chips : chip'[c].mem = chip[c].mem
    BY LightStep DEF Healthy
  <2>2. pc = "writeEnable" => Filled' = Filled
    BY <1>1 DEF Filled
  <2> QED
    BY <1>1, <2>1, <2>2, RangeKept DEF Writing
<1> QED
  BY <1>1, <1>4, <1>5, <1>6 DEF Healthy, Content, Writing

LEMMA EraseFills ==
  ASSUME Healthy, EraseCommand
  PROVE  RangeHolds(Filled)'
<1>0. Healthy /\ TypeInv /\ BoardOK /\ ChipsOK /\ tests \in Nat
  BY GoodNow DEF Healthy
<1>1. /\ UNCHANGED <<board, count>> /\ fct = Entry /\ pc = "eraseCommand"
      /\ pc' = "eraseWait" /\ addr = TEST_ADDRESS /\ count = 0
  BY GoodCommand DEF Healthy
<1>2. Filled' = 0
  BY <1>1 DEF Filled
<1>3. SUFFICES ASSUME NEW c \in Target, NEW x \in TestRange
               PROVE  ~ (x < Base + 0 * Step) /\ chip'[c].mem[x] = Erased
  BY <1>1, <1>2, GoodStays DEF RangeHolds
<1>4. c \in Populated /\ c \in Chips /\ x \in ErasedPages(c)
  BY <1>0, <1>1, <1>3, GoodPages, GoodErased DEF Healthy
<1>5. chip'[c] = EraseStarted[c] /\ chip[c].mode4 = FourByte
  BY <1>3, <1>4, GoodCommand DEF Healthy
<1>6. chip[c].wel /\ health[c] # "stuck"
  BY <1>1, <1>3, <1>4 DEF Healthy, AllGood, Content
<1>7. chip'[c].mem[x] = Erased
  BY <1>0, <1>4, <1>5, <1>6, EraseIs
<1>8. Base \in Nat /\ Step \in {1, 2} /\ PAGE_COUNT \in Nat
  BY <1>0, <1>1, GoodRange, FlashAssumption DEF Healthy
<1> QED
  BY <1>3, <1>7, <1>8 DEF TestRange

LEMMA WriteFills ==
  ASSUME Healthy, WriteCommand
  PROVE  RangeHolds(Filled)'
<1>0. Healthy /\ TypeInv /\ BoardOK /\ ChipsOK /\ tests \in Nat
  BY GoodNow DEF Healthy
<1>1. /\ UNCHANGED <<board, count>> /\ fct = Entry /\ pc = "writeCommand"
      /\ pc' = "writeWait" /\ addr = TEST_ADDRESS + count * fct.page
      /\ count \in 0 .. PAGE_COUNT - 1
  BY GoodCommand DEF Healthy
<1>2. Filled' = count + 1 /\ Filled = count
  BY <1>1 DEF Filled
<1>3. SUFFICES ASSUME NEW c \in Target, NEW x \in TestRange
               PROVE  IF x < Base + (count + 1) * Step THEN chip'[c].mem[x] > 0
                      ELSE chip'[c].mem[x] = Erased
  BY <1>1, <1>2, GoodStays DEF RangeHolds
<1>4. /\ c \in Populated /\ c \in Chips /\ x \in 0 .. Size - 1
      /\ x \in ProgrammedPages(c) <=>
           Base + count * Step <= x /\ x < Base + (count + 1) * Step
  BY <1>0, <1>1, <1>3, GoodPages, GoodProgrammed DEF Healthy
<1>5. chip'[c] = ProgramStarted[c] /\ chip[c].mode4 = FourByte
  BY <1>3, <1>4, GoodCommand DEF Healthy
<1>6. chip[c].wel /\ health[c] # "stuck" /\ tests > 0
  BY <1>1, <1>3, <1>4 DEF Healthy, AllGood, Content
<1>7. IF x \in ProgrammedPages(c) THEN chip'[c].mem[x] = Programmed(chip[c].mem[x])
                                  ELSE chip'[c].mem[x] = chip[c].mem[x]
  BY <1>0, <1>4, <1>5, <1>6, ProgramIs
<1>8. IF x < Base + count * Step THEN chip[c].mem[x] > 0 ELSE chip[c].mem[x] = Erased
  BY <1>1, <1>2, <1>3 DEF Healthy, Content, RangeHolds, Writing
<1>9. /\ Base + count * Step \in Nat /\ Base + (count + 1) * Step \in Nat /\ x \in Nat
      /\ Base + count * Step <= Base + (count + 1) * Step
  <2>1. Base \in Nat /\ Step \in {1, 2} /\ count \in Nat /\ Size \in Nat
    BY <1>0, <1>1, GoodRange, FlashAssumption DEF Healthy
  <2> QED
    BY <1>4, <2>1
<1>10. Programmed(Erased) = tests
  BY DEF Programmed
<1>11. CASE x \in ProgrammedPages(c)
  <2>1. chip[c].mem[x] = Erased
    BY <1>4, <1>8, <1>9, <1>11
  <2> QED
    BY <1>4, <1>6, <1>7, <1>10, <1>11, <2>1
<1>12. CASE x \notin ProgrammedPages(c)
  BY <1>4, <1>7, <1>8, <1>9, <1>12
<1> QED
  BY <1>11, <1>12

LEMMA ReadMatches ==
  ASSUME Healthy, pc = "read"
  PROVE  DataMatch(Selected(TEST_ADDRESS))
<1>0. /\ BoardOK /\ ChipsOK /\ Target \subseteq Populated /\ Populated \subseteq Chips
      /\ fct = Entry
  BY GoodNow DEF Healthy, InTest
<1>1. Selected(TEST_ADDRESS) = Target /\ FourByte
  BY <1>0, TargetSelected, GoodShape DEF Healthy
<1>2. SUFFICES ASSUME NEW c \in Target
               PROVE  ReadsPattern(c)
  BY <1>1 DEF DataMatch
<1>3. Alive(c) /\ ~ chip[c].wip /\ chip[c].mode4 = TRUE
  BY <1>0, <1>2, AliveAll DEF Healthy, Waiting, ModeOn, ChipsOK, ChipState
<1>4. /\ FirstPage(c) = Base /\ PerChip(MaxData) = PAGE_COUNT * Step
      /\ TestRange \subseteq 0 .. Size - 1 /\ SizeOf(c) = Size
  BY <1>0, <1>2, GoodPages, GoodShape DEF Healthy
<1>5. \A x \in TestRange : x < SizeOf(c) /\ chip[c].mem[x] > 0
  <2> SUFFICES ASSUME NEW x \in TestRange
               PROVE  x < SizeOf(c) /\ chip[c].mem[x] > 0
    OBVIOUS
  <2>1. IF x < Base + PAGE_COUNT * Step THEN chip[c].mem[x] > 0 ELSE chip[c].mem[x] = Erased
    BY <1>2 DEF Healthy, Content, RangeHolds, Filled
  <2>2. Base \in Nat /\ Step \in {1, 2} /\ PAGE_COUNT \in Nat /\ Size \in Nat
    BY <1>0, GoodRange, FlashAssumption DEF Healthy
  <2> QED
    BY <1>4, <2>1, <2>2 DEF TestRange
<1> QED
  BY <1>1, <1>3, <1>4, <1>5 DEF ReadsPattern, Alive, FirstPage, TestRange

LEMMA HealthyStep ==
  ASSUME Healthy, [Next]_vars
  PROVE  Content'
<1>0. /\ ret # 1 /\ (pc # "idle" => tests > 0) /\ tests \in Nat /\ (InTest => fct = Entry)
      /\ count \in 0 .. PAGE_COUNT /\ PAGE_COUNT \in Nat /\ Populated \subseteq Chips
      /\ Target \subseteq Populated
  BY GoodNow, FlashAssumption DEF Healthy, Content, TypeInv
<1>1. CASE Call
  BY <1>0, <1>1 DEF Call, Content, None, Writing
<1>2. CASE ReadID
  <2>1. pc' \in {"undefined", "modeEnable", "eraseEnable"} /\ UNCHANGED <<ret, tests>>
        /\ pc = "readId"
    BY <1>2 DEF ReadID
  <2> QED
    BY <1>0, <2>1 DEF Content, Writing
<1>3. CASE ModeBank \/ ModeEnable \/ ModeCommand \/ ModeWait
  <2>1. /\ pc' \in {"modeCommand", "modeWait", "eraseEnable", "idle"} /\ ret' \in {ret, 0}
        /\ tests' = tests /\ pc # "idle"
    BY <1>3 DEF ModeBank, ModeEnable, ModeCommand, ModeWait, AfterMode
  <2> QED
    BY <1>0, <2>1 DEF Content, Writing
<1>4. CASE EraseEnable \/ WriteEnable
  BY <1>4, EnableStep
<1>5. CASE EraseCommand
  <2>1. UNCHANGED <<ret, tests>> /\ pc = "eraseCommand" /\ pc' = "eraseWait"
    BY <1>5 DEF EraseCommand
  <2> QED
    BY <1>0, <1>5, <2>1, EraseFills DEF Content
<1>6. CASE WriteCommand
  <2>1. UNCHANGED <<ret, tests>> /\ pc = "writeCommand" /\ pc' = "writeWait"
    BY <1>6 DEF WriteCommand
  <2> QED
    BY <1>0, <1>6, <2>1, WriteFills DEF Content
<1>7. CASE EraseWait
  <2>1. pc = "eraseWait" /\ count = 0 /\ fct = Entry /\ UNCHANGED <<board, chip, ret, tests>>
    BY <1>0, <1>7 DEF EraseWait, Healthy, Where, Erasing, InTest
  <2>2. NumSect(TEST_ADDRESS, MaxData) = 1
    BY <2>1, OneSector DEF Healthy, TypeInv
  <2>3. count' = 0 /\ pc' = "writeEnable"
    BY <1>7, <2>1, <2>2 DEF EraseWait
  <2>4. RangeHolds(Filled)'
    BY <2>1, <2>3, RangeKept DEF Filled
  <2> QED
    BY <1>0, <2>1, <2>3, <2>4 DEF Content
<1>8. CASE WriteWait
  <2>1. /\ pc = "writeWait" /\ count' = count + 1 /\ UNCHANGED <<board, chip, ret, tests>>
        /\ pc' = IF count + 1 >= PAGE_COUNT THEN "read" ELSE "writeEnable"
        /\ count < PAGE_COUNT
    BY <1>8 DEF WriteWait, LastPage, Healthy, TypeInv
  <2>2. Filled' = Filled
    BY <1>0, <2>1 DEF Filled
  <2>3. RangeHolds(Filled)'
    BY <2>1, <2>2, RangeKept DEF Writing
  <2> QED
    BY <1>0, <2>1, <2>3 DEF Content
<1>9. CASE Read
  <2>1. pc = "read" /\ cs' = Selected(TEST_ADDRESS) /\ tests' = tests
    BY <1>9 DEF Read
  <2>2. DataMatch(cs')
    BY <2>1, ReadMatches
  <2>3. pc' \in {"idle", "modeEnable"} /\ ret' \in {ret, 0}
    BY <1>9, <2>2 DEF Read, AfterRead
  <2> QED
    BY <1>0, <2>1, <2>3 DEF Content, Writing
<1>10. CASE ChipDone \/ Break \/ UNCHANGED vars
  <2>1. UNCHANGED <<board, pc, count, ret, tests>>
    BY <1>10 DEF ChipDone, Break, vars
  <2>2. \A c \in Chips : chip'[c].mem = chip[c].mem /\ chip'[c].wel = chip[c].wel
    BY <1>10 DEF ChipDone, Break, vars, Healthy, TypeInv, ChipsOK, ChipState
  <2>3. Filled' = Filled /\ Target' = Target
    BY <2>1, GoodStays DEF Filled
  <2>4. pc \in {"eraseWait", "read"} \cup Writing => RangeHolds(Filled)'
    BY <2>1, <2>2, <2>3, RangeKept
  <2>5. pc \in {"eraseCommand", "writeCommand"} => \A c \in Target : chip[c].wel
    BY DEF Healthy, Content
  <2> QED
    BY <1>0, <2>1, <2>2, <2>3, <2>4, <2>5 DEF Content
<1> QED
  BY <1>1, <1>2, <1>3, <1>4, <1>5, <1>6, <1>7, <1>8, <1>9, <1>10 DEF Next, Software

LEMMA HealthyInvStep ==
  TypeInv /\ BusyInv /\ ModeInv /\ OutsideInv /\ HealthyInv /\ [Next]_vars => HealthyInv'
<1> SUFFICES ASSUME TypeInv, BusyInv, ModeInv, OutsideInv, HealthyInv, [Next]_vars, AllGood'
             PROVE  Content'
  BY DEF HealthyInv
<1>1. AllGood
  <2>1. Populated' = Populated /\ Populated \subseteq Chips
    BY DEF Next, vars, Software, Call, ReadID, ModeBank, ModeEnable, ModeCommand, ModeWait,
       EraseEnable, EraseCommand, EraseWait, WriteEnable, WriteCommand, WriteWait, Read,
       ChipDone, Break, Populated, Chips
  <2>2. CASE Break
    <3>1. PICK c \in Populated, h \in Faults : health' = [health EXCEPT ![c] = h]
      BY <2>2 DEF Break
    <3>2. health'[c] = h /\ h # "good"
      BY <2>1, <3>1, FlashAssumption DEF TypeInv
    <3> QED
      BY <2>1, <3>2 DEF AllGood
  <2>3. CASE ~ Break
    <3>1. health' = health
      BY <2>3 DEF Next, vars, Software, Call, ReadID, ModeBank, ModeEnable, ModeCommand,
         ModeWait, EraseEnable, EraseCommand, EraseWait, WriteEnable, WriteCommand, WriteWait,
         Read, ChipDone
    <3> QED
      BY <2>1, <3>1 DEF AllGood
  <2> QED
    BY <2>2, <2>3
<1>2. ~ Dead
  BY <1>1 DEF AllGood, Dead
<1>3. Healthy
  BY <1>1, <1>2 DEF ModeInv, OutsideInv, HealthyInv, Healthy
<1> QED
  BY <1>3, HealthyStep

\* A board without a fault passes every test.
THEOREM HealthyPassesAlways ==
  ASSUME RangeFits
  PROVE  Spec => []HealthyPasses
<1>1. Init => ModeInv /\ OutsideInv
  BY OutsideStart
<1>2. Init => HealthyInv
  BY DEF Init, HealthyInv, Content, None, Writing
<1>3. HealthyInv => HealthyPasses
  BY DEF HealthyInv, Content, HealthyPasses, AllGood
<1> QED
  BY <1>1, <1>2, <1>3, TypeStart, TypeStep, BusyStart, BusyStep, ModeStep, OutsideInvStep,
     HealthyInvStep, PTL DEF Spec
================================================================================
