---------------------------------- MODULE Fsbl ----------------------------------
(***************************************************************************)
(* The first stage boot loader (boe_factory_fsbl/src), from one reset to   *)
(* the next: the stages of xfsbl_main.c, initialisation and reset cause    *)
(* (xfsbl_initialization.c), the loading of the partitions                 *)
(* (xfsbl_partition_load.c, xfsbl_image_header.c), the hand-off of the     *)
(* CPUs (xfsbl_handoff.c), and the fallback to the next image through the  *)
(* multiboot register.  The loader runs on A53-0.                          *)
(*                                                                         *)
(* A partition is [cpu, place, owner, sum, valid, aa64]: its destination   *)
(* CPU, "ram", "pl" or "xip", whether FSBL owns it, whether the checksum   *)
(* of its header is right and its fields pass                              *)
(* XFsbl_ValidatePartitionHeader, and its execution state.  An image is    *)
(* [table, second, parts]: the image header table passes its check, the    *)
(* partition present device, and the partitions after FSBL's own.  For an  *)
(* image with a second device the table and partitions are those found     *)
(* there, the primary's table being sound.                                 *)
(***************************************************************************)
EXTENDS Integers, Sequences, FiniteSets

CONSTANTS Images,     \* the images a slot of the boot device may hold
          NoImage,    \* what an empty slot holds
          LastSlot,   \* bound: slots 0..LastSlot of the boot device
          BootModes,  \* boot modes (numbers of xfsbl_main.h) to start in
          Supported,  \* CPUs this part of the family has
          MaxFaults   \* bound: faults and resets the environment causes

Slots == 0..LastSlot
Apu == {"a53_0", "a53_1"}
Cpus == Apu \cup {"r5_0"}
Self == "a53_0"

\* A partition header, as far as the loader looks at it.
PartitionType == [cpu : Cpus \cup {"none", "pmu"}, place : {"ram", "pl", "xip"},
                  owner : {"fsbl", "other"}, sum : BOOLEAN, valid : BOOLEAN,
                  aa64 : BOOLEAN]

ASSUME FsblAssumption ==
         /\ LastSlot \in Nat /\ MaxFaults \in Nat /\ NoImage \notin Images
         /\ \A img \in Images : /\ img.table \in BOOLEAN /\ img.second \in 0..8
                                /\ img.parts \in Seq(PartitionType)
                                /\ img.table => img.parts # <<>>   \* XIH_MIN_PARTITIONS

\* Boot modes of xfsbl_main.h, and the devices an image header may name: the two
\* enumerations give the same devices other numbers.  This board has QSPI and SD1.
JTAG == 0
SdModes == {3, 5, 6, 14}                 \* SD0, SD1, EMMC, SD1_LS
FallbackModes == {1, 2, 4} \cup SdModes  \* with QSPI24, QSPI32, NAND
DeviceModes == FallbackModes \cup {7}    \* with USB
PresentModes == {1, 2, 5, 14}
PpdSame == 0
PresentPpds == {1, 2, 5, 6}              \* QSPI32, QSPI24, SD_1, SD_LS
PpdFiles == {4, 5, 6, 7}                 \* SD_0, SD_1, SD_LS, MMC

Idle == [slot |-> -1, part |-> 0, fresh |-> TRUE]   \* a CPU held in reset

VARIABLES boot,      \* the boot mode pins
          flash,     \* the slots of the boot device
          multiboot, \* CSU_MULTI_BOOT, kept over all resets but power-on
          errReg,    \* the error status register, kept likewise
          cause,     \* the reset that started this run of the loader
          bitten,    \* RESET_REASON and ERROR_STATUS_1: the LPD watchdog did it
          wdt,       \* the watchdog counts
          wdtReady,  \* Watchdog.IsReady of the driver instance, in .bss
          data,      \* the .data section: FsblInstance
          dup,       \* its duplicate, for a restart of the APU alone
          stage,     \* FsblStage, and where the loader ended
          part,      \* PartitionNum
          index,     \* CpuIndex of XFsbl_Handoff
          cpu,       \* history: what each CPU was released to run
          pl,        \* history: slot whose bitstream the PL holds, -1 for none
          loaded,    \* history: partitions this run of the loader has loaded
          hung,      \* history: slot in which the watchdog bit a loading loader
          faults     \* history: faults and outside resets so far

vars == <<boot, flash, multiboot, errReg, cause, bitten, wdt, wdtReady, data, dup,
          stage, part, index, cpu, pl, loaded, hung, faults>>
const == <<boot, flash>>
ghosts == <<cpu, pl, loaded, hung>>
watch == <<cause, bitten, wdt, wdtReady, hung>>

FreshData == [reset |-> "system", second |-> PpdSame, offset |-> 0,
              parts |-> <<>>, table |-> <<>>]
Unread == [cpu |-> "none", place |-> "ram", owner |-> "fsbl", sum |-> FALSE,
           valid |-> FALSE, aa64 |-> TRUE]

Ended == {"exited", "halted", "lockdown", "stuck"}
Loading == {"stage2", "stage3", "stage4", "release", "waiting", "err"}

Init == /\ boot \in BootModes
        /\ flash \in [Slots -> Images \cup {NoImage}]
        /\ multiboot = 0 /\ errReg = "none" /\ cause = "system" /\ bitten = FALSE
        /\ wdt = FALSE /\ wdtReady = FALSE /\ data = FreshData /\ dup = FreshData
        /\ stage = "bootrom" /\ part = 1 /\ index = 1
        /\ cpu = [c \in Cpus |-> Idle] /\ pl = -1 /\ loaded = {}
        /\ hung = -1 /\ faults = 0

--------------------------------------------------------------------------------
\* Resets, and the BootROM (not under src/): it looks for the next image from the
\* multiboot register on, loads the loader into OCM and starts it.

Fault == faults < MaxFaults /\ faults' = faults + 1

SystemReset(byWdt) ==
    /\ stage' = "bootrom" /\ cause' = "system" /\ bitten' = byWdt
    /\ wdt' = FALSE /\ wdtReady' = FALSE /\ pl' = -1
    /\ cpu' = [c \in Cpus |-> Idle]

BootRom ==
    /\ stage = "bootrom"
    /\ IF boot = JTAG \/ (multiboot \in Slots /\ flash[multiboot] # NoImage)
         THEN stage' = "stage1" /\ data' = FreshData /\ UNCHANGED multiboot
         ELSE /\ UNCHANGED data
              /\ IF multiboot < LastSlot
                   THEN multiboot' = multiboot + 1 /\ UNCHANGED stage
                   ELSE stage' = "lockdown" /\ UNCHANGED multiboot
    /\ UNCHANGED <<const, errReg, cause, bitten, wdt, wdtReady, dup, part, index,
                   ghosts, faults>>

\* The reset button, or the application asking for a reset.
OutsideReset ==
    /\ stage # "bootrom" /\ Fault /\ SystemReset(FALSE) /\ hung' = -1
    /\ UNCHANGED <<const, multiboot, errReg, data, dup, part, index, loaded>>

\* The watchdog expires: where the loader stands still it must, and a slow device
\* can make it at any other time.
StandsStill == stage \in {"waiting", "stuck", "halted"}

WatchdogBites ==
    /\ wdt /\ stage # "bootrom"
    /\ IF StandsStill THEN UNCHANGED faults ELSE Fault
    /\ hung' = IF stage \in Loading /\ data.reset # "apu" THEN multiboot ELSE hung
    /\ SystemReset(TRUE)
    /\ UNCHANGED <<const, multiboot, errReg, data, dup, part, index, loaded>>

\* Reset of the processing system alone: the PL keeps its configuration.
PsOnlyReset ==
    /\ stage = "exited" /\ Fault
    /\ stage' = "bootrom" /\ cause' = "ps" /\ bitten' = FALSE
    /\ wdt' = FALSE /\ wdtReady' = FALSE /\ cpu' = [c \in Cpus |-> Idle]
    /\ UNCHANGED <<const, multiboot, errReg, data, dup, part, index, pl, loaded, hung>>

\* Restart of the APU alone: the loader still in OCM starts again, its .data as it
\* was left, its .bss cleared.  The application may have started the watchdog.
ApuOnlyReset ==
    /\ stage = "exited" /\ Fault
    /\ stage' = "stage1" /\ cause' = "apu" /\ wdt' \in BOOLEAN /\ wdtReady' = FALSE
    /\ cpu' = [c \in Cpus |-> IF c \in Apu THEN Idle ELSE cpu[c]]
    /\ UNCHANGED <<const, multiboot, errReg, bitten, data, dup, part, index, pl,
                   loaded, hung>>

--------------------------------------------------------------------------------
\* Stage 1.  GetResetReason saves .data or restores it; with an APU-only restart
\* the initialisation of the system and ResetValidation are left out.

Failed == /\ stage' = "err"
          /\ UNCHANGED <<const, multiboot, part, index>>

\* Seeded fault: .data is not restored for a restart of the APU.
ResetDataKept == IF cause = "apu" THEN [data EXCEPT !.reset = "apu"]
                 ELSE [data EXCEPT !.reset = cause]

ResetData == [IF cause = "apu" THEN dup ELSE data EXCEPT !.reset = cause]

WdtReset == cause # "apu" /\ bitten /\ errReg = "running"

\* Seeded fault: the loader is not marked as running after an error.
MarkOnlyOnce == IF errReg = "none" THEN "running" ELSE errReg

Mark == IF cause = "apu" THEN errReg ELSE "running"

Initialize ==
    /\ stage = "stage1"
    /\ data' = ResetData
    /\ dup' = IF cause = "apu" THEN dup ELSE data
    /\ loaded' = {}
    /\ \/ ~WdtReset /\ stage' = "stage2" /\ errReg' = Mark
          /\ UNCHANGED <<const, multiboot, part, index, faults>>
       \/ WdtReset /\ Failed /\ UNCHANGED <<errReg, faults>>
       \/ Fault /\ Failed /\ UNCHANGED errReg         \* SystemInit, ProcessorInit, ...
    /\ UNCHANGED <<watch, cpu, pl>>

--------------------------------------------------------------------------------
\* Stage 2.  The watchdog is started, the device initialised and the header read;
\* a header that names another device is read again there.

\* ImageOffsetAddress, in slots: left as it was for a file system.
\* Seeded fault: the offset is computed for a file system too.
OffsetAlways(second, old) == multiboot

Offset(second, old) ==
    IF (second = PpdSame /\ boot \in SdModes \cup {7}) \/ second \in SdModes \cup {7}
      THEN old ELSE multiboot

\* Where the image is in the device: a file system has a file for each slot.
Found(offset, files) == offset = IF files THEN 0 ELSE multiboot

\* The partition headers read, <<>> when the headers are refused.
Headers(img, offset) ==
    IF ~Found(offset, boot \in SdModes) THEN <<>>
    ELSE IF img.second = PpdSame THEN IF img.table THEN img.parts ELSE <<>>
    ELSE IF img.second = boot THEN <<Unread>>
    ELSE IF img.second \in PresentPpds /\ img.table
            /\ Found(Offset(img.second, offset), img.second \in PpdFiles)
      THEN img.parts ELSE <<>>

\* Seeded fault: the watchdog is set up but not started.
InitUnstarted == wdt' = FALSE /\ wdtReady' = TRUE

\* The driver refuses an instance that is started already, and none is: a restart
\* of the APU clears the instance, whatever the watchdog itself is doing.
InitWdt == wdt' = TRUE /\ wdtReady' = TRUE

BootDeviceInitAndValidate ==
    /\ stage = "stage2" /\ boot \in DeviceModes
    /\ InitWdt
    /\ LET offset == Offset(data.second, data.offset)
           parts == IF boot \notin PresentModes THEN <<>>
                    ELSE Headers(flash[multiboot], offset)
       IN \/ /\ parts # <<>>
             /\ data' = [data EXCEPT !.second = flash[multiboot].second,
                           !.parts = parts,
                           !.offset = IF flash[multiboot].second = PpdSame THEN offset
                                      ELSE Offset(flash[multiboot].second, offset)]
             /\ stage' = "stage3" /\ part' = 1
             /\ UNCHANGED <<const, multiboot, index, faults>>
          \/ parts = <<>> /\ Failed /\ UNCHANGED <<data, faults>>
          \/ Fault /\ Failed /\ UNCHANGED data     \* the device does not answer
    /\ UNCHANGED <<errReg, cause, bitten, dup, ghosts>>

\* JTAG: nothing is loaded, and neither watchdog nor device is touched.
BootOverJtag ==
    /\ stage = "stage2" /\ boot = JTAG /\ stage' = "stage4"
    /\ UNCHANGED <<const, multiboot, errReg, cause, bitten, wdt, wdtReady, data, dup,
                   part, index, ghosts, faults>>

--------------------------------------------------------------------------------
\* Stage 3: one partition at a time.

Dest(p) == IF p.cpu = "none" THEN Self ELSE p.cpu

\* XFSBL_SUCCESS_NOT_PARTITION_OWNER: no error, and nothing is loaded.
Skipped(p) == p.owner # "fsbl" \/ (data.reset = "apu" /\ p.cpu \notin Apu)

\* A bitstream is not copied and not configured with a reset of the PS alone.
PlKept(p) == p.place = "pl" /\ data.reset = "ps"

\* Seeded fault: every partition has an entry.
ListAll(p) ==
    IF p.place = "pl" \/ Dest(p) \notin Cpus THEN data.table
    ELSE Append(data.table, [cpu |-> Dest(p), part |-> part, aa64 |-> p.aa64])

\* The hand-off table: the first partition of each CPU.
\* Seeded fault: a later partition of a CPU takes the place of the first.
LaterWins(p) ==
    IF p.place = "pl" \/ Dest(p) \notin Cpus THEN data.table
    ELSE Append(SelectSeq(data.table, LAMBDA e : e.cpu # Dest(p)),
                [cpu |-> Dest(p), part |-> part, aa64 |-> p.aa64])

HandoffTable(p) ==
    IF \/ p.place = "pl" \/ Dest(p) \notin Cpus
       \/ \E i \in DOMAIN data.table : data.table[i].cpu = Dest(p)
      THEN data.table
      ELSE Append(data.table, [cpu |-> Dest(p), part |-> part, aa64 |-> p.aa64])

NextPartition ==
    IF part < Len(data.parts) THEN part' = part + 1 /\ stage' = "stage3"
    ELSE stage' = "stage4" /\ UNCHANGED part

Refused(p) == ~p.sum \/ (~Skipped(p) /\ ~p.valid)

InStage3 ==
    /\ stage = "stage3"
    /\ UNCHANGED <<const, multiboot, errReg, cause, bitten, wdt, wdtReady, dup, index,
                   cpu, hung>>

SkipPartition ==
    /\ InStage3 /\ data.parts[part].sum /\ Skipped(data.parts[part])
    /\ NextPartition /\ UNCHANGED <<data, pl, loaded, faults>>

\* Copied, checked where it carries a check, sent on to the PL for a bitstream,
\* the PMU woken after the last partition of its firmware.
LoadPartition ==
    /\ InStage3
    /\ LET p == data.parts[part]
       IN /\ ~Skipped(p) /\ ~Refused(p)
          /\ data' = [data EXCEPT !.table = HandoffTable(p)]
          /\ pl' = IF p.place = "pl" /\ ~PlKept(p) THEN multiboot ELSE pl
    /\ loaded' = loaded \cup {part}
    /\ NextPartition /\ UNCHANGED faults

\* The header is refused, or reading, a check or the configuration of the PL fails.
PartitionFails ==
    /\ InStage3
    /\ \/ Refused(data.parts[part]) /\ UNCHANGED faults
       \/ /\ ~Skipped(data.parts[part]) /\ ~PlKept(data.parts[part])
          /\ data.parts[part].place # "xip" /\ Fault
    /\ stage' = "err"
    /\ UNCHANGED <<part, data, pl, loaded>>

\* The PMU does not go to sleep before its firmware is copied, or does not report
\* it present after: the loader waits without a limit.
PmuSilent ==
    /\ InStage3 /\ Fault
    /\ ~Skipped(data.parts[part]) /\ ~Refused(data.parts[part])
    /\ data.parts[part].cpu = "pmu"
    /\ stage' = "waiting" /\ UNCHANGED <<part, data, pl, loaded>>

--------------------------------------------------------------------------------
\* Stage 4.  PM_SET_CONFIGURATION and the protection, then CPU after CPU.

Handoff ==
    /\ stage = "stage4"
    /\ \/ /\ boot = JTAG /\ errReg' = "completed" /\ stage' = "halted"
          /\ UNCHANGED <<index, faults>>
       \/ boot # JTAG /\ stage' = "release" /\ index' = 1 /\ UNCHANGED <<errReg, faults>>
       \/ data.reset # "apu" /\ Fault /\ stage' = "err" /\ UNCHANGED <<errReg, index>>
    /\ UNCHANGED <<const, multiboot, cause, bitten, wdt, wdtReady, data, dup, part,
                   ghosts>>

InRelease ==
    /\ stage = "release"
    /\ UNCHANGED <<const, multiboot, cause, bitten, dup, data, part, pl, loaded, hung>>

\* Entries for other CPUs release them; the loader's own waits for the end.
ReleaseCpu ==
    /\ InRelease /\ index <= Len(data.table)
    /\ LET e == data.table[index]
       IN \/ /\ IF e.cpu = Self THEN e.aa64 ELSE e.cpu \in Supported
             /\ index' = index + 1 /\ UNCHANGED <<stage, faults>>
             /\ cpu' = IF e.cpu = Self THEN cpu
                       ELSE [cpu EXCEPT ![e.cpu] = [slot |-> multiboot,
                               part |-> e.part, fresh |-> e.part \in loaded]]
          \/ /\ ~IF e.cpu = Self THEN e.aa64 ELSE e.cpu \in Supported
             /\ stage' = "err" /\ UNCHANGED <<index, cpu, faults>>
          \/ /\ e.cpu # Self /\ Fault      \* its power island does not come up
             /\ stage' = "err" /\ UNCHANGED <<index, cpu>>
    /\ UNCHANGED <<errReg, wdt, wdtReady>>

\* XFsbl_StopWdt asserts that the driver instance is ready, and a failed assertion
\* does not return.
\* Seeded fault: the watchdog is left running.
StopWdtNot == wdt' = wdt

StopWdt == wdt' = FALSE

Exit ==
    /\ InRelease /\ index > Len(data.table)
    /\ errReg' = "completed"
    /\ IF ~wdtReady THEN stage' = "stuck" /\ UNCHANGED <<wdt, cpu>>
       ELSE /\ StopWdt /\ stage' = "exited"
            /\ LET own == {i \in DOMAIN data.table : data.table[i].cpu = Self}
               IN cpu' = IF own = {} THEN cpu
                         ELSE LET e == data.table[CHOOSE i \in own :
                                              \A j \in own : j <= i]
                              IN [cpu EXCEPT ![Self] = [slot |-> multiboot,
                                    part |-> e.part, fresh |-> e.part \in loaded]]
    /\ UNCHANGED <<wdtReady, index, faults>>

--------------------------------------------------------------------------------
\* An error in any stage: it is written down, and where the boot mode allows it the
\* multiboot register moves on and the system is reset, but with a restart of the APU.

ErrorLockDown ==
    /\ stage = "err" /\ errReg' = "error"
    /\ stage' = IF boot \in FallbackModes THEN "fallback" ELSE "halted"
    /\ UNCHANGED <<const, multiboot, cause, bitten, wdt, wdtReady, data, dup, part,
                   index, ghosts, faults>>

\* Seeded fault: the multiboot register stays.
SameImage == multiboot

NextImage == multiboot + 1

FallBack ==
    /\ stage = "fallback"
    /\ \/ ~wdtReady /\ stage' = "stuck" /\ UNCHANGED <<multiboot, watch, cpu, pl>>
       \/ /\ wdtReady /\ data.reset = "apu" /\ multiboot' = NextImage
          /\ stage' = "stuck" /\ StopWdt
          /\ UNCHANGED <<cause, bitten, wdtReady, hung, cpu, pl>>
       \/ /\ wdtReady /\ data.reset # "apu" /\ multiboot' = NextImage
          /\ SystemReset(FALSE) /\ UNCHANGED hung
    /\ UNCHANGED <<const, errReg, data, dup, part, index, loaded, faults>>

--------------------------------------------------------------------------------
Loader == \/ BootRom \/ Initialize \/ BootDeviceInitAndValidate \/ BootOverJtag
          \/ SkipPartition \/ LoadPartition \/ PartitionFails \/ PmuSilent
          \/ Handoff \/ ReleaseCpu \/ Exit \/ ErrorLockDown \/ FallBack

Next == Loader \/ WatchdogBites \/ OutsideReset \/ PsOnlyReset \/ ApuOnlyReset

\* The processor runs, and a watchdog nobody restarts expires.
Spec == /\ Init /\ [][Next]_vars
        /\ WF_vars(Loader)
        /\ WF_vars(WatchdogBites /\ StandsStill)
--------------------------------------------------------------------------------
DataOK(d) ==
    /\ DOMAIN d = {"reset", "second", "offset", "parts", "table"}
    /\ d.reset \in {"system", "ps", "apu"} /\ d.second \in 0..8
    /\ d.offset \in 0..LastSlot
    /\ d.parts \in Seq(PartitionType)
    /\ d.table \in Seq([cpu : Cpus, part : Nat, aa64 : BOOLEAN])

\* The types; the hand-off table keeps to one entry a CPU, and the multiboot
\* register never runs past the slot after the last.
TypeOK ==
    /\ boot \in BootModes /\ multiboot \in 0..(LastSlot + 1)
    /\ errReg \in {"none", "running", "completed", "error"}
    /\ cause \in {"system", "ps", "apu"} /\ {bitten, wdt, wdtReady} \subseteq BOOLEAN
    /\ DataOK(data) /\ DataOK(dup) /\ Len(data.table) <= Cardinality(Cpus)
    /\ stage \in Ended \cup Loading \cup {"bootrom", "stage1", "fallback"}
    /\ part \in Nat \ {0} /\ index \in 1..(Cardinality(Cpus) + 1)
    /\ cpu \in [Cpus -> [slot : {-1} \cup Slots, part : Nat, fresh : BOOLEAN]]
    /\ pl \in {-1} \cup Slots /\ hung \in {-1} \cup Slots
    /\ loaded \subseteq Nat \ {0} /\ faults \in 0..MaxFaults

\* The partitions meant for a CPU, those a restart of the APU loads when it is one
\* of the APU's: XFsbl_ValidatePartitionHeader counts a partition without a
\* destination CPU as the loader's own, but only after it has left it out.
For(c) == {i \in DOMAIN data.parts :
             LET p == data.parts[i]
             IN /\ p.owner = "fsbl" /\ p.place # "pl" /\ Dest(p) = c
                /\ data.reset = "apu" => p.cpu = c}

\* When the loader leaves with XFSBL_COMPLETED, all it owns in the image it booted
\* is loaded, or was left as it is for the reset at hand; every CPU with a partition
\* runs the first of them, loaded in the run that released it; and the PL holds the
\* bitstream of this image, if it has one, over a reset of the PS or the APU too.
ExitComplete ==
    stage = "exited" =>
      /\ \A i \in DOMAIN data.parts :
           LET p == data.parts[i]
           IN p.owner = "fsbl" =>
                /\ i \in loaded \/ (data.reset = "apu" /\ p.cpu \notin Apu)
                /\ p.place = "pl" => pl = multiboot
      /\ \A c \in Cpus :
           For(c) # {} => \E i \in For(c) :
                            /\ \A j \in For(c) : i <= j
                            /\ cpu[c] = [slot |-> multiboot, part |-> i, fresh |-> TRUE]

\* A restart of the APU touches the APU alone: it loads and releases nothing for the
\* RPU, the PMU or the PL, although .data is the one the last run left behind.
ApuRestartAlone ==
    data.reset = "apu" /\ stage \in Loading \cup {"exited"} =>
      /\ \A i \in loaded : data.parts[i].cpu \in Apu
      /\ \A i \in DOMAIN data.table : data.table[i].cpu \in Apu /\ data.table[i].part \in loaded

\* From the first partition to the last CPU the watchdog counts and can be stopped,
\* so that no wait of the loader is for ever; and it does not count on into the
\* application.
WatchdogCovers ==
    /\ stage \in {"stage3", "waiting", "release"} \/ (stage = "stage4" /\ boot # JTAG)
         => wdt /\ wdtReady
    /\ stage = "exited" => ~wdt

\* "In Fallback, soft reset is applied to the system after incrementing the multiboot
\* register" (xfsbl_main.c:453).  It is not after an error of stage 1, a reset by the
\* watchdog included, where XFsbl_StopWdt asserts that a driver is ready which stage 2
\* would have set up; nor in a restart of the APU alone, where the register moves on.
SoftResetFollows == [][stage = "fallback" => stage' = "bootrom"]_vars

\* A loader past stage 1 does not leave the board standing: it starts the application,
\* or an error or the watchdog resets the system, whatever the loader was doing.
FallsBack == stage \in Loading \ {"err"} /\ boot \in FallbackModes /\ data.reset # "apu"
               ~> stage \in {"exited", "bootrom"}

\* What makes an image bootable, said without the stages.  A second device is
\* counted only where its header is looked for in the right place.
Sound(s) ==
    /\ flash[s] # NoImage /\ flash[s].table
    /\ flash[s].second # PpdSame =>
         s = 0 /\ flash[s].second \in PresentPpds \ {boot}
    /\ LET own == {i \in DOMAIN flash[s].parts : flash[s].parts[i].owner = "fsbl"}
           P(i) == flash[s].parts[i]
           First(i) == P(i).place # "pl" /\
                       \A j \in own : j < i => P(j).place = "pl" \/ Dest(P(j)) # Dest(P(i))
       IN /\ \A i \in DOMAIN flash[s].parts : P(i).sum
          /\ \A i \in own : /\ P(i).valid
                            /\ First(i) /\ Dest(P(i)) = Self => P(i).aa64
                            /\ First(i) /\ Dest(P(i)) \in Cpus \ {Self}
                                 => Dest(P(i)) \in Supported

\* With no fault and no reset from outside the search ends at the first sound image:
\* the loader starts it, passes over none, and gives up only when there is none.
FirstSound ==
    faults = 0 /\ boot \in PresentModes =>
      /\ stage # "stuck"
      /\ stage = "exited" => Sound(multiboot) \/ flash[multiboot].second # PpdSame
      /\ stage \in {"exited", "lockdown"} =>
           \A s \in Slots : s < multiboot \/ stage = "lockdown" => ~Sound(s)

\* An image in which the watchdog had to reset the loader is not loaded again, until
\* somebody resets the board: the mark in the error status register tells.
HungNotRerun == stage \in (Loading \ {"err"}) \cup {"exited"} => multiboot # hung

\* The search of the loader comes to an end that lasts, faults being finitely many:
\* the application runs, no image is left, or the loader has stopped.  In a mode
\* without fallback and with a watchdog it does not: "be in while loop" leaves the
\* watchdog counting.
Settles == boot \in FallbackModes \cup {JTAG} => <>[](stage \in Ended)

================================================================================
