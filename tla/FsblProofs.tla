------------------------------ MODULE FsblProofs ------------------------------
(***************************************************************************)
(* Theorems about Fsbl, for every set of images, every number of slots and *)
(* every number of faults.  Two invariants carry them.  LoaderInv: for each*)
(* stage, what the watchdog, the driver instance, the error status register*)
(* and the section .data are there; from it the watchdog covers what it    *)
(* should, and an image that hung is not loaded again.  BootInv adds the way*)
(* of an image from its header over the partitions to the CPUs that are    *)
(* released: what is handed over is complete and of the first sound image, *)
(* and a restart of the APU touches the APU alone.                         *)
(***************************************************************************)
EXTENDS Fsbl, FiniteSetTheorems, TLAPS

\* The two fields of FsblInstance the argument reads exist, and two flags.
Fields == /\ wdt \in BOOLEAN /\ wdtReady \in BOOLEAN
          /\ "reset" \in DOMAIN data /\ "parts" \in DOMAIN data
          /\ "reset" \in DOMAIN dup /\ "parts" \in DOMAIN dup

\* Before the watchdog is started nothing of an earlier run is left, but with a
\* restart of the APU alone.
Before ==
    /\ stage = "bootrom" => cause # "apu" /\ wdt = FALSE /\ wdtReady = FALSE
    /\ stage = "lockdown" => wdt = FALSE
    /\ stage = "stage1" =>
         wdtReady = FALSE /\ (cause # "apu" => wdt = FALSE /\ data.parts = <<>>)
    /\ stage = "stage2" =>
         /\ wdtReady = FALSE
         /\ data.reset # "apu" => wdt = FALSE /\ data.parts = <<>> /\ errReg = "running"

Covered == \/ stage \in {"stage3", "waiting", "release"}
           \/ stage = "stage4" /\ boot # JTAG

\* While partitions are loaded and CPUs released; and over JTAG, where the watchdog
\* is never started.
During ==
    /\ Covered => /\ boot # JTAG /\ wdt = TRUE /\ wdtReady = TRUE
                  /\ data.reset # "apu" => errReg = "running"
    /\ stage = "stage4" /\ boot = JTAG /\ data.reset # "apu" =>
         wdt = FALSE /\ data.parts = <<>>
    /\ stage = "exited" => wdt = FALSE

\* After an error: an instance that is not ready means stage 1 or 2.
After ==
    /\ stage \in {"err", "fallback", "stuck"} /\ data.reset # "apu" /\ ~wdtReady =>
         wdt = FALSE /\ data.parts = <<>>
    /\ stage = "err" /\ data.reset # "apu" /\ wdt => errReg = "running"
    /\ stage = "stuck" => data.reset = "apu" \/ wdtReady = FALSE

\* An image that hung is on its way to the error lockdown, or the loader has stopped.
Recognised ==
    /\ multiboot \in Nat /\ hung \in Int /\ hung <= multiboot
    /\ hung = multiboot =>
         \/ stage \in {"bootrom", "stage1"} /\ cause = "system" /\ bitten
            /\ errReg = "running"
         \/ /\ stage \in {"err", "fallback", "stuck"}
            /\ data.reset # "apu" /\ wdtReady = FALSE
         \/ stage \in {"halted", "lockdown"} /\ wdt = FALSE

LoaderInv == Fields /\ Before /\ During /\ After /\ Recognised

--------------------------------------------------------------------------------
\* At power-on the loader is not yet running and nothing has hung.
LEMMA LoaderInit == Init => LoaderInv
<1> SUFFICES ASSUME Init PROVE LoaderInv
  OBVIOUS
<1>1. Fields
  BY DEF Init, Fields, FreshData
<1>2. Before
  BY DEF Init, Before
<1>3. During
  BY DEF Init, During, Covered
<1>4. After
  BY DEF Init, After
<1>5. Recognised
  BY DEF Init, Recognised
<1> QED
  BY <1>1, <1>2, <1>3, <1>4, <1>5 DEF LoaderInv

\* One step per action of Fsbl.
LEMMA LoaderStep == LoaderInv /\ [Next]_vars => LoaderInv'
<1> SUFFICES ASSUME LoaderInv, [Next]_vars
             PROVE  LoaderInv'
  OBVIOUS
<1> USE DEF LoaderInv, Fields, Before, During, After, Recognised, Covered, const,
            ghosts, watch
<1>1. CASE BootRom
  BY <1>1 DEF BootRom, FreshData
<1>2. CASE OutsideReset
  <2>1. /\ stage' = "bootrom" /\ cause' = "system"
        /\ wdt' = FALSE /\ wdtReady' = FALSE /\ hung' = -1
        /\ UNCHANGED <<multiboot, data, dup>>
    BY <1>2 DEF OutsideReset, SystemReset
  <2>2. Fields'
    BY <2>1
  <2>3. Before'
    BY <2>1
  <2>4. During'
    BY <2>1
  <2>5. After'
    BY <2>1
  <2>6. Recognised'
    BY <2>1
  <2> QED
    BY <2>2, <2>3, <2>4, <2>5, <2>6
<1>3. CASE WatchdogBites
  <2>1. /\ wdt /\ stage # "bootrom"
        /\ stage' = "bootrom" /\ cause' = "system" /\ bitten' = TRUE
        /\ wdt' = FALSE /\ wdtReady' = FALSE
        /\ \/ stage \in Loading /\ data.reset # "apu" /\ hung' = multiboot
           \/ hung' = hung
        /\ UNCHANGED <<multiboot, errReg, data, dup>>
    BY <1>3 DEF WatchdogBites, SystemReset
  <2>2. Fields'
    BY <2>1
  <2>3. Before'
    BY <2>1
  <2>4. During'
    BY <2>1
  <2>5. After'
    BY <2>1
  <2>6. Recognised'
    BY <2>1 DEF Loading
  <2> QED
    BY <2>2, <2>3, <2>4, <2>5, <2>6
<1>4. CASE PsOnlyReset
  BY <1>4 DEF PsOnlyReset
<1>5. CASE ApuOnlyReset
  BY <1>5 DEF ApuOnlyReset
<1>6. CASE Initialize
  <2>1. /\ "reset" \in DOMAIN data' /\ "parts" \in DOMAIN data'
        /\ "reset" \in DOMAIN dup' /\ "parts" \in DOMAIN dup'
        /\ data'.reset = cause
        /\ cause # "apu" => data'.parts = data.parts
    BY <1>6 DEF Initialize, ResetData
  <2> QED
    BY <1>6, <2>1 DEF Initialize, WdtReset, Mark, Failed
<1>7. CASE BootDeviceInitAndValidate
  <2>0. boot # JTAG
    BY <1>7 DEF BootDeviceInitAndValidate, DeviceModes, FallbackModes, SdModes, JTAG
  <2>1. /\ stage = "stage2" /\ stage' \in {"stage3", "err"}
        /\ wdt' = TRUE /\ wdtReady' = TRUE
        /\ UNCHANGED <<boot, multiboot, errReg, cause, bitten, dup, hung>>
        /\ stage' = "err" => data' = data
    BY <1>7 DEF BootDeviceInitAndValidate, InitWdt, Failed
  <2>2. /\ "reset" \in DOMAIN data' /\ "parts" \in DOMAIN data'
        /\ data'.reset = data.reset
    BY <1>7, <2>1 DEF BootDeviceInitAndValidate, Failed
  <2> QED
    BY <2>0, <2>1, <2>2
<1>8. CASE BootOverJtag
  BY <1>8 DEF BootOverJtag
<1>9. CASE SkipPartition
  <2>1. /\ stage = "stage3" /\ stage' \in {"stage3", "stage4"}
        /\ UNCHANGED <<boot, multiboot, errReg, cause, bitten, wdt, wdtReady, data, dup, hung>>
    BY <1>9 DEF SkipPartition, InStage3, NextPartition
  <2>2. Fields'
    BY <2>1
  <2>3. Before'
    BY <2>1
  <2>4. During'
    BY <2>1
  <2>5. After'
    BY <2>1
  <2>6. Recognised'
    BY <2>1
  <2> QED
    BY <2>2, <2>3, <2>4, <2>5, <2>6
<1>10. CASE LoadPartition
  <2>1. /\ "reset" \in DOMAIN data' /\ "parts" \in DOMAIN data'
        /\ data'.reset = data.reset
        /\ stage = "stage3" /\ stage' \in {"stage3", "stage4"}
        /\ UNCHANGED <<boot, multiboot, errReg, cause, bitten, wdt, wdtReady, dup, hung>>
    <3>1. data' = [data EXCEPT !.table = HandoffTable(data.parts[part])]
      BY <1>10 DEF LoadPartition
    <3> QED
      BY <1>10, <3>1 DEF LoadPartition, InStage3, NextPartition
  <2>2. Fields'
    BY <2>1
  <2>3. Before'
    BY <2>1
  <2>4. During'
    BY <2>1
  <2>5. After'
    BY <2>1
  <2>6. Recognised'
    BY <2>1
  <2> QED
    BY <2>2, <2>3, <2>4, <2>5, <2>6
<1>11. CASE PartitionFails
  BY <1>11 DEF PartitionFails, InStage3
<1>12. CASE PmuSilent
  BY <1>12 DEF PmuSilent, InStage3
<1>13. CASE Handoff
  <2>1. /\ stage = "stage4"
        /\ \/ boot = JTAG /\ stage' = "halted"
           \/ boot # JTAG /\ stage' = "release" /\ errReg' = errReg
           \/ stage' = "err" /\ errReg' = errReg
        /\ UNCHANGED <<boot, multiboot, cause, bitten, wdt, wdtReady, data, dup, hung>>
    BY <1>13 DEF Handoff
  <2>2. Fields'
    BY <2>1
  <2>3. Before'
    BY <2>1
  <2>4. During'
    BY <2>1
  <2>5. After'
    BY <2>1
  <2>6. Recognised'
    BY <2>1
  <2> QED
    BY <2>2, <2>3, <2>4, <2>5, <2>6
<1>14. CASE ReleaseCpu
  BY <1>14 DEF ReleaseCpu, InRelease
<1>15. CASE Exit
  BY <1>15 DEF Exit, InRelease, StopWdt
<1>16. CASE ErrorLockDown
  BY <1>16 DEF ErrorLockDown
<1>17. CASE FallBack
  <2>1. /\ stage = "fallback" /\ UNCHANGED <<boot, errReg, data, dup, hung>>
        /\ \/ /\ ~wdtReady /\ stage' = "stuck"
              /\ UNCHANGED <<multiboot, cause, bitten, wdt, wdtReady>>
           \/ /\ wdtReady /\ data.reset = "apu" /\ multiboot' = multiboot + 1
              /\ stage' = "stuck" /\ wdt' = FALSE /\ wdtReady' = wdtReady
           \/ /\ multiboot' = multiboot + 1 /\ stage' = "bootrom"
              /\ cause' = "system" /\ wdt' = FALSE /\ wdtReady' = FALSE
    BY <1>17 DEF FallBack, NextImage, SystemReset, StopWdt
  <2>2. Fields'
    BY <2>1
  <2>3. Before'
    BY <2>1
  <2>4. During'
    BY <2>1
  <2>5. After'
    BY <2>1
  <2>6. Recognised'
    BY <2>1
  <2> QED
    BY <2>2, <2>3, <2>4, <2>5, <2>6
<1>18. CASE UNCHANGED vars
  BY <1>18 DEF vars
<1> QED
  BY <1>1, <1>2, <1>3, <1>4, <1>5, <1>6, <1>7, <1>8, <1>9, <1>10, <1>11, <1>12, <1>13,
     <1>14, <1>15, <1>16, <1>17, <1>18 DEF Next, Loader

LEMMA LoaderInvariant == Spec => []LoaderInv
  BY LoaderInit, LoaderStep, PTL DEF Spec

--------------------------------------------------------------------------------
\* While partitions are loaded and CPUs released the watchdog counts and can be
\* stopped, and the application starts without it.
THEOREM WatchdogCoversAlways == Spec => []WatchdogCovers
<1>1. LoaderInv => WatchdogCovers
  BY DEF LoaderInv, During, Covered, WatchdogCovers
<1> QED
  BY <1>1, LoaderInvariant, PTL

\* An image in which the watchdog had to reset the loader is not loaded again before
\* the board is reset from outside.
THEOREM HungNotRerunAlways == Spec => []HungNotRerun
<1>1. LoaderInv => HungNotRerun
  BY DEF LoaderInv, Recognised, HungNotRerun, Loading
<1> QED
  BY <1>1, LoaderInvariant, PTL

--------------------------------------------------------------------------------
(***************************************************************************)
(* From the headers to the hand-off.                                       *)
(***************************************************************************)
Booted == flash[multiboot]
Entries == [cpu : Cpus, part : Nat, aa64 : BOOLEAN]
Section == [reset : {"system", "ps", "apu"}, second : 0 .. 8, offset : Slots,
            parts : Seq(PartitionType), table : Seq(Entries)]
Runs == [slot : {-1} \cup Slots, part : Nat, fresh : BOOLEAN]
Stages == Ended \cup Loading \cup {"bootrom", "stage1", "fallback"}

\* Everything but the size of the hand-off table and what it bounds.
Types == /\ boot \in BootModes /\ flash \in [Slots -> Images \cup {NoImage}]
         /\ errReg \in {"none", "running", "completed", "error"}
         /\ cause \in {"system", "ps", "apu"} /\ bitten \in BOOLEAN
         /\ data \in Section /\ dup = FreshData
         /\ stage \in Stages /\ part \in Nat \ {0} /\ index \in Nat \ {0}
         /\ cpu \in [Cpus -> Runs] /\ pl \in {-1} \cup Slots /\ hung \in {-1} \cup Slots
         /\ loaded \subseteq Nat \ {0} /\ faults \in 0 .. MaxFaults

\* Once started, the loader works on an image of the boot device.
Place == /\ multiboot \in 0 .. LastSlot + 1
         /\ stage \notin {"bootrom", "lockdown", "stuck"} =>
              multiboot \in Slots /\ (boot # JTAG => Booted \in Images)
         /\ boot = JTAG => multiboot = 0 /\ stage # "exited"
         /\ stage = "fallback" => boot \in FallbackModes

Blank == /\ data.second = PpdSame /\ data.offset = 0
         /\ data.parts = <<>> /\ data.table = <<>>

Partitions == {"stage3", "stage4", "release", "waiting", "exited"}

\* Before the headers are read .data is as the loader was linked; after it, it holds the
\* partitions of the image, or the header nobody has filled in.
Headed == /\ stage = "stage1" /\ cause # "apu" => data = FreshData
          /\ stage = "stage2" => Blank /\ loaded = {}
          /\ stage \in Partitions /\ boot = JTAG => Blank /\ loaded = {}
          /\ stage \in Partitions /\ boot # JTAG =>
               /\ data.parts # <<>>
               /\ \/ data.parts = Booted.parts /\ (Booted.second = PpdSame => Booted.table)
                  \/ data.parts = <<Unread>> /\ Booted.second = boot /\ boot # PpdSame

\* Partition i would release CPU c.
Mine(i, c) == LET p == data.parts[i]
              IN ~ Skipped(p) /\ p.place # "pl" /\ Dest(p) = c

\* The hand-off table: for each CPU the first of its partitions, which is loaded.
TableOK ==
    /\ \A i \in loaded : i \in DOMAIN data.parts /\ ~ Skipped(data.parts[i])
    /\ \A k \in DOMAIN data.table :
         LET e == data.table[k]
         IN /\ e.part \in loaded /\ Mine(e.part, e.cpu)
            /\ e.aa64 = data.parts[e.part].aa64
            /\ \A j \in DOMAIN data.parts : j < e.part => ~ Mine(j, e.cpu)
    /\ \A k, l \in DOMAIN data.table : data.table[k].cpu = data.table[l].cpu => k = l

\* What the loader is done with when it turns to the next partition.
Done(i) ==
    LET p == data.parts[i]
    IN /\ p.sum
       /\ ~ Skipped(p) =>
            /\ i \in loaded /\ p.valid
            /\ p.place # "pl" /\ Dest(p) \in Cpus =>
                 \E k \in DOMAIN data.table : data.table[k].cpu = Dest(p)
            /\ p.place = "pl" /\ data.reset = "system" => pl = multiboot

Loads == /\ stage \in Loading \cup {"exited"} => TableOK
         /\ Len(data.table) <= 3
         /\ stage = "stage3" => part \in DOMAIN data.parts
         /\ stage = "stage3" => \A i \in DOMAIN data.parts : i < part => Done(i)
         /\ stage \in {"stage4", "release", "exited"} => \A i \in DOMAIN data.parts : Done(i)

\* An entry of the table that has been dealt with.
Released(e) == cpu[e.cpu] = [slot |-> multiboot, part |-> e.part, fresh |-> TRUE]
Accepted(e) == IF e.cpu = Self THEN e.aa64 ELSE e.cpu \in Supported

Releases ==
    /\ index <= 4
    /\ stage = "release" =>
         /\ index <= Len(data.table) + 1
         /\ \A k \in DOMAIN data.table :
              k < index => /\ Accepted(data.table[k])
                           /\ data.table[k].cpu # Self => Released(data.table[k])
    /\ stage = "exited" => \A k \in DOMAIN data.table :
                             Accepted(data.table[k]) /\ Released(data.table[k])

\* What a reset of the PS, or of the APU alone, leaves for the next run.
PlHolds == \A i \in DOMAIN Booted.parts :
             LET p == Booted.parts[i]
             IN p.owner = "fsbl" /\ p.place = "pl" => pl = multiboot

RpuParts == {i \in DOMAIN Booted.parts :
               LET p == Booted.parts[i]
               IN p.owner = "fsbl" /\ p.place # "pl" /\ p.cpu = "r5_0"}

RpuRuns == RpuParts # {} =>
             \E i \in RpuParts : /\ \A j \in RpuParts : i <= j
                                 /\ cpu["r5_0"] = [slot |-> multiboot, part |-> i,
                                                   fresh |-> TRUE]

Keeps(r) == \/ stage \in {"bootrom", "stage1"} /\ cause = r
            \/ stage \in {"stage2"} \cup Partitions /\ data.reset = r

Kept == /\ stage = "bootrom" /\ cause = "ps" =>
             multiboot \in Slots /\ Booted \in Images
        /\ stage = "exited" \/ Keeps("ps") \/ Keeps("apu") => PlHolds
        /\ stage = "exited" \/ Keeps("apu") => RpuRuns

\* Without a fault and a reset from outside no loader stops, and one only fails in an
\* image that is not sound.
Quiet == faults = 0 /\ boot \in PresentModes =>
           /\ cause = "system" /\ ~ bitten /\ stage \notin {"stuck", "waiting", "halted"}
           /\ data.reset = "system"
           /\ \A s \in Slots : s < multiboot => ~ Sound(s)
           /\ stage \in {"err", "fallback"} => wdtReady /\ ~ Sound(multiboot)
           /\ stage = "lockdown" => \A s \in Slots : ~ Sound(s)

BootInv == LoaderInv /\ Types /\ Place /\ Headed /\ Loads /\ Releases /\ Kept /\ Quiet

--------------------------------------------------------------------------------
(***************************************************************************)
(* What the steps make of the section .data.                               *)
(***************************************************************************)
LEMMA ImageShape ==
  ASSUME NEW img \in Images
  PROVE  img.table \in BOOLEAN /\ img.second \in 0 .. 8 /\ img.parts \in Seq(PartitionType)
  BY FsblAssumption

LEMMA FreshIs ==
  FreshData \in Section /\ FreshData.second = PpdSame /\ FreshData.offset = 0
  /\ FreshData.parts = <<>> /\ FreshData.table = <<>> /\ FreshData.reset = "system"
<1>1. 0 \in Slots /\ 0 \in 0 .. 8
  BY FsblAssumption DEF Slots
<1> QED
  BY <1>1 DEF FreshData, Section, PpdSame

\* Headers that are not refused are those of the image, or nobody's.
LEMMA HeadersAre ==
  ASSUME NEW img \in Images, NEW offset, NEW h, h = Headers(img, offset), h # <<>>
  PROVE  /\ h \in Seq(PartitionType)
         /\ \/ h = img.parts /\ (img.second = PpdSame => img.table)
            \/ h = <<Unread>> /\ img.second = boot /\ boot # PpdSame
<1>1. \/ h = img.parts /\ (img.second = PpdSame => img.table)
      \/ h = <<Unread>> /\ img.second = boot /\ boot # PpdSame
  BY DEF Headers
<1>2. Unread \in PartitionType
  BY DEF Unread, PartitionType, Cpus, Apu
<1>3. <<Unread>> \in Seq(PartitionType) /\ img.parts \in Seq(PartitionType)
  BY <1>2, ImageShape
<1> QED
  BY <1>1, <1>3

\* The headers are read.
LEMMA DeviceStep ==
  ASSUME Types, Place, Headed, BootDeviceInitAndValidate
  PROVE  /\ UNCHANGED <<boot, flash, multiboot, index, errReg, cause, bitten, dup, cpu, pl,
                        loaded, hung>>
         /\ boot \in DeviceModes /\ boot # JTAG /\ stage = "stage2" /\ wdt' = TRUE
         /\ wdtReady' = TRUE
         /\ \/ /\ stage' = "err" /\ UNCHANGED <<data, part>>
               /\ faults' \in {faults, faults + 1} /\ faults' <= MaxFaults
            \/ /\ stage' = "stage3" /\ part' = 1 /\ faults' = faults
               /\ data' \in Section /\ data'.parts # <<>>
               /\ data'.reset = data.reset /\ data'.table = <<>>
               /\ \/ data'.parts = Booted.parts /\ (Booted.second = PpdSame => Booted.table)
                  \/ data'.parts = <<Unread>> /\ Booted.second = boot /\ boot # PpdSame
<1>1. boot \in DeviceModes /\ boot # JTAG /\ stage = "stage2"
  BY DEF BootDeviceInitAndValidate, DeviceModes, FallbackModes, SdModes, JTAG
<1>2. /\ multiboot \in Slots /\ Booted \in Images /\ faults \in 0 .. MaxFaults
      /\ data \in Section /\ data.table = <<>> /\ data.offset \in Slots /\ Booted.second \in 0 .. 8
  BY <1>1, ImageShape DEF Types, Place, Headed, Blank, Section
<1> DEFINE offset == Offset(data.second, data.offset)
           parts == IF boot \notin PresentModes THEN <<>>
                    ELSE Headers(flash[multiboot], offset)
           new == IF flash[multiboot].second = PpdSame THEN offset
                  ELSE Offset(flash[multiboot].second, offset)
<1>3. /\ UNCHANGED <<boot, flash, multiboot, index, errReg, cause, bitten, dup, cpu, pl,
                     loaded, hung>>
      /\ wdt' = TRUE /\ wdtReady' = TRUE
      /\ \/ /\ parts # <<>> /\ stage' = "stage3" /\ part' = 1 /\ faults' = faults
            /\ data' = [data EXCEPT !.second = flash[multiboot].second, !.parts = parts,
                                    !.offset = new]
         \/ /\ stage' = "err" /\ UNCHANGED <<data, part>>
            /\ \/ faults' = faults
               \/ faults < MaxFaults /\ faults' = faults + 1
  BY DEF BootDeviceInitAndValidate, InitWdt, Failed, Fault, const, ghosts
<1>4. new \in Slots
  BY <1>2 DEF Offset
<1> HIDE DEF new
<1>5. CASE stage' = "err"
  <2>1. MaxFaults \in Nat
    BY FsblAssumption
  <2>2. faults' \in {faults, faults + 1} /\ faults' <= MaxFaults
    BY <1>2, <1>3, <1>5, <2>1
  <2> QED
    BY <1>1, <1>3, <1>5, <2>2
<1>6. CASE stage' # "err"
  <2>1. parts = Headers(Booted, offset) /\ parts # <<>>
    BY <1>3, <1>6 DEF Booted
  <2>2. /\ parts \in Seq(PartitionType)
        /\ \/ parts = Booted.parts /\ (Booted.second = PpdSame => Booted.table)
           \/ parts = <<Unread>> /\ Booted.second = boot /\ boot # PpdSame
    BY <1>2, <2>1, HeadersAre
  <2> HIDE DEF parts
  <2>3. data' = [data EXCEPT !.second = Booted.second, !.parts = parts, !.offset = new]
    BY <1>3, <1>6 DEF Booted
  <2>4. /\ data' \in Section /\ data'.parts = parts /\ data'.reset = data.reset
        /\ data'.table = <<>>
    BY <1>2, <1>4, <2>2, <2>3 DEF Section
  <2> QED
    BY <1>1, <1>3, <1>6, <2>1, <2>2, <2>4
<1> QED
  BY <1>5, <1>6

\* A partition is loaded.
LEMMA LoadStep ==
  ASSUME Types, Loads, LoadPartition, NEW p, p = data.parts[part], NEW t, t = HandoffTable(p)
  PROVE  /\ UNCHANGED <<boot, flash, multiboot, errReg, cause, bitten, wdt, wdtReady, dup,
                        index, cpu, hung, faults>>
         /\ stage = "stage3" /\ part \in DOMAIN data.parts /\ p \in PartitionType
         /\ ~ Skipped(p) /\ p.sum /\ p.valid
         /\ data' \in Section /\ data' = [data EXCEPT !.table = t]
         /\ data'.parts = data.parts /\ data'.reset = data.reset /\ data'.table = t
         /\ t \in Seq(Entries) /\ loaded' = loaded \cup {part}
         /\ pl' = IF p.place = "pl" /\ ~ PlKept(p) THEN multiboot ELSE pl
         /\ \/ part < Len(data.parts) /\ part' = part + 1 /\ stage' = "stage3"
            \/ ~ (part < Len(data.parts)) /\ part' = part /\ stage' = "stage4"
<1>1. data \in Section /\ data.parts \in Seq(PartitionType) /\ data.table \in Seq(Entries)
  BY DEF Types, Section
<1>2. /\ UNCHANGED <<boot, flash, multiboot, errReg, cause, bitten, wdt, wdtReady, dup,
                     index, cpu, hung, faults>>
      /\ stage = "stage3" /\ ~ Skipped(p) /\ p.sum /\ p.valid
      /\ data' = [data EXCEPT !.table = t] /\ loaded' = loaded \cup {part}
      /\ pl' = IF p.place = "pl" /\ ~ PlKept(p) THEN multiboot ELSE pl
      /\ \/ part < Len(data.parts) /\ part' = part + 1 /\ stage' = "stage3"
         \/ ~ (part < Len(data.parts)) /\ part' = part /\ stage' = "stage4"
  BY DEF LoadPartition, InStage3, const, Refused, NextPartition
<1>3. part \in DOMAIN data.parts /\ part \in Nat
  BY <1>2 DEF Loads, Types
<1>4. p \in PartitionType
  BY <1>1, <1>3
<1>5. t \in Seq(Entries)
  <2>1. CASE t = data.table
    BY <1>1, <2>1
  <2>2. CASE t # data.table
    <3>1. /\ t = Append(data.table, [cpu |-> Dest(p), part |-> part, aa64 |-> p.aa64])
          /\ Dest(p) \in Cpus
      BY <2>2 DEF HandoffTable
    <3>2. [cpu |-> Dest(p), part |-> part, aa64 |-> p.aa64] \in Entries
      BY <1>3, <1>4, <3>1 DEF Entries, PartitionType
    <3> QED
      BY <1>1, <3>1, <3>2
  <2> QED
    BY <2>1, <2>2
<1> HIDE DEF HandoffTable
<1>6. data' \in Section /\ data'.parts = data.parts /\ data'.reset = data.reset /\ data'.table = t
  BY <1>1, <1>2, <1>5 DEF Section
<1> QED
  BY <1>2, <1>3, <1>4, <1>5, <1>6

\* .data is restored for a restart of the APU.
LEMMA InitializeStep ==
  ASSUME Types, Headed, Initialize
  PROVE  /\ UNCHANGED <<boot, flash, multiboot, part, index, cause, bitten, wdt, wdtReady,
                        cpu, pl, hung>>
         /\ stage = "stage1" /\ stage' \in {"stage2", "err"}
         /\ dup' = FreshData /\ data' \in Section /\ data'.reset = cause
         /\ data'.second = PpdSame /\ data'.offset = 0
         /\ data'.parts = <<>> /\ data'.table = <<>> /\ loaded' = {}
         /\ errReg' \in {errReg, "running"}
         /\ stage' = "err" => WdtReset \/ faults' = faults + 1
         /\ faults' \in {faults, faults + 1} /\ faults' <= MaxFaults
<1>1. /\ UNCHANGED <<boot, flash, multiboot, part, index, cause, bitten, wdt, wdtReady,
                     cpu, pl, hung>>
      /\ stage = "stage1" /\ stage' \in {"stage2", "err"}
      /\ data' = [IF cause = "apu" THEN dup ELSE data EXCEPT !.reset = cause]
      /\ dup' = (IF cause = "apu" THEN dup ELSE data) /\ loaded' = {}
      /\ errReg' \in {errReg, "running"}
      /\ stage' = "err" => WdtReset \/ (faults < MaxFaults /\ faults' = faults + 1)
      /\ stage' = "stage2" => faults' = faults
      /\ faults' = faults \/ (faults < MaxFaults /\ faults' = faults + 1)
  BY DEF Initialize, ResetData, Failed, Fault, Mark, const, watch
<1>2. cause \in {"system", "ps", "apu"} /\ faults \in 0 .. MaxFaults /\ MaxFaults \in Nat
  BY FsblAssumption DEF Types
<1>3. /\ FreshData \in Section /\ FreshData.second = PpdSame /\ FreshData.offset = 0
      /\ FreshData.parts = <<>> /\ FreshData.table = <<>> /\ FreshData.reset = "system"
  BY FreshIs
<1>4. dup = FreshData /\ (cause # "apu" => data = FreshData)
  BY <1>1 DEF Types, Headed
<1>5. data' = [FreshData EXCEPT !.reset = cause] /\ dup' = FreshData
  BY <1>1, <1>4
<1> HIDE DEF FreshData
<1>6. /\ data' \in Section /\ data'.reset = cause
      /\ data'.second = PpdSame /\ data'.offset = 0
      /\ data'.parts = <<>> /\ data'.table = <<>>
  BY <1>2, <1>3, <1>5 DEF Section
<1>7. faults' \in {faults, faults + 1} /\ faults' <= MaxFaults
  BY <1>1, <1>2
<1> QED
  BY <1>1, <1>5, <1>6, <1>7

LEMMA FaultsBounded ==
  ASSUME faults \in 0 .. MaxFaults, Fault \/ UNCHANGED faults
  PROVE  faults' \in 0 .. MaxFaults /\ (faults' = 0 => faults = 0)
  BY FsblAssumption DEF Fault

\* A reset of the system and of the processing system.
LEMMA IdleRuns == Idle \in Runs
  BY DEF Idle, Runs

\* The last CPU to be released is the loader's own.
LEMMA ExitStep ==
  ASSUME Types, Place, Loads, LoaderInv, Exit
  PROVE  /\ UNCHANGED <<boot, flash, multiboot, cause, bitten, data, dup, part, pl, hung,
                        loaded, index, faults>>
         /\ stage = "release" /\ stage' = "exited" /\ errReg' = "completed"
         /\ index > Len(data.table)
         /\ cpu' \in [Cpus -> Runs] /\ \A c \in Cpus \ {Self} : cpu'[c] = cpu[c]
         /\ \A k \in DOMAIN data.table :
              data.table[k].cpu = Self =>
                cpu'[Self] = [slot |-> multiboot, part |-> data.table[k].part, fresh |-> TRUE]
<1> DEFINE own == {i \in DOMAIN data.table : data.table[i].cpu = Self}
           last == CHOOSE i \in own : \A j \in own : j <= i
           run == [slot |-> multiboot, part |-> data.table[last].part,
                   fresh |-> data.table[last].part \in loaded]
<1>1. /\ UNCHANGED <<boot, flash, multiboot, cause, bitten, data, dup, part, pl, hung,
                     loaded, index, faults>>
      /\ stage = "release" /\ index > Len(data.table) /\ wdtReady
      /\ errReg' = "completed"
  BY DEF Exit, InRelease, const, LoaderInv, During, Covered
<1>2. /\ stage' = "exited"
      /\ cpu' = IF own = {} THEN cpu ELSE [cpu EXCEPT ![Self] = run]
  BY <1>1 DEF Exit
<1>3. /\ TableOK /\ data.table \in Seq(Entries) /\ multiboot \in Slots /\ cpu \in [Cpus -> Runs]
      /\ Self \in Cpus
  BY <1>1 DEF Loads, Types, Section, Place, Loading, Self, Cpus, Apu
<1>4. CASE own = {}
  BY <1>1, <1>2, <1>3, <1>4
<1>5. CASE own # {}
  <2>1. PICK k \in own : TRUE
    BY <1>5
  <2>2. k \in DOMAIN data.table /\ k \in Nat /\ data.table[k] \in Entries
    BY <1>3, <2>1
  <2>3. own = {k}
    BY <1>3, <2>1 DEF TableOK
  <2>4. \E i \in own : \A j \in own : j <= i
    BY <2>2, <2>3
  <2>5. last \in own
    BY <2>4
  <2>6. last = k
    BY <2>3, <2>5
  <2>7. data.table[k].part \in loaded /\ data.table[k].part \in Nat
    BY <1>3, <2>2 DEF TableOK, Entries
  <2>8. run = [slot |-> multiboot, part |-> data.table[k].part, fresh |-> TRUE]
    BY <2>6, <2>7
  <2>9. run \in Runs
    BY <1>3, <2>7, <2>8 DEF Runs
  <2>10. cpu' = [cpu EXCEPT ![Self] = run]
    BY <1>2, <1>5
  <2>11. \A l \in DOMAIN data.table : data.table[l].cpu = Self => l = k
    BY <2>3
  <2> HIDE DEF run, own, last
  <2> QED
    BY <1>1, <1>2, <1>3, <2>8, <2>9, <2>10, <2>11
<1> QED
  BY <1>4, <1>5

\* Types, once the place is known.
LEMMA TypesStep == BootInv /\ [Next]_vars => Types'
<1> SUFFICES ASSUME BootInv, [Next]_vars
             PROVE  Types'
  OBVIOUS
<1>0. /\ Types /\ Place /\ Headed /\ Loads
      /\ FreshData \in Section /\ Idle \in Runs
      /\ [c \in Cpus |-> Idle] \in [Cpus -> Runs] /\ -1 \in {-1} \cup Slots
  BY FreshIs, IdleRuns DEF BootInv
<1> USE DEF const, ghosts, watch
<1>1. CASE BootRom
  <2>1. /\ UNCHANGED <<boot, flash, errReg, cause, bitten, dup, part, index, cpu, pl, loaded,
                       hung, faults>>
        /\ data' \in {FreshData, data} /\ stage' \in {"stage1", "lockdown", stage}
    BY <1>1 DEF BootRom
  <2> QED
    BY <1>0, <2>1 DEF Types, Stages, Ended
<1>2. CASE OutsideReset \/ WatchdogBites \/ PsOnlyReset \/ ApuOnlyReset
  <2>1. /\ UNCHANGED <<boot, flash, errReg, data, dup, part, index, loaded>>
        /\ stage' \in {"bootrom", "stage1"} /\ cause' \in {"system", "ps", "apu"}
        /\ bitten' \in {TRUE, FALSE, bitten} /\ pl' \in {-1, pl}
    BY <1>2 DEF OutsideReset, WatchdogBites, PsOnlyReset, ApuOnlyReset, SystemReset
  <2>2. cpu' \in [Cpus -> Runs]
    BY <1>0, <1>2 DEF OutsideReset, WatchdogBites, PsOnlyReset, ApuOnlyReset, SystemReset, Types
  <2>3. hung' \in {-1} \cup Slots
    <3>1. stage \in Loading => multiboot \in Slots
      BY <1>0 DEF Place, Loading
    <3> QED
      BY <1>0, <1>2, <3>1 DEF OutsideReset, WatchdogBites, PsOnlyReset, ApuOnlyReset, Types
  <2>4. faults' \in 0 .. MaxFaults
    BY <1>0, <1>2, FaultsBounded DEF OutsideReset, WatchdogBites, PsOnlyReset, ApuOnlyReset,
       Types
  <2> QED
    BY <1>0, <2>1, <2>2, <2>3, <2>4 DEF Types, Stages
<1>3. CASE Initialize
  <2>1. MaxFaults \in Nat /\ {} \subseteq Nat \ {0}
    BY FsblAssumption
  <2>2. faults' \in 0 .. MaxFaults
    BY <1>0, <1>3, <2>1, InitializeStep DEF Types
  <2> QED
    BY <1>0, <1>3, <2>2, InitializeStep DEF Types, Stages, Loading
<1>4. CASE BootDeviceInitAndValidate
  <2>1. MaxFaults \in Nat
    BY FsblAssumption
  <2>2. /\ UNCHANGED <<boot, flash, index, errReg, cause, bitten, dup, cpu, pl, loaded, hung>>
        /\ \/ /\ stage' = "err" /\ UNCHANGED <<data, part>>
              /\ faults' \in {faults, faults + 1} /\ faults' <= MaxFaults
           \/ /\ stage' = "stage3" /\ part' = 1 /\ faults' = faults /\ data' \in Section
    BY <1>0, <1>4, DeviceStep
  <2>3. faults' \in 0 .. MaxFaults /\ part' \in Nat \ {0}
    BY <1>0, <2>1, <2>2 DEF Types
  <2> QED
    BY <1>0, <2>2, <2>3 DEF Types, Stages, Loading
<1>5. CASE LoadPartition
  <2>1. PICK p : p = data.parts[part]
    OBVIOUS
  <2>2. PICK t : t = HandoffTable(p)
    OBVIOUS
  <2>3. /\ UNCHANGED <<boot, flash, multiboot, errReg, cause, bitten, wdt, wdtReady, dup,
                       index, cpu, hung, faults>>
        /\ data' \in Section /\ loaded' = loaded \cup {part}
        /\ pl' \in {multiboot, pl} /\ part' \in {part, part + 1}
        /\ stage = "stage3" /\ stage' \in {"stage3", "stage4"}
    BY <1>0, <1>5, <2>1, <2>2, LoadStep
  <2>4. part' \in Nat \ {0} /\ loaded' \subseteq Nat \ {0} /\ multiboot \in Slots
    BY <1>0, <2>3 DEF Types, Place
  <2> QED
    BY <1>0, <2>3, <2>4 DEF Types, Stages, Loading
<1>6. CASE SkipPartition
  <2>1. /\ UNCHANGED <<boot, flash, errReg, cause, bitten, data, dup, index, cpu, pl, hung,
                       loaded, faults>>
        /\ part' \in {part, part + 1} /\ stage' \in {"stage3", "stage4"}
    BY <1>6 DEF SkipPartition, InStage3, NextPartition
  <2>2. part' \in Nat \ {0}
    BY <1>0, <2>1 DEF Types
  <2> QED
    BY <1>0, <2>1, <2>2 DEF Types, Stages, Loading
<1>7. CASE PartitionFails \/ PmuSilent \/ Handoff \/ BootOverJtag \/ ErrorLockDown
  <2>1. /\ UNCHANGED <<boot, flash, cause, bitten, data, dup, part, cpu, pl, hung, loaded>>
        /\ errReg' \in {errReg, "completed", "error"} /\ index' \in {index, 1}
        /\ stage' \in {"err", "waiting", "halted", "release", "stage4", "fallback"}
    BY <1>7 DEF PartitionFails, PmuSilent, Handoff, BootOverJtag, ErrorLockDown, InStage3
  <2>2. faults' \in 0 .. MaxFaults
    BY <1>0, <1>7, FaultsBounded DEF PartitionFails, PmuSilent, Handoff, BootOverJtag,
       ErrorLockDown, Types
  <2> QED
    BY <1>0, <2>1, <2>2 DEF Types, Stages, Loading, Ended
<1>8. CASE ReleaseCpu
  <2>1. /\ UNCHANGED <<boot, flash, cause, bitten, data, dup, part, pl, hung, loaded, errReg>>
        /\ stage = "release" /\ stage' \in {"err", stage} /\ index' \in {index, index + 1}
        /\ index <= Len(data.table)
    BY <1>8 DEF ReleaseCpu, InRelease
  <2>2. faults' \in 0 .. MaxFaults
    BY <1>0, <1>8, FaultsBounded DEF ReleaseCpu, Types
  <2>3. data.table[index] \in Entries /\ multiboot \in Slots /\ index' \in Nat \ {0}
    BY <1>0, <2>1 DEF Types, Section, Place
  <2>4. cpu' \in [Cpus -> Runs]
    <3> DEFINE e == data.table[index]
               r == [slot |-> multiboot, part |-> e.part, fresh |-> e.part \in loaded]
    <3>1. cpu' \in {cpu, [cpu EXCEPT ![e.cpu] = r]}
      BY <1>8 DEF ReleaseCpu
    <3>2. r \in Runs /\ e.cpu \in Cpus
      BY <2>3 DEF Entries, Runs
    <3> HIDE DEF r, e
    <3> QED
      BY <1>0, <3>1, <3>2 DEF Types
  <2> QED
    BY <1>0, <2>1, <2>2, <2>3, <2>4 DEF Types, Stages, Loading
<1>9. CASE Exit
  <2>1. LoaderInv
    BY DEF BootInv
  <2> QED
    BY <1>0, <1>9, <2>1, ExitStep DEF Types, Stages, Ended
<1>10. CASE FallBack
  <2>1. /\ UNCHANGED <<boot, flash, errReg, data, dup, part, index, loaded, faults, hung>>
        /\ stage' \in {"stuck", "bootrom"} /\ cause' \in {cause, "system"}
        /\ bitten' \in {bitten, FALSE} /\ pl' \in {pl, -1}
        /\ cpu' \in {cpu, [c \in Cpus |-> Idle]}
    BY <1>10 DEF FallBack, SystemReset
  <2> QED
    BY <1>0, <2>1 DEF Types, Stages, Ended
<1>11. CASE UNCHANGED vars
  BY <1>0, <1>11 DEF vars, Types
<1> QED
  BY <1>1, <1>2, <1>3, <1>4, <1>5, <1>6, <1>7, <1>8, <1>9, <1>10, <1>11 DEF Next, Loader

--------------------------------------------------------------------------------
(***************************************************************************)
(* The other conjuncts, step by step.                                      *)
(***************************************************************************)
\* At power-on nothing is read, loaded or released.
LEMMA BootInit == Init => BootInv
<1> SUFFICES ASSUME Init PROVE BootInv
  OBVIOUS
<1>1. LoaderInv
  BY LoaderInit
<1>2. /\ LastSlot \in Nat /\ MaxFaults \in Nat
      /\ boot \in BootModes /\ flash \in [Slots -> Images \cup {NoImage}]
      /\ multiboot = 0 /\ errReg = "none" /\ cause = "system" /\ bitten = FALSE
      /\ data = FreshData /\ dup = FreshData /\ stage = "bootrom" /\ part = 1 /\ index = 1
      /\ cpu = [c \in Cpus |-> Idle] /\ pl = -1 /\ loaded = {} /\ hung = -1 /\ faults = 0
  BY FsblAssumption DEF Init
<1>3. /\ data \in Section /\ data.table = <<>> /\ data.reset = "system"
      /\ cpu \in [Cpus -> Runs]
  BY <1>2, FreshIs, IdleRuns
<1>4. Types
  <2>1. /\ 0 \in 0 .. MaxFaults /\ 1 \in Nat \ {0} /\ -1 \in {-1} \cup Slots
        /\ {} \subseteq Nat \ {0} /\ FALSE \in BOOLEAN
    BY <1>2
  <2> QED
    BY <1>2, <1>3, <2>1 DEF Types, Stages
<1>5. Place
  BY <1>2 DEF Place
<1>6. Headed /\ Loads /\ Releases /\ Kept
  BY <1>2, <1>3 DEF Headed, Loads, Releases, Kept, Keeps, Partitions, Loading
<1>7. Quiet
  <2>1. \A s \in Slots : ~ (s < 0)
    BY <1>2 DEF Slots
  <2> QED
    BY <1>2, <1>3, <2>1 DEF Quiet
<1> QED
  BY <1>1, <1>4, <1>5, <1>6, <1>7 DEF BootInv

\* Where the loader works.
LEMMA PlaceStep == BootInv /\ [Next]_vars => Place'
<1> SUFFICES ASSUME BootInv, [Next]_vars
             PROVE  Place'
  OBVIOUS
<1>0. /\ Types /\ Place /\ LoaderInv /\ LastSlot \in Nat
      /\ JTAG \notin FallbackModes /\ flash \in [Slots -> Images \cup {NoImage}]
  BY FsblAssumption DEF BootInv, Types, FallbackModes, SdModes, JTAG
<1> USE DEF const, ghosts, watch, Slots
<1>1. CASE BootRom
  <2>1. /\ UNCHANGED <<boot, flash>> /\ stage = "bootrom"
        /\ \/ /\ boot = JTAG \/ (multiboot \in Slots /\ flash[multiboot] # NoImage)
              /\ stage' = "stage1" /\ multiboot' = multiboot
           \/ boot # JTAG /\ multiboot < LastSlot /\ multiboot' = multiboot + 1 /\ stage' = stage
           \/ boot # JTAG /\ stage' = "lockdown" /\ multiboot' = multiboot
    BY <1>1 DEF BootRom
  <2> QED
    BY <1>0, <2>1 DEF Place, Booted
<1>2. CASE FallBack
  <2>1. /\ UNCHANGED <<boot, flash>> /\ stage = "fallback"
        /\ stage' \in {"stuck", "bootrom"} /\ multiboot' \in {multiboot, multiboot + 1}
    BY <1>2 DEF FallBack, NextImage, SystemReset
  <2>2. multiboot \in Slots /\ boot # JTAG
    BY <1>0, <2>1 DEF Place
  <2> QED
    BY <1>0, <2>1, <2>2 DEF Place
<1>3. CASE OutsideReset \/ WatchdogBites \/ PsOnlyReset \/ ApuOnlyReset
  <2>1. /\ UNCHANGED <<boot, flash, multiboot>>
        /\ stage' = "bootrom" \/ (stage = "exited" /\ stage' = "stage1")
    BY <1>3 DEF OutsideReset, WatchdogBites, PsOnlyReset, ApuOnlyReset, SystemReset
  <2> QED
    BY <1>0, <2>1 DEF Place, Booted
<1>4. CASE Initialize \/ BootDeviceInitAndValidate \/ BootOverJtag \/ PartitionFails
           \/ PmuSilent \/ Handoff \/ ReleaseCpu
  <2>1. /\ UNCHANGED <<boot, flash, multiboot>>
        /\ stage \notin {"bootrom", "lockdown", "stuck"}
        /\ stage' \notin {"exited", "fallback"}
    BY <1>4 DEF Initialize, BootDeviceInitAndValidate, BootOverJtag, PartitionFails, Failed,
       PmuSilent, Handoff, ReleaseCpu, InStage3, InRelease
  <2> QED
    BY <1>0, <2>1 DEF Place, Booted
<1>5. CASE SkipPartition \/ LoadPartition
  <2>1. /\ UNCHANGED <<boot, flash, multiboot>>
        /\ stage = "stage3" /\ stage' \in {"stage3", "stage4"}
    BY <1>5 DEF SkipPartition, LoadPartition, InStage3, NextPartition
  <2> QED
    BY <1>0, <2>1 DEF Place, Booted
<1>6. CASE Exit
  <2>1. /\ UNCHANGED <<boot, flash, multiboot>>
        /\ stage = "release" /\ stage' \in {"stuck", "exited"}
    BY <1>6 DEF Exit, InRelease
  <2>2. boot # JTAG
    BY <1>0, <2>1 DEF LoaderInv, During, Covered
  <2> QED
    BY <1>0, <2>1, <2>2 DEF Place, Booted
<1>7. CASE ErrorLockDown
  <2>1. /\ UNCHANGED <<boot, flash, multiboot>> /\ stage = "err"
        /\ \/ stage' = "fallback" /\ boot \in FallbackModes
           \/ stage' = "halted"
    BY <1>7 DEF ErrorLockDown
  <2> QED
    BY <1>0, <2>1 DEF Place, Booted
<1>8. CASE UNCHANGED vars
  BY <1>0, <1>8 DEF vars, Place, Booted
<1> QED
  BY <1>1, <1>2, <1>3, <1>4, <1>5, <1>6, <1>7, <1>8 DEF Next, Loader

\* What the loader finds in .data.
LEMMA HeadedStep == BootInv /\ [Next]_vars => Headed'
<1> SUFFICES ASSUME BootInv, [Next]_vars
             PROVE  Headed'
  OBVIOUS
<1>0. Types /\ Place /\ Headed /\ LoaderInv /\ Loads
  BY DEF BootInv
<1> USE DEF const, ghosts, watch
<1>1. CASE BootRom
  <2>1. /\ UNCHANGED <<cause, loaded, boot>>
        /\ \/ stage' = "stage1" /\ data' = FreshData
           \/ stage' \in {"bootrom", "lockdown"}
    BY <1>1 DEF BootRom
  <2> QED
    BY <2>1 DEF Headed, Partitions
<1>2. CASE Initialize
  BY <1>0, <1>2, InitializeStep DEF Headed, Blank, Partitions
<1>3. CASE BootDeviceInitAndValidate
  <2>1. /\ UNCHANGED <<boot, flash, multiboot, loaded>> /\ boot # JTAG
        /\ \/ stage' = "err"
           \/ /\ stage' = "stage3" /\ data'.parts # <<>>
              /\ \/ data'.parts = Booted.parts /\ (Booted.second = PpdSame => Booted.table)
                 \/ data'.parts = <<Unread>> /\ Booted.second = boot /\ boot # PpdSame
    BY <1>0, <1>3, DeviceStep
  <2> QED
    BY <2>1 DEF Headed, Booted, Partitions
<1>4. CASE BootOverJtag
  BY <1>0, <1>4 DEF BootOverJtag, Headed, Blank, Partitions
<1>5. CASE LoadPartition
  <2>1. PICK p : p = data.parts[part]
    OBVIOUS
  <2>2. PICK t : t = HandoffTable(p)
    OBVIOUS
  <2>3. /\ UNCHANGED <<boot, flash, multiboot>> /\ data'.parts = data.parts
        /\ stage = "stage3" /\ stage' \in {"stage3", "stage4"}
    BY <1>0, <1>5, <2>1, <2>2, LoadStep
  <2>4. boot # JTAG
    BY <1>0, <2>3 DEF LoaderInv, During, Covered
  <2> QED
    BY <1>0, <2>3, <2>4 DEF Headed, Booted, Partitions
<1>6. CASE SkipPartition
  <2>1. /\ UNCHANGED <<boot, flash, multiboot, data, loaded>>
        /\ stage = "stage3" /\ stage' \in {"stage3", "stage4"}
    BY <1>6 DEF SkipPartition, InStage3, NextPartition
  <2> QED
    BY <1>0, <2>1 DEF Headed, Blank, Booted, Partitions
<1>7. CASE PartitionFails \/ PmuSilent \/ Handoff \/ ReleaseCpu \/ Exit
  <2>1. /\ UNCHANGED <<boot, flash, multiboot, data, loaded>>
        /\ stage \in {"stage3", "stage4", "release"}
        /\ stage' \in {"err", "waiting", "halted", "release", "stuck", "exited"}
    BY <1>7 DEF PartitionFails, PmuSilent, Handoff, ReleaseCpu, Exit, InStage3, InRelease
  <2> QED
    BY <1>0, <2>1 DEF Headed, Blank, Booted, Partitions
<1>8. CASE ErrorLockDown \/ FallBack \/ OutsideReset \/ WatchdogBites \/ PsOnlyReset
           \/ ApuOnlyReset
  <2>1. \/ stage' \in {"fallback", "halted", "stuck", "bootrom"}
        \/ stage' = "stage1" /\ cause' = "apu"
    BY <1>8 DEF ErrorLockDown, FallBack, OutsideReset, WatchdogBites, PsOnlyReset,
       ApuOnlyReset, SystemReset
  <2> QED
    BY <2>1 DEF Headed, Partitions
<1>9. CASE UNCHANGED vars
  BY <1>0, <1>9 DEF vars, Headed, Blank, Booted
<1> QED
  BY <1>1, <1>2, <1>3, <1>4, <1>5, <1>6, <1>7, <1>8, <1>9 DEF Next, Loader

\* What a loaded partition makes of the hand-off table.
LEMMA TableStep ==
  ASSUME Types, Loads, LoadPartition
  PROVE  /\ TableOK' /\ Len(data'.table) <= 3
         /\ \A i \in DOMAIN data.parts : i <= part => Done(i)'
<1>0. PICK p : p = data.parts[part]
  OBVIOUS
<1>1. PICK t : t = HandoffTable(p)
  OBVIOUS
<1>2. /\ stage = "stage3" /\ part \in DOMAIN data.parts /\ p \in PartitionType
      /\ ~ Skipped(p) /\ p.sum /\ p.valid /\ multiboot' = multiboot
      /\ data'.parts = data.parts /\ data'.reset = data.reset /\ data'.table = t
      /\ t \in Seq(Entries) /\ loaded' = loaded \cup {part}
      /\ pl' = IF p.place = "pl" /\ ~ PlKept(p) THEN multiboot ELSE pl
  BY <1>0, <1>1, LoadStep
<1>3. /\ TableOK /\ \A i \in DOMAIN data.parts : i < part => Done(i)
      /\ data.table \in Seq(Entries) /\ Len(data.table) <= 3
      /\ data.parts \in Seq(PartitionType) /\ part \in Nat
  BY <1>2 DEF Loads, Loading, Types, Section
<1>4. PICK e : e = [cpu |-> Dest(p), part |-> part, aa64 |-> p.aa64]
  OBVIOUS
<1>5. \/ /\ t = data.table
         /\ p.place # "pl" /\ Dest(p) \in Cpus =>
              \E k \in DOMAIN data.table : data.table[k].cpu = Dest(p)
      \/ /\ t = Append(data.table, e) /\ p.place # "pl" /\ Dest(p) \in Cpus
         /\ \A k \in DOMAIN data.table : data.table[k].cpu # Dest(p)
  BY <1>1, <1>4 DEF HandoffTable
<1>6. /\ \A k \in DOMAIN data.table : k \in DOMAIN t /\ t[k] = data.table[k]
      /\ \A k \in DOMAIN t : k \in DOMAIN data.table
           \/ /\ k = Len(data.table) + 1 /\ t[k] = e /\ p.place # "pl" /\ Dest(p) \in Cpus
              /\ \A l \in DOMAIN data.table : data.table[l].cpu # Dest(p)
  BY <1>3, <1>5
<1>7. \A q : Skipped(q)' <=> Skipped(q)
  BY <1>2 DEF Skipped
<1>8. \A i \in DOMAIN data.parts : \A c : Mine(i, c)' <=> Mine(i, c)
  BY <1>2, <1>7 DEF Mine
<1>9. \A i \in loaded' : i \in DOMAIN data'.parts /\ ~ Skipped(data.parts[i])
  BY <1>0, <1>2, <1>3 DEF TableOK
<1>10. ASSUME NEW k \in DOMAIN t
       PROVE  /\ t[k].part \in loaded' /\ t[k].part \in DOMAIN data.parts
              /\ Mine(t[k].part, t[k].cpu) /\ t[k].aa64 = data.parts[t[k].part].aa64
              /\ \A j \in DOMAIN data.parts : j < t[k].part => ~ Mine(j, t[k].cpu)
  <2>1. CASE k \in DOMAIN data.table
    <3>1. /\ data.table[k].part \in loaded
          /\ Mine(data.table[k].part, data.table[k].cpu)
          /\ data.table[k].aa64 = data.parts[data.table[k].part].aa64
          /\ \A j \in DOMAIN data.parts : j < data.table[k].part => ~ Mine(j, data.table[k].cpu)
          /\ data.table[k].part \in DOMAIN data.parts
      BY <1>3, <2>1 DEF TableOK
    <3> QED
      BY <1>2, <1>6, <2>1, <3>1
  <2>2. CASE k \notin DOMAIN data.table
    <3>1. /\ t[k] = e /\ p.place # "pl" /\ Dest(p) \in Cpus
          /\ \A l \in DOMAIN data.table : data.table[l].cpu # Dest(p)
      BY <1>6, <2>2
    <3>2. e.part = part /\ e.cpu = Dest(p) /\ e.aa64 = p.aa64
      BY <1>4
    <3>3. Mine(part, Dest(p))
      BY <1>0, <1>2, <3>1 DEF Mine
    <3>4. ASSUME NEW j \in DOMAIN data.parts, j < part, Mine(j, Dest(p)) PROVE FALSE
      <4>1. Done(j)
        BY <1>3, <3>4
      <4>2. \E l \in DOMAIN data.table : data.table[l].cpu = Dest(p)
        BY <3>1, <3>4, <4>1 DEF Done, Mine
      <4> QED
        BY <3>1, <4>2
    <3> QED
      BY <1>0, <1>2, <3>1, <3>2, <3>3, <3>4
  <2> QED
    BY <2>1, <2>2
<1>11. \A k, l \in DOMAIN t : t[k].cpu = t[l].cpu => k = l
  <2>1. e.cpu = Dest(p)
    BY <1>4
  <2>2. \A k, l \in DOMAIN data.table : data.table[k].cpu = data.table[l].cpu => k = l
    BY <1>3 DEF TableOK
  <2>3. ASSUME NEW k \in DOMAIN t, NEW l \in DOMAIN t, t[k].cpu = t[l].cpu
        PROVE  k = l
    <3>1. CASE k \in DOMAIN data.table /\ l \in DOMAIN data.table
      BY <1>6, <2>2, <2>3, <3>1
    <3>2. CASE k \notin DOMAIN data.table \/ l \notin DOMAIN data.table
      BY <1>6, <2>1, <2>3, <3>2
    <3> QED
      BY <3>1, <3>2
  <2> QED
    BY <2>3
<1>12. TableOK'
  <2>1. \A k \in DOMAIN t :
          /\ t[k].part \in loaded' /\ Mine(t[k].part, t[k].cpu)
          /\ t[k].aa64 = data.parts[t[k].part].aa64
          /\ \A j \in DOMAIN data.parts : j < t[k].part => ~ Mine(j, t[k].cpu)
    BY <1>10
  <2> QED
    BY <1>2, <1>9, <1>11, <2>1 DEF TableOK, Mine, Skipped
<1>13. Len(t) <= 3
  <2>1. CASE t = data.table
    BY <1>3, <2>1
  <2>2. CASE t # data.table
    <3>1. /\ t = Append(data.table, e) /\ Dest(p) \in Cpus
          /\ \A k \in DOMAIN data.table : data.table[k].cpu # Dest(p)
      BY <1>5, <2>2
    <3>2. \A k, l \in DOMAIN data.table : data.table[k].cpu = data.table[l].cpu => k = l
      BY <1>3 DEF TableOK
    <3>3. \A k \in DOMAIN data.table : data.table[k].cpu \in Cpus
      <4>1. \A k \in DOMAIN data.table : data.table[k] \in Entries
        BY <1>3
      <4> QED
        BY <4>1 DEF Entries
    <3>4. ~ (1 \in DOMAIN data.table /\ 2 \in DOMAIN data.table /\ 3 \in DOMAIN data.table)
      BY <3>1, <3>2, <3>3 DEF Cpus, Apu
    <3>5. Len(data.table) \in Nat /\ DOMAIN data.table = 1 .. Len(data.table)
      BY <1>3
    <3>6. Len(data.table) <= 2
      BY <3>4, <3>5
    <3>7. Len(t) = Len(data.table) + 1
      BY <1>3, <3>1
    <3> QED
      BY <3>5, <3>6, <3>7
  <2> QED
    BY <2>1, <2>2
<1>14. ASSUME NEW i \in DOMAIN data.parts, i <= part PROVE Done(i)'
  <2>1. CASE i = part
    <3>1. part \in loaded'
      BY <1>2
    <3>2. p.place # "pl" /\ Dest(p) \in Cpus => \E k \in DOMAIN t : t[k].cpu = Dest(p)
      <4>1. CASE t = data.table
        BY <1>5, <1>6, <4>1
      <4>2. CASE t # data.table
        <5>1. t = Append(data.table, e) /\ e.cpu = Dest(p)
          BY <1>4, <1>5, <4>2
        <5>2. Len(data.table) + 1 \in DOMAIN t /\ t[Len(data.table) + 1] = e
          BY <1>3, <5>1
        <5> QED
          BY <5>1, <5>2
      <4> QED
        BY <4>1, <4>2
    <3>3. p.place = "pl" /\ data.reset = "system" => pl' = multiboot
      BY <1>2 DEF PlKept
    <3> QED
      BY <1>0, <1>2, <2>1, <3>1, <3>2, <3>3 DEF Done
  <2>2. CASE i # part
    <3>1. Done(i)
      BY <1>3, <1>14, <2>2
    <3>2. ~ Skipped(data.parts[i]) =>
            /\ i \in loaded'
            /\ data.parts[i].place # "pl" /\ Dest(data.parts[i]) \in Cpus =>
                 \E k \in DOMAIN t : t[k].cpu = Dest(data.parts[i])
            /\ data.parts[i].place = "pl" /\ data.reset = "system" => pl' = multiboot
      BY <1>2, <1>6, <3>1 DEF Done
    <3> QED
      BY <1>2, <1>7, <3>1, <3>2 DEF Done
  <2> QED
    BY <2>1, <2>2
<1> QED
  BY <1>2, <1>12, <1>13, <1>14

\* The table and the partitions done with are read off .data, loaded and pl.
LEMMA LoadsFrame ==
  ASSUME UNCHANGED <<data, loaded, pl, multiboot>>
  PROVE  /\ TableOK => TableOK'
         /\ (\A i \in DOMAIN data.parts : Done(i)) => \A i \in DOMAIN data'.parts : Done(i)'
<1>1. TableOK => TableOK'
  BY DEF TableOK, Mine, Skipped
<1>2. (\A i \in DOMAIN data.parts : Done(i)) => \A i \in DOMAIN data'.parts : Done(i)'
  BY DEF Done, Skipped
<1> QED
  BY <1>1, <1>2

\* What is loaded.
LEMMA LoadsStep == BootInv /\ [Next]_vars => Loads'
<1> SUFFICES ASSUME BootInv, [Next]_vars
             PROVE  Loads'
  OBVIOUS
<1>0. /\ Types /\ Place /\ Headed /\ LoaderInv /\ Loads /\ Len(data.table) <= 3
      /\ data.parts \in Seq(PartitionType) /\ part \in Nat
  BY DEF BootInv, Types, Section, Loads
<1> USE DEF const, ghosts, watch
<1>1. CASE BootRom
  <2>1. data' \in {FreshData, data} /\ stage' \in {"bootrom", "stage1", "lockdown"}
    BY <1>1 DEF BootRom
  <2>2. Len(data'.table) <= 3
    <3>1. Len(<<>>) <= 3
      OBVIOUS
    <3> QED
      BY <1>0, <2>1, <3>1, FreshIs
  <2> QED
    BY <2>1, <2>2 DEF Loads, Loading
<1>2. CASE FallBack \/ OutsideReset \/ WatchdogBites \/ PsOnlyReset \/ ApuOnlyReset
  <2>1. data' = data /\ stage' \in {"bootrom", "stage1", "stuck"}
    BY <1>2 DEF FallBack, OutsideReset, WatchdogBites, PsOnlyReset, ApuOnlyReset, SystemReset
  <2> QED
    BY <1>0, <2>1 DEF Loads, Loading
<1>3. CASE Initialize
  <2>1. /\ stage' \in {"stage2", "err"} /\ data'.table = <<>> /\ loaded' = {}
    BY <1>0, <1>3, InitializeStep
  <2>2. TableOK'
    BY <2>1 DEF TableOK
  <2> QED
    BY <2>1, <2>2 DEF Loads
<1>4. CASE BootDeviceInitAndValidate
  <2>1. /\ UNCHANGED <<multiboot, pl, loaded>> /\ stage = "stage2"
        /\ \/ stage' = "err" /\ data' = data
           \/ /\ stage' = "stage3" /\ part' = 1 /\ data' \in Section /\ data'.parts # <<>>
              /\ data'.table = <<>>
    BY <1>0, <1>4, DeviceStep
  <2>2. CASE stage' = "err" /\ data' = data
    BY <1>0, <2>1, <2>2, LoadsFrame DEF Loads, Loading
  <2>3. CASE /\ stage' = "stage3" /\ part' = 1 /\ data' \in Section /\ data'.parts # <<>>
             /\ data'.table = <<>>
    <3>1. TableOK'
      BY <1>0, <2>1, <2>3 DEF TableOK, Headed
    <3>2. 1 \in DOMAIN data'.parts /\ \A i \in DOMAIN data'.parts : ~ (i < 1)
      BY <2>3 DEF Section
    <3> QED
      BY <2>3, <3>1, <3>2 DEF Loads
  <2> QED
    BY <2>1, <2>2, <2>3
<1>5. CASE BootOverJtag
  <2>1. UNCHANGED <<data, loaded>> /\ stage' = "stage4" /\ Blank /\ loaded = {}
    BY <1>0, <1>5 DEF BootOverJtag, Headed
  <2>2. TableOK' /\ \A i \in DOMAIN data'.parts : Done(i)'
    BY <2>1 DEF TableOK, Blank
  <2> QED
    BY <2>1, <2>2 DEF Loads, Blank
<1>6. CASE SkipPartition
  <2>1. /\ UNCHANGED <<multiboot, data, loaded, pl>> /\ stage = "stage3"
        /\ data.parts[part].sum /\ Skipped(data.parts[part])
        /\ \/ part < Len(data.parts) /\ part' = part + 1 /\ stage' = "stage3"
           \/ ~ (part < Len(data.parts)) /\ part' = part /\ stage' = "stage4"
    BY <1>6 DEF SkipPartition, InStage3, NextPartition
  <2>2. /\ TableOK /\ part \in DOMAIN data.parts
        /\ \A i \in DOMAIN data.parts : i < part => Done(i)
    BY <1>0, <2>1 DEF Loads, Loading
  <2>3. Done(part)
    BY <2>1 DEF Done
  <2>4. \A i \in DOMAIN data.parts : i <= part => Done(i)'
    <3>1. \A i \in DOMAIN data.parts : i <= part => Done(i)
      BY <1>0, <2>2, <2>3
    <3> QED
      BY <2>1, <3>1 DEF Done, Skipped
  <2>5. TableOK'
    BY <2>1, <2>2, LoadsFrame
  <2>6. CASE part < Len(data.parts) /\ part' = part + 1 /\ stage' = "stage3"
    BY <1>0, <2>1, <2>2, <2>4, <2>5, <2>6 DEF Loads
  <2>7. CASE ~ (part < Len(data.parts)) /\ part' = part /\ stage' = "stage4"
    BY <1>0, <2>1, <2>2, <2>4, <2>5, <2>7 DEF Loads
  <2> QED
    BY <2>1, <2>6, <2>7
<1>7. CASE LoadPartition
  <2>1. /\ TableOK' /\ Len(data'.table) <= 3
        /\ \A i \in DOMAIN data.parts : i <= part => Done(i)'
    BY <1>0, <1>7, TableStep
  <2>2. /\ data'.parts = data.parts /\ part \in DOMAIN data.parts
        /\ \/ part < Len(data.parts) /\ part' = part + 1 /\ stage' = "stage3"
           \/ ~ (part < Len(data.parts)) /\ part' = part /\ stage' = "stage4"
    BY <1>0, <1>7, LoadStep
  <2>3. CASE part < Len(data.parts) /\ part' = part + 1 /\ stage' = "stage3"
    BY <1>0, <2>1, <2>2, <2>3 DEF Loads
  <2>4. CASE ~ (part < Len(data.parts)) /\ part' = part /\ stage' = "stage4"
    BY <1>0, <2>1, <2>2, <2>4 DEF Loads
  <2> QED
    BY <2>2, <2>3, <2>4
<1>8. CASE PartitionFails \/ PmuSilent \/ Handoff \/ ReleaseCpu \/ Exit \/ ErrorLockDown
  <2>1. /\ UNCHANGED <<multiboot, data, loaded, pl>>
        /\ stage \in Loading /\ stage' \notin {"stage3", "stage4"}
        /\ stage' \in {"release", "exited"} => stage \in {"stage4", "release"}
    BY <1>8 DEF PartitionFails, PmuSilent, Handoff, ReleaseCpu, Exit, InStage3, InRelease,
       ErrorLockDown, Loading
  <2> QED
    BY <1>0, <2>1, LoadsFrame DEF Loads
<1>9. CASE UNCHANGED vars
  <2>1. UNCHANGED <<data, loaded, pl, multiboot, stage, part>>
    BY <1>9 DEF vars
  <2>2. stage = "stage3" => \A i \in DOMAIN data'.parts : i < part' => Done(i)'
    BY <1>0, <2>1 DEF Loads, Done, Skipped
  <2> QED
    BY <1>0, <2>1, <2>2, LoadsFrame DEF Loads
<1> QED
  BY <1>1, <1>2, <1>3, <1>4, <1>5, <1>6, <1>7, <1>8, <1>9 DEF Next, Loader

\* An entry of the hand-off table, and what may release its CPU.
LEMMA EntryFacts ==
  ASSUME Types, Loads, stage \in Loading \cup {"exited"}, NEW k \in DOMAIN data.table
  PROVE  LET e == data.table[k]
         IN /\ k \in Nat /\ e \in Entries /\ e.part \in loaded /\ e.part \in DOMAIN data.parts
            /\ Mine(e.part, e.cpu) /\ e.aa64 = data.parts[e.part].aa64
            /\ data.parts[e.part] \in PartitionType
            /\ \A j \in DOMAIN data.parts : j < e.part => ~ Mine(j, e.cpu)
            /\ data.reset = "apu" => e.cpu \in Apu
            /\ \A l \in DOMAIN data.table : l # k => data.table[l].cpu # e.cpu
<1>1. TableOK /\ data.table \in Seq(Entries) /\ data.parts \in Seq(PartitionType)
  BY DEF Loads, Types, Section
<1>2. k \in Nat /\ data.table[k] \in Entries
  BY <1>1
<1>3. PICK e : e = data.table[k]
  OBVIOUS
<1>4. /\ e.part \in loaded /\ e.part \in DOMAIN data.parts
      /\ Mine(e.part, e.cpu) /\ e.aa64 = data.parts[e.part].aa64
      /\ \A j \in DOMAIN data.parts : j < e.part => ~ Mine(j, e.cpu)
      /\ \A l \in DOMAIN data.table : l # k => data.table[l].cpu # e.cpu
  BY <1>1, <1>3 DEF TableOK
<1>5. data.parts[e.part] \in PartitionType
  BY <1>1, <1>4
<1>6. data.reset = "apu" => e.cpu \in Apu
  <2>1. ~ Skipped(data.parts[e.part]) /\ Dest(data.parts[e.part]) = e.cpu
    BY <1>4 DEF Mine
  <2> QED
    BY <2>1 DEF Skipped, Dest, Self, Apu
<1> QED
  BY <1>2, <1>3, <1>4, <1>5, <1>6

\* One entry of the table is dealt with.
LEMMA ReleaseStep ==
  ASSUME Types, Loads, ReleaseCpu, NEW e, e = data.table[index]
  PROVE  /\ UNCHANGED <<boot, flash, multiboot, cause, bitten, dup, data, part, pl, loaded,
                        hung, errReg, wdt, wdtReady>>
         /\ stage = "release" /\ index \in DOMAIN data.table
         /\ \/ /\ stage' = "release" /\ index' = index + 1 /\ faults' = faults /\ Accepted(e)
               /\ e.cpu # Self => cpu'[e.cpu] = [slot |-> multiboot, part |-> e.part,
                                                 fresh |-> TRUE]
               /\ \A c \in Cpus \ {e.cpu} : cpu'[c] = cpu[c]
            \/ /\ stage' = "err" /\ UNCHANGED <<index, cpu>>
               /\ \/ faults' = faults /\ ~ Accepted(e)
                  \/ faults' = faults + 1
<1>1. /\ UNCHANGED <<boot, flash, multiboot, cause, bitten, dup, data, part, pl, loaded,
                     hung, errReg, wdt, wdtReady>>
      /\ stage = "release" /\ index <= Len(data.table)
      /\ \/ /\ Accepted(e) /\ index' = index + 1 /\ stage' = stage /\ faults' = faults
            /\ cpu' = IF e.cpu = Self THEN cpu
                      ELSE [cpu EXCEPT ![e.cpu] = [slot |-> multiboot, part |-> e.part,
                                                   fresh |-> e.part \in loaded]]
         \/ ~ Accepted(e) /\ stage' = "err" /\ UNCHANGED <<index, cpu, faults>>
         \/ faults' = faults + 1 /\ stage' = "err" /\ UNCHANGED <<index, cpu>>
  BY DEF ReleaseCpu, InRelease, const, Accepted, Fault
<1>2. index \in DOMAIN data.table
  BY <1>1 DEF Types, Section
<1>3. e.part \in loaded /\ cpu \in [Cpus -> Runs] /\ e.cpu \in Cpus
  BY <1>1, <1>2, EntryFacts DEF Types, Loading, Entries
<1> QED
  BY <1>1, <1>2, <1>3

\* Which entries are dealt with.
LEMMA ReleasesStep == BootInv /\ [Next]_vars => Releases'
<1> SUFFICES ASSUME BootInv, [Next]_vars
             PROVE  Releases'
  OBVIOUS
<1>0. /\ Types /\ Place /\ LoaderInv /\ Loads /\ Releases
      /\ index \in Nat \ {0} /\ data.table \in Seq(Entries) /\ Len(data.table) <= 3
  BY DEF BootInv, Types, Section, Loads
<1> USE DEF const, ghosts, watch
<1>1. CASE Handoff
  <2>1. /\ stage' \in {"halted", "release", "err"} /\ index' \in {index, 1} /\ data' = data
        /\ stage' = "release" => index' = 1
    BY <1>1 DEF Handoff
  <2>2. \A k \in DOMAIN data.table : ~ (k < 1)
    BY <1>0
  <2> QED
    BY <1>0, <2>1, <2>2 DEF Releases
<1>2. CASE ReleaseCpu
  <2>0. PICK e : e = data.table[index]
    OBVIOUS
  <2>1. /\ UNCHANGED <<multiboot, data>> /\ stage = "release" /\ index \in DOMAIN data.table
        /\ \/ /\ stage' = "release" /\ index' = index + 1 /\ Accepted(e)
              /\ e.cpu # Self => cpu'[e.cpu] = [slot |-> multiboot, part |-> e.part,
                                                fresh |-> TRUE]
              /\ \A c \in Cpus \ {e.cpu} : cpu'[c] = cpu[c]
           \/ stage' = "err" /\ index' = index
    BY <1>0, <1>2, <2>0, ReleaseStep
  <2>2. CASE stage' = "err" /\ index' = index
    BY <1>0, <2>2 DEF Releases
  <2>3. CASE ~ (stage' = "err" /\ index' = index)
    <3>1. index' = index + 1 /\ index <= Len(data.table)
      BY <1>0, <2>1, <2>3
    <3>2. ASSUME NEW k \in DOMAIN data.table, k < index'
          PROVE  /\ Accepted(data.table[k])
                 /\ data.table[k].cpu # Self =>
                      cpu'[data.table[k].cpu] = [slot |-> multiboot,
                                                 part |-> data.table[k].part, fresh |-> TRUE]
      <4>1. CASE k = index
        BY <2>0, <2>1, <2>3, <4>1
      <4>2. CASE k # index
        <5>1. k < index
          BY <1>0, <3>1, <3>2, <4>2
        <5>2. /\ Accepted(data.table[k])
              /\ data.table[k].cpu # Self => Released(data.table[k])
          BY <1>0, <2>1, <5>1 DEF Releases
        <5>3. data.table[k].cpu \in Cpus \ {e.cpu}
          BY <1>0, <2>0, <2>1, <4>2, EntryFacts DEF Loading, Entries
        <5> QED
          BY <2>1, <2>3, <5>2, <5>3 DEF Released
      <4> QED
        BY <4>1, <4>2
    <3>3. index' <= 4 /\ index' <= Len(data.table) + 1
      BY <1>0, <3>1
    <3> QED
      BY <2>1, <2>3, <3>2, <3>3 DEF Releases, Accepted, Released
  <2> QED
    BY <2>2, <2>3
<1>3. CASE Exit
  <2>1. /\ UNCHANGED <<multiboot, data, index>> /\ stage = "release" /\ stage' = "exited"
        /\ index > Len(data.table) /\ \A c \in Cpus \ {Self} : cpu'[c] = cpu[c]
        /\ \A k \in DOMAIN data.table :
             data.table[k].cpu = Self =>
               cpu'[Self] = [slot |-> multiboot, part |-> data.table[k].part, fresh |-> TRUE]
    BY <1>0, <1>3, ExitStep
  <2>2. ASSUME NEW k \in DOMAIN data.table
        PROVE  /\ Accepted(data.table[k])
               /\ cpu'[data.table[k].cpu] = [slot |-> multiboot,
                                             part |-> data.table[k].part, fresh |-> TRUE]
    <3>1. k < index
      BY <1>0, <2>1
    <3>2. /\ Accepted(data.table[k])
          /\ data.table[k].cpu # Self => Released(data.table[k])
      BY <1>0, <2>1, <3>1 DEF Releases
    <3>3. data.table[k].cpu \in Cpus
      <4>1. data.table[k] \in Entries
        BY <1>0
      <4> QED
        BY <4>1 DEF Entries
    <3> QED
      BY <2>1, <3>2, <3>3 DEF Released
  <2> QED
    BY <1>0, <2>1, <2>2 DEF Releases, Accepted, Released
<1>4. CASE UNCHANGED vars
  BY <1>0, <1>4 DEF vars, Releases, Accepted, Released
<1>5. CASE \/ BootRom \/ Initialize \/ BootDeviceInitAndValidate \/ BootOverJtag
           \/ SkipPartition \/ LoadPartition \/ PartitionFails \/ PmuSilent
           \/ ErrorLockDown \/ FallBack \/ WatchdogBites \/ OutsideReset \/ PsOnlyReset
           \/ ApuOnlyReset
  <2>1. index' = index /\ stage' \notin {"release", "exited"}
    <3>1. CASE BootRom \/ Initialize \/ BootDeviceInitAndValidate \/ BootOverJtag
      BY <3>1 DEF BootRom, Initialize, BootDeviceInitAndValidate, BootOverJtag, Failed
    <3>2. CASE SkipPartition \/ LoadPartition \/ PartitionFails \/ PmuSilent
      BY <3>2 DEF SkipPartition, LoadPartition, PartitionFails, PmuSilent, InStage3,
         NextPartition
    <3>3. CASE ErrorLockDown \/ FallBack \/ WatchdogBites \/ OutsideReset \/ PsOnlyReset
               \/ ApuOnlyReset
      BY <3>3 DEF ErrorLockDown, FallBack, WatchdogBites, OutsideReset, PsOnlyReset,
         ApuOnlyReset, SystemReset
    <3> QED
      BY <1>5, <3>1, <3>2, <3>3
  <2> QED
    BY <1>0, <2>1 DEF Releases
<1> QED
  BY <1>1, <1>2, <1>3, <1>4, <1>5 DEF Next, Loader

\* A loader that came as far as the hand-off has read and dealt with the image's own
\* partitions: a header nobody has filled in would have been refused.
LEMMA OwnParts ==
  ASSUME Types, Place, Headed, Loads, LoaderInv, stage \in {"release", "exited"}
  PROVE  /\ boot # JTAG /\ multiboot \in Slots /\ Booted \in Images
         /\ data.parts = Booted.parts /\ data.parts \in Seq(PartitionType)
         /\ Booted.second = PpdSame => Booted.table
         /\ TableOK /\ \A i \in DOMAIN data.parts : Done(i)
<1>1. boot # JTAG
  BY DEF Place, LoaderInv, During, Covered
<1>2. /\ multiboot \in Slots /\ Booted \in Images /\ data.parts \in Seq(PartitionType)
      /\ TableOK /\ \A i \in DOMAIN data.parts : Done(i)
  BY <1>1 DEF Place, Types, Section, Loads, Loading
<1>3. data.parts # <<Unread>>
  <2> SUFFICES ASSUME data.parts = <<Unread>> PROVE FALSE
    OBVIOUS
  <2>1. 1 \in DOMAIN data.parts /\ data.parts[1] = Unread
    OBVIOUS
  <2>2. Unread.sum = TRUE
    BY <1>2, <2>1 DEF Done
  <2> QED
    BY <2>2 DEF Unread
<1> QED
  BY <1>1, <1>2, <1>3 DEF Headed, Partitions

\* What the run leaves in the PL and on the RPU when it ends.
LEMMA ExitKeeps == BootInv /\ Exit => PlHolds' /\ RpuRuns'
<1> SUFFICES ASSUME BootInv, Exit
             PROVE  PlHolds' /\ RpuRuns'
  OBVIOUS
<1>0. Types /\ Place /\ Headed /\ LoaderInv /\ Loads /\ Releases /\ Kept
  BY DEF BootInv
<1>1. /\ UNCHANGED <<flash, multiboot, pl>> /\ stage = "release" /\ index > Len(data.table)
      /\ \A c \in Cpus \ {Self} : cpu'[c] = cpu[c]
  BY <1>0, ExitStep
<1>2. /\ data.parts = Booted.parts /\ data.parts \in Seq(PartitionType)
      /\ \A i \in DOMAIN data.parts : Done(i)
      /\ data.reset \in {"system", "ps", "apu"} /\ data.table \in Seq(Entries)
      /\ index \in Nat
  BY <1>0, <1>1, OwnParts DEF Types, Section
<1>3. "r5_0" \in Cpus \ {Self} /\ "r5_0" \notin Apu
  BY DEF Cpus, Self, Apu
<1>4. PlHolds'
  <2>1. CASE data.reset = "system"
    <3>1. ASSUME NEW i \in DOMAIN Booted.parts, Booted.parts[i].owner = "fsbl",
                 Booted.parts[i].place = "pl"
          PROVE  pl = multiboot
      <4>1. ~ Skipped(data.parts[i])
        BY <1>2, <2>1, <3>1 DEF Skipped
      <4> QED
        BY <1>2, <2>1, <3>1, <4>1 DEF Done
    <3> QED
      BY <1>1, <3>1 DEF PlHolds, Booted
  <2>2. CASE data.reset # "system"
    <3>1. PlHolds
      BY <1>0, <1>1, <1>2, <2>2 DEF Kept, Keeps, Partitions
    <3> QED
      BY <1>1, <3>1 DEF PlHolds, Booted
  <2> QED
    BY <2>1, <2>2
<1>5. RpuRuns'
  <2>1. CASE data.reset = "apu"
    <3>1. RpuRuns
      BY <1>0, <1>1, <2>1 DEF Kept, Keeps, Partitions
    <3> QED
      BY <1>1, <1>3, <3>1 DEF RpuRuns, RpuParts, Booted
  <2>2. CASE data.reset # "apu"
    <3>1. \A i : i \in RpuParts <=> i \in DOMAIN data.parts /\ Mine(i, "r5_0")
      BY <1>2, <2>2 DEF RpuParts, Mine, Skipped, Dest, Self
    <3>2. ASSUME NEW i0 \in RpuParts
          PROVE  \E i \in RpuParts : /\ \A j \in RpuParts : i <= j
                                     /\ cpu["r5_0"] = [slot |-> multiboot, part |-> i,
                                                       fresh |-> TRUE]
      <4>1. i0 \in DOMAIN data.parts /\ Mine(i0, "r5_0")
        BY <3>1, <3>2
      <4>2. PICK k \in DOMAIN data.table : data.table[k].cpu = "r5_0"
        BY <1>2, <1>3, <4>1 DEF Done, Mine
      <4>3. PICK m : m = data.table[k].part
        OBVIOUS
      <4>4. /\ m \in DOMAIN data.parts /\ Mine(m, "r5_0")
            /\ \A j \in DOMAIN data.parts : j < m => ~ Mine(j, "r5_0")
        BY <1>0, <1>1, <4>2, <4>3, EntryFacts DEF Loading
      <4>5. m \in RpuParts /\ \A j \in RpuParts : m <= j
        <5>1. m \in RpuParts /\ \A j \in RpuParts : ~ (j < m) /\ j \in Nat
          BY <1>2, <3>1, <4>4
        <5> QED
          BY <1>2, <4>4, <5>1
      <4>6. k < index
        BY <1>1, <1>2
      <4>7. cpu["r5_0"] = [slot |-> multiboot, part |-> m, fresh |-> TRUE]
        BY <1>0, <1>1, <1>3, <4>2, <4>3, <4>6 DEF Releases, Released
      <4> QED
        BY <4>5, <4>7
    <3>3. RpuRuns
      BY <3>2 DEF RpuRuns
    <3> QED
      BY <1>1, <1>3, <3>3 DEF RpuRuns, RpuParts, Booted
  <2> QED
    BY <2>1, <2>2
<1> QED
  BY <1>4, <1>5

\* What a reset of the PS, or of the APU alone, leaves.
LEMMA KeptStep == BootInv /\ [Next]_vars => Kept'
<1> SUFFICES ASSUME BootInv, [Next]_vars
             PROVE  Kept'
  OBVIOUS
<1>0. /\ Types /\ Place /\ Headed /\ LoaderInv /\ Loads /\ Kept
      /\ NoImage \notin Images /\ "r5_0" \in Cpus /\ "r5_0" \notin Apu /\ Self \in Apu
      /\ cpu \in [Cpus -> Runs]
  BY FsblAssumption DEF BootInv, Types, Cpus, Apu, Self
<1> USE DEF const, ghosts, watch
<1> DEFINE Same == UNCHANGED <<flash, multiboot, pl>> /\ cpu'["r5_0"] = cpu["r5_0"]
<1>1. Same => (PlHolds => PlHolds') /\ (RpuRuns => RpuRuns')
  BY DEF PlHolds, RpuRuns, RpuParts, Booted
<1>2. CASE BootRom
  <2>1. /\ UNCHANGED <<flash, cause, cpu, pl>> /\ stage = "bootrom" /\ cause # "apu"
    BY <1>0, <1>2 DEF BootRom, LoaderInv, Before
  <2>2. CASE cause = "ps"
    <3>1. multiboot \in Slots /\ flash[multiboot] # NoImage
      BY <1>0, <2>1, <2>2 DEF Kept, Booted
    <3>2. stage' = "stage1" /\ multiboot' = multiboot
      BY <1>2, <3>1 DEF BootRom
    <3> QED
      BY <1>0, <1>1, <2>1, <2>2, <3>2 DEF Kept, Keeps, Partitions
  <2>3. CASE cause # "ps"
    <3>1. stage' \in {"bootrom", "stage1", "lockdown"}
      BY <1>2 DEF BootRom
    <3> QED
      BY <2>1, <2>3, <3>1 DEF Kept, Keeps, Partitions
  <2> QED
    BY <2>2, <2>3
<1>3. CASE FallBack \/ OutsideReset \/ WatchdogBites
  <2>1. stage' = "stuck" \/ (stage' = "bootrom" /\ cause' = "system")
    BY <1>3 DEF FallBack, OutsideReset, WatchdogBites, SystemReset
  <2> QED
    BY <2>1 DEF Kept, Keeps, Partitions
<1>4. CASE PsOnlyReset
  <2>1. UNCHANGED <<boot, flash, multiboot, pl>> /\ stage = "exited" /\ stage' = "bootrom"
        /\ cause' = "ps"
    BY <1>4 DEF PsOnlyReset
  <2>2. PlHolds /\ multiboot \in Slots /\ Booted \in Images
    BY <1>0, <2>1 DEF Kept, Place
  <2>3. PlHolds'
    BY <2>1, <2>2 DEF PlHolds, Booted
  <2> QED
    BY <2>1, <2>2, <2>3 DEF Kept, Keeps, Partitions, Booted
<1>5. CASE ApuOnlyReset
  <2>1. Same /\ stage = "exited" /\ stage' = "stage1"
    BY <1>0, <1>5 DEF ApuOnlyReset
  <2> HIDE DEF Same
  <2> QED
    BY <1>0, <1>1, <2>1 DEF Kept
<1>6. CASE Initialize
  <2>1. Same /\ cause' = cause /\ stage = "stage1" /\ stage' \in {"stage2", "err"}
        /\ data'.reset = cause
    BY <1>0, <1>6, InitializeStep
  <2> HIDE DEF Same
  <2> QED
    BY <1>0, <1>1, <2>1 DEF Kept, Keeps, Partitions
<1>7. CASE BootDeviceInitAndValidate
  <2>1. Same /\ data'.reset = data.reset /\ stage = "stage2" /\ stage' \in {"stage3", "err"}
    BY <1>0, <1>7, DeviceStep
  <2> HIDE DEF Same
  <2> QED
    BY <1>0, <1>1, <2>1 DEF Kept, Keeps, Partitions
<1>8. CASE BootOverJtag \/ SkipPartition \/ PartitionFails \/ PmuSilent \/ Handoff
  <2>1. Same /\ data' = data /\ stage \in {"stage2"} \cup (Partitions \ {"exited"})
        /\ stage' \notin {"bootrom", "stage1", "stage2", "exited"}
    BY <1>8 DEF BootOverJtag, SkipPartition, PartitionFails, PmuSilent, Handoff, InStage3,
       NextPartition, Partitions
  <2> HIDE DEF Same
  <2> QED
    BY <1>0, <1>1, <2>1 DEF Kept, Keeps, Partitions
<1>9. CASE LoadPartition
  <2>0. PICK p : p = data.parts[part]
    OBVIOUS
  <2>1. PICK t : t = HandoffTable(p)
    OBVIOUS
  <2>2. /\ UNCHANGED <<flash, multiboot, cpu>> /\ data'.reset = data.reset
        /\ stage = "stage3" /\ stage' \in {"stage3", "stage4"}
        /\ pl' \in {pl, multiboot}
    BY <1>0, <1>9, <2>0, <2>1, LoadStep
  <2>3. (PlHolds => PlHolds') /\ (RpuRuns => RpuRuns')
    BY <2>2 DEF PlHolds, RpuRuns, RpuParts, Booted
  <2> QED
    BY <1>0, <2>2, <2>3 DEF Kept, Keeps, Partitions
<1>10. CASE ReleaseCpu
  <2>0. PICK e : e = data.table[index]
    OBVIOUS
  <2>1. /\ UNCHANGED <<flash, multiboot, pl, data>> /\ stage = "release"
        /\ stage' \in {"release", "err"} /\ index \in DOMAIN data.table
        /\ cpu' = cpu \/ \A c \in Cpus \ {e.cpu} : cpu'[c] = cpu[c]
    BY <1>0, <1>10, <2>0, ReleaseStep
  <2>2. data.reset = "apu" => e.cpu \in Apu
    BY <1>0, <2>0, <2>1, EntryFacts DEF Loading
  <2>3. data.reset = "apu" => Same
    BY <1>0, <2>1, <2>2
  <2>4. PlHolds => PlHolds'
    BY <2>1 DEF PlHolds, Booted
  <2> HIDE DEF Same
  <2> QED
    BY <1>0, <1>1, <2>1, <2>3, <2>4 DEF Kept, Keeps, Partitions
<1>11. CASE Exit
  <2>1. PlHolds' /\ RpuRuns' /\ stage' = "exited"
    BY <1>0, <1>11, ExitKeeps, ExitStep
  <2> QED
    BY <2>1 DEF Kept
<1>12. CASE ErrorLockDown
  <2>1. stage' \in {"fallback", "halted"}
    BY <1>12 DEF ErrorLockDown
  <2> QED
    BY <2>1 DEF Kept, Keeps, Partitions
<1>13. CASE UNCHANGED vars
  <2>1. Same /\ UNCHANGED <<stage, cause, data>>
    BY <1>13 DEF vars
  <2> QED
    BY <1>0, <1>1, <2>1 DEF Kept, Keeps, Booted
<1> QED
  BY <1>2, <1>3, <1>4, <1>5, <1>6, <1>7, <1>8, <1>9, <1>10, <1>11, <1>12, <1>13
     DEF Next, Loader

\* What a sound image gives the loader.
LEMMA SoundGives ==
  ASSUME NEW s, Sound(s)
  PROVE  /\ flash[s] # NoImage /\ flash[s].table
         /\ flash[s].second # PpdSame => s = 0 /\ flash[s].second \in PresentPpds \ {boot}
         /\ \A i \in DOMAIN flash[s].parts : flash[s].parts[i].sum
         /\ \A i \in DOMAIN flash[s].parts :
              LET p == flash[s].parts[i]
              IN p.owner = "fsbl" =>
                   /\ p.valid
                   /\ /\ p.place # "pl"
                      /\ \A j \in DOMAIN flash[s].parts :
                           j < i /\ flash[s].parts[j].owner = "fsbl" =>
                             \/ flash[s].parts[j].place = "pl"
                             \/ Dest(flash[s].parts[j]) # Dest(p)
                      => /\ Dest(p) = Self => p.aa64
                         /\ Dest(p) \in Cpus \ {Self} => Dest(p) \in Supported
  BY DEF Sound

\* In the place the loader looks, the headers of a sound image are not refused.
LEMMA SoundFound ==
  ASSUME boot \in PresentModes, multiboot \in Slots, Booted \in Images, Sound(multiboot),
         data.second = PpdSame, data.offset = 0
  PROVE  Headers(Booted, Offset(data.second, data.offset)) # <<>>
<1>1. Booted.table /\ Booted.parts # <<>>
  BY FsblAssumption, SoundGives DEF Booted
<1>2. Booted.second # PpdSame =>
        multiboot = 0 /\ Booted.second \in PresentPpds /\ Booted.second # boot
  BY SoundGives DEF Booted
<1>3. PICK o : o = Offset(data.second, data.offset)
  OBVIOUS
<1>4. o = IF boot \in SdModes \cup {7} THEN 0 ELSE multiboot
  BY <1>3 DEF Offset, PpdSame, SdModes
<1>5. Found(o, boot \in SdModes)
  BY <1>4 DEF Found, PresentModes, SdModes
<1>6. CASE Booted.second = PpdSame
  BY <1>1, <1>3, <1>5, <1>6 DEF Headers
<1>7. CASE Booted.second # PpdSame
  <2>1. o = 0 /\ multiboot = 0
    BY <1>2, <1>4, <1>7
  <2>2. Found(Offset(Booted.second, o), Booted.second \in PpdFiles)
    BY <2>1 DEF Found, Offset
  <2> QED
    BY <1>1, <1>2, <1>3, <1>5, <1>7, <2>2 DEF Headers
<1> QED
  BY <1>6, <1>7

\* Without a reset of the PS or the APU the loader does with a sound image all it can.
LEMMA SoundLoads ==
  ASSUME Types, Place, Headed, Loads, LoaderInv, boot # JTAG, data.reset = "system",
         stage \in {"stage3", "stage4", "release"}, Sound(multiboot)
  PROVE  /\ \A i \in DOMAIN data.parts : ~ Refused(data.parts[i])
         /\ \A k \in DOMAIN data.table : Accepted(data.table[k])
<1>1. /\ multiboot \in Slots /\ Booted \in Images /\ TableOK
      /\ data.parts \in Seq(PartitionType)
  BY DEF Place, Loads, Loading, Types, Section
<1>2. data.parts = flash[multiboot].parts
  <2>1. ~ (Booted.second = boot /\ boot # PpdSame)
    BY SoundGives DEF Booted
  <2> QED
    BY <2>1 DEF Headed, Partitions, Booted
<1>3. ASSUME NEW i \in DOMAIN data.parts PROVE ~ Refused(data.parts[i])
  <2>1. data.parts[i].sum /\ (data.parts[i].owner = "fsbl" => data.parts[i].valid)
    BY <1>2, <1>3, SoundGives
  <2> QED
    BY <2>1 DEF Refused, Skipped
<1>4. ASSUME NEW k \in DOMAIN data.table PROVE Accepted(data.table[k])
  <2>0. PICK e : e = data.table[k]
    OBVIOUS
  <2>1. /\ e \in Entries /\ e.part \in DOMAIN data.parts /\ Mine(e.part, e.cpu)
        /\ e.aa64 = data.parts[e.part].aa64
        /\ \A j \in DOMAIN data.parts : j < e.part => ~ Mine(j, e.cpu)
    BY <2>0, EntryFacts DEF Loading
  <2>2. PICK p : p = data.parts[e.part]
    OBVIOUS
  <2>3. p.owner = "fsbl" /\ p.place # "pl" /\ Dest(p) = e.cpu /\ e.cpu \in Cpus
    BY <2>1, <2>2 DEF Mine, Skipped, Entries
  <2>4. \A j \in DOMAIN data.parts :
          j < e.part /\ data.parts[j].owner = "fsbl" =>
            data.parts[j].place = "pl" \/ Dest(data.parts[j]) # Dest(p)
    BY <2>1, <2>3 DEF Mine, Skipped
  <2>5. /\ Dest(p) = Self => p.aa64
        /\ Dest(p) \in Cpus \ {Self} => Dest(p) \in Supported
    BY <1>2, <2>1, <2>2, <2>3, <2>4, SoundGives
  <2> QED
    BY <2>0, <2>1, <2>2, <2>3, <2>5 DEF Accepted
<1> QED
  BY <1>3, <1>4

\* Nothing goes wrong by itself.
LEMMA QuietStep == BootInv /\ [Next]_vars => Quiet'
<1> SUFFICES ASSUME BootInv, [Next]_vars, faults' = 0, boot' \in PresentModes
             PROVE  /\ cause' = "system" /\ ~ bitten'
                    /\ stage' \notin {"stuck", "waiting", "halted"}
                    /\ data'.reset = "system"
                    /\ \A s \in Slots : s < multiboot' => ~ Sound(s)'
                    /\ stage' \in {"err", "fallback"} => wdtReady' /\ ~ Sound(multiboot)'
                    /\ stage' = "lockdown" => \A s \in Slots : ~ Sound(s)'
  BY DEF Quiet
<1> DEFINE Calm == /\ cause' = "system" /\ ~ bitten'
                   /\ stage' \notin {"stuck", "waiting", "halted"} /\ data'.reset = "system"
<1>0. /\ Types /\ Place /\ Headed /\ LoaderInv /\ Loads /\ Releases
      /\ faults \in 0 .. MaxFaults /\ LastSlot \in Nat
      /\ JTAG \notin PresentModes /\ PresentModes \subseteq FallbackModes
  BY FsblAssumption DEF BootInv, Types, PresentModes, FallbackModes, SdModes, JTAG
<1>1. ~ Fault
  BY <1>0 DEF Fault
<1>2. UNCHANGED <<boot, flash, faults>>
  <2>1. UNCHANGED <<boot, flash>>
    BY DEF Next, Loader, vars, const, BootRom, Initialize, BootDeviceInitAndValidate,
       BootOverJtag, SkipPartition, LoadPartition, PartitionFails, PmuSilent, InStage3, Handoff,
       ReleaseCpu, Exit, InRelease, ErrorLockDown, FallBack, WatchdogBites, OutsideReset,
       PsOnlyReset, ApuOnlyReset, Failed
  <2>2. UNCHANGED faults
    BY <1>1 DEF Next, Loader, vars, const, BootRom, Initialize, BootDeviceInitAndValidate,
       BootOverJtag, SkipPartition, LoadPartition, PartitionFails, PmuSilent, InStage3, Handoff,
       ReleaseCpu, Exit, InRelease, ErrorLockDown, FallBack, WatchdogBites, OutsideReset,
       PsOnlyReset, ApuOnlyReset, Failed
  <2> QED
    BY <2>1, <2>2
<1>3. /\ cause = "system" /\ ~ bitten /\ stage \notin {"stuck", "waiting", "halted"}
      /\ data.reset = "system" /\ boot \in PresentModes /\ boot # JTAG
      /\ \A s \in Slots : s < multiboot => ~ Sound(s)
      /\ stage \in {"err", "fallback"} => wdtReady /\ ~ Sound(multiboot)
      /\ stage = "lockdown" => \A s \in Slots : ~ Sound(s)
  BY <1>0, <1>2 DEF BootInv, Quiet
<1>4. \A s : Sound(s)' <=> Sound(s)
  BY <1>2 DEF Sound
<1>5. multiboot' = multiboot => (Sound(multiboot)' <=> Sound(multiboot))
  BY <1>2 DEF Sound
<1> USE DEF const, ghosts, watch
<1>6. CASE BootRom
  <2>1. /\ stage = "bootrom" /\ UNCHANGED <<cause, bitten>> /\ data' \in {FreshData, data}
        /\ \/ stage' = "stage1" /\ multiboot' = multiboot
           \/ /\ ~ (multiboot \in Slots /\ flash[multiboot] # NoImage)
              /\ \/ multiboot < LastSlot /\ multiboot' = multiboot + 1 /\ stage' = stage
                 \/ ~ (multiboot < LastSlot) /\ stage' = "lockdown" /\ multiboot' = multiboot
    BY <1>3, <1>6 DEF BootRom
  <2>2. Calm
    BY <1>3, <2>1, FreshIs
  <2>3. CASE stage' = "stage1" /\ multiboot' = multiboot
    BY <1>3, <1>4, <2>2, <2>3
  <2>4. CASE ~ (stage' = "stage1" /\ multiboot' = multiboot)
    <3>1. multiboot \in Slots => ~ Sound(multiboot)
      BY <2>1, <2>4, SoundGives
    <3>2. \A s \in Slots : s <= multiboot => ~ Sound(s)
      <4>1. \A s \in Slots : s <= multiboot => s < multiboot \/ s = multiboot
        BY <1>0 DEF Place, Slots
      <4> QED
        BY <1>3, <3>1, <4>1
    <3>3. CASE multiboot < LastSlot /\ multiboot' = multiboot + 1 /\ stage' = stage
      <4>1. \A s \in Slots : s < multiboot' => s <= multiboot
        BY <1>0, <3>3 DEF Place, Slots
      <4> QED
        BY <1>4, <2>1, <2>2, <3>2, <3>3, <4>1
    <3>4. CASE ~ (multiboot < LastSlot) /\ stage' = "lockdown" /\ multiboot' = multiboot
      <4>1. \A s \in Slots : s <= multiboot
        BY <1>0, <3>4 DEF Place, Slots
      <4> QED
        BY <1>3, <1>4, <2>2, <3>2, <3>4, <4>1
    <3> QED
      BY <2>1, <2>4, <3>3, <3>4
  <2> QED
    BY <2>3, <2>4
<1>7. CASE Initialize
  <2>1. /\ UNCHANGED <<multiboot, cause, bitten>> /\ data'.reset = cause
        /\ stage' \in {"stage2", "err"}
        /\ stage' = "err" => WdtReset \/ faults' = faults + 1
    BY <1>0, <1>7, InitializeStep
  <2>2. stage' = "stage2"
    BY <1>0, <1>2, <1>3, <2>1 DEF WdtReset
  <2> QED
    BY <1>3, <1>4, <2>1, <2>2
<1>8. CASE BootDeviceInitAndValidate
  <2>1. /\ UNCHANGED <<multiboot, cause, bitten>> /\ stage = "stage2" /\ wdtReady' = TRUE
        /\ data'.reset = data.reset /\ stage' \in {"stage3", "err"}
    BY <1>0, <1>8, DeviceStep
  <2>2. /\ wdt = FALSE /\ multiboot \in Slots /\ Booted \in Images
        /\ data.second = PpdSame /\ data.offset = 0
    BY <1>0, <1>3, <2>1 DEF LoaderInv, Before, Place, Headed, Blank
  <2>3. stage' = "err" => Headers(Booted, Offset(data.second, data.offset)) = <<>>
    BY <1>1, <1>3, <1>8, <2>2 DEF BootDeviceInitAndValidate, Booted
  <2>4. stage' = "err" => ~ Sound(multiboot)
    BY <1>3, <2>2, <2>3, SoundFound
  <2> QED
    BY <1>3, <1>4, <1>5, <2>1, <2>2, <2>4
<1>9. CASE BootOverJtag
  BY <1>3, <1>9 DEF BootOverJtag
<1>10. CASE SkipPartition
  <2>1. UNCHANGED <<multiboot, cause, bitten, data>> /\ stage' \in {"stage3", "stage4"}
    BY <1>10 DEF SkipPartition, InStage3, NextPartition
  <2> QED
    BY <1>3, <1>4, <2>1
<1>11. CASE LoadPartition
  <2>0. PICK p : p = data.parts[part]
    OBVIOUS
  <2>1. PICK t : t = HandoffTable(p)
    OBVIOUS
  <2>2. /\ UNCHANGED <<multiboot, cause, bitten>> /\ data'.reset = data.reset
        /\ stage' \in {"stage3", "stage4"}
    BY <1>0, <1>11, <2>0, <2>1, LoadStep
  <2> QED
    BY <1>3, <1>4, <2>2
<1>12. CASE PartitionFails
  <2>1. /\ UNCHANGED <<multiboot, cause, bitten, wdtReady, data>> /\ stage = "stage3"
        /\ stage' = "err" /\ Refused(data.parts[part])
    BY <1>1, <1>12 DEF PartitionFails, InStage3
  <2>2. part \in DOMAIN data.parts /\ wdtReady
    BY <1>0, <2>1 DEF Loads, LoaderInv, During, Covered
  <2>3. ~ Sound(multiboot)
    BY <1>0, <1>3, <2>1, <2>2, SoundLoads
  <2> QED
    BY <1>3, <1>4, <1>5, <2>1, <2>2, <2>3
<1>13. CASE PmuSilent
  BY <1>1, <1>13 DEF PmuSilent
<1>14. CASE Handoff
  <2>1. UNCHANGED <<multiboot, cause, bitten, data>> /\ stage' = "release"
    BY <1>1, <1>3, <1>14 DEF Handoff
  <2> QED
    BY <1>3, <1>4, <2>1
<1>15. CASE ReleaseCpu
  <2>0. PICK e : e = data.table[index]
    OBVIOUS
  <2>1. /\ UNCHANGED <<multiboot, cause, bitten, data, wdtReady>> /\ stage = "release"
        /\ index \in DOMAIN data.table
        /\ stage' = "release" \/ (stage' = "err" /\ ~ Accepted(e))
    <3>1. ~ (faults' = faults + 1)
      BY <1>0, <1>2
    <3> HIDE DEF Calm
    <3> QED
      BY <1>0, <1>15, <2>0, <3>1, ReleaseStep
  <2>2. wdtReady
    BY <1>0, <2>1 DEF LoaderInv, During, Covered
  <2>3. stage' = "err" => ~ Sound(multiboot)
    BY <1>0, <1>3, <2>0, <2>1, SoundLoads
  <2> QED
    BY <1>3, <1>4, <1>5, <2>1, <2>2, <2>3
<1>16. CASE Exit
  <2>1. UNCHANGED <<multiboot, cause, bitten, data>> /\ stage' = "exited"
    BY <1>0, <1>16, ExitStep
  <2> QED
    BY <1>3, <1>4, <2>1
<1>17. CASE ErrorLockDown
  <2>1. /\ UNCHANGED <<multiboot, cause, bitten, data, wdtReady>> /\ stage = "err"
        /\ stage' = "fallback"
    BY <1>0, <1>3, <1>17 DEF ErrorLockDown
  <2> QED
    BY <1>3, <1>4, <1>5, <2>1
<1>18. CASE FallBack
  <2>1. stage = "fallback" /\ wdtReady /\ ~ Sound(multiboot)
    BY <1>3, <1>18 DEF FallBack
  <2>2. /\ multiboot' = multiboot + 1 /\ stage' = "bootrom" /\ cause' = "system"
        /\ bitten' = FALSE /\ data' = data
    BY <1>3, <1>18, <2>1 DEF FallBack, NextImage, SystemReset
  <2>3. \A s \in Slots : s < multiboot' => s < multiboot \/ s = multiboot
    BY <1>0, <2>2 DEF Place, Slots
  <2> QED
    BY <1>3, <1>4, <2>1, <2>2, <2>3
<1>19. CASE WatchdogBites \/ OutsideReset \/ PsOnlyReset \/ ApuOnlyReset
  BY <1>1, <1>3, <1>19 DEF WatchdogBites, StandsStill, OutsideReset, PsOnlyReset, ApuOnlyReset
<1>20. CASE UNCHANGED vars
  BY <1>3, <1>4, <1>5, <1>20 DEF vars
<1> QED
  BY <1>6, <1>7, <1>8, <1>9, <1>10, <1>11, <1>12, <1>13, <1>14, <1>15, <1>16, <1>17, <1>18,
     <1>19, <1>20 DEF Next, Loader

LEMMA BootInvariant == Spec => []BootInv
<1>1. BootInv /\ [Next]_vars => BootInv'
  BY LoaderStep, TypesStep, PlaceStep, HeadedStep, LoadsStep, ReleasesStep, KeptStep, QuietStep
     DEF BootInv
<1> QED
  BY <1>1, BootInit, PTL DEF Spec

--------------------------------------------------------------------------------
(***************************************************************************)
(* What the hand-off promises.                                             *)
(***************************************************************************)
\* The partitions meant for a CPU are those of the hand-off table's kind, but for the
\* RPU in a restart of the APU: there they are those an earlier run has loaded.
LEMMA ForIs ==
  ASSUME data.parts = Booted.parts, data.parts \in Seq(PartitionType), NEW c \in Cpus
  PROVE  /\ data.reset # "apu" \/ c \in Apu =>
              \A i : i \in For(c) <=> i \in DOMAIN data.parts /\ Mine(i, c)
         /\ data.reset = "apu" /\ c \notin Apu => c = "r5_0" /\ For(c) = RpuParts
<1>1. ASSUME data.reset # "apu"
      PROVE  \A i : i \in For(c) <=> i \in DOMAIN data.parts /\ Mine(i, c)
  BY <1>1 DEF For, Mine, Skipped
<1>2. ASSUME data.reset = "apu", c \in Apu
      PROVE  \A i : i \in For(c) <=> i \in DOMAIN data.parts /\ Mine(i, c)
  BY <1>2 DEF For, Mine, Skipped, Dest, Apu
<1>3. ASSUME data.reset = "apu", c \notin Apu
      PROVE  c = "r5_0" /\ For(c) = RpuParts
  <2>1. c = "r5_0"
    BY <1>3 DEF Cpus
  <2> QED
    BY <1>3, <2>1 DEF For, RpuParts, Dest, Self
<1> QED
  BY <1>1, <1>2, <1>3

\* When the loader leaves with XFSBL_COMPLETED, everything it owns in the image it
\* booted is loaded, every CPU with a partition runs the first of them, and the PL holds
\* the image's bitstream.
THEOREM ExitCompleteAlways == Spec => []ExitComplete
<1>1. ASSUME BootInv, stage = "exited", NEW i \in DOMAIN data.parts,
             data.parts[i].owner = "fsbl"
      PROVE  /\ i \in loaded \/ (data.reset = "apu" /\ data.parts[i].cpu \notin Apu)
             /\ data.parts[i].place = "pl" => pl = multiboot
  <2>1. data.parts = Booted.parts /\ Done(i) /\ PlHolds
    BY <1>1, OwnParts DEF BootInv, Kept
  <2>2. i \in loaded \/ (data.reset = "apu" /\ data.parts[i].cpu \notin Apu)
    BY <1>1, <2>1 DEF Done, Skipped
  <2>3. data.parts[i].place = "pl" => pl = multiboot
    BY <1>1, <2>1 DEF PlHolds
  <2> QED
    BY <2>2, <2>3
<1>2. ASSUME BootInv, stage = "exited", NEW c \in Cpus, For(c) # {}
      PROVE  \E i \in For(c) : /\ \A j \in For(c) : i <= j
                               /\ cpu[c] = [slot |-> multiboot, part |-> i, fresh |-> TRUE]
  <2>1. /\ Types /\ Loads /\ Releases /\ RpuRuns
        /\ data.parts = Booted.parts /\ data.parts \in Seq(PartitionType)
        /\ \A i \in DOMAIN data.parts : Done(i)
    BY <1>2, OwnParts DEF BootInv, Kept
  <2>2. CASE data.reset = "apu" /\ c \notin Apu
    BY <1>2, <2>1, <2>2, ForIs DEF RpuRuns
  <2>3. CASE data.reset # "apu" \/ c \in Apu
    <3>1. \A i : i \in For(c) <=> i \in DOMAIN data.parts /\ Mine(i, c)
      BY <2>1, <2>3, ForIs
    <3>2. PICK i0 \in DOMAIN data.parts : Mine(i0, c)
      BY <1>2, <3>1
    <3>3. PICK k \in DOMAIN data.table : data.table[k].cpu = c
      BY <1>2, <2>1, <3>2 DEF Done, Mine
    <3>4. PICK m : m = data.table[k].part
      OBVIOUS
    <3>5. /\ m \in DOMAIN data.parts /\ Mine(m, c)
          /\ \A j \in DOMAIN data.parts : j < m => ~ Mine(j, c)
      BY <1>2, <2>1, <3>3, <3>4, EntryFacts
    <3>6. m \in For(c) /\ \A j \in For(c) : m <= j
      <4>1. m \in For(c) /\ \A j \in For(c) : j \in DOMAIN data.parts /\ ~ (j < m)
        BY <3>1, <3>5
      <4>2. DOMAIN data.parts \subseteq Nat
        BY <2>1
      <4> QED
        BY <3>5, <4>1, <4>2
    <3>7. cpu[c] = [slot |-> multiboot, part |-> m, fresh |-> TRUE]
      BY <1>2, <2>1, <3>3, <3>4 DEF Releases, Released
    <3> QED
      BY <3>6, <3>7
  <2> QED
    BY <2>2, <2>3
<1>3. BootInv => ExitComplete
  BY <1>1, <1>2 DEF ExitComplete
<1> QED
  BY <1>3, BootInvariant, PTL

\* A restart of the APU alone loads and releases nothing for the RPU, the PMU or the PL.
THEOREM ApuRestartAloneAlways == Spec => []ApuRestartAlone
<1>1. ASSUME BootInv, data.reset = "apu", stage \in Loading \cup {"exited"}
      PROVE  /\ \A i \in loaded : data.parts[i].cpu \in Apu
             /\ \A k \in DOMAIN data.table : data.table[k].cpu \in Apu
                                             /\ data.table[k].part \in loaded
  <2>1. Types /\ Loads /\ TableOK
    BY <1>1 DEF BootInv, Loads
  <2>2. \A i \in loaded : data.parts[i].cpu \in Apu
    BY <1>1, <2>1 DEF TableOK, Skipped
  <2>3. \A k \in DOMAIN data.table : data.table[k].cpu \in Apu /\ data.table[k].part \in loaded
    BY <1>1, <2>1, EntryFacts
  <2> QED
    BY <2>2, <2>3
<1>2. BootInv => ApuRestartAlone
  BY <1>1 DEF ApuRestartAlone
<1> QED
  BY <1>2, BootInvariant, PTL

\* With no fault and no reset from outside the search ends at the first sound image:
\* none is passed over, and the image that is started is one the definition of soundness,
\* which knows nothing of the stages, accepts.
THEOREM FirstSoundAlways == Spec => []FirstSound
<1>1. ASSUME BootInv, data.reset = "system", stage = "exited", Booted.second = PpdSame
      PROVE  Sound(multiboot)
  <2>1. /\ Types /\ Loads /\ Releases /\ Booted.table
        /\ multiboot \in Slots /\ Booted \in Images /\ data.parts = Booted.parts
        /\ data.parts \in Seq(PartitionType)
        /\ \A i \in DOMAIN data.parts : Done(i)
        /\ \A k \in DOMAIN data.table : Accepted(data.table[k])
    BY <1>1, OwnParts DEF BootInv, Releases
  <2>2. Booted # NoImage
    BY <2>1, FsblAssumption
  <2>3. \A i \in DOMAIN data.parts : data.parts[i].sum
    BY <2>1 DEF Done
  <2>4. ASSUME NEW i \in DOMAIN data.parts, data.parts[i].owner = "fsbl"
        PROVE  data.parts[i].valid
    BY <1>1, <2>1, <2>4 DEF Done, Skipped
  <2>5. ASSUME NEW i \in DOMAIN data.parts, data.parts[i].owner = "fsbl",
               data.parts[i].place # "pl", Dest(data.parts[i]) \in Cpus,
               \A j \in DOMAIN data.parts :
                 data.parts[j].owner = "fsbl" /\ j < i =>
                   data.parts[j].place = "pl" \/ Dest(data.parts[j]) # Dest(data.parts[i])
        PROVE  /\ Dest(data.parts[i]) = Self => data.parts[i].aa64
               /\ Dest(data.parts[i]) # Self => Dest(data.parts[i]) \in Supported
    <3>1. PICK c : c = Dest(data.parts[i])
      OBVIOUS
    <3>2. Mine(i, c) /\ \A j \in DOMAIN data.parts : j < i => ~ Mine(j, c)
      BY <1>1, <2>5, <3>1 DEF Mine, Skipped
    <3>3. PICK k \in DOMAIN data.table : data.table[k].cpu = c
      BY <2>1, <2>5, <3>1, <3>2 DEF Done, Mine
    <3>4. PICK m : m = data.table[k].part
      OBVIOUS
    <3>5. /\ m \in DOMAIN data.parts /\ Mine(m, c)
          /\ \A j \in DOMAIN data.parts : j < m => ~ Mine(j, c)
          /\ data.table[k].aa64 = data.parts[m].aa64
      BY <1>1, <2>1, <3>3, <3>4, EntryFacts
    <3>6. m = i
      <4>1. m \in Nat /\ i \in Nat /\ ~ (i < m) /\ ~ (m < i)
        BY <2>1, <3>2, <3>5
      <4> QED
        BY <4>1
    <3> QED
      BY <2>1, <3>1, <3>3, <3>5, <3>6 DEF Accepted
  <2>6. \A i : Dest(data.parts[i]) = Self => Dest(data.parts[i]) \in Cpus
    BY DEF Self, Cpus, Apu
  <2>7. PICK parts : parts = data.parts
    OBVIOUS
  <2>8. flash[multiboot].parts = parts
    BY <2>1, <2>7 DEF Booted
  <2>9. /\ flash[multiboot] # NoImage /\ flash[multiboot].table
        /\ flash[multiboot].second = PpdSame
    BY <1>1, <2>1, <2>2 DEF Booted
  <2> QED
    BY <2>3, <2>4, <2>5, <2>6, <2>7, <2>8, <2>9 DEF Sound
<1>2. BootInv => FirstSound
  BY <1>1 DEF BootInv, Quiet, FirstSound, Booted
<1> QED
  BY <1>2, BootInvariant, PTL

\* The types: the hand-off table keeps to one entry a CPU, so that the index of the
\* hand-off stays behind it, and the multiboot register stays within one of the slots.
THEOREM TypeCorrect == Spec => []TypeOK
<1>1. Cardinality(Cpus) = 3
  <2>1. Cpus = {"a53_0", "a53_1", "r5_0"}
    BY DEF Cpus, Apu
  <2>2. IsFiniteSet({}) /\ Cardinality({}) = 0
    BY FS_EmptySet
  <2>3. IsFiniteSet({"a53_0"}) /\ Cardinality({"a53_0"}) = 1
    BY FS_Singleton
  <2>4. IsFiniteSet({"a53_0", "a53_1"}) /\ Cardinality({"a53_0", "a53_1"}) = 2
    <3>1. {"a53_0", "a53_1"} = {"a53_0"} \cup {"a53_1"} /\ "a53_1" \notin {"a53_0"}
      OBVIOUS
    <3> QED
      BY <2>3, <3>1, FS_AddElement
  <2>5. Cardinality({"a53_0", "a53_1", "r5_0"}) = 3
    <3>1. /\ {"a53_0", "a53_1", "r5_0"} = {"a53_0", "a53_1"} \cup {"r5_0"}
          /\ "r5_0" \notin {"a53_0", "a53_1"}
      OBVIOUS
    <3> QED
      BY <2>4, <3>1, FS_AddElement
  <2> QED
    BY <2>1, <2>5
<1>2. ASSUME NEW d \in Section PROVE DataOK(d)
  BY <1>2 DEF Section, DataOK, Entries, Slots
<1>3. ASSUME BootInv PROVE TypeOK
  <2>1. LoaderInv /\ Types /\ Place /\ Loads /\ Releases
    BY <1>3 DEF BootInv
  <2>2. DataOK(data) /\ DataOK(dup)
    BY <1>2, <2>1, FreshIs DEF Types
  <2>3. Len(data.table) <= Cardinality(Cpus) /\ index \in 1 .. Cardinality(Cpus) + 1
    BY <1>1, <2>1 DEF Loads, Releases, Types
  <2>4. {bitten, wdt, wdtReady} \subseteq BOOLEAN
    BY <2>1 DEF Types, LoaderInv, Fields
  <2> QED
    BY <2>1, <2>2, <2>3, <2>4 DEF Types, Place, TypeOK, Stages, Runs
<1> QED
  BY <1>3, BootInvariant, PTL
================================================================================
