# Factory test of the BOE board: TLA+ models, checks and proofs

The repository builds the factory test of a Zynq board. A host program asks the
board, over raw Ethernet frames, to test its parts one after the other; the board
runs each test, answers, and finally shows a verdict on its LEDs. This directory
models the programs that carry that logic, and the boot loader that starts the board's,
model-checks them with TLC on small instances, and proves the central properties of the
protocol, the message pool, the main loop, the tests it runs and the boot loader with
TLAPS for every value of their parameters.

## 1. Inventory

| Part | Code | State it keeps | Operations |
|---|---|---|---|
| Host program | `factory_test/ftest.c`, `rs.c` | next pid, `result`, exit code, the socket | `_do` (send one request, wait for one frame with a time limit, judge it), `main` (connect, three tests, RESULT after a failure, FINISH), the raw socket |
| Board main loop | `boe_factory_test/src/main.c`, `led.c`, `axu_connector.c` | `result`, `bLoop`, `ret`, the LEDs | boot, fetch, dispatch, reply, verdict |
| Message pool | `community.c` | ring of 6 slots, `r_pos`, `w_pos`, the receive FIFO | `FifoReceive`, push, fetch with a timeout |
| Transmit path | `community.c` | transmit FIFO, transmit-complete bit | `FifoSend`, `msg_pool_txsend` |
| PL Ethernet test | `pl_eth_test.c` | the same FIFO, the two data buffers | reset, send, receive, compare |
| Flash test | `flashtest.c` | two QSPI chips, the selected chip, write enable, address mode, the busy bit | read id, enter 4-byte mode, erase, write, read, compare |
| Memory test | `memorytest.c`, `xil_testmem.c` | three memory ranges, the data cache | walking ones and a 16-bit counter for each range |
| SD test | `sdtest.c` | FatFs volume | mount, open, write, read, compare |
| Secure element test | `atca_test.c`, `libatca/` | device state, reference-counted I2C bus, command packet | wake, execute with polling, idle, sleep |
| Boot loader | `boe_factory_fsbl` | boot stage, `FsblInstance` and its saved copy, watchdog, error status and multiboot registers | initialise, load partitions, hand the CPUs over, fall back to the next image |
| Board support package | `boe_factory_fsbl_bsp` | drivers | vendor code, used by the others |
| Hardware description | `boe_factory` | - | generated |

How they interact. Host and board share nothing but the link. On the board a frame
goes from the bridge into an AXI-stream FIFO (hardware, concurrent with the
program), from there into the ring when the main loop calls `msg_pool_fetch`, and
from the ring, *by pointer*, to the main loop. There is one thread of control: while a
test runs (up to a minute) nobody drains the FIFO. The answer goes word by word into
the transmit side, whose completion is a sticky status bit.

What is hard: the host starts numbering its requests at 0 in every run and an
answer with the wrong number counts as success; tests that outlast the host's time
limit answer into a later call; lost frames, power cycles and interrupted host runs;
frames arriving between any two statements of the board; a pointer into a slot that
already counts as free; one FIFO used by the pool and by the net test; polling loops
with and without a limit.  `PROJECT.json` lists each hazard at its line.

What makes each part correct, in a sentence:

- *message pool*: a bounded FIFO queue that loses frames only when full, and the
  message being worked on is never overwritten;
- *transmit path*: an answer is cut short only when a backlog leaves it no room, calls
  return, and the first success means sent;
- *flash test*: no command is lost on a busy chip, success means the data were
  written by this very test, nothing outside the test sectors is touched, the chips
  are left in the address mode they were found in, and the test returns;
- *main loop*: answers in order, honest, and one for every accepted request, unless FINISH
  or a net test comes first;
- *the protocol as a whole*: "success" on the terminal means the board has run that
  test for this run and it passed, the LEDs agree with it, and the run ends.
- *Ethernet test*: it should succeed when the frame it has sent comes back;
- *memory test*: a sound board passes, and no board passes with a fault in what the test
  covers, whatever the data cache does;
- *secure element*: the reference count of the bus equals its users, a test succeeds on
  the answer to its own command, and it returns;
- *boot loader*: it hands over one complete image or none, finds the first image that is
  sound, never waits without the watchdog behind it, does not load again what hung, and
  a restart of the APU leaves the other processors alone.

## 2. Modules

| Module | Models | Checked with |
|---|---|---|
| `MsgQueue` | abstract: what the pool promises its caller | as a property of `MsgPool` |
| `MsgPool` | `community.c`, receiving side | `MsgPool.cfg` |
| `MsgPoolProofs`, `FifoTxProofs`, `BoardAppProofs`, `FlashProofs`, `BoardTestsProofs`, `FsblProofs` | theorems about the module each is named after | `tlapm` |
| `FactoryProofs`, `FactoryFaultProofs` | theorems about `FactoryProtocol`: while time limits hold, and under the other faults | `tlapm` |
| `FifoTx` | `community.c`, sending side | `FifoTx.cfg` |
| `BoardApp` | `main.c`, with the pool as the queue `MsgPool` implements | `BoardApp.cfg` |
| `FactoryProtocol` | `ftest.c` over `rs.c`, composed with an instance of `BoardApp` | `FactoryTimely.cfg`, `FactoryOverrun.cfg`, `FactoryStale.cfg` |
| `FlashTest`, `MCFlash` | `flashtest.c` with the chips behind it; `MCFlash` holds the boards | `FlashTest.cfg`, `FlashSpansion.cfg` |
| `SecureElement` | `atca_test.c` and what it reaches of `libatca/`, with the chip | in `BoardTests` |
| `NetTest` | `pl_eth_test.c` with the FIFO and the link | in `BoardTests` |
| `MemTest` | `memorytest.c`, two subtests of `xil_testmem.c`, with memory and cache | in `BoardTests` |
| `BoardTests`, `MCBoardTests` | `main.c`'s dispatch, composing the three; `MCBoardTests` holds the orders of requests | `BoardTests.cfg`, `BoardTestsNet.cfg` |
| `Fsbl`, `MCFsbl` | `boe_factory_fsbl/src` from one reset to the next; `MCFsbl` holds the images | `Fsbl.cfg`, `FsblFallback.cfg` |

How state and actions correspond to the code:

- **MsgPool.** `pool`, `r_pos`, `w_pos` are the fields of `MsgPool`; `rxFifo` is the
  receive side of the AXI-stream FIFO, in whole frames; `pack` is the pointer
  `msg_pool_fetch` returned. One turn of `FifoReceive`'s loop is one step (`PushFrame`
  or `PushFailed`), one `usleep` of fetch is `Sleep`, and `Arrive` happens between any
  two of them. A frame is assumed to fit the package it is copied into (256 bytes;
  `FifoReceive` takes the length from the FIFO, `community.c:152-166`), as every frame of the
  host does. `held` and `dropped` are history. `msg_pool_release` is left out: its
  test accepts no slot and nobody calls it.
- **MsgQueue** knows only a wire and a bounded queue. `MsgPool` refines it with
  `wire <- rxFifo`, `queue <- Pending` (the slots from `r_pos` up to `w_pos`) and
  `Capacity <- Space - 1`.
- **FifoTx.** A step is one word written, one length written, or one poll. `ret` is the
  value of `msg_pool_txsend`, whose map 0 to `XST_SUCCESS` and anything else to 1 is
  part of the actions. `Transmit` is the hardware, `vacancy` the register that
  `XLlFifo_iTxVacancy` reads: a word written takes one off, a frame that leaves gives its
  words back. The caller does not look at what waits: it calls again after a call that has
  given up, so that answers pile up on a stalled link and words find no room. What the
  hardware makes of a frame shorter than its length is not modelled beyond its words.
- **BoardApp.** `Boot`, `BootFailed`, `BootDone` are `main` up to the loop, `Fetch` to
  `Reply` one turn of `mainloop`, `Finish` and `ShowVerdict` its end. A test is two
  steps, so that frames arrive while it runs. `ran` is history: which request ran which
  test with what value. `outbox` is the frames sent; the last `txHeld` of them are still in
  the transmit FIFO, and `Transmit` takes one off. The net test starts with a reset of both
  sides of the FIFO (`ResetFifo`, `xllfifo.c:362-370`), which drops those and what waits to be
  received. It ends when its own frame has left, which may be never, and may succeed on a
  frame that is no request. The module has both a closed specification (`Spec`, any
  stations, any requests) and the parts `FactoryProtocol` composes (`BoardInit`,
  `BoardStep`, `Arrive`).
- **FactoryProtocol.** `hpc`/`step`/`gpid`/`hresult`/`hret` are the host's control state
  and globals, `sock` the socket's buffer. `_do` is `SendRequest` followed by one of
  `ReadAnswer`, `Timeout`, `SocketError`; what `main` makes of its value is `Return`,
  part of the same step since nothing happens in between. A request carries an `id`
  (run and pid) that only the properties look at, because a pid alone is ambiguous:
  that ambiguity is what the module is about.
- **FlashTest.** A step is one transfer to the chips. Addresses count chip pages of 256
  bytes. `cs` is the selected chips, `fct` the entry of `Flash_Config_Table` that
  `FCTIndex` points to. The chips (write enable, address mode, busy, contents) are
  modelled from their data sheets as far as the code's commands go. The number of the
  test that wrote a page is history: the program writes the same pattern in every test.
- **SecureElement.** A step is one addressed I2C transfer or one check. `device` is
  `_gDevice # NULL`, `refs` the count of `hal_i2c_bitbang.c` and `pins` what `i2c_enable`
  and `i2c_disable` have left; `retries` and `polls` are the two loops around a receive.
  `packet` stands for `packet->data`, a buffer on the stack: "unread" until a receive has
  written it. The chip goes to sleep of its own accord, and may die.
- **NetTest.** `dest` is `DestinationBuffer`, kept over calls: it is also what `TxSend`
  sends. The poll for completion is a step that is enabled only when the bit is set.
- **MemTest.** A step is one load or store. `range`, `j` and `at` are the loop variables;
  `Load` and `Store` go through a write-back cache for the ranges that are cached. A board
  has at most one fault: a bad cell, or an address line that makes two locations one.
- **BoardTests.** Instances of the three modules side by side, one request at a time. The
  hardware of each goes on while another test runs.
- **Fsbl.** `stage` and `part` are `FsblStage` and `PartitionNum` of `main`, `data` is
  `FsblInstance` (in `.data`, and therefore saved in `dup` and restored), `wdtReady` the
  `IsReady` word of the driver instance (in `.bss`, and therefore cleared by every
  start: `IsStarted` lies there too, so that `XWdtPs_CfgInitialize`, which refuses an instance
  that is started (`xwdtps.c:108`), accepts it in a restart of the APU while the hardware
  counts). Stage 1 and stage 2 are one action each, stage 3 one action for each partition,
  stage 4 one for the configuration, one for each CPU and one for the exit. `boot`, `flash`,
  `multiboot` and `errReg` survive a reset. `cpu`, `pl`, `loaded` and `hung` are history.

Operators introduced by "Seeded fault:" in a comment are not part of any
specification. Each is a plausible bug in the definition that follows it, and has been
used in place of it to see that a property notices.

## 3. Runs

| Run | Instance | Shows |
|---|---|---|
| `msg_pool` | 3 slots, 3 frames in the FIFO, 7 frames, timeout 1 ms; 1 050 states | a message in use is never overwritten; the ring is a bounded FIFO queue; every frame is handed out or dropped |
| `fifo_tx` | messages of 1-4 words, buffer 3, FIFO 6, 2 polls, 4 calls; 5 068 states | a word is passed over only behind answers that leave no room for one of full length; the first send after `FifoInit` is confirmed only once it has left; calls return although the link may stall for ever |
| `board_app` | pool of 2, FIFO of 2, 4 requests of 6 commands from any station; 361 233 states | answers keep the order of requests and report what the test returned, the net test's reset of the FIFO included; if tests return and the link takes what is sent, the answer to an accepted request leaves, unless FINISH or a later net test comes first |
| `factory_timely` | 3 runs; loss, power cycles, early starts; 220 671 states | while the time limits hold, a claimed success is a test of this run that passed, and there is never more than one message between the programs |
| `factory_overrun` | 2 runs; time limits that may pass early, socket errors, interrupted runs; 725 133 states | a first run's claims are true even then; the LEDs agree with the run that ended the loop; a finished run leaves a verdict; every run ends |
| `stale_answer` | 2 runs, early time limits | **violated**: a late answer of the first run, with the pid the second run expects, is success of the second |
| `flash_test` | 6 boards in three modes, 2 tests, 2 pages, a chip that may break at any moment; 17 505 states | no command meets a busy chip; a good board passes; only the test sectors are touched; 3-byte mode is restored; a first success is true; the test returns |
| `flash_spansion_parallel` | two 256 Mbit Spansion chips in parallel | **violated**: a board without a fault fails |
| `board_tests` | sequences of two or three tests, two faults on the I2C bus, two frames of other stations, two memory ranges of 5 locations, one of them cached; 306 150 states | the bus is counted right over failed tests; the serial number is the answer to this test's command; the Ethernet test passes only on another station's frame; the memory test finds what it is bound to find; every test returns, two waits excepted |
| `net_test_own_frame` | the same | **violated**: with a loopback plug the Ethernet test's own frame comes back and the test fails |
| `fsbl` | 2 slots, 9 images, 4 boot modes, 3 faults or resets; 198 508 states | what is handed over is complete and of one image; a restart of the APU touches only the APU; the watchdog covers every wait; a loader past stage 1 starts the application or has the system reset; the first sound image is found; an image that hung is not loaded again; the search ends |
| `fsbl_fallback` | the same, 2 faults | **violated**: the fallback of an error in stage 1 ends in an assertion, and no reset follows |

### Bounds, and why they are enough

- *Ring size 3, 7 frames*: both positions wrap twice, the ring becomes full and empty at
  every offset, and a frame is dropped while a message is in use. The theorems of
  section 5 cover all sizes.
- *FIFO words*: 6 words and messages of at most 3 stand for 2048 and 100. Two answers of
  full length fill the FIFO, so that with four calls the third and fourth find some room,
  or none. In the system the host waits for each answer, so answers pile up only if the link
  stalls on one side while requests come in on the other.
- *Four requests for the board*: one in work, one in the pool, one in the FIFO, one that
  finds both full. `Capacity` 2 instead of 5 makes a full pool reachable.
- *Two and three runs*: an answer can come one run late; after FINISH the board answers
  no more, so that what a third run could add is only a power cycle in between.
  `InboxDepth` 12 holds every request of two runs, so the hardware loses none itself.
- *16 MB as 16 pages, sectors of 4 pages, 2 test pages*: enough for the range to lie in
  each of the chips of a stacked board, for sector arithmetic to matter, and for the
  three-byte cut at 16 MB; `AddressByte` 8 instead of 256 only says where a misread
  address lands.
- *Two slots, nine images*: the image to be passed over and the one to be found, in both
  orders, and none. The images have every kind of partition, a CPU with two, a refused
  header of each kind, and a second device that is right and one that is not. Three faults
  make a watchdog reset, a restart of the APU and an error in one behaviour. Three slots
  with two faults were explored too.
- *Three tests in a row*: the second meets what the first has left, the third what a
  failed second has; `RxRetries` 2 and `MaxPolls` 1 stand for 20 and 1000, since only the
  first, a middle and the last attempt differ. `NetTest` needs three calls: one to receive
  the pattern, one to send it, one to get it back.
- *Memory of 5 locations*, 4 of them counted over, 2 walked over, values modulo 3: two
  locations a multiple of the counter's range apart, a fault outside what is covered, and
  a cache of 2 that holds some of a loop's writes and not others.

`CHECK_DEADLOCK FALSE` stands where the program or the bench may really stop: no more
calls or runs are made, or the board has left `main` after a failed boot.

### Fairness

- One processor, no operating system, no interrupts: a step of the program that can be
  taken is taken. `FifoTx`: a call once begun goes on (`Software`); `FlashTest` likewise.
- `MsgPool`: a `msg_pool_fetch` once called goes on (`Fetching`). That the main loop calls
  it again is not assumed, since it does not after FINISH (`main.c:77-80`) or while a test
  blocks; `EveryFrameSettled` has it as a hypothesis, `KeepsFetching`. After FINISH frames do
  stay where they are.
- `BoardApp`: only the steps of the loop itself are fair (`LoopStep`). That a test returns is
  not, for the net test polls without a limit (`pl_eth_test.c:187`) and so does the flash test;
  nor that the link takes what is sent. `AcceptedAnswered` has both as hypotheses,
  `TestsReturn` and `LinkTakes`.
- Nothing is assumed of the link in `MsgPool`, `FifoTx` and the safety properties.
- `FactoryProtocol`: the host runs, `RSSelect`'s time limit passes if nothing comes, the
  tests it asks for end (`BoardStep`; the host never asks for the net test), and the link takes
  what the board sends (`Transmit`) and delivers what it does not lose (`Deliver`). No
  operator action and no fault is fair.
- `FlashTest`: a chip ends the operation it has begun.
- `BoardTests`: the processor runs (`BoardStep`); a cache makes room (`CacheStep`); a link
  that is up transmits (`Transmits`). The chip need not answer: the polls have a limit.
- `Fsbl`: the loader runs, and a watchdog that counts and that nobody restarts expires
  (`WatchdogBites` while the loader stands still). Faults and outside resets are not
  fair, and there are finitely many of them: `Settles` is about what follows the last.

## 4. Where code and text disagree

- `ftest.c:27`: every run of the host counts its pids from 0 again, so that an answer which
  comes after its time limit has the pid of a request of the next run. In run `stale_answer`
  the second run reads the late answers to the first run's CONNECT (pid 0) and RESULT (pid
  1) as those to its own CONNECT and memory test, and ftest prints "memtest success."
  (`ftest.c:199`) for a test that has not run. The comparison of the pids at `ftest.c:131`
  passes there. That `_do` returns success for any other pid as well (`ftest.c:144`) is a
  second gap; closing it alone would not exclude this run.
- `flashtest.c:1701`: the bank register is written before both chips are selected,
  although parallel mode is said to be supported (`flashtest.c:400`). Run
  `flash_spansion_parallel`.
- `pl_eth_test.c:127`: the test sends `DestinationBuffer`, where lines 71-73 announce "Transmit
  the data / Receive the data from fifo / Compare the data" and the pattern has been put into
  `SourceBuffer`. With a loopback plug the test's own frame comes back and the test fails. Run
  `net_test_own_frame`. What its success tells instead, that another station has sent the
  pattern, is `PassIsForeign`. `RxReceive` does not wait for a frame.
- `xfsbl_main.c:453`, "In Fallback, soft reset is applied to the system after incrementing the
  multiboot register": `XFsbl_FallBack` first stops the watchdog (`xfsbl_main.c:470`), and
  that asserts a driver instance that stage 2 sets up, so after an error of stage 1 the loader
  loops in the assertion. Run `fsbl_fallback`. The same happens after the error of
  `XFsbl_ResetValidation`, where `xfsbl_initialization.c:581` says "reset is due to System WDT"
  and "Do a fallback"; the watchdog is off by then, so only a reset from outside ends it. After
  an error in a restart of the APU the register is moved on, but the loader loops
  (`xfsbl_main.c:536`), and the next reset from outside boots another image. TLC finds each of
  these two, too, when the property is restricted to it. `FallsBack` states what the code does
  achieve: past stage 1, and but for a restart of the APU, the loader starts the application
  or the system is reset.

Seen while modelling, described with the hazards and without a run of their own:
the transmit-complete bit is never cleared after `FifoInit` (`community.c:123`), though
`xllfifo.h:548` says it has to be, so that from the second send on "Transmission Complete"
(`community.c:132`) is about an earlier frame, and a send that gives up is not looked at;
`FifoSend` skips words that find no room and gives the full length all the same
(`community.c:113`), though `xllfifo.c:234` asks for the number of words just written;
`Test` (`flashtest.c:340`), meant to make the patterns unique (`flashtest.c:336`), never
changes, so that a chip which has stopped erasing and writing passes a second test on the
data of the first (`FirstTestHonest` is about the first); `msg_pool_txsend` returns 1 for a timeout where its comment says 2
(`community.c:304`); a 128 Mbit part makes the flash test erase sector 0
(`flashtest.c:202`), and so does a chip that cannot be identified beside one that can
(`flashtest.c:747`); two indices of ISSI parts lie behind the table (`flashtest.c:671`);
the upper Micron chip of a parallel pair gets its mode command without write enable
(`flashtest.c:1664`, against the comment at 1627); the second chip's id is not read,
against the comment at 595; the status polls have no limit (`flashtest.c:1046`);
`result` survives an interrupted run of the host (`main.c:75`).

In the tests of `BoardTests`:

- `memorytest.c:48` and the text it prints say "This application runs with D-Cache
  disabled"; nothing disables it. It matters for `psu_ddr_0`, which is cached: there
  `Verdict` promises no fault to be found. Line 46 promises to "test memory ranges present
  in the hardware design", but only 32 MB of each are touched, and the counter repeats
  every 128 KB.
- `atca_execution.c:353` overwrites what receiving has returned, and the size test above it
  is of a field that no receive writes: when all polls have failed, the checksum of stale
  stack contents decides. `AnswerOwn` excepts that case.
- `atca_test.c:17` ignores the status of `atcab_init`; a failed test leaves its device
  (`atca_test.c:21`), which is harmless since the next one releases it (`BusMatchesUsers`).
  `i2c_send_ack` waits for the data line without a limit (`i2c_bitbang_boe.c:200`).

In the boot loader:

- `xfsbl_initialization.c:1036`, "For file system based devices, Flash Offset Address should
  be 0 always": with QSPI as first and SD as second device it keeps the offset of the
  first. The same lines compare a partition present device with boot mode numbers; the two
  enumerations agree for SD1 only.
- `xfsbl_image_header.c:256` tests the partition present device with a condition nothing
  can fulfil. `xfsbl_main.c:435`, "Be in while loop if fallback is not supported": the
  watchdog goes on counting, so the board is reset into the same image for ever
  (`Settles` is stated for the other modes).
- A partition without a destination CPU counts as the loader's own (`xfsbl_image_header.c:652`),
  but a restart of the APU has left it out before (`ExitComplete`, by `For`).

## 5. Proofs

`MsgPoolProofs` proves, for every ring of at least two slots, every timeout, FIFO depth
and number of frames (`PoolAssumption`; a ring of one slot could hold nothing):

- `TypeCorrect`: `Spec => []TypeOK`;
- `HeldStaysIntact`: `Spec => []HeldIntact`;
- `RefinesQueue`: `Spec => ImplementsQueue`.

*HeldIntact* says that the slot behind the pointer still holds the message handed out,
and is not inductive: from a state in which the pointer happens to be at `w_pos` a push
would break it. The invariant that is, is
`PoolInv == TypeOK /\ HeldIntact /\ HeldBehindReader`, where `HeldBehindReader` places
the pointer one slot before `r_pos`. Then, if the pointer were at `w_pos`, the ring would
be full by its own test and nothing be pushed (`PushMissesHandedOut`). So the slot
that "full" leaves empty is what protects the message; the code does not say so.

*The refinement* rests on three facts about the ring as a sequence: `Pending` has fewer
than `Space` elements and is as long as possible exactly when the full test holds
(`CountFacts`), a push appends to it (`PushAppends`), and handing out takes its head
(`HandOutTakes`). The remainder is computed once, in `NextSlot` and `FullTest`, after
which `%` is not expanded any more. `FactoryProtocol` and `BoardApp` rely on this
theorem when they use a bounded queue in place of the ring.

`FifoTxProofs` proves, for every depth of the FIFO, buffer, set of lengths, patience and number
of calls (`FifoAssumption`):

- `TypeCorrect`: `Spec => []TypeOK`;
- `WordLostOnlyInBacklogAlways`: `Spec => WordLostOnlyInBacklog`;
- `FirstSendHonestAlways`: `Spec => []FirstSendHonest`.

`FifoSend` passes over a word that finds no room. *WordLostOnlyInBacklog* says that this takes
so many frames in the FIFO that, at full length, one more would not fit: it rests on how many
words all frames in the FIFO have together, while some of them leave. The prover cannot reason about a sum over a sequence. `RoomInv` says
instead that there *is* a function of prefix sums (`PrefixSums`) whose last value, the words
not yet in a frame and the vacancy add up to the depth (`Balance`): each step yields the next
function from the one before, and no induction is needed. The sums differ by at most one
buffer for each frame, which bounds them by `Len(queue) * BufWords`; with no vacancy the FIFO is
these words and those of the message being written (`NoRoomMeansBacklog`). For
`FirstSendHonest`: up to the first call the transmit-complete bit can only have been set by
that call's frame.

`BoardAppProofs` proves, for every pool, FIFO, set of commands and number of requests
(`BoardAssumption`; the commands are among those of `axu_connector.h`):

- `TypeCorrect`: `Spec => []TypeOK`, with the sizes of pool and FIFO as bounds;
- `AnswersHonestAlways`: `Spec => []AnswersHonest`;
- `AnswersInOrderAlways`: `Spec => []AnswersInOrder`.

The second needs `RetIsFresh`: at the answer to a test command `ret` is that test's value and
not one left from the turn before. The third needs where a request can be: `OrderInv` says
that those in the pool came before those in the FIFO, the one in work before all of them, and
the answered ones before that, which no loss, drop or reset of the FIFO disturbs, on its transmit side either.

`FactoryProofs` proves, for every number of runs and every size of pool and FIFO
(`FactoryAssumption`), when `Faults` are among loss, power cycles and early starts
(`Timely`, a hypothesis of both theorems):

- `SuccessMeansTestedAlways`: `Spec => []SuccessMeansTested`;
- `OneOutstandingAlways`: `Spec => []OneOutstanding`.

A late answer with another pid would be taken for a success, so the argument has to say
where every message is and whose. `StopAndWait` counts them: one while the host waits,
none otherwise, where the queues of a board that listens no more do not count
(`Outstanding`); `Belongs` says that the one there is - request, request in work, answer on
the wire or in the socket - carries the number of the call under way, and an answer
"success" to a test that the test has passed; `Numbered` ties the pid to the step of `main`.
Every way a call ends leaves nothing behind: a read takes the one message, and a time
limit that holds passes only when there is none. With early time limits the second of
these fails, and the run `stale_answer` shows what follows.

`FactoryFaultProofs` proves what survives when time limits pass early, reads fail and runs are
interrupted:

- `TypeCorrect`: `Spec => []TypeOK`, under every fault. It bounds the pid by the calls a run
  makes (`HostFields`) and says that the pool has room when a request is in work (`Sizes`);
- `FirstRunHonestAlways`: `Spec => []FirstRunHonest`, under every fault;
- `LightsMatchRunAlways`: `Spec => []LightsMatchRun`, when `Faults` are among early time limits,
  failed reads and interruptions, and the pool has at least three slots to fill (it has five).

`FirstInv` reuses the invariant of `FactoryProofs`: the first run is in step with the board until
its first failure (`InStep`), because every way to lose step is a failure, and after a failure
it claims nothing more. For the LEDs the messages of several runs have to be followed. A run
fails at most once and then sends RESULT and FINISH without looking at the answers. `LightsInv`
says that the messages of the first run stand in front of all others and are at most three
(`InFront`: what failed, RESULT, FINISH, which is why the pool must hold three: with room for
two TLC finds a RESULT dropped and the wrong LED lit), that at any FINISH of the first run the board knows of
its failure or will when it comes to it (`ResultKnown`, `FailedHost`), that a run that ended has a
FINISH on its way, or the loop has already ended with its own (`FinishAhead`), and that when the
loop has ended `result` is the verdict (`LoopEnd`, `Current`). A lost RESULT with a FINISH that
arrives breaks it (the hazard at `ftest.c:227`).

`FlashProofs` proves, for every number of pages, sectors, sizes and calls, and chips that may
break at any moment (`FlashAssumption`; `BoardsAssumption`: the two chips of a board are of one
kind, which `Flash_Config_Table` knows):

- `TypeCorrect`, `NoCommandWhileBusyAlways`, `FirstTestHonestAlways`: `Spec =>` `[]TypeOK`,
  `[]NoCommandWhileBusy`, `[]FirstTestHonest`, for every board of the table;
- `ModeRestoredAlways`: `Spec => []ModeRestored`, but for stacked 32 MB chips of Spansion;
- `OutsideUntouchedAlways`, `HealthyPassesAlways`: `Spec => []OutsideUntouched`,
  `Spec => []HealthyPasses`, for boards with 64 or 128 MB chips which, in parallel mode, are
  Macronix's (`RangeFits`).

*NoCommandWhileBusy* follows from `BusyInv`: a chip is busy only while the driver waits, and then
it is among those it waits for. *FirstTestHonest* needs that a page which compares to the
pattern in the first test was written in it, on both chips (`WrittenInv`, `MatchWritten`).
*ModeRestored* needs which chips a mode command reaches: those selected before it, which are not
the chips it is meant for with Spansion; `ModeInv` says that what enters the mode reaches only
chips that are made to leave it, which is wrong for the pair excepted. *OutsideUntouched* adds
where the next transfer goes (`Where`) and that the chips of the range are in 4-byte mode
while it goes there (`ModeOn`); the arithmetic, once for each of the three geometries, is in
lemmas (`GoodShape` and those after it): the sectors `NumSect` erases are those of the range.
*HealthyPasses* adds what the range holds page by page (`Content`, `RangeHolds`).

The hypotheses are there because the properties fail without them. With every board of the table
checked on its own at the bounds of `flash_test`, *OutsideUntouched* fails for every 16 MB part and
for single 32 MB parts, for which `TEST_ADDRESS` is address 0, and for Spansion's and Micron's
chips in parallel, since the upper chip does not enter the mode; *HealthyPasses* fails for
32 MB chips of these two stacked, and for 32 MB and more of them in parallel. Beyond the
theorems the first was found to hold for stacked 32 MB chips, the second for the 16 MB parts
and the single 32 MB parts, both for pairs of ISSI's, whose test stops at the entry behind the
table, and `ModeRestored` for the pair it excepts, where no test succeeds.

`BoardTestsProofs` proves, for every sequence of tests, number of retries, polls, faults and
frames, every size of the ranges, and whatever the other tests do in between
(`BoardTestsAssumption`):

- `BusMatchesUsersAlways`: `Spec => []BusMatchesUsers`, from `ElementInv`;
- `AnswerOwnAlways`: `Spec => []AnswerOwn`, from `ElementInv`;
- `PassIsForeignAlways`: `Spec => []PassIsForeign`, from `NetInv`;
- `VerdictAlways`: `Spec => []Verdict`, from `MemInv`;
- `TypeCorrect`: `Spec => []TypeOK`.

*AnswerOwn* rests on `LateAnswerGone`: the wake-up reply is read into four bytes, where an answer
has no room, so that a chip that still holds an earlier answer makes the wake-up fail, and
from the command on the only answer it can hold is the own one. *PassIsForeign* rests on where
the pattern can be: until a station has sent it, in no buffer and in no frame of the board's
own. *Verdict* rests on what a location reads as, in the cache or not: on a sound board every
location holds what the loop under way, or the one before, has written to it (`Sound`); with a
fault that must be found the cell in question has the value of the last location that reaches
it, so that the loop that reads does not get past it (`Found`).

`FsblProofs` proves, for every set of images, number of slots, set of boot modes and of
CPUs, and number of faults (`FsblAssumption`; an image with a valid table has a partition, as
`xfsbl_image_header.c:278` demands):

- `WatchdogCoversAlways`: `Spec => []WatchdogCovers`;
- `HungNotRerunAlways`: `Spec => []HungNotRerun`;
- `ExitCompleteAlways`: `Spec => []ExitComplete`;
- `ApuRestartAloneAlways`: `Spec => []ApuRestartAlone`;
- `FirstSoundAlways`: `Spec => []FirstSound`;
- `TypeCorrect`: `Spec => []TypeOK`.

None of them is inductive. The first two come from one invariant over the life of a run of the
loader, `LoaderInv`: `Fields` (the records keep their fields), `Before` (until stage 2 the
watchdog driver is not ready, and no partition is known in a run that began with a reset of
the system), `During` (from the first partition on the watchdog counts and the driver is
ready, but in JTAG mode), `After` (an exited loader has stopped it) and `Recognised` (while
an image in which the loader hung is in the multiboot register, the reset that followed
still shows the watchdog as its cause and the error status register still says "running",
so stage 1 cannot be left but through the error path). The last part ties together three
registers that different stages write; none of the code's comments states it.

The others need the way of an image through the loader, `BootInv`: what the section `.data`
holds once the headers are read, or if nobody has read them (`Headed`); that the hand-off
table names for each CPU the first of its partitions, which is loaded, and that what the loader
has passed is done (`Loads`, by `TableOK` and `Done`); that the entries dealt with have
released their CPU (`Releases`); what a reset of the PS or of the APU leaves of the PL and
of the RPU (`Kept`), without which a loader that skips them could not claim that they are
complete; and that without a fault only an image that is not sound is passed over (`Quiet`).

Only model-checked: all liveness (`EveryFrameSettled`, `SendReturns`, `AcceptedAnswered`,
`VerdictShown`, `HostTerminates`, `TestReturns`, `TestsReturn`, `FallsBack`, `Settles`), which
TLAPS cannot prove from fairness. Every invariant, the action property and the refinement that
the passing runs check are stated by a theorem. The four properties the code violates stay
with their runs.

## 6. Not modelled

- What frames contain beyond command, pid, magic and data; printing; the host's file
  `rs.c` beyond send, wait and read.
- `selftest` of `main.c`, `make_package_sd_test` and `make_package_net_test` of
  `ftest.c`, register access and bulk and die erase of `flashtest.c`: unreachable.
- Transfer errors of the flash controller: a polled transfer refuses only while another
  is under way, and there is one thread. A power cycle inside a flash test.
- Boards with a dead data line are excepted from three properties of `FlashTest`, each
  at its definition: the code misbehaves there as section 4 says.
- SD card test: a straight line of library calls that the host never requests.
- `libatca` beyond what reading the serial number reaches: its other commands, discovery,
  sleep, the host-side cryptography and the unit tests have no caller.
- In `NetTest`, frames longer than the 64 bytes of its buffers; in `MsgPool`, frames longer than
  the 256 bytes of a package. The code does not check either length.
- What the transmit FIFO sends when a frame has fewer words than its length says.
- In `Fsbl`: early hand-off, switched off in `xfsbl_config.h`; authentication and
  decryption, which appear as a check of a partition that succeeds or fails; the
  loader on an R5; DFU over USB; the transfers of the QSPI, SD and NAND drivers, which
  appear as success or failure; the register values that `psu_init` writes.
- Vendor code (drivers, FatFs, lwip) and generated code, except where the modules above use
  it. That is also where nearly all lines of the repository are: five generated
  `psu_init` files, register headers (most of them twice, under `include/` and
  `libsrc/`), and libraries linked whole and used in part. They hold constants and
  straight-line register writes, or no code that this program reaches, so that the share
  of lines a model stands for is small although the program's own logic is modelled.

## 7. Plan

1. *Proofs*: `OutsideUntouched` for the boards on which it was found to hold beyond
   `RangeFits` (stacked 32 MB chips); `LightsMatchRun` with early starts. An abstract
   specification of the protocol as the operator sees it (a run reports each test once, and
   the LEDs tell the end), and the refinement proved under the hypotheses of `FactoryProofs`.
2. *Models*: a power cycle inside a flash test, and `FlashTest` composed with the loader,
   which boots from the same chips.
