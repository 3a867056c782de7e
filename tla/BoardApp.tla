------------------------------- MODULE BoardApp -------------------------------
(***************************************************************************)
(* The board application (boe_factory_test/src/main.c with led.c and       *)
(* axu_connector.c): one bare-metal loop that fetches a request from the   *)
(* message pool, runs the test it names to completion, and answers.  While *)
(* a test runs nobody drains the receive FIFO.                             *)
(*                                                                         *)
(* The pool is the bounded queue that MsgPool implements: `stored' holds   *)
(* at most Capacity requests, and each msg_pool_fetch first moves the      *)
(* frames of the FIFO there, losing those that find it full.  The tests    *)
(* themselves are other modules' matter: here a test takes some time and   *)
(* returns 0 or 1.  pl_net_test is the exception, it shares the FIFO.      *)
(*                                                                         *)
(* A request has an id, the identity of the call that made it (history,    *)
(* the program cannot see it): a pid can be the same for two requests.     *)
(***************************************************************************)
EXTENDS Naturals, Sequences

CONSTANTS Capacity,    \* messages the pool holds, MSG_POOL_SPACE - 1 = 5
          InboxDepth,  \* bound: frames the receive FIFO can hold
          MaxFrames,   \* bound: requests the stations of Spec ever send
          Commands     \* bound: the commands the stations of Spec use

VARIABLES inbox,       \* receive side of the AXI-stream FIFO
          rxEvent,     \* its receive-complete bit in the interrupt status
          stored,      \* the message pool
          pc,          \* where main is
          req,         \* the request the loop works on
          ret,         \* `ret' of mainloop
          result,      \* the verdict the LEDs will show, 0 is good
          bLoop,
          led,         \* the LEDs that are lit
          outbox,      \* frames sent, oldest first, on the wire to the host ...
          txHeld,      \* ... but for the last txHeld, still in the transmit FIFO
          ran,         \* history: <<request id, command, return value>> of tests
          frames       \* history: requests sent by the stations of Spec

boardVars == <<inbox, rxEvent, stored, pc, req, ret, result, bLoop, led, outbox, txHeld,
               ran>>
vars == <<boardVars, frames>>

Tests == {"SD_TEST", "FLASH_TEST", "DRAM_TEST", "ECC_TEST"}
AllCommands == Tests \cup {"NET_TEST", "CONNECT", "RESULT", "FINISH", "unknown"}
LED_ALL == 1 .. 4

ASSUME BoardAssumption == /\ Capacity \in Nat \ {0}
                          /\ InboxDepth \in Nat \ {0}
                          /\ MaxFrames \in Nat
                          /\ Commands \subseteq AllCommands

NoReq == [magic |-> "none", cmd |-> "none", pid |-> 0, id |-> 0, data |-> 0]

\* The frame pl_net_test sends: a buffer that holds no package.
Stray == [magic |-> "none", cmd |-> "none", pid |-> 0, id |-> 0, of |-> "none"]

--------------------------------------------------------------------------------
BoardInit == /\ inbox = <<>> /\ rxEvent = FALSE /\ stored = <<>>
             /\ pc = "boot" /\ req = NoReq /\ ret = 0
             /\ result = 0 /\ bLoop = TRUE /\ led = {}
             /\ outbox = <<>> /\ txHeld = 0 /\ ran = {}

\* Hardware: a frame from the bridge enters the receive FIFO.
Arrive(m) == /\ Len(inbox) < InboxDepth
             /\ inbox' = Append(inbox, m)
             /\ rxEvent' = TRUE
             /\ UNCHANGED <<stored, pc, req, ret, result, bLoop, led, outbox, txHeld, ran>>

\* The frames sent that have left the board.
Left == SubSeq(outbox, 1, Len(outbox) - txHeld)

\* Hardware: the oldest frame of the transmit FIFO leaves for the host.
Transmit == /\ txHeld > 0
            /\ txHeld' = txHeld - 1
            /\ UNCHANGED <<inbox, rxEvent, stored, pc, req, ret, result, bLoop, led,
                           outbox, ran>>

\* XLlFifo_CfgInitialize resets both sides of the FIFO, so that what has not been
\* fetched and what has not left is gone; IntClear clears its bits.
ResetFifo == /\ inbox' = <<>> /\ rxEvent' = FALSE
             /\ outbox' = Left /\ txHeld' = 0

\* msg_pool_init up to the check of the interrupt status.
Boot == /\ pc = "boot"
        /\ ResetFifo
        /\ pc' = "bootCheck"
        /\ UNCHANGED <<stored, req, ret, result, bLoop, led, ran>>

\* A bit set since then (a frame came in between) makes FifoInit fail, and main
\* returns.
BootFailed == /\ pc = "bootCheck"
              /\ rxEvent
              /\ pc' = "dead"
              /\ UNCHANGED <<inbox, rxEvent, stored, req, ret, result, bLoop, led,
                             outbox, txHeld, ran>>

\* The system is up: the first LED.
BootDone == /\ pc = "bootCheck"
            /\ ~ rxEvent
            /\ led' = {1}
            /\ pc' = "loop"
            /\ UNCHANGED <<inbox, rxEvent, stored, req, ret, result, bLoop, outbox, txHeld, ran>>

\* Seeded fault: the pool takes everything the FIFO holds.
DrainedAll == stored \o inbox

\* Seeded fault: new frames go in front of the old ones.
DrainedSwapped == LET all == inbox \o stored
                  IN  IF Len(all) <= Capacity THEN all ELSE SubSeq(all, 1, Capacity)

\* What msg_pool_fetch finds in the pool once FifoReceive has drained the FIFO:
\* frames beyond its capacity are gone.
Drained == LET all == stored \o inbox
           IN  IF Len(all) <= Capacity THEN all ELSE SubSeq(all, 1, Capacity)

Fetch == /\ pc = "loop" /\ bLoop
         /\ Drained # <<>>
         /\ req' = Head(Drained)
         /\ stored' = Tail(Drained)
         /\ inbox' = <<>>
         /\ pc' = "dispatch"
         /\ UNCHANGED <<rxEvent, ret, result, bLoop, led, outbox, txHeld, ran>>

\* package_check fails: no answer.
BadMagic == /\ pc = "dispatch"
            /\ req.magic # "MAGIC"
            /\ ret' = 1
            /\ pc' = "loop"
            /\ UNCHANGED <<inbox, rxEvent, stored, req, result, bLoop, led, outbox, txHeld, ran>>

\* package_check succeeded and sets ret to 0; the branch for the command follows.
Dispatch(cmds) == /\ pc = "dispatch"
                  /\ req.magic = "MAGIC"
                  /\ req.cmd \in cmds
                  /\ ret' = 0

Connect == /\ Dispatch({"CONNECT"})
           /\ led' = {1, 2}
           /\ pc' = "reply"
           /\ UNCHANGED <<inbox, rxEvent, stored, req, result, bLoop, outbox, txHeld, ran>>

SetResult == /\ Dispatch({"RESULT"})
             /\ result' = req.data
             /\ pc' = "reply"
             /\ UNCHANGED <<inbox, rxEvent, stored, req, bLoop, led, outbox, txHeld, ran>>

Finish == /\ Dispatch({"FINISH"})
          /\ bLoop' = FALSE
          /\ pc' = "reply"
          /\ UNCHANGED <<inbox, rxEvent, stored, req, result, led, outbox, txHeld, ran>>

\* No branch matches: ret is still 0, so the answer will be RET_SUCCES.
UnknownCommand == /\ Dispatch({"unknown"})
                  /\ pc' = "reply"
                  /\ UNCHANGED <<inbox, rxEvent, stored, req, result, bLoop, led,
                                 outbox, txHeld, ran>>

\* ffs_sd_test, flashtest, memtest or at508_test starts ...
StartTest == /\ Dispatch(Tests)
             /\ pc' = "test"
             /\ UNCHANGED <<inbox, rxEvent, stored, req, result, bLoop, led, outbox, txHeld, ran>>

\* Seeded fault: the value of the test is not stored in ret.
EndTestLost(r) == /\ pc = "test"
                  /\ ran' = ran \cup {<<req.id, req.cmd, r>>}
                  /\ pc' = "reply"
                  /\ UNCHANGED <<inbox, rxEvent, stored, req, ret, result, bLoop,
                                 led, outbox, txHeld>>

\* ... and returns.
EndTest(r) == /\ pc = "test"
              /\ ret' = r
              /\ ran' = ran \cup {<<req.id, req.cmd, r>>}
              /\ pc' = "reply"
              /\ UNCHANGED <<inbox, rxEvent, stored, req, result, bLoop, led, outbox, txHeld>>

\* Seeded fault: the net test empties the message pool as well.
StartNetTestClears == /\ Dispatch({"NET_TEST"})
                      /\ ResetFifo
                      /\ stored' = <<>>
                      /\ pc' = "netTest"
                      /\ UNCHANGED <<req, result, bLoop, led, ran>>

\* pl_net_test initialises the FIFO the message pool reads from: what it holds
\* is lost.
StartNetTest == /\ Dispatch({"NET_TEST"})
                /\ ResetFifo
                /\ pc' = "netTest"
                /\ UNCHANGED <<stored, req, result, bLoop, led, ran>>

\* It fails at once when a frame came in before its status check.  Otherwise it
\* sends a frame and waits, without a limit, until that has left; then it takes
\* the oldest frame of the FIFO, whoever it is for, and succeeds when that is
\* the pattern it compares with, which no request is.
EndNetTest == /\ pc = "netTest"
              /\ \/ /\ rxEvent
                    /\ ret' = 1
                    /\ UNCHANGED <<inbox, outbox>>
                 \/ /\ outbox' = Append(outbox, Stray)
                    /\ IF inbox = <<>> THEN ret' = 1 /\ UNCHANGED inbox
                       ELSE /\ inbox' = Tail(inbox)
                            /\ ret' \in IF Head(inbox).magic = "MAGIC" THEN {1} ELSE {0, 1}
              /\ ran' = ran \cup {<<req.id, req.cmd, ret'>>}
              /\ pc' = "reply"
              /\ UNCHANGED <<rxEvent, stored, req, result, bLoop, led, txHeld>>

\* make_package copies magic and pid from the request; whether msg_pool_txsend
\* succeeds is not looked at.
Reply == /\ pc = "reply"
         /\ outbox' = Append(outbox,
                        [magic |-> req.magic, pid |-> req.pid, id |-> req.id,
                         cmd |-> IF ret = 0 THEN "RET_SUCCES" ELSE "RET_FAILED",
                         of |-> req.cmd])
         /\ txHeld' = txHeld + 1
         /\ pc' = "loop"
         /\ UNCHANGED <<inbox, rxEvent, stored, req, ret, result, bLoop, led, ran>>

\* The loop has ended: ledSuccess or ledFailed, neither returns.
ShowVerdict == /\ pc = "loop" /\ ~ bLoop
               /\ pc' = IF result = 0 THEN "ledSuccess" ELSE "ledFailed"
               /\ led' = LED_ALL
               /\ UNCHANGED <<inbox, rxEvent, stored, req, ret, result, bLoop,
                              outbox, txHeld, ran>>

Blink == /\ pc \in {"ledSuccess", "ledFailed"}
         /\ led' = LED_ALL \ led
         /\ UNCHANGED <<inbox, rxEvent, stored, pc, req, ret, result, bLoop, outbox, txHeld, ran>>

\* The operator switches the board off and on, or puts the next one in: what is
\* on the wire stays there.
PowerCycle == /\ inbox' = <<>> /\ rxEvent' = FALSE /\ stored' = <<>>
              /\ pc' = "boot" /\ req' = NoReq /\ ret' = 0
              /\ result' = 0 /\ bLoop' = TRUE /\ led' = {}
              /\ outbox' = Left /\ txHeld' = 0
              /\ UNCHANGED ran

\* The steps the processor takes without waiting for a test.
LoopStep == \/ Boot \/ BootFailed \/ BootDone
            \/ Fetch \/ BadMagic \/ Connect \/ SetResult \/ Finish
            \/ UnknownCommand \/ StartTest \/ StartNetTest
            \/ Reply \/ ShowVerdict \/ Blink

EndAnyTest == (\E r \in {0, 1} : EndTest(r)) \/ EndNetTest

BoardStep == LoopStep \/ EndAnyTest

--------------------------------------------------------------------------------
(***************************************************************************)
(* The board on a wire with stations that send anything at any time.       *)
(***************************************************************************)
Request(cmd, mag, d) == [magic |-> mag, cmd |-> cmd, pid |-> frames + 1,
                         id |-> frames + 1, data |-> d]

Station == /\ frames < MaxFrames
           /\ \E cmd \in Commands, mag \in {"MAGIC", "other"}, d \in {0, 1} :
                 /\ mag = "other" => cmd = "unknown"
                 /\ d = 1 => cmd = "RESULT"
                 /\ Arrive(Request(cmd, mag, d))
           /\ frames' = frames + 1

Init == BoardInit /\ frames = 0

Next == \/ Station
        \/ (BoardStep \/ Transmit) /\ UNCHANGED frames

Spec == Init /\ [][Next]_vars

\* The processor runs.  Nothing is assumed of the tests, which may wait for a chip
\* or for the link without a limit, nor of the link.
FairSpec == Spec /\ WF_vars(LoopStep /\ UNCHANGED frames)

--------------------------------------------------------------------------------
RequestType == [magic : {"MAGIC", "other", "none"}, cmd : AllCommands \cup {"none"},
                pid : 0 .. MaxFrames, id : 0 .. MaxFrames, data : {0, 1}]

TypeOK == /\ inbox \in Seq(RequestType) /\ Len(inbox) <= InboxDepth
          /\ stored \in Seq(RequestType) /\ Len(stored) < Capacity
          /\ rxEvent \in BOOLEAN /\ bLoop \in BOOLEAN
          /\ pc \in {"boot", "bootCheck", "dead", "loop", "dispatch", "test",
                     "netTest", "reply", "ledSuccess", "ledFailed"}
          /\ req \in RequestType
          /\ ret \in {0, 1} /\ result \in {0, 1}
          /\ led \subseteq LED_ALL
          /\ txHeld \in 0 .. Len(outbox)

\* Answers leave in the order the requests arrived, and no request is answered
\* twice, whatever is dropped, reset or left unanswered between them.
AnswersInOrder ==
  \A i, j \in 1 .. Len(outbox) :
    i < j /\ "none" \notin {outbox[i].of, outbox[j].of} => outbox[i].id < outbox[j].id

\* The answer to a test command reports what the test returned for that very
\* request, with the request read again through the pointer and `ret' as it is
\* when make_package runs.
AnswersHonest ==
  \A i \in 1 .. Len(outbox) :
    LET m == outbox[i]
    IN  m.of \in Tests \cup {"NET_TEST"} =>
          <<m.id, m.of, IF m.cmd = "RET_SUCCES" THEN 0 ELSE 1>> \in ran

\* What AcceptedAnswered asks of the bench: no test blocks for ever, and the link
\* takes what it is given.
TestsReturn == []<>(pc \notin {"test", "netTest"})
LinkTakes == []<>(txHeld = 0)

\* The answer to request n has left the board.
HasLeft(n) == \E i \in 1 .. Len(Left) : Left[i].id = n

\* A net test for a later request has begun: its reset of the FIFO takes along
\* an answer that has not left.
NetTestAfter(n) == \/ pc = "netTest" /\ req.id > n
                   \/ \E t \in ran : t[1] > n /\ t[2] = "NET_TEST"

\* A request the pool has accepted is answered, and the answer leaves, or FINISH
\* came first, or a later net test: a net test does not reach what the pool holds.
AcceptedAnswered ==
  TestsReturn /\ LinkTakes =>
    \A n \in 1 .. MaxFrames :
      (\E i \in 1 .. Len(stored) : stored[i].id = n /\ stored[i].magic = "MAGIC")
        ~> HasLeft(n) \/ NetTestAfter(n) \/ ~ bLoop
================================================================================
