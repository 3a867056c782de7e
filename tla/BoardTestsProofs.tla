---------------------------- MODULE BoardTestsProofs ----------------------------
(***************************************************************************)
(* Theorems about the three tests of BoardTests, for every sequence of     *)
(* requests, every number of retries, polls, faults and frames and every   *)
(* size of the memories, and whatever the other tests do in between.       *)
(***************************************************************************)
EXTENDS BoardTests, TLAPS

\* The answer to the command of the test that runs now.
Own == [kind |-> "answer", of |-> test]

Chips == [awake : BOOLEAN, busy : BOOLEAN,
          reply : {"none", "wake", "error", "answer"}, of : Nat]

\* What the stack of the test holds, from the wake-up token to the verdict.
PacketKnown ==
    /\ sePc \in {"token", "wakeRead", "send", "poll"} => packet = SE!Unread
    /\ sePc = "check" =>
         packet \in {SE!Unread, Own} \/ packet.kind \in {"wake", "error", "garbled"}
    /\ sePc \in {"idle", "return"} /\ status = SE!ATCA_SUCCESS =>
         packet \in {SE!Unread, Own}

\* A late answer is too long to be read as a wake-up: once the command goes out
\* the chip holds none, and the next one it holds is of this test.
LateAnswerGone ==
    /\ sePc = "send" => chip.reply # "answer"
    /\ sePc = "poll" /\ chip.reply = "answer" => chip.of = test

ElementInv == /\ sePc \in {"off", "token", "wakeRead", "send", "poll", "check", "idle",
                           "return", "hung"}
              /\ chip \in Chips
              /\ test \in Nat
              /\ sePc # "off" => seRet = SE!None
              /\ BusMatchesUsers /\ AnswerOwn
              /\ PacketKnown /\ LateAnswerGone

--------------------------------------------------------------------------------
\* What the chip's own steps, and waking it, can make of it.
LEMMA ChipStates ==
  ASSUME NEW c \in Chips
  PROVE  /\ SE!Asleep \in Chips /\ SE!Asleep.reply = "none"
         /\ [SE!Asleep EXCEPT !.awake = TRUE, !.reply = "wake"] \in Chips
         /\ \A b \in BOOLEAN :
              /\ [c EXCEPT !.busy = b] \in Chips
              /\ [c EXCEPT !.busy = b].reply = c.reply
              /\ [c EXCEPT !.busy = b].of = c.of
  BY DEF Chips, SE!Asleep

LEMMA ElementInit == Init => ElementInv
  BY DEF Init, SE!Init, Chips, SE!Asleep, SE!Failure, SE!None, SE!ATCA_SUCCESS, ElementInv,
     BusMatchesUsers, SE!BusMatchesUsers, AnswerOwn, SE!AnswerOwn, PacketKnown,
     LateAnswerGone

\* A new test begins: what the last one left is released.
LEMMA CallKeeps ==
  ASSUME ElementInv, SE!Call
  PROVE  ElementInv'
<1> USE DEF ElementInv, SE!Call
<1>1. BusMatchesUsers'
  BY DEF SE!AtcabInit, BusMatchesUsers, SE!BusMatchesUsers
<1>2. AnswerOwn'
  BY DEF AnswerOwn, SE!AnswerOwn, SE!None, SE!ATCA_SUCCESS
<1>3. PacketKnown' /\ LateAnswerGone'
  BY DEF PacketKnown, LateAnswerGone
<1> QED
  BY <1>1, <1>2, <1>3

\* Waking the chip and reading its reply: four bytes have no room for an answer.
LEMMA WakeKeeps ==
  ASSUME ElementInv, SE!WakeToken \/ SE!WakeRead
  PROVE  ElementInv'
<1> USE DEF ElementInv
<1>1. /\ device' = device /\ refs' = refs /\ pins' = pins
      /\ seRet' = seRet /\ test' = test /\ packet' = packet
      /\ sePc # "off" /\ sePc' \in {"wakeRead", "send", "idle"}
      /\ sePc' = "idle" => status' = SE!Failure
  BY DEF SE!WakeToken, SE!WakeRead, SE!InTransfer, SE!bus
<1>2. chip' \in Chips
  BY ChipStates DEF SE!WakeToken, SE!WakeRead, SE!InTransfer
<1>3. sePc' = "send" => chip'.reply # "answer"
  BY DEF SE!WakeToken, SE!WakeRead, SE!InTransfer, SE!Received, SE!FrameSize
<1>4. BusMatchesUsers' /\ AnswerOwn'
  BY <1>1 DEF BusMatchesUsers, SE!BusMatchesUsers, AnswerOwn, SE!AnswerOwn
<1>5. PacketKnown'
  BY <1>1 DEF PacketKnown, SE!WakeToken, SE!WakeRead, SE!Failure, SE!ATCA_SUCCESS
<1>6. LateAnswerGone'
  BY <1>1, <1>3 DEF LateAnswerGone
<1> QED
  BY <1>1, <1>2, <1>4, <1>5, <1>6

LEMMA SendKeeps ==
  ASSUME ElementInv, SE!Send
  PROVE  ElementInv'
<1> USE DEF ElementInv
<1>1. /\ device' = device /\ refs' = refs /\ pins' = pins
      /\ seRet' = seRet /\ test' = test /\ packet' = packet
      /\ sePc = "send" /\ sePc' \in {"poll", "idle"}
      /\ sePc' = "idle" => status' = SE!Failure
  BY DEF SE!Send, SE!bus
<1>2. chip' \in Chips
  BY DEF SE!Send, Chips
<1>3. sePc' = "poll" /\ chip'.reply = "answer" => chip'.of = test
  BY DEF SE!Send, Chips
<1>4. BusMatchesUsers' /\ AnswerOwn'
  BY <1>1 DEF BusMatchesUsers, SE!BusMatchesUsers, AnswerOwn, SE!AnswerOwn
<1>5. PacketKnown'
  BY <1>1 DEF PacketKnown, SE!Failure, SE!ATCA_SUCCESS
<1>6. LateAnswerGone'
  BY <1>1, <1>3 DEF LateAnswerGone
<1> QED
  BY <1>1, <1>2, <1>4, <1>5, <1>6

LEMMA PollKeeps ==
  ASSUME ElementInv, SE!Poll \/ SE!AckStuck
  PROVE  ElementInv'
<1> USE DEF ElementInv
<1>1. /\ device' = device /\ refs' = refs /\ pins' = pins
      /\ seRet' = seRet /\ test' = test /\ chip' = chip
      /\ sePc # "off" /\ sePc' \in {"poll", "check", "hung"}
      /\ sePc' # "hung" => sePc = "poll"
  BY DEF SE!Poll, SE!AckStuck, SE!InTransfer, SE!bus, SE!PollsOver
<1>2. \/ packet' = packet
      \/ packet' = Own
      \/ packet'.kind \in {"wake", "error", "garbled"}
      \/ sePc' = "hung"
  <2>1. CASE SE!AckStuck
    BY <2>1 DEF SE!AckStuck
  <2>2. CASE SE!Poll
    <3>1. CASE UNCHANGED packet
      BY <3>1
    <3>2. ASSUME NEW kind \in {"wake", "error", "garbled", "answer"},
                 NEW of \in 0 .. test,
                 SE!Received(35, [kind |-> kind, of |-> of]),
                 packet' = [kind |-> kind, of |-> of]
          PROVE  packet' = Own \/ packet'.kind \in {"wake", "error", "garbled"}
      <4>1. sePc = "poll"
        BY <2>2 DEF SE!Poll
      <4>2. kind = "answer" => chip.reply = "answer" /\ of = chip.of
        BY <3>2 DEF SE!Received
      <4> QED
        BY <3>2, <4>1, <4>2 DEF LateAnswerGone, Own
    <3> QED
      BY <2>2, <3>1, <3>2 DEF SE!Poll
  <2> QED
    BY <2>1, <2>2
<1>3. sePc' = "poll" => packet' = packet
  BY DEF SE!Poll, SE!AckStuck, SE!PollsOver
<1>4. BusMatchesUsers' /\ AnswerOwn'
  BY <1>1 DEF BusMatchesUsers, SE!BusMatchesUsers, AnswerOwn, SE!AnswerOwn, SE!None,
     SE!ATCA_SUCCESS
<1>5. PacketKnown'
  BY <1>1, <1>2, <1>3 DEF PacketKnown, Own
<1>6. LateAnswerGone'
  BY <1>1 DEF LateAnswerGone
<1> QED
  BY <1>1, <1>4, <1>5, <1>6

\* The verdict: an error frame, a wake-up and a garbled frame are refused.
LEMMA CheckKeeps ==
  ASSUME ElementInv, SE!Check
  PROVE  ElementInv'
<1> USE DEF ElementInv
<1>1. /\ device' = device /\ refs' = refs /\ pins' = pins
      /\ seRet' = seRet /\ test' = test /\ packet' = packet /\ chip' = chip
      /\ sePc = "check" /\ sePc' = "idle"
  BY DEF SE!Check, SE!bus
<1>2. status' = SE!ATCA_SUCCESS => packet.kind \notin {"wake", "error", "garbled"}
  BY DEF SE!Check, SE!CheckCrc, SE!IsError, SE!ATCA_SUCCESS, SE!Failure
<1>3. BusMatchesUsers' /\ AnswerOwn'
  BY <1>1 DEF BusMatchesUsers, SE!BusMatchesUsers, AnswerOwn, SE!AnswerOwn
<1>4. PacketKnown'
  BY <1>1, <1>2 DEF PacketKnown, Own
<1>5. LateAnswerGone'
  BY <1>1 DEF LateAnswerGone
<1> QED
  BY <1>1, <1>3, <1>4, <1>5

LEMMA AtIdleKeeps ==
  ASSUME ElementInv, SE!AtIdle
  PROVE  ElementInv'
<1> USE DEF ElementInv
<1>1. /\ device' = device /\ refs' = refs /\ pins' = pins
      /\ seRet' = seRet /\ test' = test /\ packet' = packet /\ status' = status
      /\ sePc = "idle" /\ sePc' = "return"
      /\ chip' \in {chip, SE!Asleep}
  BY DEF SE!AtIdle, SE!bus
<1>2. chip' \in Chips
  BY <1>1, ChipStates
<1>3. BusMatchesUsers' /\ AnswerOwn'
  BY <1>1 DEF BusMatchesUsers, SE!BusMatchesUsers, AnswerOwn, SE!AnswerOwn
<1>4. PacketKnown' /\ LateAnswerGone'
  BY <1>1 DEF PacketKnown, LateAnswerGone, Own
<1> QED
  BY <1>1, <1>2, <1>3, <1>4

\* A success releases the device, a failure leaves it to the next test.
LEMMA ReturnKeeps ==
  ASSUME ElementInv, SE!Return
  PROVE  ElementInv'
<1> USE DEF ElementInv, SE!Return
<1>1. device /\ refs = 1 /\ pins
  BY DEF BusMatchesUsers, SE!BusMatchesUsers
<1>2. BusMatchesUsers'
  <2>1. CASE SE!AtcabRelease
    <3>1. refs' = 0 /\ device' = FALSE
      BY <1>1, <2>1 DEF SE!AtcabRelease
    <3>2. ~(refs' > 0)
      BY <3>1
    <3>3. ~pins'
      BY <2>1, <3>2 DEF SE!AtcabRelease
    <3> QED
      BY <3>1, <3>3 DEF BusMatchesUsers, SE!BusMatchesUsers
  <2>2. CASE UNCHANGED SE!bus
    BY <1>1, <2>2 DEF SE!bus, BusMatchesUsers, SE!BusMatchesUsers
  <2> QED
    BY <2>1, <2>2
<1>3. AnswerOwn'
  BY DEF PacketKnown, Own, AnswerOwn, SE!AnswerOwn
<1>4. PacketKnown' /\ LateAnswerGone'
  BY DEF PacketKnown, LateAnswerGone
<1> QED
  BY <1>2, <1>3, <1>4

\* The chip on its own only finishes, falls asleep or dies: no answer appears.
LEMMA ChipKeeps ==
  ASSUME ElementInv, SE!Chip
  PROVE  ElementInv'
<1> USE DEF ElementInv
<1>1. /\ device' = device /\ refs' = refs /\ pins' = pins /\ sePc' = sePc
      /\ seRet' = seRet /\ test' = test /\ packet' = packet /\ status' = status
      /\ chip' \in {chip, SE!Asleep, [chip EXCEPT !.busy = FALSE]}
  BY DEF SE!Chip, SE!ChipDone, SE!ChipSleeps, SE!ChipDies, SE!bus
<1>2. /\ chip' \in Chips
      /\ chip'.reply = "answer" => chip.reply = "answer" /\ chip'.of = chip.of
  BY <1>1, ChipStates
<1>3. BusMatchesUsers' /\ AnswerOwn'
  BY <1>1 DEF BusMatchesUsers, SE!BusMatchesUsers, AnswerOwn, SE!AnswerOwn
<1>4. PacketKnown' /\ LateAnswerGone'
  BY <1>1, <1>2 DEF PacketKnown, LateAnswerGone, Own
<1> QED
  BY <1>1, <1>2, <1>3, <1>4

\* What the other tests and their hardware do does not reach the secure element.
LEMMA ElsewhereKeeps ==
  ASSUME ElementInv, UNCHANGED seVars
  PROVE  ElementInv'
  BY DEF seVars, ElementInv, BusMatchesUsers, SE!BusMatchesUsers, AnswerOwn,
     SE!AnswerOwn, PacketKnown, LateAnswerGone, Own

LEMMA ElementStep == ElementInv /\ [Next]_vars => ElementInv'
<1> SUFFICES ASSUME ElementInv, [Next]_vars
             PROVE  ElementInv'
  OBVIOUS
<1>1. CASE StartEcc
  BY <1>1, CallKeeps DEF StartEcc
<1>2. CASE SeStep
  BY <1>2, WakeKeeps, SendKeeps, PollKeeps, CheckKeeps, AtIdleKeeps, ReturnKeeps
     DEF SeStep, SE!Software
<1>3. CASE ChipStep
  BY <1>3, ChipKeeps DEF ChipStep
<1>4. CASE StartNet \/ StartDram \/ NetStep \/ MemStep \/ LinkStep \/ CacheStep
  BY <1>4, ElsewhereKeeps DEF StartNet, StartDram, NetStep, MemStep, LinkStep, CacheStep
<1>5. CASE UNCHANGED vars
  BY <1>5, ElsewhereKeeps DEF vars
<1> QED
  BY <1>1, <1>2, <1>3, <1>4, <1>5 DEF Next, BoardStep

--------------------------------------------------------------------------------
\* The reference count of the I2C bus is right over any sequence of tests, those
\* that fail and leave the device behind included.
THEOREM BusMatchesUsersAlways == Spec => []BusMatchesUsers
<1>1. ElementInv => BusMatchesUsers
  BY DEF ElementInv
<1> QED
  BY <1>1, ElementInit, ElementStep, PTL DEF Spec

\* No test succeeds on the late answer to an earlier one, however many polls and
\* retries there are and whatever goes wrong on the bus.
THEOREM AnswerOwnAlways == Spec => []AnswerOwn
<1>1. ElementInv => AnswerOwn
  BY DEF ElementInv
<1> QED
  BY <1>1, ElementInit, ElementStep, PTL DEF Spec

--------------------------------------------------------------------------------
(***************************************************************************)
(* The Ethernet test.                                                      *)
(***************************************************************************)
Frames == [data : NT!Data, full : BOOLEAN, foreign : BOOLEAN]

\* Until another station's pattern has come into the buffer, the pattern is nowhere the
\* test has written to or sent: it only waits in frames of other stations.
NetInv ==
    /\ NT!TypeOK
    /\ netRet = NT!XST_SUCCESS => foreign
    /\ ~ foreign => /\ "pattern" \notin {dest, tx, wire}
                    /\ \A i \in DOMAIN rx : rx[i].data = "pattern" => rx[i].foreign

LEMMA NoFrames ==
  ASSUME NEW s, s = <<>>
  PROVE  s \in Seq(Frames) /\ Len(s) <= RxDepth /\ \A i \in DOMAIN s : FALSE
  BY BoardTestsAssumption

LEMMA NetInit == Init => NetInv
<1> SUFFICES ASSUME Init
             PROVE  NetInv
  OBVIOUS
<1>1. rx = <<>>
  BY DEF Init, NT!Init
<1>2. rx \in Seq(Frames) /\ Len(rx) <= RxDepth /\ \A i \in DOMAIN rx : FALSE
  BY <1>1, NoFrames
<1>3. NT!TypeOK
  <2>1. frames \in 0 .. MaxFrames
    BY BoardTestsAssumption DEF Init, NT!Init
  <2>2. NT!Init
    BY DEF Init
  <2> QED
    BY <1>2, <2>1, <2>2 DEF NT!Init, NT!TypeOK, NT!Data, NT!Nothing, NT!None,
       NT!XST_SUCCESS, NT!XST_FAILURE, Frames
<1> QED
  BY <1>2, <1>3 DEF Init, NT!Init, NetInv, NT!Nothing, NT!None, NT!XST_SUCCESS

\* A frame comes in: it is stored behind the others, or lost.
LEMMA ArrivesKeeps ==
  ASSUME rx \in Seq(Frames), Len(rx) <= RxDepth, NEW f \in Frames, NT!Arrives(f)
  PROVE  /\ rx' \in Seq(Frames) /\ Len(rx') <= RxDepth /\ event' = TRUE
         /\ \A i \in DOMAIN rx' : rx'[i] = f \/ (i \in DOMAIN rx /\ rx'[i] = rx[i])
<1>1. /\ rx' = IF Len(rx) < RxDepth THEN Append(rx, f) ELSE rx
      /\ event' = TRUE /\ RxDepth \in Nat
  BY BoardTestsAssumption DEF NT!Arrives
<1>2. CASE rx' = rx
  BY <1>1, <1>2
<1>3. CASE rx' = Append(rx, f) /\ Len(rx) < RxDepth
  BY <1>1, <1>3
<1> QED
  BY <1>1, <1>2, <1>3

LEMMA NetKeeps ==
  ASSUME NetInv, NT!Call \/ NT!Software \/ NT!Net
  PROVE  NetInv'
<1> USE DEF NT!XST_SUCCESS, NT!XST_FAILURE, NT!None
<1>1. CASE NT!Call
  <2>1. rx' = <<>>
    BY <1>1 DEF NT!Call
  <2>2. rx' \in Seq(Frames) /\ Len(rx') <= RxDepth /\ \A i \in DOMAIN rx' : FALSE
    BY <2>1, NoFrames
  <2>3. NT!TypeOK'
    BY <1>1, <2>2 DEF NetInv, NT!Call, NT!TypeOK, Frames
  <2> QED
    BY <1>1, <2>2, <2>3 DEF NetInv, NT!Call, NT!Nothing
<1>2. CASE NT!CheckStatus \/ NT!TxSend \/ NT!TxDone
  BY <1>2 DEF NetInv, NT!CheckStatus, NT!TxSend, NT!TxDone, NT!TypeOK
<1>3. CASE NT!RxReceive
  <2>1. CASE rx = <<>>
    BY <1>3, <2>1 DEF NetInv, NT!RxReceive, NT!TypeOK
  <2>2. CASE rx # <<>>
    <3> DEFINE f == Head(rx)
    <3>1. rx \in Seq(Frames) /\ Len(rx) <= RxDepth /\ RxDepth \in Nat
      BY BoardTestsAssumption DEF NetInv, NT!TypeOK, Frames
    <3>2. rx' = Tail(rx)
      BY <1>3, <2>2 DEF NT!RxReceive
    <3>3. /\ f = rx[1] /\ 1 \in DOMAIN rx /\ f \in Frames
          /\ rx' \in Seq(Frames) /\ Len(rx') <= RxDepth
          /\ \A i \in DOMAIN rx' : i + 1 \in DOMAIN rx /\ rx'[i] = rx[i + 1]
      BY <2>2, <3>1, <3>2
    <3>4. /\ foreign' = (foreign \/ (f.foreign /\ dest' = "pattern"))
          /\ dest' = IF f.full \/ f.data = dest THEN f.data ELSE "other"
          /\ netRet' = 0 => dest' = "pattern"
          /\ netRet' \in {0, 1} /\ netPc' = "off"
          /\ UNCHANGED <<link, tx, wire, event, tc, frames>>
      BY <1>3, <2>2 DEF NT!RxReceive, NT!Matches
    <3> HIDE DEF f
    <3>5. dest' = "pattern" => foreign'
      BY <3>3, <3>4 DEF NetInv
    <3>6. NT!TypeOK'
      BY <3>3, <3>4 DEF NetInv, NT!TypeOK, Frames, NT!Data
    <3> QED
      BY <3>3, <3>4, <3>5, <3>6 DEF NetInv
  <2> QED
    BY <2>1, <2>2
<1>4. CASE NT!Transmit
  BY <1>4 DEF NetInv, NT!Transmit, NT!TypeOK, NT!Nothing
<1>5. CASE NT!ComesBack \/ NT!Station
  <2>1. PICK f \in Frames :
          /\ NT!Arrives(f)
          /\ f.foreign \/ f.data = wire
          /\ wire' \in {wire, NT!Nothing} /\ frames' \in 0 .. MaxFrames
          /\ UNCHANGED <<netPc, link, dest, tx, tc, netRet, foreign>>
    <3>1. CASE NT!ComesBack
      <4> DEFINE g == [data |-> wire, full |-> TRUE, foreign |-> FALSE]
      <4>1. g \in Frames /\ g.data = wire
        BY <3>1 DEF NT!ComesBack, NetInv, NT!TypeOK, Frames
      <4>2. NT!Arrives(g)
        BY <3>1 DEF NT!ComesBack
      <4> HIDE DEF g
      <4> QED
        BY <3>1, <4>1, <4>2 DEF NT!ComesBack, NetInv, NT!TypeOK
    <3>2. CASE NT!Station
      <4>1. PICK d \in {"pattern", "other"}, u \in BOOLEAN :
              NT!Arrives([data |-> d, full |-> u, foreign |-> TRUE])
        BY <3>2 DEF NT!Station
      <4> DEFINE g == [data |-> d, full |-> u, foreign |-> TRUE]
      <4>2. g \in Frames /\ g.foreign
        BY DEF Frames, NT!Data
      <4>3. NT!Arrives(g)
        BY <4>1
      <4>4. frames' \in 0 .. MaxFrames
        BY <3>2, BoardTestsAssumption DEF NT!Station, NetInv, NT!TypeOK
      <4> HIDE DEF g
      <4> QED
        BY <3>2, <4>2, <4>3, <4>4 DEF NT!Station
    <3> QED
      BY <1>5, <3>1, <3>2
  <2>2. /\ rx' \in Seq(Frames) /\ Len(rx') <= RxDepth /\ event' = TRUE
        /\ \A i \in DOMAIN rx' : rx'[i] = f \/ (i \in DOMAIN rx /\ rx'[i] = rx[i])
    BY <2>1, ArrivesKeeps DEF NetInv, NT!TypeOK, Frames
  <2>3. NT!TypeOK'
    BY <2>1, <2>2 DEF NetInv, NT!TypeOK, Frames
  <2> QED
    BY <2>1, <2>2, <2>3 DEF NetInv, NT!Nothing
<1> QED
  BY <1>1, <1>2, <1>3, <1>4, <1>5 DEF NT!Software, NT!Net

LEMMA NetStepKeeps == NetInv /\ [Next]_vars => NetInv'
<1> SUFFICES ASSUME NetInv, [Next]_vars
             PROVE  NetInv'
  OBVIOUS
<1>1. CASE UNCHANGED netVars
  BY <1>1 DEF netVars, NetInv, NT!TypeOK
<1>2. CASE NT!Call \/ NT!Software \/ NT!Net
  BY <1>2, NetKeeps
<1> QED
  BY <1>1, <1>2 DEF Next, BoardStep, StartEcc, StartNet, StartDram, SeStep, NetStep, MemStep,
     ChipStep, LinkStep, CacheStep, vars

\* The Ethernet test passes only thanks to another station: its own frame, looped back or
\* not, is what the buffer held before, and that is never the pattern.
THEOREM PassIsForeignAlways == Spec => []PassIsForeign
<1>1. NetInv => PassIsForeign
  BY DEF NetInv, PassIsForeign, NT!PassIsForeign
<1> QED
  BY <1>1, NetInit, NetStepKeeps, PTL DEF Spec

--------------------------------------------------------------------------------
(***************************************************************************)
(* The memory test.                                                        *)
(***************************************************************************)
Values == 0 .. (Wrap - 1)
Dram == [1 .. NRanges -> [MT!Locations -> Values]]

\* Only a range behind the cache ever has locations in it, and no loop runs past its end.
MemTypes ==
    /\ MT!TypeOK
    /\ DOMAIN cache # {} => range \in Cached
    /\ memPc \in {"walkWrite", "walkRead"} => at < WalkWords
    /\ memPc \in {"countWrite", "countRead"} => at < TestWords

\* On a sound board every location reads as it was written last, in the cache or not.
Sound ==
    fault = MT!NoFault =>
      /\ memRet # 1
      /\ memPc = "walkWrite" => \A c \in MT!Locations : c < at => MT!Load(c) = MT!Walking(c)
      /\ memPc = "walkRead" =>
           \A c \in MT!Locations : c < WalkWords => MT!Load(c) = MT!Walking(c)
      /\ memPc = "countWrite" => \A c \in MT!Locations : c < at => MT!Load(c) = MT!Counting(c)
      /\ memPc = "countRead" =>
           \A c \in MT!Locations : c < TestWords => MT!Load(c) = MT!Counting(c)

\* The last location whose write reaches the cell behind fault.a.
FinalWord == IF fault.kind = "cell" THEN fault.a ELSE fault.b

\* A fault that must be found is not passed: the counting test does not get beyond fault.a.
Found ==
    MT!MustFind(fault) =>
      /\ memRet # 0
      /\ memPc # "off" => range <= fault.range
      /\ memPc = "drain" => range < fault.range
      /\ memPc = "countWrite" /\ range = fault.range =>
           (at > FinalWord => dram[range][fault.a] = MT!Counting(FinalWord))
      /\ memPc = "countRead" /\ range = fault.range =>
           at <= fault.a /\ dram[range][fault.a] = MT!Counting(FinalWord)

MemInv == MemTypes /\ Sound /\ Found

\* The numbers the loops work with.
LEMMA MemBounds ==
  ASSUME MemTypes
  PROVE  /\ Size \in Nat /\ WalkWords \in 1 .. Size /\ TestWords \in 1 .. Size
         /\ Wrap \in Nat \ {0, 1} /\ NRanges \in Nat \ {0}
         /\ at \in 0 .. Size - 1 /\ j \in 0 .. WalkWords - 1 /\ range \in 1 .. NRanges
         /\ MT!Locations = 0 .. Size - 1 /\ dram \in Dram
         /\ \A c \in MT!Locations : MT!Walking(c) \in Values /\ MT!Counting(c) \in Values
<1>1. /\ Size \in Nat /\ WalkWords \in 1 .. Size /\ TestWords \in 1 .. Size
      /\ Wrap \in Nat \ {0, 1} /\ NRanges \in Nat \ {0}
  BY BoardTestsAssumption
<1>2. /\ at \in 0 .. Size - 1 /\ j \in 0 .. WalkWords - 1 /\ range \in 1 .. NRanges
      /\ MT!Locations = 0 .. Size - 1 /\ dram \in Dram
  BY DEF MemTypes, MT!TypeOK, MT!Locations, Dram, Values
<1>3. \A n \in Nat : n % Wrap \in Values
  BY <1>1 DEF Values
<1>4. \A c \in MT!Locations : j + c \in Nat /\ c \in Nat
  BY <1>1, <1>2
<1> QED
  BY <1>1, <1>2, <1>3, <1>4 DEF MT!Walking, MT!Counting

\* A write of the program: into the cache, or to the cell behind the location.
LEMMA StoreIs ==
  ASSUME MemTypes, NEW c \in MT!Locations, NEW v \in Values, MT!Store(c, v),
         range' = range, fault' = fault
  PROVE  /\ dram' \in Dram /\ DOMAIN cache' \subseteq MT!Locations
         /\ \A x \in DOMAIN cache' : cache'[x] \in Values
         /\ DOMAIN cache' # {} => range \in Cached
         /\ range \notin Cached =>
              \A x \in MT!Locations :
                dram'[range][x] = IF x = MT!Cell(c) THEN v ELSE dram[range][x]
         /\ fault = MT!NoFault =>
              \A x \in MT!Locations : MT!Load(x)' = IF x = c THEN v ELSE MT!Load(x)
<1>1. MT!Cell(c) \in MT!Locations
  BY DEF MT!Cell, MemTypes, MT!TypeOK, MT!Faults, MT!NoFault
<1>2. dram \in Dram /\ range \in 1 .. NRanges
  BY MemBounds
<1>3. /\ DOMAIN cache \subseteq MT!Locations /\ \A x \in DOMAIN cache : cache[x] \in Values
      /\ DOMAIN cache # {} => range \in Cached
  BY DEF MemTypes, MT!TypeOK, Values
<1>4. CASE range \in Cached
  <2>1. /\ cache' = [x \in DOMAIN cache \cup {c} |-> IF x = c THEN v ELSE cache[x]]
        /\ dram' = dram
    BY <1>4 DEF MT!Store
  <2>2. \A x \in MT!Locations : x # c => (x \in DOMAIN cache' <=> x \in DOMAIN cache)
    BY <2>1
  <2>3. \A x \in MT!Locations : MT!FromDram(x)' = MT!FromDram(x)
    BY <2>1 DEF MT!FromDram, MT!Cell
  <2>4. \A x \in MT!Locations : MT!Load(x)' = IF x = c THEN v ELSE MT!Load(x)
    BY <2>1, <2>2, <2>3 DEF MT!Load
  <2> QED
    BY <1>2, <1>3, <1>4, <2>1, <2>4
<1>5. CASE range \notin Cached
  <2>1. dram' = [dram EXCEPT ![range][MT!Cell(c)] = v] /\ cache' = cache
    BY <1>5 DEF MT!Store
  <2>2. /\ dram' \in Dram
        /\ \A x \in MT!Locations :
             dram'[range][x] = IF x = MT!Cell(c) THEN v ELSE dram[range][x]
    BY <1>1, <1>2, <2>1 DEF Dram
  <2>3. ASSUME fault = MT!NoFault, NEW x \in MT!Locations
        PROVE  MT!Load(x)' = IF x = c THEN v ELSE MT!Load(x)
    <3>1. MT!Load(x) = dram[range][x] /\ MT!Load(x)' = dram'[range][x] /\ MT!Cell(c) = c
      BY <1>3, <1>5, <2>1, <2>3 DEF MT!Load, MT!FromDram, MT!Cell, MT!NoFault
    <3> QED
      BY <2>2, <2>3, <3>1
  <2> QED
    BY <1>3, <1>5, <2>1, <2>2, <2>3
<1> QED
  BY <1>4, <1>5

\* Where a fault that must be found sits.
LEMMA FaultPlace ==
  ASSUME MemTypes, MT!MustFind(fault)
  PROVE  /\ fault.range \in 1 .. NRanges /\ fault.range \notin Cached
         /\ fault.a \in MT!Locations /\ FinalWord \in MT!Locations
         /\ fault.a <= FinalWord /\ FinalWord < TestWords
         /\ \/ fault.kind = "cell" /\ FinalWord = fault.a
            \/ fault.kind = "line" /\ FinalWord = fault.b /\ fault.a < fault.b
                 /\ (fault.b - fault.a) % Wrap # 0
<1>1. fault \in MT!Faults /\ MT!Locations = 0 .. Size - 1 /\ Size \in Nat /\ TestWords \in Nat
  BY MemBounds DEF MemTypes, MT!TypeOK
<1>2. /\ fault.range \notin Cached
      /\ \/ fault.kind = "cell" /\ fault.a < TestWords
         \/ fault.kind = "line" /\ fault.b < TestWords /\ (fault.b - fault.a) % Wrap # 0
  BY DEF MT!MustFind
<1>3. CASE fault.kind = "cell"
  <2>1. fault.range \in 1 .. NRanges /\ fault.a \in MT!Locations
    BY <1>1, <1>3 DEF MT!Faults, MT!NoFault
  <2> QED
    BY <1>1, <1>2, <1>3, <2>1 DEF FinalWord
<1>4. CASE fault.kind = "line"
  <2>1. /\ fault.range \in 1 .. NRanges /\ fault.a \in MT!Locations
        /\ fault.b \in MT!Locations /\ fault.a < fault.b
    BY <1>1, <1>4 DEF MT!Faults, MT!NoFault
  <2> QED
    BY <1>1, <1>2, <1>4, <2>1 DEF FinalWord
<1> QED
  BY <1>2, <1>3, <1>4

\* Numbers with the same remainder differ by a multiple.
LEMMA SameRemainder ==
  ASSUME NEW w \in Nat \ {0}, NEW a \in Nat, NEW b \in Nat, a % w = b % w
  PROVE  (b - a) % w = 0
<1>1. a = w * (a \div w) + (a % w) /\ b = w * (b \div w) + (b % w)
  OBVIOUS
<1>2. (b \div w) - (a \div w) \in Int
  OBVIOUS
<1>3. b - a = w * ((b \div w) - (a \div w))
  BY <1>1, <1>2
<1>4. \A k \in Int : (w * k) % w = 0
  OBVIOUS
<1> QED
  BY <1>2, <1>3, <1>4

LEMMA MemInit == Init => MemInv
<1> SUFFICES ASSUME Init
             PROVE  MemInv
  OBVIOUS
<1>1. /\ memPc = "off" /\ range = 1 /\ j = 0 /\ at = 0 /\ memRet = 2 /\ fault \in MT!Faults
      /\ dram = [r \in 1 .. NRanges |-> [c \in MT!Locations |-> 0]]
      /\ cache = [c \in {} |-> 0]
  BY DEF Init, MT!Init, MT!None
<1>2. /\ Size \in Nat /\ WalkWords \in 1 .. Size /\ Wrap \in Nat \ {0, 1}
      /\ NRanges \in Nat \ {0}
  BY BoardTestsAssumption
<1>3. /\ range \in 1 .. NRanges /\ j \in 0 .. WalkWords - 1 /\ at \in 0 .. Size - 1
      /\ 0 \in 0 .. Wrap - 1 /\ DOMAIN cache = {}
  BY <1>1, <1>2
<1>4. dram \in [1 .. NRanges -> [MT!Locations -> 0 .. Wrap - 1]]
  BY <1>1, <1>3
<1>5. MT!TypeOK
  BY <1>1, <1>3, <1>4 DEF MT!TypeOK, MT!Locations, MT!None
<1> QED
  BY <1>1, <1>3, <1>5 DEF MemInv, MemTypes, Sound, Found

LEMMA MemCallKeeps ==
  ASSUME MemInv, MT!Call
  PROVE  MemInv'
<1>1. /\ memPc = "off" /\ memPc' = "walkWrite" /\ range' = 1 /\ j' = 0 /\ at' = 0 /\ memRet' = 2
      /\ UNCHANGED <<dram, cache, fault>>
      /\ DOMAIN cache = {} \/ range = 1
  BY DEF MT!Call, MT!None
<1>2. /\ 1 \in 1 .. NRanges /\ 0 \in 0 .. WalkWords - 1 /\ 0 \in MT!Locations /\ 0 < WalkWords
      /\ \A c \in MT!Locations : ~ (c < 0)
  BY MemBounds DEF MemInv
<1>3. MemTypes'
  BY <1>1, <1>2 DEF MemInv, MemTypes, MT!TypeOK, MT!Faults, MT!Locations, MT!NoFault, MT!None
<1>4. Sound'
  BY <1>1, <1>2 DEF Sound, MT!NoFault
<1>5. ASSUME MT!MustFind(fault)
      PROVE  1 <= fault.range
  BY <1>5, FaultPlace, MemBounds DEF MemInv
<1>6. Found'
  BY <1>1, <1>5 DEF Found, MT!MustFind
<1> QED
  BY <1>3, <1>4, <1>6 DEF MemInv

\* One of the two loops that write.
LEMMA WriteKeeps ==
  ASSUME MemInv, MT!WalkWrite \/ MT!CountWrite
  PROVE  MemInv'
<1> DEFINE w == IF memPc = "walkWrite" THEN WalkWords ELSE TestWords
           v == IF memPc = "walkWrite" THEN MT!Walking(at) ELSE MT!Counting(at)
<1>1. /\ memPc \in {"walkWrite", "countWrite"} /\ MT!Store(at, v)
      /\ \/ at + 1 < w /\ at' = at + 1 /\ memPc' = memPc
         \/ at + 1 >= w /\ at' = 0
              /\ memPc' = IF memPc = "walkWrite" THEN "walkRead" ELSE "countRead"
      /\ UNCHANGED <<range, j, fault, memRet>>
  <2>1. w \in Nat /\ at \in Nat
    BY MemBounds DEF MemInv
  <2> QED
    BY <2>1 DEF MT!WalkWrite, MT!CountWrite, MT!Loop
<1>2. /\ v \in Values /\ at \in MT!Locations /\ w \in 1 .. Size /\ at < w /\ Size \in Nat
      /\ MT!Locations = 0 .. Size - 1
  <2>1. MemTypes /\ at \in MT!Locations
    BY MemBounds DEF MemInv
  <2> QED
    BY <1>1, <2>1, MemBounds DEF MemTypes
<1> HIDE DEF w, v
<1>3. /\ dram' \in Dram /\ DOMAIN cache' \subseteq MT!Locations
      /\ \A x \in DOMAIN cache' : cache'[x] \in Values
      /\ DOMAIN cache' # {} => range \in Cached
      /\ range \notin Cached =>
           \A x \in MT!Locations :
             dram'[range][x] = IF x = MT!Cell(at) THEN v ELSE dram[range][x]
      /\ fault = MT!NoFault =>
           \A x \in MT!Locations : MT!Load(x)' = IF x = at THEN v ELSE MT!Load(x)
  BY <1>1, <1>2, StoreIs DEF MemInv
<1>4. at' \in MT!Locations
  BY <1>1, <1>2
<1>5. /\ memPc' \in {"walkWrite", "walkRead"} => memPc = "walkWrite"
      /\ memPc' \in {"countWrite", "countRead"} => memPc = "countWrite"
      /\ memPc' \in {"walkWrite", "walkRead", "countWrite", "countRead"}
      /\ at' < w
  BY <1>1, <1>2
<1>6. MemTypes'
  <2>1. MT!TypeOK'
    BY <1>1, <1>3, <1>4, <1>5 DEF MemInv, MemTypes, MT!TypeOK, Values, Dram, MT!Locations,
       MT!Faults, MT!NoFault, MT!None
  <2>2. /\ memPc' \in {"walkWrite", "walkRead"} => at' < WalkWords
        /\ memPc' \in {"countWrite", "countRead"} => at' < TestWords
    BY <1>5 DEF w
  <2> QED
    BY <1>1, <1>3, <2>1, <2>2 DEF MemTypes
<1>7. Sound'
  <2> SUFFICES ASSUME fault = MT!NoFault
               PROVE  Sound'
    BY <1>1 DEF Sound, MT!NoFault
  <2>1. \A x \in MT!Locations : MT!Load(x)' = IF x = at THEN v ELSE MT!Load(x)
    BY <1>3
  <2>2. \A x \in MT!Locations : MT!Walking(x)' = MT!Walking(x)
    BY <1>1 DEF MT!Walking
  <2>3. \A x \in MT!Locations : x < at + 1 /\ x # at => x < at
    BY <1>2
  <2>4. CASE memPc = "walkWrite"
    <3>1. \A x \in MT!Locations : x < at + 1 => MT!Load(x)' = MT!Walking(x)'
      BY <2>1, <2>2, <2>3, <2>4 DEF MemInv, Sound, v
    <3>2. \/ memPc' = "walkWrite" /\ at' = at + 1
          \/ memPc' = "walkRead" /\ at + 1 = WalkWords
      BY <1>1, <1>2, <2>4 DEF w
    <3> QED
      BY <1>1, <3>1, <3>2 DEF MemInv, Sound
  <2>5. CASE memPc = "countWrite"
    <3>1. \A x \in MT!Locations : x < at + 1 => MT!Load(x)' = MT!Counting(x)
      BY <2>1, <2>3, <2>5 DEF MemInv, Sound, v
    <3>2. \/ memPc' = "countWrite" /\ at' = at + 1
          \/ memPc' = "countRead" /\ at + 1 = TestWords
      BY <1>1, <1>2, <2>5 DEF w
    <3> QED
      BY <1>1, <3>1, <3>2 DEF MemInv, Sound
  <2> QED
    BY <1>1, <2>4, <2>5
<1>8. Found'
  <2> SUFFICES ASSUME MT!MustFind(fault)
               PROVE  Found'
    BY <1>1 DEF Found, MT!MustFind
  <2>1. /\ fault.range \notin Cached
        /\ fault.a \in MT!Locations /\ FinalWord \in MT!Locations
        /\ fault.a <= FinalWord /\ FinalWord < TestWords /\ FinalWord' = FinalWord
        /\ \/ fault.kind = "cell" /\ FinalWord = fault.a
           \/ fault.kind = "line" /\ FinalWord = fault.b /\ fault.a < fault.b
    BY <1>1, FaultPlace DEF MemInv, FinalWord
  <2>2. ASSUME memPc = "countWrite", range = fault.range,
               at + 1 > FinalWord
        PROVE  dram'[range][fault.a] = MT!Counting(FinalWord)
    <3>1. dram'[range][fault.a] = IF fault.a = MT!Cell(at) THEN v ELSE dram[range][fault.a]
      BY <1>3, <2>1, <2>2
    <3>2. CASE at = FinalWord
      <4>1. MT!Cell(at) = fault.a
        BY <2>1, <2>2, <3>2 DEF MT!Cell
      <4> QED
        BY <2>2, <3>1, <3>2, <4>1 DEF v
    <3>3. CASE at > FinalWord
      <4>1. MT!Cell(at) = at /\ at # fault.a
        BY <1>2, <2>1, <3>3 DEF MT!Cell
      <4> QED
        BY <2>2, <3>1, <3>3, <4>1 DEF MemInv, Found
    <3> QED
      BY <1>2, <2>1, <2>2, <3>2, <3>3
  <2>3. /\ memPc' = "countWrite" => memPc = "countWrite" /\ at' = at + 1
        /\ memPc' = "countRead" => memPc = "countWrite" /\ at + 1 > FinalWord /\ at' = 0
        /\ 0 <= fault.a
    BY <1>1, <1>2, <2>1 DEF w
  <2>4. memRet' # 0 /\ range' <= fault.range' /\ memPc' # "drain"
    BY <1>1, <1>5 DEF MemInv, Found
  <2> QED
    BY <1>1, <2>1, <2>2, <2>3, <2>4 DEF Found
<1> QED
  BY <1>6, <1>7, <1>8 DEF MemInv

\* What a read returns depends on the contents, the cache, the range and the fault only.
LEMMA LoadSame ==
  ASSUME UNCHANGED <<dram, cache, range, fault>>
  PROVE  \A x : MT!Load(x)' = MT!Load(x)
  BY DEF MT!Load, MT!FromDram, MT!Cell

LEMMA WalkReadKeeps ==
  ASSUME MemInv, MT!WalkRead
  PROVE  MemInv'
<1>1. /\ memPc = "walkRead" /\ UNCHANGED <<range, dram, cache, fault>>
      /\ \/ MT!Load(at) # MT!Walking(at) /\ memPc' = "off" /\ memRet' = 1 /\ UNCHANGED <<at, j>>
         \/ memRet' = memRet /\ j' = j + 1 /\ at' = 0 /\ memPc' = "walkWrite" /\ j + 1 < WalkWords
         \/ memRet' = memRet /\ j' = j /\ at' = at + 1 /\ memPc' = memPc /\ at + 1 < WalkWords
         \/ memRet' = memRet /\ j' = j /\ at' = 0 /\ memPc' = "countWrite"
  BY DEF MT!WalkRead, MT!Fails, MT!Loop
<1>2. /\ at \in MT!Locations /\ at < WalkWords /\ 0 \in MT!Locations /\ 0 < TestWords
      /\ 0 < WalkWords /\ WalkWords \in 1 .. Size /\ Size \in Nat /\ MT!Locations = 0 .. Size - 1
      /\ j \in 0 .. WalkWords - 1
  BY <1>1, MemBounds DEF MemInv, MemTypes
<1>3. j' \in 0 .. WalkWords - 1 /\ at' \in MT!Locations
  BY <1>1, <1>2
<1>4. MemTypes'
  BY <1>1, <1>2, <1>3 DEF MemInv, MemTypes, MT!TypeOK, MT!Locations, MT!Faults, MT!NoFault,
     MT!None
<1>5. \A x \in MT!Locations : ~ (x < 0)
  BY <1>2
<1>6. Sound'
  <2>1. fault = MT!NoFault => MT!Load(at) = MT!Walking(at)
    BY <1>1, <1>2 DEF MemInv, Sound
  <2>2. j' = j => \A x \in MT!Locations : MT!Walking(x)' = MT!Walking(x)
    BY DEF MT!Walking
  <2> QED
    BY <1>1, <1>5, <2>1, <2>2, LoadSame DEF MemInv, Sound, MT!NoFault
<1>7. Found'
  <2> SUFFICES ASSUME MT!MustFind(fault)
               PROVE  Found'
    BY <1>1 DEF Found, MT!MustFind
  <2>1. FinalWord \in MT!Locations
    BY FaultPlace DEF MemInv
  <2>2. ~ (0 > FinalWord) /\ FinalWord' = FinalWord
    BY <1>1, <1>2, <2>1 DEF FinalWord
  <2> QED
    BY <1>1, <2>2 DEF MemInv, Found
<1> QED
  BY <1>4, <1>6, <1>7 DEF MemInv

\* The read of the counting test at fault.a shows another value than was written.
LEMMA FaultSeen ==
  ASSUME MemInv, MT!MustFind(fault), memPc = "countRead", range = fault.range, at = fault.a
  PROVE  MT!Load(at) # MT!Counting(at)
<1>1. /\ fault.range \notin Cached /\ fault.a \in MT!Locations /\ FinalWord \in MT!Locations
      /\ \/ fault.kind = "cell" /\ FinalWord = fault.a
         \/ fault.kind = "line" /\ FinalWord = fault.b /\ fault.a < fault.b
              /\ (fault.b - fault.a) % Wrap # 0
  BY FaultPlace DEF MemInv
<1>2. MT!Load(at) = MT!FromDram(at) /\ dram[range][fault.a] = MT!Counting(FinalWord)
  BY <1>1 DEF MemInv, MemTypes, Found, MT!Load
<1>3. Wrap \in Nat \ {0, 1} /\ fault.a \in Nat /\ FinalWord \in Nat
  BY <1>1, MemBounds DEF MemInv
<1>4. CASE fault.kind = "cell" /\ FinalWord = fault.a
  <2>1. MT!Load(at) = (MT!Counting(at) + 1) % Wrap
    BY <1>2, <1>4 DEF MT!FromDram
  <2>2. MT!Counting(at) \in 0 .. Wrap - 1
    BY <1>1, MemBounds DEF MemInv, Values
  <2>3. \A u \in 0 .. Wrap - 1 : (u + 1) % Wrap # u
    <3> TAKE u \in 0 .. Wrap - 1
    <3>1. CASE u = Wrap - 1
      <4>1. (u + 1) % Wrap = 0
        BY <1>3, <3>1
      <4> QED
        BY <1>3, <3>1, <4>1
    <3>2. CASE u < Wrap - 1
      <4>1. (u + 1) % Wrap = u + 1
        BY <1>3, <3>2
      <4> QED
        BY <1>3, <4>1
    <3> QED
      BY <1>3, <3>1, <3>2
  <2> QED
    BY <2>1, <2>2, <2>3
<1>5. CASE fault.kind = "line" /\ FinalWord = fault.b
  <2>1. fault.a # fault.b /\ (fault.b - fault.a) % Wrap # 0
    BY <1>1, <1>3, <1>5
  <2>2. MT!Load(at) = fault.b % Wrap
    BY <1>2, <1>5, <2>1 DEF MT!FromDram, MT!Cell, MT!Counting
  <2>3. fault.a % Wrap # fault.b % Wrap
    BY <1>3, <1>5, <2>1, SameRemainder
  <2> QED
    BY <2>2, <2>3 DEF MT!Counting
<1> QED
  BY <1>1, <1>4, <1>5

LEMMA CountReadKeeps ==
  ASSUME MemInv, MT!CountRead
  PROVE  MemInv'
<1>1. /\ memPc = "countRead" /\ UNCHANGED <<range, j, dram, cache, fault>>
      /\ \/ MT!Load(at) # MT!Counting(at) /\ memPc' = "off" /\ memRet' = 1 /\ at' = at
         \/ /\ MT!Load(at) = MT!Counting(at) /\ memRet' = memRet
            /\ \/ at + 1 < TestWords /\ at' = at + 1 /\ memPc' = memPc
               \/ ~ (at + 1 < TestWords) /\ at' = 0 /\ memPc' = "drain"
  BY DEF MT!CountRead, MT!Fails, MT!Loop
<1>2. /\ at \in MT!Locations /\ at < TestWords /\ 0 \in MT!Locations
      /\ TestWords \in 1 .. Size /\ Size \in Nat /\ MT!Locations = 0 .. Size - 1
  BY <1>1, MemBounds DEF MemInv, MemTypes
<1>3. at' \in MT!Locations
  BY <1>1, <1>2
<1>4. MemTypes'
  BY <1>1, <1>2, <1>3 DEF MemInv, MemTypes, MT!TypeOK, MT!Locations, MT!Faults, MT!NoFault,
     MT!None
<1>5. Sound'
  <2>1. fault = MT!NoFault => MT!Load(at) = MT!Counting(at)
    BY <1>1, <1>2 DEF MemInv, Sound
  <2> QED
    BY <1>1, <2>1, LoadSame DEF MemInv, Sound, MT!NoFault, MT!Counting
<1>6. Found'
  <2> SUFFICES ASSUME MT!MustFind(fault)
               PROVE  Found'
    BY <1>1 DEF Found, MT!MustFind
  <2>1. /\ fault.a \in MT!Locations /\ fault.a < TestWords /\ fault.range \in Nat
        /\ range \in Nat /\ range <= fault.range
    BY <1>1, <1>2, FaultPlace, MemBounds DEF MemInv, Found
  <2>2. range = fault.range /\ memPc' # "off" => at < fault.a
    <3> SUFFICES ASSUME range = fault.range, memPc' # "off"
                 PROVE  at < fault.a
      OBVIOUS
    <3>1. at <= fault.a /\ at # fault.a
      BY <1>1, FaultSeen DEF MemInv, Found
    <3> QED
      BY <1>2, <2>1, <3>1
  <2>3. CASE memPc' = "off"
    BY <1>1, <2>3 DEF Found
  <2>4. CASE memPc' = memPc
    <3>1. range = fault.range => at' <= fault.a
      BY <1>1, <1>2, <2>1, <2>2, <2>4
    <3> QED
      BY <1>1, <2>4, <3>1 DEF MemInv, Found, FinalWord, MT!Counting
  <2>5. CASE memPc' = "drain"
    <3>1. range < fault.range
      BY <1>1, <1>2, <2>1, <2>2, <2>5
    <3> QED
      BY <1>1, <2>5, <3>1 DEF MemInv, Found
  <2> QED
    BY <1>1, <2>3, <2>4, <2>5
<1> QED
  BY <1>4, <1>5, <1>6 DEF MemInv

LEMMA NextRangeKeeps ==
  ASSUME MemInv, MT!NextRange
  PROVE  MemInv'
<1>1. /\ memPc = "drain" /\ DOMAIN cache = {} /\ UNCHANGED <<dram, cache, fault>>
      /\ \/ /\ range < NRanges /\ memPc' = "walkWrite" /\ range' = range + 1
            /\ j' = 0 /\ at' = 0 /\ memRet' = memRet
         \/ ~ (range < NRanges) /\ memPc' = "off" /\ memRet' = 0 /\ UNCHANGED <<range, j, at>>
  BY DEF MT!NextRange
<1>2. /\ 0 \in 0 .. WalkWords - 1 /\ 0 \in MT!Locations /\ 0 < WalkWords
      /\ \A c \in MT!Locations : ~ (c < 0)
  BY MemBounds DEF MemInv
<1>3. range \in 1 .. NRanges /\ NRanges \in Nat /\ range' \in 1 .. NRanges
  BY <1>1, MemBounds DEF MemInv
<1>4. MemTypes'
  BY <1>1, <1>2, <1>3 DEF MemInv, MemTypes, MT!TypeOK, MT!Faults, MT!Locations, MT!NoFault,
     MT!None
<1>5. Sound'
  BY <1>1, <1>2 DEF MemInv, Sound, MT!NoFault
<1>6. Found'
  <2> SUFFICES ASSUME MT!MustFind(fault)
               PROVE  Found'
    BY <1>1 DEF Found, MT!MustFind
  <2>1. fault.range \in 1 .. NRanges /\ range < fault.range
    BY <1>1, FaultPlace DEF MemInv, Found
  <2>2. range < NRanges /\ range' <= fault.range
    BY <1>1, <1>3, <2>1
  <2> QED
    BY <1>1, <2>2 DEF MemInv, Found
<1> QED
  BY <1>4, <1>5, <1>6 DEF MemInv

\* The cache writes a location back: on a sound board no read notices.
LEMMA CacheKeeps ==
  ASSUME MemInv, MT!Cache
  PROVE  MemInv'
<1>1. PICK c \in DOMAIN cache : MT!WriteBack(c)
  BY DEF MT!Cache
<1>2. /\ dram' = [dram EXCEPT ![range][MT!Cell(c)] = cache[c]]
      /\ cache' = [x \in DOMAIN cache \ {c} |-> cache[x]]
      /\ UNCHANGED <<memPc, range, j, at, fault, memRet>>
  BY <1>1 DEF MT!WriteBack
<1>3. /\ c \in MT!Locations /\ cache[c] \in Values /\ range \in Cached
      /\ DOMAIN cache \subseteq MT!Locations
      /\ \A x \in DOMAIN cache : cache[x] \in Values
  BY DEF MemInv, MemTypes, MT!TypeOK, Values
<1>4. MT!Cell(c) \in MT!Locations
  BY <1>3 DEF MT!Cell, MemInv, MemTypes, MT!TypeOK, MT!Faults, MT!NoFault
<1>5. dram' \in Dram
  <2>1. dram \in Dram
    BY MemBounds DEF MemInv
  <2> QED
    BY <1>2, <1>3, <1>4, <2>1 DEF Dram
<1>6. DOMAIN cache' \subseteq DOMAIN cache /\ \A x \in DOMAIN cache' : cache'[x] = cache[x]
  BY <1>2
<1>7. MemTypes'
  BY <1>2, <1>3, <1>5, <1>6 DEF MemInv, MemTypes, MT!TypeOK, MT!Faults, MT!Locations,
     MT!NoFault, MT!None, Values, Dram
<1>8. ASSUME fault = MT!NoFault, NEW x \in MT!Locations
      PROVE  MT!Load(x)' = MT!Load(x)
  <2>1. MT!Cell(c) = c /\ MT!FromDram(x) = dram[range][x] /\ MT!FromDram(x)' = dram'[range][x]
    BY <1>2, <1>8 DEF MT!Cell, MT!FromDram, MT!NoFault
  <2>2. dram'[range][x] = IF x = c THEN cache[c] ELSE dram[range][x]
    <3>1. dram \in Dram /\ range \in 1 .. NRanges
      BY MemBounds DEF MemInv
    <3> QED
      BY <1>2, <1>3, <1>8, <2>1, <3>1 DEF Dram
  <2> QED
    BY <1>2, <2>1, <2>2 DEF MT!Load
<1>9. Sound'
  <2>1. \A x : MT!Walking(x)' = MT!Walking(x)
    BY <1>2 DEF MT!Walking
  <2> QED
    BY <1>2, <1>8, <2>1 DEF MemInv, Sound, MT!NoFault, MT!Counting
<1>10. Found'
  <2> SUFFICES ASSUME MT!MustFind(fault)
               PROVE  Found'
    BY <1>2 DEF Found, MT!MustFind
  <2>1. range # fault.range
    BY <1>3, FaultPlace DEF MemInv
  <2> QED
    BY <1>2, <2>1 DEF MemInv, Found
<1> QED
  BY <1>7, <1>9, <1>10 DEF MemInv

LEMMA MemStepKeeps == MemInv /\ [Next]_vars => MemInv'
<1> SUFFICES ASSUME MemInv, [Next]_vars
             PROVE  MemInv'
  OBVIOUS
<1>1. CASE UNCHANGED memVars
  <2>1. \A x : MT!Walking(x)' = MT!Walking(x)
    BY <1>1 DEF memVars, MT!Walking
  <2> QED
    BY <1>1, <2>1, LoadSame DEF memVars, MemInv, MemTypes, Sound, Found, FinalWord, MT!TypeOK,
       MT!MustFind
<1>2. CASE MT!Call \/ MT!Software \/ MT!Cache
  BY <1>2, MemCallKeeps, WriteKeeps, WalkReadKeeps, CountReadKeeps, NextRangeKeeps, CacheKeeps
     DEF MT!Software
<1> QED
  BY <1>1, <1>2 DEF Next, BoardStep, StartEcc, StartNet, StartDram, SeStep, NetStep, MemStep,
     ChipStep, LinkStep, CacheStep, vars

\* The memory test never fails a sound board, whatever the cache does, and never passes a
\* board with a bad cell or a joined address line in the part it covers, for memories and
\* caches of every size.
THEOREM VerdictAlways == Spec => []Verdict
<1>1. MemInv => Verdict
  BY DEF MemInv, Sound, Found, Verdict, MT!Verdict
<1> QED
  BY <1>1, MemInit, MemStepKeeps, PTL DEF Spec

--------------------------------------------------------------------------------
(***************************************************************************)
(* Types.                                                                  *)
(***************************************************************************)
ElementTypes == SE!TypeOK /\ (sePc \in {"wakeRead", "poll"} => retries > 0)

Counted == mishaps' \in 0 .. MaxFaults

LEMMA FaultsCounted ==
  ASSUME mishaps \in 0 .. MaxFaults, SE!Fault \/ SE!Fine
  PROVE  Counted
  BY BoardTestsAssumption DEF SE!Fault, SE!Fine, Counted

LEMMA ElementTypesStep ==
  ASSUME ElementInv, ElementTypes, SE!Call \/ SE!Software \/ SE!Chip
  PROVE  ElementTypes'
<1> USE DEF ElementTypes, SE!TypeOK, SE!ATCA_SUCCESS, SE!Failure, SE!None
<1>1. /\ RxRetries \in Nat \ {0} /\ MaxPolls \in Nat /\ MaxFaults \in Nat /\ test \in Nat
      /\ RxRetries \in 0 .. RxRetries /\ MaxPolls \in 0 .. MaxPolls /\ RxRetries > 0
      /\ 0 \in 0 .. test /\ test \in 0 .. test
  BY BoardTestsAssumption
<1>2. SE!Asleep \in [awake : BOOLEAN, busy : BOOLEAN,
                     reply : {"none", "wake", "error", "answer"}, of : 0 .. test]
  BY <1>1 DEF SE!Asleep
<1>3. CASE SE!Call
  <2>1. /\ device' = TRUE /\ pins' = TRUE /\ test' = test + 1 /\ packet' = SE!Unread
        /\ seRet' = 2 /\ sePc' = "token"
        /\ UNCHANGED <<chip, alive, retries, polls, status, mishaps>>
        /\ refs' = (IF device THEN refs - 1 ELSE refs) + 1
    BY <1>3 DEF SE!Call, SE!AtcabInit
  <2>2. refs' = 1
    BY <2>1 DEF ElementInv, BusMatchesUsers, SE!BusMatchesUsers
  <2>3. 0 .. test \subseteq 0 .. test' /\ 0 \in 0 .. test' /\ test' \in Nat
    BY <1>1, <2>1
  <2>4. chip' \in [awake : BOOLEAN, busy : BOOLEAN,
                   reply : {"none", "wake", "error", "answer"}, of : 0 .. test']
    BY <2>1, <2>3
  <2>5. packet' \in [kind : {"unread", "wake", "error", "garbled", "answer"}, of : 0 .. test']
    BY <2>1, <2>3 DEF SE!Unread
  <2> QED
    BY <2>1, <2>2, <2>3, <2>4, <2>5
<1>4. CASE SE!WakeToken
  <2>1. chip' \in [awake : BOOLEAN, busy : BOOLEAN,
                   reply : {"none", "wake", "error", "answer"}, of : 0 .. test]
    BY <1>2, <1>4 DEF SE!WakeToken
  <2> QED
    BY <1>1, <1>4, <2>1 DEF SE!WakeToken, SE!bus
<1>5. CASE SE!WakeRead
  <2>1. Counted
    BY <1>5, FaultsCounted DEF SE!WakeRead, SE!Refused, SE!InvalidSize, SE!Received
  <2>2. retries' \in 0 .. RxRetries /\ (sePc' = "wakeRead" => retries' > 0)
        /\ sePc' \in {"wakeRead", "idle", "send"} /\ status' \in {0, 1}
    BY <1>1, <1>5 DEF SE!WakeRead
  <2> QED
    BY <1>5, <2>1, <2>2 DEF SE!WakeRead, SE!InTransfer, SE!bus, Counted
<1>6. CASE SE!Send
  <2>1. Counted
    BY <1>6, FaultsCounted DEF SE!Send
  <2>2. chip' \in [awake : BOOLEAN, busy : BOOLEAN,
                   reply : {"none", "wake", "error", "answer"}, of : 0 .. test]
    BY <1>1, <1>6 DEF SE!Send
  <2>3. retries' \in 0 .. RxRetries /\ (sePc' = "poll" => retries' > 0)
        /\ polls' \in 0 .. MaxPolls
        /\ sePc' \in {"poll", "idle"} /\ status' \in {0, 1}
    BY <1>1, <1>6 DEF SE!Send
  <2> QED
    BY <1>6, <2>1, <2>2, <2>3 DEF SE!Send, SE!bus, Counted
<1>7. CASE SE!Poll
  <2>1. Counted
    BY <1>7, FaultsCounted DEF SE!Poll, SE!Refused, SE!InvalidSize, SE!Received
  <2>2. packet' \in [kind : {"unread", "wake", "error", "garbled", "answer"}, of : 0 .. test]
    <3>1. \/ packet' = packet
          \/ \E kind \in {"wake", "error", "garbled", "answer"}, of \in 0 .. test :
               packet' = [kind |-> kind, of |-> of]
      BY <1>7 DEF SE!Poll
    <3> QED
      BY <3>1
  <2>3. /\ retries' \in 0 .. RxRetries /\ (sePc' = "poll" => retries' > 0)
        /\ polls' \in 0 .. MaxPolls /\ sePc' \in {"poll", "check"}
    <3>1. \/ retries' \in {retries, RxRetries}
          \/ retries > 1 /\ retries' = retries - 1
      BY <1>7 DEF SE!Poll
    <3>2. \/ polls' = polls
          \/ polls > 0 /\ polls' = polls - 1
      BY <1>7 DEF SE!Poll, SE!PollsOver
    <3>3. sePc' \in {"poll", "check"} /\ sePc = "poll"
      BY <1>7 DEF SE!Poll, SE!PollsOver
    <3>4. polls' \in 0 .. MaxPolls
      BY <1>1, <3>2
    <3> QED
      BY <1>1, <3>1, <3>3, <3>4
  <2> QED
    BY <1>7, <2>1, <2>2, <2>3 DEF SE!Poll, SE!InTransfer, SE!bus, Counted
<1>8. CASE SE!AckStuck \/ SE!Check
  <2>1. Counted
    BY <1>8, FaultsCounted DEF SE!AckStuck, SE!Check, SE!Fine
  <2>2. sePc' \in {"hung", "idle"} /\ status' \in {0, 1}
        /\ UNCHANGED <<device, refs, pins, chip, alive, packet, retries, polls, seRet, test>>
    BY <1>8 DEF SE!AckStuck, SE!Check, SE!bus
  <2> QED
    BY <2>1, <2>2 DEF Counted
<1>9. CASE SE!AtIdle
  <2>1. Counted
    BY <1>9, FaultsCounted DEF SE!AtIdle
  <2>2. chip' \in [awake : BOOLEAN, busy : BOOLEAN,
                   reply : {"none", "wake", "error", "answer"}, of : 0 .. test]
    BY <1>2, <1>9 DEF SE!AtIdle
  <2> QED
    BY <1>9, <2>1, <2>2 DEF SE!AtIdle, SE!bus, Counted
<1>10. CASE SE!Return
  <2>1. refs = 1
    BY <1>10 DEF SE!Return, ElementInv, BusMatchesUsers, SE!BusMatchesUsers
  <2>2. refs' \in 0 .. 1 /\ device' \in BOOLEAN /\ pins' \in BOOLEAN
    <3>1. CASE SE!AtcabRelease
      <4>1. device' = FALSE /\ refs' = refs - 1
        BY <3>1 DEF SE!AtcabRelease
      <4>2. refs' \in 0 .. 1
        BY <2>1, <4>1
      <4>3. pins' \in BOOLEAN
        BY <3>1, Zenon DEF SE!AtcabRelease
      <4> QED
        BY <4>1, <4>2, <4>3
    <3>2. CASE UNCHANGED SE!bus
      BY <3>2 DEF SE!bus
    <3> QED
      BY <1>10, <3>1, <3>2 DEF SE!Return
  <2> QED
    BY <1>10, <2>2 DEF SE!Return
<1>11. CASE SE!Chip
  <2>1. Counted
    BY <1>11, FaultsCounted DEF SE!Chip, SE!ChipDone, SE!ChipSleeps, SE!ChipDies, SE!Fine
  <2>2. chip' \in [awake : BOOLEAN, busy : BOOLEAN,
                   reply : {"none", "wake", "error", "answer"}, of : 0 .. test]
    BY <1>2, <1>11 DEF SE!Chip, SE!ChipDone, SE!ChipSleeps, SE!ChipDies
  <2> QED
    BY <1>11, <2>1, <2>2 DEF SE!Chip, SE!ChipDone, SE!ChipSleeps, SE!ChipDies, SE!bus, Counted
<1> QED
  BY <1>3, <1>4, <1>5, <1>6, <1>7, <1>8, <1>9, <1>10, <1>11 DEF SE!Software

\* The main loop waits for the test it has called.
OneAtATime == \/ netPc = "off" /\ memPc = "off"
              \/ sePc = "off" /\ (netPc = "off" \/ memPc = "off")

TypesInv == ElementTypes /\ OneAtATime

LEMMA TypesInit == Init => TypesInv
<1> SUFFICES ASSUME Init
             PROVE  TypesInv
  OBVIOUS
<1>1. /\ 0 \in 0 .. RxRetries /\ 0 \in 0 .. MaxPolls /\ 0 \in 0 .. MaxFaults
      /\ 0 \in 0 .. 1 /\ 0 \in 0 .. 0 /\ 0 \in Nat
  BY BoardTestsAssumption
<1>2. SE!Init /\ NT!Init /\ MT!Init
  BY DEF Init
<1>3. ElementTypes
  BY <1>1, <1>2 DEF SE!Init, ElementTypes, SE!TypeOK, SE!Asleep, SE!Unread, SE!Failure,
     SE!None, SE!ATCA_SUCCESS
<1>4. OneAtATime
  BY <1>2 DEF NT!Init, MT!Init, OneAtATime
<1> QED
  BY <1>3, <1>4 DEF TypesInv

LEMMA TypesStep == ElementInv /\ TypesInv /\ [Next]_vars => TypesInv'
<1> SUFFICES ASSUME ElementInv, TypesInv, [Next]_vars
             PROVE  TypesInv'
  OBVIOUS
<1>1. ElementTypes'
  <2>1. CASE UNCHANGED seVars
    BY <2>1 DEF TypesInv, seVars, ElementTypes, SE!TypeOK
  <2>2. CASE SE!Call \/ SE!Software \/ SE!Chip
    BY <2>2, ElementTypesStep DEF TypesInv
  <2> QED
    BY <2>1, <2>2 DEF Next, BoardStep, StartEcc, StartNet, StartDram, SeStep, NetStep,
       MemStep, ChipStep, LinkStep, CacheStep, vars
<1>2. OneAtATime'
  <2>1. CASE StartEcc \/ StartNet \/ StartDram
    BY <2>1 DEF StartEcc, StartNet, StartDram, Request, Returned, seVars, netVars, memVars,
       OneAtATime
  <2>2. CASE SeStep
    <3>1. sePc # "off" /\ UNCHANGED <<netPc, memPc>>
      BY <2>2 DEF SeStep, netVars, memVars, SE!Software, SE!WakeToken, SE!WakeRead, SE!Send,
         SE!Poll, SE!AckStuck, SE!Check, SE!AtIdle, SE!Return
    <3> QED
      BY <3>1 DEF TypesInv, OneAtATime
  <2>3. CASE NetStep
    <3>1. netPc # "off" /\ UNCHANGED <<sePc, memPc>>
      BY <2>3 DEF NetStep, seVars, memVars, NT!Software, NT!CheckStatus, NT!TxSend, NT!TxDone,
         NT!RxReceive
    <3> QED
      BY <3>1 DEF TypesInv, OneAtATime
  <2>4. CASE MemStep
    <3>1. memPc # "off" /\ UNCHANGED <<sePc, netPc>>
      BY <2>4 DEF MemStep, seVars, netVars, MT!Software, MT!WalkWrite, MT!WalkRead,
         MT!CountWrite, MT!CountRead, MT!NextRange
    <3> QED
      BY <3>1 DEF TypesInv, OneAtATime
  <2>5. CASE ChipStep \/ LinkStep \/ CacheStep \/ UNCHANGED vars
    <3>1. UNCHANGED <<sePc, netPc, memPc>>
      BY <2>5 DEF ChipStep, LinkStep, CacheStep, vars, seVars, netVars, memVars,
         SE!Chip, SE!ChipDone, SE!ChipSleeps, SE!ChipDies, NT!Net, NT!Transmit, NT!ComesBack,
         NT!Station, MT!Cache, MT!WriteBack
    <3> QED
      BY <3>1 DEF TypesInv, OneAtATime
  <2> QED
    BY <2>1, <2>2, <2>3, <2>4, <2>5 DEF Next, BoardStep
<1> QED
  BY <1>1, <1>2 DEF TypesInv

\* The state of the three tests keeps its form: no retry, poll or loop counter leaves its
\* range, the bus has at most one user, and only one test runs at a time.
THEOREM TypeCorrect == Spec => []TypeOK
<1>1. TypesInv /\ NetInv /\ MemInv => TypeOK
  BY DEF TypesInv, ElementTypes, NetInv, MemInv, MemTypes, OneAtATime, TypeOK
<1> QED
  BY <1>1, ElementInit, ElementStep, TypesInit, TypesStep, NetInit, NetStepKeeps, MemInit,
     MemStepKeeps, PTL DEF Spec
================================================================================
