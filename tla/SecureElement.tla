----------------------------- MODULE SecureElement -----------------------------
(***************************************************************************)
(* The test of the secure element: at508_test (atca_test.c) reads the      *)
(* serial number through one global device (atca_basic.c) and one command  *)
(* (atca_execution.c) over a bit-banged I2C bus whose users are counted    *)
(* (hal_i2c_bitbang.c).  A step is one addressed transfer.                 *)
(*                                                                         *)
(* The chip is [awake, busy, reply, of]: whether it listens, whether it is *)
(* at work and refuses its address, what a read returns, and for the       *)
(* command of which test.  It goes to sleep of its own accord when it has  *)
(* been awake too long.                                                    *)
(***************************************************************************)
EXTENDS Naturals

CONSTANTS RxRetries,   \* rx_retries of the configuration, 20 in the code
          MaxPolls,    \* max_delay_count, 1000 in the code
          MaxFaults    \* bound: transfers that go wrong, and the chip's death

VARIABLES pc,        \* where the test is; "off" between tests, "hung" for good
          device,    \* _gDevice is not NULL
          refs,      \* the reference count of the bus
          pins,      \* i2c_enable has been called, and i2c_disable not since
          chip,
          alive,     \* the chip is there and works
          packet,    \* packet->data: "unread", or what has been received
          retries,   \* attempts left in this call of hal_i2c_receive
          polls,     \* max_delay_count
          status,    \* of atca_execute_command
          ret,       \* what the last test returned; None while it runs
          test,      \* history: number of tests begun
          mishaps    \* history: faults so far

vars == <<pc, device, refs, pins, chip, alive, packet, retries, polls, status, ret,
          test, mishaps>>
bus == <<device, refs, pins>>

ATCA_SUCCESS == 0
Failure == 1
None == 2
Unread == [kind |-> "unread", of |-> 0]
Asleep == [awake |-> FALSE, busy |-> FALSE, reply |-> "none", of |-> 0]

Init == /\ pc = "off" /\ device = FALSE /\ refs = 0 /\ pins = FALSE
        /\ chip = Asleep /\ alive \in BOOLEAN /\ packet = Unread
        /\ retries = 0 /\ polls = 0 /\ status = Failure /\ ret = None
        /\ test = 0 /\ mishaps = 0

Fault == mishaps < MaxFaults /\ mishaps' = mishaps + 1
Fine == UNCHANGED mishaps

--------------------------------------------------------------------------------
\* Seeded fault: a device that is still there is not released.
AtcabInitAgain == /\ device' = TRUE /\ pins' = TRUE /\ refs' = refs + 1

\* A failed test leaves its device behind; the next one releases it first.
AtcabInit == /\ device' = TRUE /\ pins' = TRUE
             /\ refs' = (IF device THEN refs - 1 ELSE refs) + 1

\* The bus is disabled with its last user.
AtcabRelease == /\ device' = FALSE /\ refs' = refs - 1
                /\ pins' = (pins /\ refs' > 0)

\* at508_test up to atca_execute_command; packet is a variable on the stack.
Call == /\ pc = "off"
        /\ AtcabInit
        /\ packet' = Unread /\ ret' = None /\ test' = test + 1
        /\ pc' = "token"
        /\ UNCHANGED <<chip, alive, retries, polls, status, mishaps>>

--------------------------------------------------------------------------------
Listens == alive /\ chip.awake /\ ~chip.busy
FrameSize(kind) == IF kind = "answer" THEN 35 ELSE 4

\* hal_i2c_wake: the token wakes a chip that sleeps; one that is awake ignores it.
WakeToken == /\ pc = "token"
             /\ chip' = IF alive /\ ~chip.awake
                          THEN [Asleep EXCEPT !.awake = TRUE, !.reply = "wake"]
                          ELSE chip
             /\ retries' = RxRetries /\ pc' = "wakeRead"
             /\ UNCHANGED <<bus, alive, packet, polls, status, ret, test, mishaps>>

\* One attempt of hal_i2c_receive.  The address is refused ...
Refused == \/ ~(Listens /\ chip.reply # "none") /\ Fine
           \/ Fault

\* ... or the count byte is too small or larger than the room there is ...
InvalidSize(room) == /\ Listens /\ chip.reply # "none"
                     /\ IF FrameSize(chip.reply) > room THEN Fine ELSE Fault

\* ... or a reply is read, whole but perhaps garbled.
Received(room, got) == /\ Listens /\ chip.reply # "none" /\ FrameSize(chip.reply) <= room
                       /\ \/ got = [kind |-> chip.reply, of |-> chip.of] /\ Fine
                          \/ got = [kind |-> "garbled", of |-> chip.of] /\ Fault

InTransfer == UNCHANGED <<bus, chip, alive, ret, test>>

WakeRead ==
    /\ pc = "wakeRead" /\ InTransfer
    /\ \/ /\ Refused /\ retries' = retries - 1
          /\ IF retries' > 0 THEN UNCHANGED <<pc, status>>
             ELSE pc' = "idle" /\ status' = Failure
       \/ InvalidSize(4) /\ pc' = "idle" /\ status' = Failure /\ UNCHANGED retries
       \/ \E got \in [kind : {"wake", "error", "garbled"}, of : 0..test] :
            /\ Received(4, got) /\ UNCHANGED retries
            /\ IF got.kind = "wake" THEN pc' = "send" /\ UNCHANGED status
               ELSE pc' = "idle" /\ status' = Failure
    /\ UNCHANGED <<packet, polls>>

\* The command goes out.  The chip takes it, perhaps misread, or refuses a byte.
Send ==
    /\ pc = "send"
    /\ \/ /\ Listens
          /\ \/ chip' = [chip EXCEPT !.busy = TRUE, !.reply = "answer", !.of = test] /\ Fine
             \/ chip' = [chip EXCEPT !.busy = TRUE, !.reply = "error"] /\ Fault
          /\ pc' = "poll" /\ polls' = MaxPolls /\ retries' = RxRetries
          /\ UNCHANGED status
       \/ /\ IF Listens THEN Fault /\ chip' \in {chip, [chip EXCEPT !.reply = "error"]}
             ELSE Fine /\ UNCHANGED chip
          /\ pc' = "idle" /\ status' = Failure /\ UNCHANGED <<polls, retries>>
    /\ UNCHANGED <<bus, alive, packet, ret, test>>

\* Seeded fault: the polls are not counted.
PollsOverNever == IF polls > 0 THEN pc' = "poll" /\ UNCHANGED polls
                  ELSE pc' = "check" /\ UNCHANGED polls

\* A receive without a reply: another poll after a pause, until they are used up.
PollsOver == IF polls > 0 THEN pc' = "poll" /\ polls' = polls - 1
             ELSE pc' = "check" /\ UNCHANGED polls

Poll ==
    /\ pc = "poll" /\ InTransfer
    /\ \/ /\ Refused
          /\ IF retries > 1 THEN retries' = retries - 1 /\ UNCHANGED <<pc, polls>>
             ELSE retries' = RxRetries /\ PollsOver
          /\ UNCHANGED packet
       \/ InvalidSize(35) /\ retries' = RxRetries /\ PollsOver /\ UNCHANGED packet
       \/ \E kind \in {"wake", "error", "garbled", "answer"}, of \in 0..test :
            /\ Received(35, [kind |-> kind, of |-> of])
            /\ packet' = [kind |-> kind, of |-> of]
            /\ pc' = "check" /\ UNCHANGED <<retries, polls>>
    /\ UNCHANGED status

\* i2c_send_ack waits without a limit for the data line to follow.
AckStuck == /\ pc \in {"wakeRead", "poll"}
            /\ Listens /\ chip.reply # "none" /\ Fault
            /\ pc' = "hung"
            /\ UNCHANGED <<bus, chip, alive, packet, retries, polls, status, ret, test>>

\* atCheckCrc: of data nobody has received anything may be true.
CheckCrc(p, ok) == ok = (p.kind # "garbled") \/ p.kind = "unread"

\* Seeded fault: error frames are not told from answers.
IsErrorNever(p) == FALSE

\* isATCAError: a frame of four bytes that tells of an error, or of a wake-up.
IsError(p) == p.kind \in {"wake", "error"}

\* The size check before it never fails: no receive writes rxsize.  What receiving
\* returned is lost here.
Check == /\ pc = "check"
         /\ \E ok \in BOOLEAN :
              /\ CheckCrc(packet, ok)
              /\ status' = IF ok /\ ~IsError(packet) THEN ATCA_SUCCESS ELSE Failure
         /\ pc' = "idle"
         /\ UNCHANGED <<bus, chip, alive, packet, retries, polls, ret, test, mishaps>>

\* atidle in every case; its own status is not looked at.
AtIdle == /\ pc = "idle"
          /\ \/ Listens /\ chip' = Asleep /\ Fine
             \/ Listens /\ UNCHANGED chip /\ Fault
             \/ ~Listens /\ UNCHANGED chip /\ Fine
          /\ pc' = "return"
          /\ UNCHANGED <<bus, alive, packet, retries, polls, status, ret, test>>

\* Only a success releases the device.
Return == /\ pc = "return"
          /\ ret' = status
          /\ IF status = ATCA_SUCCESS THEN AtcabRelease ELSE UNCHANGED bus
          /\ pc' = "off"
          /\ UNCHANGED <<chip, alive, packet, retries, polls, status, test, mishaps>>

Software == WakeToken \/ WakeRead \/ Send \/ Poll \/ AckStuck \/ Check \/ AtIdle \/ Return

--------------------------------------------------------------------------------
\* The chip ends its command, or its own watchdog the whole.
ChipDone == /\ alive /\ chip.busy
            /\ chip' = [chip EXCEPT !.busy = FALSE]
            /\ UNCHANGED <<pc, bus, alive, packet, retries, polls, status, ret, test,
                           mishaps>>

ChipSleeps == /\ alive /\ chip.awake
              /\ chip' = Asleep
              /\ UNCHANGED <<pc, bus, alive, packet, retries, polls, status, ret, test,
                             mishaps>>

ChipDies == /\ alive /\ Fault
            /\ alive' = FALSE
            /\ UNCHANGED <<pc, bus, chip, packet, retries, polls, status, ret, test>>

Chip == ChipDone \/ ChipSleeps \/ ChipDies

--------------------------------------------------------------------------------
TypeOK == /\ pc \in {"off", "token", "wakeRead", "send", "poll", "check", "idle",
                     "return", "hung"}
          /\ {device, pins, alive} \subseteq BOOLEAN /\ refs \in 0..1
          /\ chip \in [awake : BOOLEAN, busy : BOOLEAN,
                       reply : {"none", "wake", "error", "answer"}, of : 0..test]
          /\ packet \in [kind : {"unread", "wake", "error", "garbled", "answer"},
                         of : 0..test]
          /\ retries \in 0..RxRetries /\ polls \in 0..MaxPolls
          /\ status \in {ATCA_SUCCESS, Failure} /\ ret \in {ATCA_SUCCESS, Failure, None}
          /\ test \in Nat /\ mishaps \in 0..MaxFaults

\* The bus counts its users right over tests that fail and leave their device
\* behind, and no transfer is made on pins that have been given up.
BusMatchesUsers == /\ refs = IF device THEN 1 ELSE 0
                   /\ pins <=> device
                   /\ pc # "off" => device

\* A test succeeds on the chip's answer to its own command, not on an error, a
\* wake-up or the late answer to an earlier test - unless nothing has been received
\* at all: then the verdict is that of two bytes nobody wrote.
AnswerOwn == ret = ATCA_SUCCESS =>
               packet \in {[kind |-> "answer", of |-> test], Unread}
================================================================================
