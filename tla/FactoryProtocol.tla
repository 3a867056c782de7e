---------------------------- MODULE FactoryProtocol ----------------------------
(***************************************************************************)
(* The factory test as a whole: the host program (factory_test/ftest.c     *)
(* over the raw socket of rs.c), the Ethernet link, and the board (module  *)
(* BoardApp).  The host asks for one thing at a time and waits for one     *)
(* frame with a time limit.  Each run of the program numbers its requests  *)
(* from 0 again, and _do counts an answer with another number as success.  *)
(*                                                                         *)
(* Faults says what the bench may do to the protocol:                      *)
(*   "loss"     a frame is lost on the link, or sending one fails          *)
(*   "socket"   waiting for or reading an answer fails                     *)
(*   "overrun"  a time limit passes although the answer is still to come   *)
(*   "kill"     the operator interrupts the host program                   *)
(*   "power"    the operator power-cycles the board                        *)
(*   "early"    the host program is started before the board is up         *)
(* Without "overrun" a time limit passes only when no answer can come any  *)
(* more: the tests are faster than the limits of 10, 80, 60 and 2 seconds. *)
(***************************************************************************)
EXTENDS Integers, Sequences

CONSTANTS Capacity,    \* messages the board's pool holds
          InboxDepth,  \* bound: frames the board's receive FIFO can hold
          MaxRuns,     \* bound: times the host program is started
          Faults

ASSUME FactoryAssumption ==
         /\ Capacity \in Nat \ {0} /\ InboxDepth \in Nat /\ MaxRuns \in Nat
         /\ Faults \subseteq {"loss", "socket", "overrun", "kill", "power",
                               "early"}

VARIABLES inbox, rxEvent, stored, pc, req, ret, result, bLoop, led, outbox, txHeld,
          ran,
          hpc,         \* host: "off" (not running), "send" or "wait" (inside _do)
          step,        \* host: the command of the current _do
          gpid,        \* host: next pid
          hresult,     \* host: `result', sent with RESULT
          hret,        \* host: `ret' of main, the exit code
          sock,        \* host: frames in the buffer of the raw socket
          run,         \* history: runs started
          claimed,     \* history: steps this run has printed "success" for
          failed,      \* history: runs that took the failed branch
          ended        \* history: runs that came to their end

Board == INSTANCE BoardApp WITH MaxFrames <- 0, Commands <- {}, frames <- 0

boardVars == <<inbox, rxEvent, stored, pc, req, ret, result, bLoop, led, outbox, txHeld,
               ran>>
hostVars == <<hpc, step, gpid, hresult, hret, sock, run, claimed, failed, ended>>
vars == <<boardVars, hostVars>>

HostTests == {"DRAM_TEST", "FLASH_TEST", "ECC_TEST"}
Steps == HostTests \cup {"CONNECT", "RESULT", "FINISH"}

--------------------------------------------------------------------------------
Init == /\ Board!BoardInit
        /\ hpc = "off" /\ step = "CONNECT" /\ gpid = 0
        /\ hresult = 0 /\ hret = 0 /\ sock = <<>>
        /\ run = 0 /\ claimed = {} /\ failed = {} /\ ended = {}

\* The operator starts ftest: a new process, a new socket.  Without "early" the
\* operator waits for the board's first LED.
Start == /\ hpc = "off"
         /\ run < MaxRuns
         /\ pc \in {"boot", "bootCheck"} => "early" \in Faults
         /\ run' = run + 1
         /\ gpid' = 0 /\ hresult' = 0 /\ hret' = 0
         /\ step' = "CONNECT" /\ hpc' = "send"
         /\ sock' = <<>> /\ claimed' = {}
         /\ UNCHANGED <<boardVars, failed, ended>>

--------------------------------------------------------------------------------
(***************************************************************************)
(* _do: send one request, wait for one frame, judge it.                    *)
(***************************************************************************)
\* A request is identified by its run and its pid; a run makes at most 6 calls.
Id(r, p) == 6 * r + p
RunOf(id) == id \div 6

\* The call under way waits for an answer to its own request.
CallId == Id(run, gpid - 1)

\* The make_package functions; data is what make_package_result puts there.
Package == [magic |-> "MAGIC", cmd |-> step, pid |-> gpid, id |-> Id(run, gpid),
            data |-> IF step = "RESULT" THEN hresult ELSE 0]

\* RSWrite succeeds; the frame reaches the board's FIFO or is lost on the way.
SendRequest == /\ hpc = "send"
               /\ \/ Board!Arrive(Package)
                  \/ "loss" \in Faults /\ UNCHANGED boardVars
               /\ gpid' = gpid + 1
               /\ hpc' = "wait"
               /\ UNCHANGED <<step, hresult, hret, sock, run, claimed, failed, ended>>

\* Seeded fault: only an answer that says so is a failure, silence is not.
FailsLenient(r) == r = 1

\* The values of _do that send main to its failed branch.
Fails(r) == r # 0

\* Seeded fault: the failed branch leaves `result' as it was.
FailedResultUnset == 0

\* `result' in the failed branch.
FailedResult == 1

NextTest == CASE step = "CONNECT" -> "DRAM_TEST"
              [] step = "DRAM_TEST" -> "FLASH_TEST"
              [] step = "FLASH_TEST" -> "ECC_TEST"
              [] step = "ECC_TEST" -> "FINISH"

\* What main does with the value of _do: the next test, or RESULT and FINISH
\* after the first failure, or just FINISH after the last success.  The values
\* of the last two calls are not looked at.
AfterTest(r) ==
  /\ step \in HostTests \cup {"CONNECT"}
  /\ hret' = r
  /\ \/ /\ ~ Fails(r)
        /\ step' = NextTest
        /\ claimed' = claimed \cup {step}
        /\ UNCHANGED <<hresult, failed>>
     \/ /\ Fails(r)
        /\ step' = "RESULT"
        /\ hresult' = FailedResult
        /\ failed' = failed \cup {run}
        /\ UNCHANGED claimed
  /\ hpc' = "send"
  /\ UNCHANGED ended

\* Seeded fault: after RESULT the host does not go on to FINISH.
AfterResultAgain == /\ step = "RESULT"
                    /\ hpc' = "send"
                    /\ UNCHANGED <<step, hret, hresult, claimed, failed, ended>>

\* Seeded fault: the failed branch ends without FINISH.
AfterResultEnds == /\ step = "RESULT"
                   /\ hpc' = "off"
                   /\ ended' = ended \cup {run}
                   /\ UNCHANGED <<step, hret, hresult, claimed, failed>>

AfterResult == /\ step = "RESULT"
               /\ step' = "FINISH"
               /\ hpc' = "send"
               /\ UNCHANGED <<hret, hresult, claimed, failed, ended>>

AfterFinish == /\ step = "FINISH"
               /\ hpc' = "off"
               /\ ended' = ended \cup {run}
               /\ UNCHANGED <<step, hret, hresult, claimed, failed>>

Return(r) == AfterTest(r) \/ AfterResult \/ AfterFinish

\* Seeded fault: any frame is taken for success.
JudgeArrived(m) == 0

\* The frame _do reads decides its value: a frame with the expected pid by its
\* cmd, and a frame with any other pid is success.
Judge(m) == IF m.pid = gpid - 1
            THEN IF m.cmd = "RET_SUCCES" THEN 0 ELSE 1
            ELSE 0

\* Seeded fault: the frame stays in the socket.
ReadAnswerPeek == /\ hpc = "wait"
                  /\ sock # <<>>
                  /\ Return(Judge(Head(sock)))
                  /\ UNCHANGED <<boardVars, gpid, sock, run>>

ReadAnswer == /\ hpc = "wait"
              /\ sock # <<>>
              /\ Return(Judge(Head(sock)))
              /\ sock' = Tail(sock)
              /\ UNCHANGED <<boardVars, gpid, run>>

\* An answer to the request under way can still come.
AnswerPossible ==
  LET Has(frames) == \E i \in 1 .. Len(frames) : frames[i].id = CallId
  IN  \/ Has(outbox)
      \/ req.id = CallId /\ pc \in {"dispatch", "test", "netTest", "reply"}
      \/ (Has(inbox) \/ Has(stored)) /\ bLoop /\ pc # "dead"

\* Seeded fault: no time limit for RESULT and FINISH.
TimeoutTestsOnly == /\ hpc = "wait"
                    /\ sock = <<>>
                    /\ step \notin {"RESULT", "FINISH"}
                    /\ ~ AnswerPossible \/ "overrun" \in Faults
                    /\ Return(2)
                    /\ UNCHANGED <<boardVars, gpid, sock, run>>

\* RSSelect returns 0: the time limit has passed.
Timeout == /\ hpc = "wait"
           /\ sock = <<>>
           /\ ~ AnswerPossible \/ "overrun" \in Faults
           /\ Return(2)
           /\ UNCHANGED <<boardVars, gpid, sock, run>>

\* RSWrite fails and nothing is sent, or RSSelect or RSRead fails while the
\* answer is still to come, unread, or just taken from the socket.
SocketError == /\ \/ /\ hpc = "send" /\ "loss" \in Faults
                     /\ gpid' = gpid + 1 /\ UNCHANGED sock
                  \/ /\ hpc = "wait" /\ "socket" \in Faults
                     /\ sock' \in {sock} \cup (IF sock = <<>> THEN {} ELSE {Tail(sock)})
                     /\ UNCHANGED gpid
               /\ Return(2)
               /\ UNCHANGED <<boardVars, run>>

HostStep == SendRequest \/ ReadAnswer \/ Timeout

--------------------------------------------------------------------------------
(***************************************************************************)
(* The link and the operator.                                              *)
(***************************************************************************)
\* A frame from the board reaches the host; without an open socket the kernel
\* drops it.
Deliver == /\ Len(outbox) > txHeld
           /\ outbox' = Tail(outbox)
           /\ sock' = IF hpc = "off" THEN sock ELSE Append(sock, Head(outbox))
           /\ UNCHANGED <<inbox, rxEvent, stored, pc, req, ret, result, bLoop, led, txHeld,
                          ran>>
           /\ UNCHANGED <<hpc, step, gpid, hresult, hret, run, claimed, failed, ended>>

LoseAnswer == /\ "loss" \in Faults
              /\ Len(outbox) > txHeld
              /\ outbox' = Tail(outbox)
              /\ UNCHANGED <<inbox, rxEvent, stored, pc, req, ret, result, bLoop, led,
                             txHeld, ran>>
              /\ UNCHANGED hostVars

Kill == /\ "kill" \in Faults
        /\ hpc # "off"
        /\ hpc' = "off"
        /\ UNCHANGED <<boardVars, step, gpid, hresult, hret, sock, run, claimed,
                       failed, ended>>

\* A frame leaves the board's transmit FIFO.
Transmit == Board!Transmit /\ UNCHANGED hostVars

PowerCycle == /\ "power" \in Faults
              /\ Board!PowerCycle
              /\ UNCHANGED hostVars

BoardStep == Board!BoardStep /\ UNCHANGED hostVars

Next == \/ Start \/ HostStep \/ SocketError
        \/ Transmit \/ Deliver \/ LoseAnswer
        \/ Kill \/ PowerCycle
        \/ BoardStep

Spec == Init /\ [][Next]_vars

\* Both programs run, tests end, time passes, and the link takes what the board
\* sends and delivers what it does not lose.  Nobody has to start the host, and
\* no fault has to happen.
FairSpec == /\ Spec /\ WF_vars(HostStep) /\ WF_vars(BoardStep)
            /\ WF_vars(Transmit) /\ WF_vars(Deliver)

--------------------------------------------------------------------------------
TypeOK == /\ Len(inbox) <= InboxDepth /\ Len(stored) < Capacity
          /\ hpc \in {"off", "send", "wait"}
          /\ step \in Steps
          /\ gpid \in 0 .. 6
          /\ hresult \in {0, 1}
          /\ hret \in 0 .. 2
          /\ run \in 0 .. MaxRuns
          /\ claimed \subseteq Steps
          /\ failed \subseteq 1 .. MaxRuns /\ ended \subseteq 1 .. MaxRuns

\* "memtest success", "flashtest success", "atecctest success": when a run of
\* ftest claims that a test succeeded, the board has run that test for a request
\* of this run, and it passed.
SuccessMeansTested ==
  \A c \in claimed \cap HostTests : \E p \in 0 .. 3 : <<Id(run, p), c, 0>> \in ran

\* Whatever the time limits do, a board that has seen only one run is not
\* misread: the numbers of one run are all different, and no late answer of it
\* has the effect of a later one.
FirstRunHonest == run = 1 => SuccessMeansTested

\* The LEDs are what the operator looks at: they tell what the run whose FINISH
\* ended the board's loop has told on its terminal, unless an earlier run was
\* interrupted: `result' keeps a failure until the board is restarted.
LightsMatchRun ==
  pc \in {"ledSuccess", "ledFailed"} /\ 1 .. RunOf(req.id) - 1 \subseteq ended =>
    (pc = "ledFailed" <=> RunOf(req.id) \in failed)

\* Stop and wait: as long as the board answers, there is never more than one
\* request or answer of any run anywhere between the two programs.
OneOutstanding ==
  bLoop /\ pc # "dead" => Len(inbox) + Len(stored) + Len(outbox) + Len(sock)
             + (IF pc \in {"dispatch", "test", "netTest", "reply"} THEN 1 ELSE 0) <= 1

\* A run of the host program comes to its end, whatever is lost.
HostTerminates == (hpc # "off") ~> (hpc = "off")

\* A run that has come to its end leaves the board with a verdict on its LEDs.
VerdictShown == \A r \in 1 .. MaxRuns :
                  r \in ended ~> pc \in {"ledSuccess", "ledFailed"}
================================================================================
