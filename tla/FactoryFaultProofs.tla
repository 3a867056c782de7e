-------------------------- MODULE FactoryFaultProofs --------------------------
(***************************************************************************)
(* Theorems about FactoryProtocol that survive the faults FactoryProofs    *)
(* excludes: time limits that pass early, reads that fail, a host program  *)
(* that is interrupted.  Then messages pile up between the programs, so    *)
(* the invariants here do not rest on there being only one of them, but    *)
(* for the first run up to its first failure.  The last part follows the   *)
(* messages of several runs through the pool to what the LEDs show.        *)
(***************************************************************************)
EXTENDS FactoryProofs

--------------------------------------------------------------------------------
(***************************************************************************)
(* The types, whatever happens.                                            *)
(***************************************************************************)
\* The steps in the order a run can take them: each makes one call.
Rank(s) == CASE s = "CONNECT" -> 0 [] s = "DRAM_TEST" -> 1
             [] s = "FLASH_TEST" -> 2 [] s = "ECC_TEST" -> 3
             [] s = "RESULT" -> 4 [] s = "FINISH" -> 5

HostFields == /\ hresult \in {0, 1} /\ hret \in 0 .. 2
              /\ run \in 0 .. MaxRuns
              /\ hpc # "off" => run \in 1 .. MaxRuns
              /\ claimed \subseteq Steps
              /\ failed \subseteq 1 .. MaxRuns /\ ended \subseteq 1 .. MaxRuns
              /\ IF hpc = "off" THEN gpid <= 6
                 ELSE gpid <= Rank(step) + (IF hpc = "wait" THEN 1 ELSE 0)

Sizes == Len(inbox) <= InboxDepth /\ Len(stored) < Capacity

TypeInv == Fields /\ HostFields /\ Sizes

LEMMA RankOf == \A s \in Steps : /\ Rank(s) \in 0 .. 5
                                 /\ s = "CONNECT" => Rank(s) = 0
                                 /\ s = "RESULT" => Rank(s) = 4
                                 /\ s = "FINISH" => Rank(s) = 5
  BY DEF Rank, Steps, HostTests

\* A call returns: the next step comes later in the order.
LEMMA ReturnTypes ==
  ASSUME TypeInv, hpc # "off", NEW r \in 0 .. 2, Return(r),
         gpid' \in Nat, gpid' <= Rank(step) + 1, run' = run
  PROVE  HostFields' /\ step' \in Steps /\ hpc' \in {"send", "off"}
<1> USE DEF TypeInv
<1>1. step \in Steps /\ run \in 1 .. MaxRuns
  BY DEF Fields, HostFields
<1>2. CASE AfterTest(r)
  <2>1. /\ step \in HostTests \cup {"CONNECT"} /\ hret' = r /\ hpc' = "send" /\ ended' = ended
        /\ \/ /\ step' = NextTest /\ claimed' = claimed \cup {step}
              /\ hresult' = hresult /\ failed' = failed
           \/ /\ step' = "RESULT" /\ hresult' = 1 /\ claimed' = claimed
              /\ failed' = failed \cup {run}
    BY <1>2 DEF AfterTest, FailedResult
  <2>2. step' \in Steps /\ Rank(step') >= Rank(step) + 1
    BY <2>1 DEF NextTest, Rank, Steps, HostTests
  <2>3. Rank(step) \in Nat /\ Rank(step') \in Nat
    BY <1>1, <2>2, RankOf
  <2>4. gpid' <= Rank(step')
    BY <2>2, <2>3
  <2>5. claimed' \subseteq Steps /\ failed' \subseteq 1 .. MaxRuns /\ hresult' \in {0, 1}
    BY <1>1, <2>1 DEF HostFields
  <2> QED
    BY <1>1, <2>1, <2>2, <2>3, <2>4, <2>5 DEF HostFields
<1>3. CASE AfterResult
  <2>1. /\ step = "RESULT" /\ step' = "FINISH" /\ hpc' = "send"
        /\ UNCHANGED <<hret, hresult, claimed, failed, ended>>
    BY <1>3 DEF AfterResult
  <2>2. step' \in Steps /\ Rank(step) = 4 /\ Rank(step') = 5
    BY <1>1, <2>1 DEF Rank, Steps
  <2> QED
    BY <1>1, <2>1, <2>2 DEF HostFields
<1>4. CASE AfterFinish
  <2>1. /\ step = "FINISH" /\ step' = step /\ hpc' = "off" /\ ended' = ended \cup {run}
        /\ UNCHANGED <<hret, hresult, claimed, failed>>
    BY <1>4 DEF AfterFinish
  <2>2. Rank(step) = 5
    BY <1>1, <2>1, RankOf
  <2> QED
    BY <1>1, <2>1, <2>2 DEF HostFields
<1> QED
  BY <1>2, <1>3, <1>4 DEF Return

\* What the pool hands out is what waits in it and then in the FIFO, in that order,
\* as far as it fits.
LEMMA DrainedIs ==
  ASSUME Fields
  PROVE  /\ Board!Drained \in Seq(Requests) /\ Len(Board!Drained) \in Nat
         /\ Len(Board!Drained) = IF Len(stored) + Len(inbox) <= Capacity
                                 THEN Len(stored) + Len(inbox) ELSE Capacity
         /\ \A k \in 1 .. Len(Board!Drained) :
              Board!Drained[k] = IF k <= Len(stored) THEN stored[k]
                                 ELSE inbox[k - Len(stored)]
<1> DEFINE all == stored \o inbox
<1>1. /\ all \in Seq(Requests) /\ Len(all) = Len(stored) + Len(inbox) /\ Len(all) \in Nat
      /\ \A k \in 1 .. Len(all) :
           all[k] = IF k <= Len(stored) THEN stored[k] ELSE inbox[k - Len(stored)]
  BY ConcatProperties DEF Fields
<1>2. Capacity \in Nat \ {0}
  BY FactoryAssumption
<1>3. CASE Len(all) <= Capacity
  BY <1>1, <1>3 DEF Board!Drained
<1>4. CASE ~ Len(all) <= Capacity
  <2>1. \A k \in 1 .. Capacity : all[k] \in Requests
    BY <1>1, <1>2, <1>4
  <2>2. /\ SubSeq(all, 1, Capacity) \in Seq(Requests)
        /\ Len(SubSeq(all, 1, Capacity)) = Capacity
        /\ \A k \in 1 .. Capacity : SubSeq(all, 1, Capacity)[k] = all[k]
    BY <2>1, SubSeqProperties, <1>1, <1>2, <1>4
  <2>3. Board!Drained = SubSeq(all, 1, Capacity)
    BY <1>4 DEF Board!Drained
  <2> HIDE DEF all
  <2> QED
    BY <1>1, <1>2, <1>4, <2>2, <2>3
<1> QED
  BY <1>1, <1>3, <1>4

\* The board's part of the types, and what it leaves alone.
LEMMA BoardTypes ==
  ASSUME Fields, Sizes, Board!BoardStep
  PROVE  /\ inbox' \in Seq(Requests) /\ stored' \in Seq(Requests)
         /\ outbox' \in Seq(Answers) /\ txHeld' \in Nat
         /\ InWork' => req' \in Requests
         /\ pc' # "netTest" /\ bLoop' \in BOOLEAN
         /\ Sizes'
<1> USE DEF Fields, Sizes
<1>1. CASE Board!Fetch
  <2>1. /\ Board!Drained \in Seq(Requests) /\ Board!Drained # <<>>
        /\ Len(Board!Drained) <= Capacity
    BY <1>1, DrainedIs, FactoryAssumption DEF Board!Fetch
  <2>2. /\ Head(Board!Drained) \in Requests /\ Tail(Board!Drained) \in Seq(Requests)
        /\ Len(Tail(Board!Drained)) < Capacity
    BY <2>1, FactoryAssumption
  <2>3. <<>> \in Seq(Requests) /\ Len(<<>>) <= InboxDepth
    BY FactoryAssumption
  <2> QED
    BY <1>1, <2>2, <2>3 DEF Board!Fetch
<1>2. CASE Board!Reply
  <2> DEFINE answer == [magic |-> req.magic, pid |-> req.pid, id |-> req.id,
                        cmd |-> IF ret = 0 THEN "RET_SUCCES" ELSE "RET_FAILED",
                        of |-> req.cmd]
  <2>1. req \in Requests /\ outbox' = Append(outbox, answer)
    BY <1>2 DEF Board!Reply, InWork
  <2>2. answer \in Answers
    BY <2>1 DEF Requests, Answers
  <2>3. outbox' \in Seq(Answers)
    <3> HIDE DEF answer
    <3> QED
      BY <2>1, <2>2
  <2> QED
    BY <1>2, <2>3 DEF Board!Reply, InWork
<1>3. CASE \/ Board!Boot \/ Board!BootFailed \/ Board!BootDone \/ Board!BadMagic
           \/ Board!Connect \/ Board!SetResult \/ Board!Finish \/ Board!UnknownCommand
           \/ Board!StartTest \/ (\E r \in {0, 1} : Board!EndTest(r))
           \/ Board!ShowVerdict \/ Board!Blink
  <2>0. SentStands
    <3>1. txHeld \in Nat
      OBVIOUS
    <3> HIDE DEF Fields, Sizes
    <3> QED
      BY <1>3, <3>1 DEF Board!Boot, Board!ResetFifo, Board!BootFailed, Board!BootDone,
         Board!BadMagic, Board!Connect, Board!SetResult, Board!Finish,
         Board!UnknownCommand, Board!StartTest, Board!EndTest, Board!ShowVerdict,
         Board!Blink, SentStands
  <2>1. /\ inbox' \in {inbox, <<>>} /\ stored' = stored /\ req' = req
        /\ bLoop' \in {bLoop, FALSE} /\ pc' # "netTest" /\ (InWork' => InWork)
    BY <1>3 DEF Board!Boot, Board!ResetFifo, Board!BootFailed, Board!BootDone,
       Board!BadMagic, Board!Dispatch, Board!Connect, Board!SetResult, Board!Finish,
       Board!UnknownCommand, Board!StartTest, Board!EndTest, Board!ShowVerdict,
       Board!Blink, InWork
  <2>2. <<>> \in Seq(Requests) /\ Len(<<>>) <= InboxDepth
    BY FactoryAssumption
  <2>3. inbox' \in Seq(Requests) /\ Len(inbox') <= InboxDepth
    BY <2>1, <2>2
  <2>4. outbox' \in Seq(Answers) /\ txHeld' \in Nat
    BY <2>0, SentKeeps DEF SentStands
  <2> QED
    BY <2>1, <2>3, <2>4
<1>4. ~ Board!StartNetTest /\ ~ Board!EndNetTest
  <2>1. InWork => req.cmd # "NET_TEST"
    BY DEF Requests, Steps, HostTests
  <2> QED
    BY <2>1 DEF Board!StartNetTest, Board!EndNetTest, Board!Dispatch, InWork
<1> QED
  BY <1>1, <1>2, <1>3, <1>4 DEF Board!BoardStep, Board!LoopStep, Board!EndAnyTest

LEMMA SendTypes ==
  ASSUME TypeInv, SendRequest
  PROVE  TypeInv'
<1> USE DEF TypeInv
<1>1. /\ hpc = "send" /\ hpc' = "wait" /\ gpid' = gpid + 1 /\ gpid \in Nat
      /\ step' = step /\ run' = run /\ sock' = sock /\ hresult' = hresult /\ hret' = hret
      /\ claimed' = claimed /\ failed' = failed /\ ended' = ended
  BY DEF SendRequest, Fields
<1>2. /\ stored' = stored /\ outbox' = outbox /\ req' = req /\ pc' = pc /\ bLoop' = bLoop
      /\ txHeld' = txHeld
      /\ \/ inbox' = inbox
         \/ inbox' = Append(inbox, Package) /\ Len(inbox) < InboxDepth
  BY DEF SendRequest, Board!Arrive, boardVars
<1>3. inbox' \in Seq(Requests) /\ Len(inbox') <= InboxDepth
  <2>1. Package \in Requests
    BY DEF Package, Requests, Fields, Id
  <2>2. inbox \in Seq(Requests) /\ Len(inbox) \in Nat /\ Len(inbox) <= InboxDepth
    BY DEF Fields, Sizes
  <2>3. /\ Append(inbox, Package) \in Seq(Requests)
        /\ Len(Append(inbox, Package)) = Len(inbox) + 1
    BY <2>1, <2>2, AppendProperties, Zenon
  <2> QED
    BY <1>2, <2>2, <2>3, FactoryAssumption
<1>4. Fields'
  BY <1>1, <1>2, <1>3 DEF Fields, InWork
<1>5. HostFields'
  <2>1. step \in Steps /\ Rank(step) \in Nat
    BY RankOf DEF Fields
  <2> QED
    BY <1>1, <2>1 DEF HostFields
<1> QED
  BY <1>2, <1>3, <1>4, <1>5 DEF Sizes

LEMMA CallTypes ==
  ASSUME TypeInv, ReadAnswer \/ Timeout \/ SocketError
  PROVE  TypeInv'
<1> USE DEF TypeInv
<1>1. PICK r \in 0 .. 2 : Return(r)
  BY DEF ReadAnswer, Timeout, SocketError, Judge
<1>2. /\ hpc # "off" /\ run' = run /\ UNCHANGED boardVars
      /\ \/ hpc = "wait" /\ gpid' = gpid
         \/ hpc = "send" /\ gpid' = gpid + 1
      /\ sock' = sock \/ (sock # <<>> /\ sock' = Tail(sock))
  BY DEF ReadAnswer, Timeout, SocketError
<1>3. gpid' \in Nat /\ gpid' <= Rank(step) + 1
  <2>1. Rank(step) \in Nat /\ gpid \in Nat
    BY RankOf DEF Fields
  <2> QED
    BY <1>2, <2>1 DEF HostFields
<1>4. HostFields' /\ step' \in Steps /\ hpc' \in {"send", "off"}
  BY <1>1, <1>2, <1>3, ReturnTypes
<1>5. sock' \in Seq(Answers)
  <2>1. sock \in Seq(Answers)
    BY DEF Fields
  <2>2. sock # <<>> => Tail(sock) \in Seq(Answers)
    BY <2>1
  <2> QED
    BY <1>2, <2>1, <2>2
<1>6. hresult' \in Nat /\ run' \in Nat
  BY <1>2, <1>4 DEF HostFields, Fields
<1>7. Fields'
  BY <1>2, <1>3, <1>4, <1>5, <1>6 DEF Fields, boardVars, InWork
<1> QED
  BY <1>2, <1>4, <1>7 DEF Sizes, boardVars

LEMMA DeliverTypes ==
  ASSUME TypeInv, Deliver \/ LoseAnswer
  PROVE  TypeInv'
<1> USE DEF TypeInv
<1>1. /\ outbox # <<>> /\ outbox' = Tail(outbox) /\ txHeld' = txHeld
      /\ sock' = sock \/ sock' = Append(sock, Head(outbox))
      /\ UNCHANGED <<inbox, stored, pc, req, bLoop, hpc, step, gpid, hresult, hret, run,
                     claimed, failed, ended>>
  BY DEF Deliver, LoseAnswer, hostVars, Fields
<1>2. /\ outbox' \in Seq(Answers) /\ Head(outbox) \in Answers /\ sock \in Seq(Answers)
  BY <1>1 DEF Fields
<1>3. sock' \in Seq(Answers)
  <2>1. Append(sock, Head(outbox)) \in Seq(Answers)
    BY <1>2, AppendProperties, Zenon
  <2> QED
    BY <1>1, <1>2, <2>1, Zenon
<1> QED
  BY <1>1, <1>2, <1>3 DEF Fields, HostFields, Sizes, InWork

LEMMA TypeStep == TypeInv /\ [Next]_vars => TypeInv'
<1> SUFFICES ASSUME TypeInv, [Next]_vars
             PROVE  TypeInv'
  OBVIOUS
<1> USE DEF TypeInv
<1>1. CASE Start
  <2>1. run + 1 \in 1 .. MaxRuns
    BY <1>1, FactoryAssumption DEF Start, HostFields
  <2>2. Rank("CONNECT") = 0 /\ "CONNECT" \in Steps /\ <<>> \in Seq(Answers)
    BY DEF Rank, Steps
  <2> QED
    BY <1>1, <2>1, <2>2 DEF Start, boardVars, Fields, HostFields, Sizes, InWork
<1>2. CASE SendRequest
  BY <1>2, SendTypes
<1>3. CASE ReadAnswer \/ Timeout \/ SocketError
  BY <1>3, CallTypes
<1>4. CASE Deliver \/ LoseAnswer
  BY <1>4, DeliverTypes
<1>5. CASE Kill
  <2>1. Rank(step) \in 0 .. 5 /\ gpid \in Nat
    BY RankOf DEF Fields
  <2>2. gpid <= 6
    BY <2>1 DEF HostFields
  <2> QED
    BY <1>5, <2>2 DEF Kill, boardVars, Fields, HostFields, Sizes, InWork
<1>6. CASE PowerCycle
  <2>1. /\ inbox' = <<>> /\ stored' = <<>> /\ pc' = "boot" /\ bLoop' = TRUE
        /\ SentStands /\ UNCHANGED hostVars
    BY <1>6 DEF PowerCycle, Board!PowerCycle, SentStands
  <2>2. <<>> \in Seq(Requests) /\ Len(<<>>) <= InboxDepth /\ Len(<<>>) < Capacity
    BY FactoryAssumption
  <2>3. Sizes'
    BY <2>1, <2>2 DEF Sizes
  <2>4. outbox' \in Seq(Answers) /\ txHeld' \in Nat
    BY <2>1, SentKeeps DEF Fields, SentStands
  <2> QED
    BY <2>1, <2>2, <2>3, <2>4 DEF hostVars, Fields, HostFields, InWork
<1>7. CASE BoardStep
  <2>1. Board!BoardStep /\ UNCHANGED hostVars
    BY <1>7 DEF BoardStep
  <2>2. /\ inbox' \in Seq(Requests) /\ stored' \in Seq(Requests)
        /\ outbox' \in Seq(Answers) /\ txHeld' \in Nat
        /\ InWork' => req' \in Requests
        /\ pc' # "netTest" /\ bLoop' \in BOOLEAN /\ Sizes'
    BY <2>1, BoardTypes
  <2>3. /\ sock' \in Seq(Answers)
        /\ hpc' \in {"off", "send", "wait"} /\ step' \in Steps
        /\ run' \in Nat /\ gpid' \in Nat /\ hresult' \in Nat
    BY <2>1 DEF hostVars, Fields
  <2>4. Fields'
    BY <2>2, <2>3, Zenon DEF Fields
  <2> QED
    BY <2>1, <2>2, <2>4 DEF hostVars, HostFields
<1>8. CASE UNCHANGED vars
  BY <1>8 DEF vars, boardVars, hostVars, Fields, HostFields, Sizes, InWork
<1>9. CASE Transmit
  BY <1>9 DEF Transmit, Board!Transmit, hostVars, Fields, HostFields, Sizes, InWork
<1> QED
  BY <1>1, <1>2, <1>3, <1>4, <1>5, <1>6, <1>7, <1>8, <1>9 DEF Next, HostStep

LEMMA TypeStart == Init => TypeInv
<1> SUFFICES ASSUME Init
             PROVE  TypeInv
  OBVIOUS
<1>1. Fields
  BY ProtocolInit DEF ProtocolInv
<1>2. HostFields
  BY FactoryAssumption DEF Init, HostFields
<1>3. Sizes
  BY FactoryAssumption DEF Init, Board!BoardInit, Sizes
<1> QED
  BY <1>1, <1>2, <1>3 DEF TypeInv

\* A run makes at most six calls, the queues keep within their sizes, and the board has
\* room for at least one more request whenever it works on one: whatever the bench does.
THEOREM TypeCorrect == Spec => []TypeOK
<1>1. TypeInv => TypeOK
  <2> SUFFICES ASSUME TypeInv
               PROVE  TypeOK
    OBVIOUS
  <2>1. Rank(step) \in 0 .. 5 /\ gpid \in Nat /\ step \in Steps
    BY RankOf DEF TypeInv, Fields
  <2>2. gpid \in 0 .. 6
    BY <2>1 DEF TypeInv, HostFields
  <2> QED
    BY <2>1, <2>2 DEF TypeInv, Fields, HostFields, Sizes, TypeOK
<1> QED
  BY <1>1, TypeStart, TypeStep, PTL DEF Spec

--------------------------------------------------------------------------------
(***************************************************************************)
(* The first run.  Up to its first failure it is in step with the board as *)
(* if no time limit ever passed early; after that it claims nothing more.  *)
(***************************************************************************)
InStep == \/ run = 0
          \/ run = 1 /\ hpc # "off" /\ step \in HostTests \cup {"CONNECT"}

FirstInv == /\ Fields
            /\ run = 0 => hpc = "off"
            /\ InStep => ProtocolInv
            /\ FirstRunHonest

\* Once the first run has failed, or another has begun, it stays that way; no claim is
\* added to the first run and no test taken back.
LEMMA OutOfStep ==
  ASSUME FirstInv, Fields', ~ InStep', run # 0, run' \in {run, run + 1},
         run' = 1 => claimed' = claimed, ran \subseteq ran'
  PROVE  FirstInv'
<1>1. run \in Nat /\ run' # 0
  BY DEF FirstInv, Fields
<1>2. FirstRunHonest'
  <2> SUFFICES ASSUME run' = 1
               PROVE  SuccessMeansTested'
    BY DEF FirstRunHonest
  <2>1. run = 1 /\ claimed' = claimed
    BY <1>1
  <2> QED
    BY <2>1 DEF FirstInv, FirstRunHonest, SuccessMeansTested
<1> QED
  BY <1>1, <1>2 DEF FirstInv

\* While it is in step, only an early limit, a failed read or an interrupt are not steps
\* that FactoryProofs allows, and these end it.
LEMMA FirstInStep ==
  ASSUME FirstInv, Fields', InStep, [Next]_vars
  PROVE  FirstInv'
<1> USE DEF FirstInv
<1>1. ProtocolInv /\ run \in Nat
  BY DEF Fields
<1>2. ASSUME ProtocolInv', run' = 0 => hpc' = "off"
      PROVE  FirstInv'
  BY <1>2 DEF ProtocolInv, FirstRunHonest
<1>3. ASSUME run' = run, ran' = ran, hpc = "wait", Return(2)
      PROVE  FirstInv'
  <2>1. run = 1 /\ step \in HostTests \cup {"CONNECT"}
    BY <1>3 DEF InStep
  <2>2. AfterTest(2)
    BY <1>3, <2>1 DEF Return, AfterResult, AfterFinish, HostTests
  <2>3. step' = "RESULT" /\ claimed' = claimed
    BY <2>2 DEF AfterTest, Fails
  <2>4. ~ InStep'
    BY <1>3, <2>1, <2>3 DEF InStep, HostTests
  <2> QED
    BY <1>3, <2>1, <2>3, <2>4, OutOfStep
<1>4. CASE Start
  BY <1>1, <1>2, <1>4, StartKeeps DEF Start
<1>5. CASE SendRequest
  BY <1>1, <1>2, <1>5, SendRequestKeeps DEF SendRequest, InStep
<1>6. CASE ReadAnswer
  <2>1. run' = run /\ hpc = "wait"
    BY <1>6 DEF ReadAnswer
  <2> QED
    BY <1>1, <1>2, <1>6, <2>1, ReadAnswerKeeps DEF InStep
<1>7. CASE Timeout
  BY <1>3, <1>7 DEF Timeout, boardVars
<1>8. CASE SocketError
  <2>1. CASE hpc = "wait"
    BY <1>3, <1>8, <2>1 DEF SocketError, boardVars
  <2>2. CASE hpc # "wait"
    <3>1. /\ hpc = "send" /\ sock' = sock /\ Return(2)
          /\ gpid' = gpid + 1 /\ run' = run
          /\ UNCHANGED boardVars
      BY <1>8, <2>2 DEF SocketError
    <3>2. ran' = ran /\ gpid' \in Nat /\ run = 1 /\ step \in HostTests \cup {"CONNECT"}
      BY <3>1 DEF boardVars, Fields, InStep
    <3>3. AfterTest(2)
      BY <3>1, <3>2 DEF Return, AfterResult, AfterFinish, HostTests
    <3>4. step' = "RESULT" /\ claimed' = claimed
      BY <3>3 DEF AfterTest, Fails
    <3>5. ~ InStep'
      BY <3>1, <3>2, <3>4 DEF InStep, HostTests
    <3> QED
      BY <3>1, <3>2, <3>4, <3>5, OutOfStep
  <2> QED
    BY <2>1, <2>2
<1>9. CASE Deliver \/ LoseAnswer
  BY <1>1, <1>2, <1>9, DeliverKeeps, LoseAnswerKeeps DEF Deliver, LoseAnswer, hostVars
<1>10. CASE Kill
  <2>1. hpc # "off" /\ hpc' = "off" /\ run' = run /\ claimed' = claimed /\ ran' = ran
    BY <1>10 DEF Kill, boardVars
  <2>2. run # 0 /\ ~ InStep'
    BY <2>1 DEF InStep
  <2> QED
    BY <2>1, <2>2, OutOfStep
<1>11. CASE PowerCycle \/ BoardStep \/ Transmit
  BY <1>1, <1>2, <1>11, PowerCycleKeeps, BoardKeeps, TransmitKeeps
     DEF PowerCycle, BoardStep, Transmit, hostVars
<1>12. CASE UNCHANGED vars
  BY <1>12 DEF vars, boardVars, hostVars, ProtocolInv, Fields, StopAndWait, Belongs,
     Numbered, SuccessMeansTested, Outstanding, Held, Worked, InWork, Listening, Asked,
     Told, Passed, CallId, FirstRunHonest, InStep
<1> QED
  BY <1>4, <1>5, <1>6, <1>7, <1>8, <1>9, <1>10, <1>11, <1>12 DEF Next, HostStep

\* A run out of step does not come back into it; the next run is not the first.
LEMMA FirstPast ==
  ASSUME FirstInv, Fields', ~ InStep, [Next]_vars
  PROVE  FirstInv'
<1> USE DEF FirstInv
<1>1. run \in Nat /\ run # 0
  BY DEF Fields, InStep
<1>2. CASE Start
  <2>1. run' = run + 1 /\ ran' = ran
    BY <1>2 DEF Start, boardVars
  <2>2. ~ InStep' /\ run' # 1
    BY <1>1, <2>1 DEF InStep
  <2> QED
    BY <1>1, <2>1, <2>2, OutOfStep
<1>3. CASE ReadAnswer \/ Timeout \/ SocketError
  <2>1. /\ run' = run /\ ran' = ran /\ hpc # "off"
        /\ \E r : Return(r)
    BY <1>3 DEF ReadAnswer, Timeout, SocketError, boardVars
  <2>2. CASE run = 1
    <3>1. step \notin HostTests \cup {"CONNECT"}
      BY <2>1, <2>2 DEF InStep
    <3>2. AfterResult \/ AfterFinish
      BY <2>1, <3>1 DEF Return, AfterTest
    <3>3. step' = "FINISH" /\ claimed' = claimed
      BY <3>2 DEF AfterResult, AfterFinish
    <3>4. ~ InStep'
      BY <1>1, <2>1, <3>3 DEF InStep, HostTests
    <3> QED
      BY <1>1, <2>1, <3>3, <3>4, OutOfStep
  <2>3. CASE run # 1
    <3>1. ~ InStep'
      BY <1>1, <2>1, <2>3 DEF InStep
    <3> QED
      BY <1>1, <2>1, <2>3, <3>1, OutOfStep
  <2> QED
    BY <2>2, <2>3
<1>4. CASE SendRequest \/ Deliver \/ LoseAnswer \/ Kill \/ PowerCycle \/ BoardStep
           \/ Transmit \/ UNCHANGED vars
  <2>1. run' = run /\ claimed' = claimed /\ step' = step
    BY <1>4 DEF SendRequest, Deliver, LoseAnswer, Kill, PowerCycle, BoardStep, Transmit,
       vars, hostVars
  <2>2. hpc' # "off" => hpc # "off"
    BY <1>4 DEF SendRequest, Deliver, LoseAnswer, Kill, PowerCycle, BoardStep, Transmit,
       vars, hostVars
  <2>3. ~ InStep'
    BY <1>1, <2>1, <2>2 DEF InStep
  <2>4. ran \subseteq ran'
    <3>1. CASE BoardStep
      BY <3>1 DEF BoardStep, Board!BoardStep, Board!LoopStep, Board!EndAnyTest,
         Board!Boot, Board!BootFailed, Board!BootDone,
         Board!Fetch, Board!BadMagic, Board!Connect, Board!SetResult, Board!Finish,
         Board!UnknownCommand, Board!StartTest, Board!EndTest, Board!StartNetTest,
         Board!EndNetTest, Board!Reply, Board!ShowVerdict, Board!Blink
    <3>2. CASE ~ BoardStep
      BY <1>4, <3>2 DEF SendRequest, Board!Arrive, Deliver, LoseAnswer, Kill, PowerCycle,
         Board!PowerCycle, Transmit, Board!Transmit, vars, boardVars
    <3> QED
      BY <3>1, <3>2
  <2> QED
    BY <1>1, <2>1, <2>3, <2>4, OutOfStep
<1> QED
  BY <1>2, <1>3, <1>4 DEF Next, HostStep

\* Whatever the time limits do, a board that has seen only one run is not misread: what
\* the first run claims of a test is true under every fault.
THEOREM FirstRunHonestAlways == Spec => []FirstRunHonest
<1>1. Init => FirstInv
  BY ProtocolInit DEF FirstInv, ProtocolInv, FirstRunHonest, Init
<1>2. TypeInv' => Fields'
  BY DEF TypeInv
<1>3. FirstInv /\ Fields' /\ [Next]_vars => FirstInv'
  BY FirstInStep, FirstPast
<1>4. FirstInv => FirstRunHonest
  BY DEF FirstInv
<1> QED
  BY <1>1, <1>2, <1>3, <1>4, TypeStart, TypeStep, PTL DEF Spec

--------------------------------------------------------------------------------
(***************************************************************************)
(* The LEDs.  Nothing is lost on the link and the board stays on, but time *)
(* limits may pass early, reads fail and runs be interrupted.  The         *)
(* requests of the first run stand in front of all others and are at most  *)
(* three, so that the pool has room for them; RESULT is in front of        *)
(* FINISH, and FINISH ends the board's loop.                               *)
(***************************************************************************)
Kept == Faults \subseteq {"overrun", "socket", "kill"} /\ Capacity >= 3

\* The requests that wait on the board, the oldest first.
Line == stored \o inbox

First(m) == RunOf(m.id) = 1
IsResult(m) == First(m) /\ m.cmd = "RESULT"
IsFinish(m) == First(m) /\ m.cmd = "FINISH"
Failed1 == 1 \in failed

\* The board has worked on no request of a later run.
Early == RunOf(req.id) <= 1

\* What the first run is when it sends RESULT and FINISH.
FromFirst(m) == /\ m.cmd = "RESULT" => m.data # 0 /\ Failed1
                /\ m.cmd = "FINISH" => run > 1 \/ (step = "FINISH" /\ hpc # "send")

\* The board knows of the failure, or will before it fetches what stands at place i.
ResultAt(i) == \/ result # 0
               \/ pc = "dispatch" /\ IsResult(req)
               \/ \E j \in 1 .. i - 1 : IsResult(Line[j])

Waking == /\ pc \in {"boot", "bootCheck"} => run = 0
          /\ run = 0 => stored = <<>> /\ inbox = <<>> /\ ~ rxEvent /\ result = 0
          /\ pc # "dead"
          /\ failed \subseteq 1 .. run /\ ended \subseteq 1 .. run

Numbers == /\ \A i \in 1 .. Len(Line) : RunOf(Line[i].id) \in 1 .. run
           /\ RunOf(req.id) \in 0 .. run
           /\ InWork => RunOf(req.id) >= 1

InFront == \A i \in 1 .. Len(Line) :
             First(Line[i]) => /\ i <= 3 /\ Early /\ FromFirst(Line[i])
                               /\ \A j \in 1 .. i : First(Line[j])

Current == First(req) /\ (pc = "dispatch" \/ ~ bLoop) => FromFirst(req)

ResultKnown ==
  /\ Early /\ result # 0 => Failed1
  /\ Failed1 => \A i \in 1 .. Len(Line) : IsFinish(Line[i]) => ResultAt(i)
  /\ Failed1 /\ (pc = "dispatch" \/ ~ bLoop) /\ IsFinish(req) => result # 0

LoopEnd == /\ ~ bLoop => /\ req.cmd = "FINISH" /\ RunOf(req.id) >= 1
                         /\ pc \notin {"dispatch", "test", "boot", "bootCheck"}
           /\ pc \in {"ledSuccess", "ledFailed"} => ~ bLoop
           /\ pc = "ledSuccess" => result = 0
           /\ pc = "ledFailed" => result # 0

FinishAhead ==
  1 \in ended \/ (run = 1 /\ hpc = "wait" /\ step = "FINISH") =>
    IF bLoop THEN \/ pc = "dispatch" /\ IsFinish(req)
                  \/ \E i \in 1 .. Len(Line) : IsFinish(Line[i])
             ELSE First(req)

FailedHost ==
  run = 1 /\ hpc # "off" =>
    /\ step \in HostTests \cup {"CONNECT"} => ~ Failed1
    /\ step = "RESULT" => /\ Failed1 /\ hresult # 0
                          /\ Len(Line) <= IF hpc = "wait" THEN 2 ELSE 1
    /\ step = "FINISH" /\ hpc = "send" => Len(Line) <= 2
    /\ Failed1 /\ (IF hpc = "wait" THEN step = "RESULT" ELSE step = "FINISH") =>
         ResultAt(Len(Line) + 1)

LightsInv == /\ Waking /\ Numbers /\ InFront /\ Current /\ ResultKnown
             /\ LoopEnd /\ FinishAhead /\ FailedHost

LEMMA LineIs ==
  ASSUME Fields
  PROVE  Line \in Seq(Requests) /\ Len(Line) \in Nat /\ Len(Line) = Len(stored) + Len(inbox)
  BY ConcatProperties DEF Fields, Line

LEMMA LightsStart == Init => LightsInv
<1> SUFFICES ASSUME Init
             PROVE  LightsInv
  OBVIOUS
<1> USE DEF Init, Board!BoardInit
<1>1. Fields
  BY ProtocolInit DEF ProtocolInv
<1>2. Len(Line) = 0
  BY <1>1, LineIs
<1>3. RunOf(req.id) = 0
  BY DEF Board!NoReq, RunOf
<1> QED
  BY <1>2, <1>3 DEF LightsInv, Waking, Numbers, InFront, Current, ResultKnown, LoopEnd,
     FinishAhead, FailedHost, First, InWork

LEMMA LightsTrue == LightsInv => LightsMatchRun
<1> SUFFICES ASSUME LightsInv, pc \in {"ledSuccess", "ledFailed"},
                    1 .. RunOf(req.id) - 1 \subseteq ended
             PROVE  pc = "ledFailed" <=> RunOf(req.id) \in failed
  BY DEF LightsMatchRun
<1>1. /\ ~ bLoop /\ req.cmd = "FINISH" /\ RunOf(req.id) >= 1
      /\ pc = "ledSuccess" => result = 0
      /\ pc = "ledFailed" => result # 0
  BY DEF LightsInv, LoopEnd
<1>2. RunOf(req.id) \in Int
  BY DEF LightsInv, Numbers
<1>3. RunOf(req.id) = 1
  <2>1. CASE RunOf(req.id) > 1
    <3>1. 1 \in ended
      BY <1>2, <2>1
    <3> QED
      BY <1>1, <3>1 DEF LightsInv, FinishAhead, First
  <2> QED
    BY <1>1, <1>2, <2>1
<1>4. First(req) /\ IsFinish(req) /\ Early
  BY <1>1, <1>3 DEF First, IsFinish, Early
<1> QED
  BY <1>1, <1>3, <1>4 DEF LightsInv, ResultKnown, Failed1

\* What a step that leaves the board alone does not touch.
BoardStays == UNCHANGED <<inbox, rxEvent, stored, pc, req, result, bLoop>>
HostStays == UNCHANGED <<hpc, step, hresult, run, failed, ended>>

\* The parts of the invariant that only the board changes.
LEMMA LineStays ==
  ASSUME UNCHANGED <<inbox, stored>>
  PROVE  Line' = Line
  BY DEF Line

\* The host goes on, and what it had sent remains true.
LEMMA HostMoves ==
  ASSUME LightsInv, Fields, Fields', BoardStays, run' = run, failed' = failed,
         \A m : FromFirst(m) => FromFirst(m)', ended' \subseteq 1 .. run,
         FinishAhead', FailedHost'
  PROVE  LightsInv'
<1>1. Line' = Line
  BY LineStays DEF BoardStays
<1>2. UNCHANGED <<inbox, rxEvent, stored, pc, req, result, bLoop>>
  BY DEF BoardStays
<1> USE DEF LightsInv
<1>3. Waking'
  BY <1>2 DEF Waking
<1>4. Numbers'
  BY <1>1, <1>2 DEF Numbers, InWork
<1>5. InFront'
  BY <1>1, <1>2 DEF InFront, First, Early
<1>6. Current'
  BY <1>2 DEF Current, First
<1>7. ResultKnown'
  BY <1>1, <1>2 DEF ResultKnown, Early, IsFinish, IsResult, First, ResultAt, Failed1
<1>8. LoopEnd'
  BY <1>2 DEF LoopEnd
<1> QED
  BY <1>3, <1>4, <1>5, <1>6, <1>7, <1>8

\* A new run begins.
LEMMA LightsNewRun ==
  ASSUME LightsInv, Fields, Fields', Kept, Start
  PROVE  LightsInv'
<1>1. /\ BoardStays /\ run' = run + 1 /\ failed' = failed /\ ended' = ended /\ hpc = "off"
      /\ step' = "CONNECT" /\ hpc' = "send" /\ pc \notin {"boot", "bootCheck"} /\ run \in Nat
  BY DEF Start, boardVars, BoardStays, Kept, Fields
<1>2. Line' = Line
  BY <1>1, LineStays DEF BoardStays
<1>3. UNCHANGED <<inbox, rxEvent, stored, pc, req, result, bLoop>>
  BY <1>1 DEF BoardStays
<1>4. \A m : RunOf(m.id) <= run /\ First(m) /\ FromFirst(m) => FromFirst(m)'
  BY <1>1 DEF FromFirst, First, Failed1
<1> USE DEF LightsInv
<1>5. Waking'
  BY <1>1, <1>3 DEF Waking
<1>6. Numbers'
  BY <1>1, <1>2, <1>3 DEF Numbers, InWork
<1>7. InFront'
  <2> SUFFICES ASSUME NEW i \in 1 .. Len(Line), First(Line[i])
               PROVE  /\ i <= 3 /\ Early' /\ FromFirst(Line[i])'
                      /\ \A j \in 1 .. i : First(Line[j])
    BY <1>2 DEF InFront, First
  <2>1. /\ i <= 3 /\ Early /\ FromFirst(Line[i]) /\ \A j \in 1 .. i : First(Line[j])
    BY DEF InFront
  <2>2. RunOf(Line[i].id) <= run
    BY DEF Numbers
  <2>3. FromFirst(Line[i])'
    <3>1. PICK m : m = Line[i]
      OBVIOUS
    <3>2. FromFirst(m)'
      BY <1>4, <2>1, <2>2, <3>1
    <3> QED
      BY <1>2, <3>1, <3>2 DEF FromFirst
  <2>4. Early'
    BY <1>3, <2>1 DEF Early
  <2> QED
    BY <2>1, <2>3, <2>4
<1>8. Current'
  <2>1. RunOf(req.id) <= run
    BY DEF Numbers
  <2> QED
    BY <1>3, <1>4, <2>1 DEF Current, First
<1>9. ResultKnown'
  BY <1>1, <1>2, <1>3 DEF ResultKnown, Early, IsFinish, IsResult, First, ResultAt, Failed1
<1>10. LoopEnd'
  BY <1>3 DEF LoopEnd
<1>11. FinishAhead'
  BY <1>1, <1>2, <1>3 DEF FinishAhead, IsFinish, First
<1>12. FailedHost'
  <2>1. run' = 1 => 1 \notin failed
    BY <1>1 DEF Waking
  <2> QED
    BY <1>1, <2>1 DEF FailedHost, HostTests, Failed1
<1> QED
  BY <1>5, <1>6, <1>7, <1>8, <1>9, <1>10, <1>11, <1>12

\* While the first run is in step with the board, hardly anything waits there.
LEMMA InStepLine ==
  ASSUME LightsInv, FirstInv, run = 1, hpc # "off", step \in HostTests \cup {"CONNECT"}
  PROVE  /\ bLoop /\ Len(Line) <= IF hpc = "wait" THEN 1 ELSE 0
         /\ hpc = "wait" /\ sock # <<>> => Len(Line) = 0
         /\ \A m : First(m) /\ FromFirst(m) => m.cmd # "FINISH"
<1>1. ProtocolInv /\ Fields
  BY DEF FirstInv, InStep
<1>2. step # "FINISH"
  BY DEF HostTests
<1>3. \A m : First(m) /\ FromFirst(m) => m.cmd # "FINISH"
  BY <1>2 DEF FromFirst
<1>4. bLoop
  <2> SUFFICES ASSUME ~ bLoop
               PROVE  FALSE
    BY <1>1 DEF Fields
  <2>1. req.cmd = "FINISH" /\ RunOf(req.id) >= 1 /\ RunOf(req.id) \in 0 .. 1
    BY DEF LightsInv, LoopEnd, Numbers
  <2>2. First(req) /\ FromFirst(req)
    BY <2>1 DEF First, LightsInv, Current
  <2> QED
    BY <1>3, <2>1, <2>2
<1>5. Held = Len(Line)
  BY <1>1, <1>4, LineIs DEF Held, Listening, LightsInv, Waking
<1>6. /\ Outstanding <= (IF hpc = "wait" THEN 1 ELSE 0)
      /\ Worked \in Nat /\ Len(outbox) \in Nat /\ Len(sock) \in Nat /\ Held \in Nat
      /\ Outstanding = Held + Worked + Len(outbox) + Len(sock)
  BY <1>1, OutstandingNat DEF ProtocolInv, StopAndWait, Outstanding
<1>7. sock # <<>> => Len(sock) > 0
  BY <1>1, EmptySeq DEF Fields
<1> QED
  BY <1>3, <1>4, <1>5, <1>6, <1>7

\* A call of the host program returns.
LEMMA LightsCall ==
  ASSUME LightsInv, FirstInv, TypeInv, TypeInv', Kept, ReadAnswer \/ Timeout \/ SocketError
  PROVE  LightsInv'
<1>0. Fields /\ Fields' /\ run \in Nat /\ (hpc = "wait" => run \in 1 .. MaxRuns)
  BY DEF TypeInv, HostFields, Fields
<1>1. /\ hpc = "wait" /\ run' = run /\ UNCHANGED boardVars
      /\ \E r : Return(r) /\ (Fails(r) \/ sock # <<>>)
  BY DEF ReadAnswer, Timeout, SocketError, Kept, Fails
<1>2. BoardStays /\ run \in 1 .. MaxRuns /\ Fields /\ Fields' /\ run \in Nat
  BY <1>0, <1>1 DEF BoardStays, boardVars
<1>3. PICK r : Return(r) /\ (Fails(r) \/ sock # <<>>)
  BY <1>1
<1>4. Line' = Line /\ UNCHANGED <<inbox, rxEvent, stored, pc, req, result, bLoop>>
  BY <1>2, LineStays DEF BoardStays
<1>5. \A i : ResultAt(i) => ResultAt(i)'
  BY <1>4 DEF ResultAt, IsResult, First
<1>6. failed \subseteq 1 .. run /\ ended \subseteq 1 .. run
  BY DEF LightsInv, Waking
<1>7. FinishAhead
  BY DEF LightsInv
<1>8. CASE AfterTest(r) /\ ~ Fails(r)
  <2>1. /\ step \in HostTests \cup {"CONNECT"} /\ step' = NextTest /\ failed' = failed
        /\ ended' = ended /\ hpc' = "send" /\ sock # <<>>
    BY <1>3, <1>8 DEF AfterTest
  <2>2. step' \in HostTests \cup {"FINISH"}
    BY <2>1 DEF NextTest, HostTests
  <2>3. FinishAhead'
    BY <1>1, <1>4, <1>7, <2>1 DEF FinishAhead, IsFinish, First
  <2>4. FailedHost'
    <3>1. run = 1 => ~ Failed1 /\ Len(Line) = 0
      BY <1>1, <2>1, InStepLine DEF LightsInv, FailedHost
    <3> QED
      BY <1>1, <1>4, <2>1, <2>2, <3>1 DEF FailedHost, Failed1, HostTests
  <2>5. \A m : FromFirst(m) => FromFirst(m)'
    BY <1>1, <2>1 DEF FromFirst, Failed1, HostTests
  <2> QED
    BY <1>1, <1>2, <1>6, <2>1, <2>3, <2>4, <2>5, HostMoves
<1>9. CASE AfterTest(r) /\ Fails(r)
  <2>1. /\ step \in HostTests \cup {"CONNECT"} /\ step' = "RESULT" /\ hresult' = 1
        /\ failed' = failed \cup {run} /\ ended' = ended /\ hpc' = "send"
    BY <1>9 DEF AfterTest, FailedResult
  <2>2. FinishAhead'
    BY <1>1, <1>4, <1>7, <2>1 DEF FinishAhead, IsFinish, First
  <2>3. FailedHost'
    <3>1. run = 1 => Len(Line) \in Nat /\ Len(Line) <= 1
      BY <1>1, <1>2, <2>1, InStepLine, LineIs
    <3> QED
      BY <1>1, <1>4, <2>1, <3>1 DEF FailedHost, Failed1, HostTests
  <2>4. \A m : FromFirst(m) => FromFirst(m)'
    BY <1>1, <2>1 DEF FromFirst, Failed1, HostTests
  <2>5. CASE run = 1
    <3>1. \A m : First(m) /\ FromFirst(m) => m.cmd # "FINISH"
      BY <1>1, <2>1, <2>5, InStepLine
    <3>2. /\ \A i \in 1 .. Len(Line) : ~ IsFinish(Line[i])
          /\ ~ ((pc = "dispatch" \/ ~ bLoop) /\ IsFinish(req))
      BY <3>1 DEF LightsInv, InFront, Current, IsFinish
    <3>3. Failed1'
      BY <2>1, <2>5 DEF Failed1
    <3> USE DEF LightsInv
    <3>4. Waking'
      BY <1>1, <1>2, <1>4, <1>6, <2>1 DEF Waking
    <3>5. Numbers'
      BY <1>1, <1>4 DEF Numbers, InWork
    <3>6. InFront'
      BY <1>4, <2>4 DEF InFront, First, Early
    <3>7. Current'
      BY <1>4, <2>4 DEF Current, First
    <3>8. ResultKnown'
      <4>1. \A i \in 1 .. Len(Line)' : ~ IsFinish(Line[i])'
        BY <1>4, <3>2 DEF IsFinish, First
      <4>2. ~ ((pc = "dispatch" \/ ~ bLoop) /\ IsFinish(req))'
        BY <1>4, <3>2 DEF IsFinish, First
      <4> QED
        BY <3>3, <4>1, <4>2 DEF ResultKnown
    <3>9. LoopEnd'
      BY <1>4 DEF LoopEnd
    <3> QED
      BY <2>2, <2>3, <3>4, <3>5, <3>6, <3>7, <3>8, <3>9
  <2>6. CASE run # 1
    <3>1. Failed1' <=> Failed1
      BY <2>1, <2>6 DEF Failed1
    <3> USE DEF LightsInv
    <3>2. Waking'
      BY <1>1, <1>2, <1>4, <1>6, <2>1 DEF Waking
    <3>3. Numbers'
      BY <1>1, <1>4 DEF Numbers, InWork
    <3>4. InFront'
      BY <1>4, <2>4 DEF InFront, First, Early
    <3>5. Current'
      BY <1>4, <2>4 DEF Current, First
    <3>6. ResultKnown'
      BY <1>4, <3>1 DEF ResultKnown, Early, IsFinish, IsResult, First, ResultAt
    <3>7. LoopEnd'
      BY <1>4 DEF LoopEnd
    <3> QED
      BY <2>2, <2>3, <3>2, <3>3, <3>4, <3>5, <3>6, <3>7
  <2> QED
    BY <2>5, <2>6
<1>10. CASE AfterResult
  <2>1. /\ step = "RESULT" /\ step' = "FINISH" /\ hpc' = "send"
        /\ UNCHANGED <<hresult, failed, ended>>
    BY <1>10 DEF AfterResult
  <2>2. FinishAhead'
    BY <1>1, <1>4, <1>7, <2>1 DEF FinishAhead, IsFinish, First
  <2>3. FailedHost'
    <3>1. run = 1 => Len(Line) <= 2 /\ (Failed1 => ResultAt(Len(Line) + 1))
      BY <1>1, <2>1 DEF LightsInv, FailedHost
    <3> QED
      BY <1>1, <1>4, <1>5, <2>1, <3>1 DEF FailedHost, Failed1, HostTests
  <2>4. \A m : FromFirst(m) => FromFirst(m)'
    BY <1>1, <2>1 DEF FromFirst, Failed1
  <2> QED
    BY <1>1, <1>2, <1>6, <2>1, <2>2, <2>3, <2>4, HostMoves
<1>11. CASE AfterFinish
  <2>1. /\ step = "FINISH" /\ step' = "FINISH" /\ hpc' = "off" /\ ended' = ended \cup {run}
        /\ UNCHANGED <<hresult, failed>>
    BY <1>11 DEF AfterFinish
  <2>2. FinishAhead'
    BY <1>1, <1>4, <1>7, <2>1 DEF FinishAhead, IsFinish, First
  <2>3. FailedHost'
    BY <2>1 DEF FailedHost
  <2>4. \A m : FromFirst(m) => FromFirst(m)'
    BY <1>1, <2>1 DEF FromFirst, Failed1
  <2>5. ended' \subseteq 1 .. run
    BY <1>2, <1>6, <2>1
  <2> QED
    BY <1>1, <1>2, <2>1, <2>2, <2>3, <2>4, <2>5, HostMoves
<1> QED
  BY <1>3, <1>8, <1>9, <1>10, <1>11 DEF Return

\* The operator interrupts a run, or an answer reaches the host.
LEMMA LightsOther ==
  ASSUME LightsInv, Fields, Fields', Kept,
         Deliver \/ Transmit \/ Kill \/ UNCHANGED vars
  PROVE  LightsInv'
<1>1. BoardStays /\ UNCHANGED <<step, hresult, run, failed, ended>> /\ hpc' \in {hpc, "off"}
  BY DEF Deliver, Transmit, Board!Transmit, Kill, vars, boardVars, hostVars, BoardStays
<1>2. Line' = Line /\ UNCHANGED <<inbox, rxEvent, stored, pc, req, result, bLoop>>
  BY <1>1, LineStays DEF BoardStays
<1>3. \A m : FromFirst(m) => FromFirst(m)'
  BY <1>1 DEF FromFirst, Failed1
<1>4. FinishAhead'
  BY <1>1, <1>2 DEF LightsInv, FinishAhead, IsFinish, First
<1>5. FailedHost'
  BY <1>1, <1>2 DEF LightsInv, FailedHost, ResultAt, IsResult, First, Failed1
<1>6. ended' \subseteq 1 .. run
  BY <1>1 DEF LightsInv, Waking
<1> QED
  BY <1>1, <1>3, <1>4, <1>5, <1>6, HostMoves

\* A request reaches the board.
LEMMA LightsSend ==
  ASSUME LightsInv, FirstInv, TypeInv, TypeInv', Kept, SendRequest
  PROVE  LightsInv'
<1>0. PICK m : m = Package
  OBVIOUS
<1>1. /\ hpc = "send" /\ hpc' = "wait" /\ inbox' = Append(inbox, m)
      /\ UNCHANGED <<stored, pc, req, result, bLoop, step, hresult, run, failed, ended>>
  BY <1>0 DEF SendRequest, Board!Arrive, Kept
<1>2. /\ Fields /\ run \in Nat /\ run >= 1 /\ gpid \in 0 .. 5 /\ step \in Steps
      /\ inbox' \in Seq(Requests)
  <2>1. Rank(step) \in 0 .. 5 /\ gpid \in Nat /\ step \in Steps
    BY RankOf DEF TypeInv, Fields
  <2> QED
    BY <1>1, <2>1 DEF TypeInv, HostFields, Fields
<1>3. /\ RunOf(m.id) = run /\ m \in Requests /\ m.cmd = step
      /\ step = "RESULT" => m.data = hresult
  <2>1. (6 * run + gpid) \div 6 = run
    BY <1>2
  <2> QED
    BY <1>0, <1>2, <2>1 DEF Package, Id, RunOf, Requests, Fields
<1>4. PICK n : n = Len(Line) + 1
  OBVIOUS
<1>5. /\ Len(Line) \in Nat /\ Len(Line') = n /\ Line'[n] = m
      /\ \A i \in 1 .. Len(Line) : Line'[i] = Line[i]
  <2>1. inbox \in Seq(Requests) /\ stored \in Seq(Requests)
    BY <1>2 DEF Fields
  <2>2. /\ Len(inbox') = Len(inbox) + 1 /\ inbox'[Len(inbox) + 1] = m
        /\ \A i \in 1 .. Len(inbox) : inbox'[i] = inbox[i]
    BY <1>1, <1>3, <2>1, AppendProperties
  <2>3. Line' = stored \o inbox' /\ Line = stored \o inbox
    BY <1>1 DEF Line
  <2> QED
    BY <1>2, <1>4, <2>1, <2>2, <2>3, ConcatProperties
<1>6. n \in Nat /\ n >= 1 /\ \A i \in 1 .. n : i \in 1 .. Len(Line) \/ i = n
  BY <1>4, <1>5
<1>7. \A r : FromFirst(r) => FromFirst(r)'
  BY <1>1 DEF FromFirst, Failed1
<1>8. \A i \in 1 .. n : ResultAt(i) => ResultAt(i)'
  <2>1. \A i \in 1 .. n : \A j \in 1 .. i - 1 : j \in 1 .. Len(Line)
    BY <1>4, <1>5
  <2> QED
    BY <1>1, <1>5, <2>1 DEF ResultAt, IsResult, First
<1>9. run = 1 => First(m) /\ n <= 3 /\ FromFirst(m)'
  <2> SUFFICES ASSUME run = 1
               PROVE  First(m) /\ n <= 3 /\ FromFirst(m)'
    OBVIOUS
  <2>1. First(m)
    BY <1>3 DEF First
  <2>2. CASE step \in HostTests \cup {"CONNECT"}
    <3>1. Len(Line) <= 0
      BY <1>1, <2>2, InStepLine
    <3>2. m.cmd \notin {"RESULT", "FINISH"}
      BY <1>3, <2>2 DEF HostTests
    <3> QED
      BY <1>4, <1>5, <2>1, <3>1, <3>2 DEF FromFirst
  <2>3. CASE step = "RESULT"
    <3>1. Failed1 /\ hresult # 0 /\ Len(Line) <= 1
      BY <1>1, <2>3 DEF LightsInv, FailedHost
    <3>2. m.cmd = "RESULT" /\ m.data # 0 /\ Failed1'
      BY <1>1, <1>3, <2>3, <3>1 DEF Failed1
    <3> QED
      BY <1>4, <1>5, <2>1, <3>1, <3>2 DEF FromFirst
  <2>4. CASE step = "FINISH"
    <3>1. Len(Line) <= 2
      BY <1>1, <2>4 DEF LightsInv, FailedHost
    <3> QED
      BY <1>1, <1>3, <1>4, <1>5, <2>1, <2>4, <3>1 DEF FromFirst
  <2> QED
    BY <1>2, <2>2, <2>3, <2>4 DEF Steps
<1>10. run # 1 => ~ First(m)
  BY <1>3 DEF First
<1> USE DEF LightsInv
<1>11. Waking'
  BY <1>1, <1>2 DEF Waking
<1>12. Numbers'
  <2> SUFFICES ASSUME NEW i \in 1 .. n
               PROVE  RunOf(Line[i].id)' \in 1 .. run
    BY <1>1, <1>5 DEF Numbers, InWork
  <2>1. CASE i \in 1 .. Len(Line)
    BY <1>5, <2>1 DEF Numbers, RunOf
  <2>2. CASE i = n
    BY <1>2, <1>3, <1>5, <2>2 DEF RunOf
  <2> QED
    BY <1>6, <2>1, <2>2
<1>13. InFront'
  <2> SUFFICES ASSUME NEW i \in 1 .. n, First(Line[i])'
               PROVE  /\ i <= 3 /\ Early' /\ FromFirst(Line[i])'
                      /\ \A j \in 1 .. i : First(Line[j])'
    BY <1>5 DEF InFront
  <2>1. \A j \in 1 .. Len(Line) : First(Line[j])' <=> First(Line[j])
    BY <1>5 DEF First
  <2>2. First(Line[n])' <=> First(m)
    BY <1>5 DEF First
  <2>3. \A r : Line'[i] = r /\ FromFirst(r)' => FromFirst(Line[i])'
    BY DEF FromFirst
  <2>4. CASE i \in 1 .. Len(Line)
    <3>1. /\ i <= 3 /\ Early /\ FromFirst(Line[i]) /\ \A j \in 1 .. i : First(Line[j])
      BY <2>1, <2>4 DEF InFront
    <3>2. PICK r : r = Line[i]
      OBVIOUS
    <3>3. FromFirst(r)' /\ Line'[i] = r
      BY <1>5, <1>7, <2>4, <3>1, <3>2
    <3>4. \A j \in 1 .. i : j \in 1 .. Len(Line)
      BY <1>5, <2>4
    <3>5. Early'
      BY <1>1, <3>1 DEF Early
    <3> QED
      BY <2>1, <2>3, <3>1, <3>3, <3>4, <3>5
  <2>5. CASE i = n
    <3>1. First(m) /\ run = 1
      BY <1>10, <2>2, <2>5
    <3>2. \A j \in 1 .. Len(Line) : First(Line[j])
      BY <3>1 DEF Numbers, First
    <3>3. Early'
      BY <1>1, <3>1 DEF Numbers, Early
    <3>4. FromFirst(Line[i])'
      BY <1>5, <1>9, <2>3, <2>5, <3>1
    <3> QED
      BY <1>6, <1>9, <2>1, <2>2, <2>5, <3>1, <3>2, <3>3, <3>4
  <2> QED
    BY <1>6, <2>4, <2>5
<1>14. Current'
  <2>1. First(req)' <=> First(req)
    BY <1>1 DEF First
  <2>2. FromFirst(req) => FromFirst(req)'
    BY <1>1 DEF FromFirst, Failed1
  <2> QED
    BY <1>1, <2>1, <2>2 DEF Current
<1>15. ResultKnown'
  <2>1. ASSUME Failed1, NEW i \in 1 .. n, IsFinish(Line[i])'
        PROVE  ResultAt(i)'
    <3>1. CASE i \in 1 .. Len(Line)
      BY <1>5, <1>8, <2>1, <3>1 DEF ResultKnown, IsFinish, First
    <3>2. CASE i = n
      <4>1. run = 1 /\ step = "FINISH"
        BY <1>3, <1>5, <1>10, <2>1, <3>2 DEF IsFinish, First
      <4>2. ResultAt(n)
        BY <1>1, <1>4, <2>1, <4>1 DEF FailedHost
      <4> QED
        BY <1>8, <2>1, <3>2, <4>2
    <3> QED
      BY <1>6, <2>1, <3>1, <3>2
  <2>2. Failed1' <=> Failed1
    BY <1>1 DEF Failed1
  <2> QED
    BY <1>1, <1>5, <2>1, <2>2 DEF ResultKnown, Early, IsFinish, First
<1>16. LoopEnd'
  BY <1>1 DEF LoopEnd
<1>17. FinishAhead'
  <2>1. \A j \in 1 .. Len(Line) : j \in 1 .. n /\ (IsFinish(Line[j]) => IsFinish(Line[j])')
    <3>1. \A j \in 1 .. Len(Line) : j \in 1 .. n
      BY <1>4, <1>5
    <3>2. \A j \in 1 .. Len(Line) : IsFinish(Line[j]) => IsFinish(Line[j])'
      BY <1>5 DEF IsFinish, First
    <3> QED
      BY <3>1, <3>2
  <2>2. CASE 1 \in ended
    <3>1. (\E i \in 1 .. Len(Line) : IsFinish(Line[i])) =>
            \E i \in 1 .. Len(Line') : IsFinish(Line[i])'
      BY <1>5, <2>1
    <3>2. IF bLoop THEN \/ pc = "dispatch" /\ IsFinish(req)
                        \/ \E i \in 1 .. Len(Line) : IsFinish(Line[i])
                   ELSE First(req)
      BY <2>2 DEF FinishAhead
    <3>3. (First(req) <=> First(req)') /\ (IsFinish(req) <=> IsFinish(req)')
      BY <1>1 DEF IsFinish, First
    <3> QED
      BY <1>1, <3>1, <3>2, <3>3 DEF FinishAhead
  <2>3. CASE run = 1 /\ step = "FINISH" /\ bLoop
    <3>1. IsFinish(Line[n])' /\ n \in 1 .. Len(Line')
      BY <1>3, <1>5, <1>6, <1>9, <2>3 DEF IsFinish, First
    <3> QED
      BY <1>1, <2>3, <3>1 DEF FinishAhead
  <2>4. CASE run = 1 /\ ~ bLoop
    <3>1. First(req)'
      BY <1>1, <2>4 DEF LoopEnd, Numbers, First
    <3> QED
      BY <1>1, <2>4, <3>1 DEF FinishAhead
  <2> QED
    BY <1>1, <2>2, <2>3, <2>4 DEF FinishAhead
<1>18. FailedHost'
  <2> SUFFICES ASSUME run = 1
               PROVE  FailedHost'
    BY <1>1 DEF FailedHost
  <2>1. /\ step \in HostTests \cup {"CONNECT"} => ~ Failed1
        /\ step = "RESULT" => Failed1 /\ hresult # 0 /\ Len(Line) <= 1
    BY <1>1 DEF FailedHost
  <2>2. step = "RESULT" => ResultAt(Len(Line) + 1)'
    <3> SUFFICES ASSUME step = "RESULT"
                 PROVE  ResultAt(Len(Line) + 1)'
      OBVIOUS
    <3>1. IsResult(Line[n])' /\ n \in 1 .. (Len(Line') + 1) - 1
      BY <1>3, <1>5, <1>6, <1>9 DEF IsResult, First
    <3> QED
      BY <3>1 DEF ResultAt
  <2>3. step = "RESULT" => Len(Line') <= 2
    BY <1>4, <1>5, <2>1
  <2> QED
    BY <1>1, <2>1, <2>2, <2>3 DEF FailedHost, Failed1, HostTests
<1> QED
  BY <1>11, <1>12, <1>13, <1>14, <1>15, <1>16, <1>17, <1>18

\* The board takes the oldest request; the pool may drop some of the last ones.
LEMMA LightsFetch ==
  ASSUME LightsInv, Fields, Fields', Kept, Board!Fetch, HostStays
  PROVE  LightsInv'
<1>1. /\ pc = "loop" /\ bLoop /\ pc' = "dispatch" /\ Board!Drained # <<>>
      /\ req' = Head(Board!Drained) /\ stored' = Tail(Board!Drained) /\ inbox' = <<>>
      /\ UNCHANGED <<result, bLoop, rxEvent>>
      /\ UNCHANGED <<hpc, step, hresult, run, failed, ended>>
  BY DEF Board!Fetch, HostStays
<1>2. PICK n : n = Len(Board!Drained)
  OBVIOUS
<1>3. /\ n \in Nat /\ n >= 1 /\ Len(Line) \in Nat /\ n <= Len(Line)
      /\ n = Len(Line) \/ n >= 3
      /\ req' = Line[1] /\ Len(Line') = n - 1
      /\ \A i \in 1 .. n - 1 : Line'[i] = Line[i + 1]
  <2>1. /\ Board!Drained \in Seq(Requests) /\ n \in Nat /\ n >= 1
        /\ n = IF Len(Line) <= Capacity THEN Len(Line) ELSE Capacity
        /\ Len(Line) \in Nat /\ Capacity \in Nat /\ Capacity >= 3
    BY <1>1, <1>2, DrainedIs, LineIs, FactoryAssumption DEF Kept
  <2>2. \A k \in 1 .. n : Board!Drained[k] = Line[k]
    <3>1. \A k \in 1 .. n : Board!Drained[k] = IF k <= Len(stored) THEN stored[k]
                                                ELSE inbox[k - Len(stored)]
      BY <1>2, DrainedIs
    <3>2. \A k \in 1 .. Len(Line) : Line[k] = IF k <= Len(stored) THEN stored[k]
                                               ELSE inbox[k - Len(stored)]
      BY ConcatProperties DEF Fields, Line
    <3>3. \A k \in 1 .. n : k \in 1 .. Len(Line)
      BY <2>1
    <3> QED
      BY <3>1, <3>2, <3>3
  <2>3. /\ stored' \in Seq(Requests) /\ Len(stored') = n - 1 /\ req' = Board!Drained[1]
        /\ \A i \in 1 .. n - 1 : stored'[i] = Board!Drained[i + 1]
    <3>1. PICK d : d = Board!Drained
      OBVIOUS
    <3>2. d \in Seq(Requests) /\ Len(d) = n /\ d # <<>>
      BY <1>1, <1>2, <2>1, <3>1
    <3>3. /\ Tail(d) \in Seq(Requests) /\ Len(Tail(d)) = n - 1 /\ Head(d) = d[1]
          /\ \A i \in 1 .. n - 1 : Tail(d)[i] = d[i + 1]
      BY <3>2, HeadTailProperties
    <3> QED
      BY <1>1, <3>1, <3>3
  <2>4. Line' = stored'
    BY <1>1, <2>3, ConcatEmptySeq DEF Line
  <2>5. \A i \in 1 .. n - 1 : i + 1 \in 1 .. n
    BY <2>1
  <2>6. 1 \in 1 .. n
    BY <2>1
  <2> QED
    BY <2>1, <2>2, <2>3, <2>4, <2>5, <2>6
<1>4. 1 \in 1 .. Len(Line) /\ \A i \in 1 .. n - 1 : i + 1 \in 1 .. Len(Line)
  BY <1>3
<1>5. \A m : FromFirst(m) => FromFirst(m)'
  BY <1>1 DEF FromFirst, Failed1
<1>6. First(req)' <=> First(Line[1])
  BY <1>3 DEF First
<1>7. \A i \in 1 .. n - 1 : /\ (First(Line[i])' <=> First(Line[i + 1]))
                             /\ (IsResult(Line[i])' <=> IsResult(Line[i + 1]))
                             /\ (IsFinish(Line[i])' <=> IsFinish(Line[i + 1]))
  BY <1>3 DEF First, IsResult, IsFinish
<1>8. \A j \in 1 .. Len(Line) : First(Line[j]) => j <= n
  BY <1>3 DEF LightsInv, InFront
<1>9. \A i \in 1 .. n : ResultAt(i + 1) => ResultAt(i)'
  <2> SUFFICES ASSUME NEW i \in 1 .. n, ResultAt(i + 1)
               PROVE  ResultAt(i)'
    OBVIOUS
  <2>1. CASE result # 0
    BY <1>1, <2>1 DEF ResultAt
  <2>2. CASE result = 0
    <3>1. PICK j \in 1 .. (i + 1) - 1 : IsResult(Line[j])
      BY <1>1, <2>2 DEF ResultAt
    <3>2. CASE j = 1
      BY <1>1, <1>3, <3>1, <3>2 DEF ResultAt, IsResult, First
    <3>3. CASE j # 1
      <4>1. j - 1 \in 1 .. n - 1 /\ j - 1 \in 1 .. i - 1 /\ (j - 1) + 1 = j
        BY <1>3, <3>1, <3>3
      <4>2. IsResult(Line[j - 1])'
        BY <1>7, <3>1, <4>1
      <4> QED
        BY <4>1, <4>2 DEF ResultAt
    <3> QED
      BY <3>2, <3>3
  <2> QED
    BY <2>1, <2>2
<1> USE DEF LightsInv
<1>10. Waking'
  <2>1. run # 0
    BY <1>1, <1>3, <1>4 DEF Numbers
  <2> QED
    BY <1>1, <2>1 DEF Waking
<1>11. Numbers'
  <2>1. \A i \in 1 .. Len(Line') : RunOf(Line[i].id)' \in 1 .. run
    BY <1>3, <1>4 DEF Numbers, RunOf
  <2>2. RunOf(req.id)' \in 1 .. run
    BY <1>3, <1>4 DEF Numbers, RunOf
  <2>3. run \in Nat
    BY DEF Fields
  <2> QED
    BY <1>1, <2>1, <2>2, <2>3 DEF Numbers
<1>12. InFront'
  <2> SUFFICES ASSUME NEW i \in 1 .. n - 1, First(Line[i])'
               PROVE  /\ i <= 3 /\ Early' /\ FromFirst(Line[i])'
                      /\ \A j \in 1 .. i : First(Line[j])'
    BY <1>3 DEF InFront
  <2>1. /\ i + 1 <= 3 /\ FromFirst(Line[i + 1]) /\ \A j \in 1 .. i + 1 : First(Line[j])
    BY <1>4, <1>7 DEF InFront
  <2>2. \A j \in 1 .. i : j \in 1 .. n - 1 /\ j + 1 \in 1 .. i + 1
    BY <1>3
  <2>3. First(Line[1])
    BY <2>1
  <2>4. Early'
    BY <1>6, <2>3 DEF Early, First
  <2>5. FromFirst(Line[i])'
    <3>1. PICK m : m = Line[i + 1]
      OBVIOUS
    <3>2. FromFirst(m)' /\ Line'[i] = m
      BY <1>3, <1>5, <2>1, <3>1
    <3> QED
      BY <3>2 DEF FromFirst
  <2> QED
    BY <1>7, <2>1, <2>2, <2>4, <2>5
<1>13. Current'
  <2> SUFFICES ASSUME First(req)'
               PROVE  FromFirst(req)'
    BY DEF Current
  <2>1. FromFirst(Line[1])
    BY <1>4, <1>6 DEF InFront
  <2>2. PICK m : m = Line[1]
    OBVIOUS
  <2>3. FromFirst(m)' /\ req' = m
    BY <1>3, <1>5, <2>1, <2>2
  <2> QED
    BY <2>3 DEF FromFirst
<1>14. ResultKnown'
  <2>1. Early' /\ result # 0 => Failed1
    <3> SUFFICES ASSUME Early', result # 0
                 PROVE  Failed1
      OBVIOUS
    <3>1. RunOf(Line[1].id) <= 1 /\ RunOf(Line[1].id) \in 1 .. run
      BY <1>3, <1>4 DEF Early, RunOf, Numbers
    <3>2. Early
      BY <1>4, <3>1 DEF First, InFront
    <3> QED
      BY <3>2 DEF ResultKnown
  <2>2. ASSUME Failed1, NEW i \in 1 .. n - 1, IsFinish(Line[i])'
        PROVE  ResultAt(i)'
    <3>1. ResultAt(i + 1)
      BY <1>4, <1>7, <2>2 DEF ResultKnown
    <3>2. i \in 1 .. n
      BY <1>3, <2>2
    <3>3. ResultAt(i + 1) => ResultAt(i)'
      BY <1>9, <3>2
    <3> QED
      BY <3>1, <3>3
  <2>3. ASSUME Failed1, IsFinish(req)'
        PROVE  result # 0
    <3>1. IsFinish(Line[1])
      BY <1>3, <2>3 DEF IsFinish, First
    <3>2. ResultAt(1)
      BY <1>4, <2>3, <3>1 DEF ResultKnown
    <3> QED
      BY <1>1, <3>2 DEF ResultAt
  <2>4. Failed1' <=> Failed1
    BY <1>1 DEF Failed1
  <2> QED
    BY <1>1, <1>3, <2>1, <2>2, <2>3, <2>4 DEF ResultKnown
<1>15. LoopEnd'
  BY <1>1 DEF LoopEnd
<1>16. FinishAhead'
  <2> SUFFICES ASSUME 1 \in ended \/ (run = 1 /\ hpc = "wait" /\ step = "FINISH")
               PROVE  IsFinish(req)' \/ \E i \in 1 .. n - 1 : IsFinish(Line[i])'
    BY <1>1, <1>3 DEF FinishAhead
  <2>1. PICK i \in 1 .. Len(Line) : IsFinish(Line[i])
    BY <1>1 DEF FinishAhead
  <2>2. i <= n
    BY <1>8, <2>1 DEF IsFinish
  <2>3. CASE i = 1
    BY <1>3, <2>1, <2>3 DEF IsFinish, First
  <2>4. CASE i # 1
    <3>1. i - 1 \in 1 .. n - 1 /\ (i - 1) + 1 = i
      BY <1>3, <2>2, <2>4
    <3> QED
      BY <1>7, <2>1, <3>1
  <2> QED
    BY <2>3, <2>4
<1>17. FailedHost'
  <2> SUFFICES ASSUME run = 1
               PROVE  FailedHost'
    BY <1>1 DEF FailedHost
  <2>1. Len(Line') <= Len(Line) /\ Len(Line') \in Nat
    BY <1>3
  <2>2. n = Len(Line)
    <3>1. First(Line[Len(Line)])
      BY <1>3 DEF Numbers, First
    <3>2. Len(Line) <= n
      BY <1>3, <1>8, <3>1
    <3> QED
      BY <1>3, <3>2
  <2>3. ResultAt(Len(Line) + 1) => ResultAt(Len(Line) + 1)'
    <3>1. n \in 1 .. n /\ n + 1 = Len(Line) + 1
      BY <1>3, <2>2
    <3>2. ResultAt(Len(Line) + 1) => ResultAt(n)'
      BY <1>9, <3>1
    <3>3. Len(Line') + 1 = n
      BY <1>3
    <3> QED
      BY <3>2, <3>3 DEF ResultAt
  <2> QED
    BY <1>1, <2>1, <2>2, <2>3 DEF FailedHost, Failed1
<1> QED
  BY <1>10, <1>11, <1>12, <1>13, <1>14, <1>15, <1>16, <1>17

\* RESULT and FINISH take effect, and the other steps of the board leave the verdict alone.
LEMMA LightsWork ==
  ASSUME LightsInv, Fields, Fields', HostStays, UNCHANGED <<inbox, stored, req>>,
         rxEvent' = rxEvent, pc' \notin {"boot", "bootCheck", "dead", "dispatch"},
         InWork' => InWork, pc' = "test" => pc = "dispatch" /\ bLoop' = bLoop,
         \/ UNCHANGED <<result, bLoop>> /\ (pc = "dispatch" => req.cmd \notin {"RESULT", "FINISH"})
         \/ pc = "dispatch" /\ req.cmd = "RESULT" /\ result' = req.data /\ bLoop' = bLoop
         \/ pc = "dispatch" /\ req.cmd = "FINISH" /\ result' = result /\ bLoop' = FALSE,
         \/ pc' \notin {"ledSuccess", "ledFailed"}
         \/ pc' = pc /\ UNCHANGED <<result, bLoop>>
         \/ ~ bLoop /\ UNCHANGED <<result, bLoop>>
            /\ pc' = IF result = 0 THEN "ledSuccess" ELSE "ledFailed"
  PROVE  LightsInv'
<1>1. Line' = Line /\ req' = req /\ UNCHANGED <<hpc, step, hresult, run, failed, ended>>
  BY LineStays DEF HostStays
<1>2. /\ \A m : FromFirst(m) <=> FromFirst(m)'
      /\ Failed1' <=> Failed1
  BY <1>1 DEF FromFirst, Failed1
<1>3. /\ InWork => RunOf(req.id) >= 1
      /\ RunOf(req.id) \in 0 .. run /\ run \in Nat
  BY DEF LightsInv, Numbers, Fields
<1>4. pc = "dispatch" => InWork /\ bLoop
  BY DEF InWork, LightsInv, LoopEnd
<1>5. Early /\ InWork => First(req)
  BY <1>3 DEF Early, First
<1>6. Early /\ pc = "dispatch" => FromFirst(req)
  BY <1>4, <1>5 DEF LightsInv, Current
<1>7. \A i \in 1 .. Len(Line) : First(Line[i]) => Early
  BY DEF LightsInv, InFront
<1>8. Early /\ pc = "dispatch" /\ req.cmd = "RESULT" => result' # 0 /\ Failed1
  BY <1>6 DEF FromFirst
<1>9. \A i : Early /\ ResultAt(i) => ResultAt(i)'
  <2> SUFFICES ASSUME NEW i, Early, ResultAt(i)
               PROVE  ResultAt(i)'
    OBVIOUS
  <2>1. CASE result # 0 \/ (pc = "dispatch" /\ IsResult(req))
    BY <1>8, <2>1 DEF ResultAt, IsResult
  <2>2. CASE \E j \in 1 .. i - 1 : IsResult(Line[j])
    BY <1>1, <2>2 DEF ResultAt, IsResult, First
  <2> QED
    BY <2>1, <2>2 DEF ResultAt
<1> USE DEF LightsInv
<1>10. Waking'
  <2>1. run = 0 => pc # "dispatch"
    BY <1>3, <1>4
  <2> QED
    BY <1>1, <2>1 DEF Waking
<1>11. Numbers'
  BY <1>1 DEF Numbers
<1>12. InFront'
  BY <1>1, <1>2 DEF InFront, First, Early, FromFirst
<1>13. Current'
  <2>1. First(req)' => First(req) /\ Early
    BY <1>1, <1>3 DEF First, Early
  <2>2. FromFirst(req) => FromFirst(req)'
    BY <1>1, <1>2 DEF FromFirst
  <2>3. ~ bLoop' => ~ bLoop \/ pc = "dispatch"
    OBVIOUS
  <2> QED
    BY <1>1, <2>1, <2>2, <2>3 DEF Current
<1>14. ResultKnown'
  <2>1. Early' <=> Early
    BY <1>1 DEF Early
  <2>2. Early /\ result' # 0 => Failed1
    BY <1>8 DEF ResultKnown
  <2>3. ASSUME Failed1, NEW i \in 1 .. Len(Line), IsFinish(Line[i])
        PROVE  ResultAt(i)'
    <3>1. Early /\ ResultAt(i)
      BY <1>7, <2>3 DEF IsFinish, ResultKnown
    <3> QED
      BY <1>9, <3>1
  <2>4. ASSUME Failed1, ~ bLoop', IsFinish(req)
        PROVE  result' # 0
    <3>1. result # 0 /\ result' = result
      BY <2>4 DEF ResultKnown, IsFinish
    <3> QED
      BY <3>1
  <2>5. \A i : IsFinish(Line[i])' <=> IsFinish(Line[i])
    BY <1>1 DEF IsFinish, First
  <2>6. IsFinish(req)' <=> IsFinish(req)
    BY <1>1 DEF IsFinish, First
  <2> QED
    BY <1>1, <1>2, <2>1, <2>2, <2>3, <2>4, <2>5, <2>6 DEF ResultKnown
<1>15. LoopEnd'
  <2>1. ~ bLoop' => /\ req.cmd = "FINISH" /\ RunOf(req.id) >= 1
                    /\ pc' \notin {"dispatch", "test", "boot", "bootCheck"}
    BY <1>3, <1>4 DEF LoopEnd
  <2>2. RunOf(req.id)' = RunOf(req.id)
    BY <1>1 DEF RunOf
  <2>3. /\ pc' \in {"ledSuccess", "ledFailed"} => ~ bLoop'
        /\ pc' = "ledSuccess" => result' = 0
        /\ pc' = "ledFailed" => result' # 0
    BY DEF LoopEnd
  <2> QED
    BY <1>1, <2>1, <2>2, <2>3 DEF LoopEnd
<1>16. FinishAhead'
  <2> SUFFICES ASSUME 1 \in ended \/ (run = 1 /\ hpc = "wait" /\ step = "FINISH")
               PROVE  IF bLoop' THEN \E i \in 1 .. Len(Line) : IsFinish(Line[i])
                                ELSE First(req)
    BY <1>1 DEF FinishAhead, IsFinish, First
  <2>1. IF bLoop THEN \/ pc = "dispatch" /\ IsFinish(req)
                      \/ \E i \in 1 .. Len(Line) : IsFinish(Line[i])
                 ELSE First(req)
    BY DEF FinishAhead
  <2>2. CASE bLoop' = bLoop
    BY <2>1, <2>2 DEF IsFinish
  <2>3. CASE bLoop' # bLoop
    <3>1. pc = "dispatch" /\ req.cmd = "FINISH" /\ bLoop' = FALSE /\ bLoop /\ InWork
      BY <1>4, <2>3
    <3>2. First(req)
      BY <1>5, <1>7, <2>1, <3>1 DEF IsFinish, Early, First
    <3> QED
      BY <3>1, <3>2
  <2> QED
    BY <2>2, <2>3
<1>17. FailedHost'
  <2>1. run = 1 => Early
    BY <1>3 DEF Early
  <2>2. run = 1 /\ ResultAt(Len(Line) + 1) => ResultAt(Len(Line) + 1)'
    <3>1. PICK k : k = Len(Line) + 1
      OBVIOUS
    <3>2. run = 1 /\ ResultAt(k) => ResultAt(k)'
      BY <1>9, <2>1
    <3> QED
      BY <1>1, <3>1, <3>2 DEF ResultAt
  <2> QED
    BY <1>1, <1>2, <2>2 DEF FailedHost
<1> QED
  BY <1>10, <1>11, <1>12, <1>13, <1>14, <1>15, <1>16, <1>17

LEMMA LightsBoard ==
  ASSUME LightsInv, TypeInv, TypeInv', Kept, Board!BoardStep, HostStays
  PROVE  LightsInv'
<1>1. Fields /\ Fields'
  BY DEF TypeInv
<1>2. CASE Board!Fetch
  BY <1>1, <1>2, LightsFetch
<1>3. CASE Board!SetResult
  <2>1. /\ UNCHANGED <<inbox, rxEvent, stored, req, bLoop>> /\ pc = "dispatch"
        /\ req.cmd = "RESULT" /\ result' = req.data /\ pc' = "reply"
    BY <1>3 DEF Board!SetResult, Board!Dispatch
  <2> QED
    BY <1>1, <2>1, LightsWork DEF InWork
<1>4. CASE Board!Finish
  <2>1. /\ UNCHANGED <<inbox, rxEvent, stored, req, result>> /\ pc = "dispatch"
        /\ req.cmd = "FINISH" /\ bLoop' = FALSE /\ pc' = "reply"
    BY <1>4 DEF Board!Finish, Board!Dispatch
  <2> QED
    BY <1>1, <2>1, LightsWork DEF InWork
<1>5. CASE \/ Board!Connect \/ Board!StartTest \/ (\E r \in {0, 1} : Board!EndTest(r))
           \/ Board!Reply
  <2>1. /\ UNCHANGED <<inbox, rxEvent, stored, req, result, bLoop>>
        /\ pc = "dispatch" => req.cmd \notin {"RESULT", "FINISH"}
        /\ pc \in {"dispatch", "test", "reply"} /\ pc' \in {"test", "reply", "loop"}
        /\ pc' = "test" => pc = "dispatch"
    BY <1>5 DEF Board!Connect, Board!StartTest, Board!EndTest, Board!Reply, Board!Dispatch,
       Board!Tests
  <2> QED
    BY <1>1, <2>1, LightsWork DEF InWork
<1>6. CASE Board!ShowVerdict \/ Board!Blink
  <2>1. /\ UNCHANGED <<inbox, rxEvent, stored, req, result, bLoop>>
        /\ \/ pc = "loop" /\ ~ bLoop /\ pc' = IF result = 0 THEN "ledSuccess" ELSE "ledFailed"
           \/ pc \in {"ledSuccess", "ledFailed"} /\ pc' = pc
    BY <1>6 DEF Board!ShowVerdict, Board!Blink
  <2>2. pc' \in {"ledSuccess", "ledFailed"}
    BY <2>1
  <2> QED
    BY <1>1, <2>1, <2>2, LightsWork DEF InWork
<1>7. CASE Board!BootDone
  <2>1. /\ UNCHANGED <<inbox, rxEvent, stored, req, result, bLoop>>
        /\ pc = "bootCheck" /\ pc' = "loop"
    BY <1>7 DEF Board!BootDone
  <2> QED
    BY <1>1, <2>1, LightsWork DEF InWork
<1>8. CASE Board!Boot
  <2>1. /\ UNCHANGED <<stored, req, result, bLoop>> /\ inbox' = <<>> /\ rxEvent' = FALSE
        /\ pc = "boot" /\ pc' = "bootCheck"
        /\ UNCHANGED <<hpc, step, hresult, run, failed, ended>>
    BY <1>8 DEF Board!Boot, Board!ResetFifo, HostStays
  <2>2. run = 0 /\ inbox = <<>> /\ bLoop
    BY <2>1 DEF LightsInv, Waking, LoopEnd
  <2>3. Line' = Line
    BY <2>1, <2>2 DEF Line
  <2>4. \A i \in 1 .. Len(Line) : FALSE
    BY <1>1, <2>2, LineIs DEF LightsInv, Numbers
  <2>5. ~ First(req)
    BY <2>2 DEF LightsInv, Numbers, First
  <2>6. First(req)' = First(req)
    BY <2>1 DEF First
  <2> USE DEF LightsInv
  <2>7. Waking'
    BY <2>1, <2>2 DEF Waking
  <2>8. Numbers'
    BY <2>1, <2>3 DEF Numbers, InWork
  <2>9. InFront' /\ Current'
    BY <2>3, <2>4, <2>5, <2>6 DEF InFront, Current
  <2>10. ResultKnown'
    BY <2>1, <2>3, <2>4, <2>5, <2>6 DEF ResultKnown, IsFinish, Waking, Early, Failed1
  <2>11. LoopEnd'
    BY <2>1, <2>2 DEF LoopEnd
  <2>12. FinishAhead'
    <3>1. 1 \notin ended
      BY <2>2 DEF Waking
    <3> QED
      BY <2>1, <2>2, <3>1 DEF FinishAhead
  <2>13. FailedHost'
    BY <2>1, <2>2 DEF FailedHost
  <2> QED
    BY <2>7, <2>8, <2>9, <2>10, <2>11, <2>12, <2>13
<1>9. ~ Board!BootFailed
  BY DEF Board!BootFailed, LightsInv, Waking
<1>10. ~ Board!BadMagic /\ ~ Board!UnknownCommand /\ ~ Board!StartNetTest /\ ~ Board!EndNetTest
  <2>1. pc = "dispatch" => req.magic = "MAGIC" /\ req.cmd \in Steps
    BY <1>1 DEF Fields, InWork, Requests
  <2>2. pc # "netTest"
    BY <1>1 DEF Fields
  <2> QED
    BY <2>1, <2>2 DEF Board!BadMagic, Board!UnknownCommand, Board!StartNetTest,
       Board!EndNetTest, Board!Dispatch, Steps, HostTests
<1> QED
  BY <1>2, <1>3, <1>4, <1>5, <1>6, <1>7, <1>8, <1>9, <1>10
     DEF Board!BoardStep, Board!LoopStep, Board!EndAnyTest

LEMMA LightsStep ==
  ASSUME Kept
  PROVE  LightsInv /\ FirstInv /\ TypeInv /\ TypeInv' /\ [Next]_vars => LightsInv'
<1> SUFFICES ASSUME LightsInv, FirstInv, TypeInv, TypeInv', [Next]_vars
             PROVE  LightsInv'
  OBVIOUS
<1>1. Fields /\ Fields'
  BY DEF TypeInv
<1>2. CASE Start
  BY <1>1, <1>2, LightsNewRun
<1>3. CASE SendRequest
  BY <1>3, LightsSend
<1>4. CASE ReadAnswer \/ Timeout \/ SocketError
  BY <1>4, LightsCall
<1>5. CASE Deliver \/ Transmit \/ Kill \/ UNCHANGED vars
  BY <1>1, <1>5, LightsOther
<1>6. CASE BoardStep
  <2>1. Board!BoardStep /\ HostStays
    BY <1>6 DEF BoardStep, hostVars, HostStays
  <2> QED
    BY <2>1, LightsBoard
<1>7. ~ LoseAnswer /\ ~ PowerCycle
  BY DEF LoseAnswer, PowerCycle, Kept
<1> QED
  BY <1>2, <1>3, <1>4, <1>5, <1>6, <1>7 DEF Next, HostStep

\* The LEDs tell what the run that ended the board's loop has told on its terminal,
\* however many runs were interrupted, limits passed early and reads failed: as long as no
\* frame is lost, the board stays on, and its pool holds three requests.
THEOREM LightsMatchRunAlways ==
  ASSUME Faults \subseteq {"overrun", "socket", "kill"}, Capacity >= 3
  PROVE  Spec => []LightsMatchRun
<1>1. Kept
  BY DEF Kept
<1>2. Init => FirstInv
  BY ProtocolInit DEF FirstInv, ProtocolInv, FirstRunHonest, Init
<1>3. FirstInv /\ TypeInv' /\ [Next]_vars => FirstInv'
  BY FirstInStep, FirstPast DEF TypeInv
<1>4. LightsInv /\ FirstInv /\ TypeInv /\ TypeInv' /\ [Next]_vars => LightsInv'
  BY <1>1, LightsStep
<1> QED
  BY <1>2, <1>3, <1>4, TypeStart, TypeStep, LightsStart, LightsTrue, PTL DEF Spec
================================================================================
