----------------------------- MODULE FactoryProofs -----------------------------
(***************************************************************************)
(* Theorems about FactoryProtocol, for every number of runs, every size of *)
(* the pool and of the FIFO: while the time limits hold, the programs      *)
(* never have more than one message between them, and what a run claims of *)
(* a test is true.  Frames may be lost, the board may be switched off and  *)
(* on, and the host may be started too early; what the theorems exclude    *)
(* are time limits that pass early, failing reads and interrupted runs,    *)
(* with which the first of them fails (run stale_answer).                  *)
(***************************************************************************)
EXTENDS FactoryProtocol, SequenceTheorems, TLAPS

Timely == Faults \subseteq {"loss", "power", "early"}

Requests == [magic : {"MAGIC"}, cmd : Steps, pid : Nat, id : Nat, data : Nat]
Answers == [magic : {"MAGIC"}, pid : Nat, id : Nat, cmd : {"RET_SUCCES", "RET_FAILED"},
            of : Steps]

\* The board works on a request; and it would take another one.
InWork == pc \in {"dispatch", "test", "netTest", "reply"}
Listening == bLoop /\ pc # "dead"

\* The types of what is under way.
Fields == /\ inbox \in Seq(Requests) /\ stored \in Seq(Requests)
          /\ outbox \in Seq(Answers) /\ sock \in Seq(Answers)
          /\ txHeld \in Nat
          /\ InWork => req \in Requests
          /\ pc # "netTest"
          /\ bLoop \in BOOLEAN
          /\ hpc \in {"off", "send", "wait"} /\ step \in Steps
          /\ run \in Nat /\ gpid \in Nat /\ hresult \in Nat

\* How many messages are between the two programs.  What a board holds that
\* listens no more is none of them.
Held == IF Listening THEN Len(inbox) + Len(stored) ELSE 0
Worked == IF InWork THEN 1 ELSE 0
Outstanding == Held + Worked + Len(outbox) + Len(sock)

\* There is one only while the host waits for it,
StopAndWait == Outstanding <= IF hpc = "wait" THEN 1 ELSE 0

\* and it belongs to the call under way.
Asked(m) == m.id = CallId /\ m.pid = gpid - 1 /\ m.cmd = step
Passed == <<CallId, step, 0>> \in ran
Told(m) == /\ m.id = CallId /\ m.pid = gpid - 1 /\ m.of = step
           /\ step \in HostTests /\ m.cmd = "RET_SUCCES" => Passed

Belongs == /\ Listening => /\ \A k \in 1 .. Len(inbox) : Asked(inbox[k])
                           /\ \A k \in 1 .. Len(stored) : Asked(stored[k])
           /\ InWork => Asked(req)
           /\ pc = "reply" /\ step \in HostTests /\ ret = 0 => Passed
           /\ \A k \in 1 .. Len(outbox) : Told(outbox[k])
           /\ \A k \in 1 .. Len(sock) : Told(sock[k])

\* The steps of a run are numbered from 0.
Place(s) == CASE s = "CONNECT" -> 0 [] s = "DRAM_TEST" -> 1
              [] s = "FLASH_TEST" -> 2 [] s = "ECC_TEST" -> 3
Numbered == hpc # "off" /\ step \in HostTests \cup {"CONNECT"} =>
              gpid = Place(step) + (IF hpc = "wait" THEN 1 ELSE 0)

ProtocolInv == Fields /\ StopAndWait /\ Belongs /\ Numbered /\ SuccessMeansTested

--------------------------------------------------------------------------------
LEMMA ProtocolInit == Init => ProtocolInv
<1> SUFFICES ASSUME Init PROVE ProtocolInv
  OBVIOUS
<1> USE DEF Init, Board!BoardInit
<1>1. Fields
  BY DEF Fields, Steps, HostTests, InWork
<1>2. Outstanding = 0
  BY DEF Outstanding, Held, Worked, InWork
<1>3. StopAndWait
  BY <1>2 DEF StopAndWait
<1>4. Belongs /\ Numbered /\ SuccessMeansTested
  BY DEF Belongs, Numbered, SuccessMeansTested, InWork
<1> QED
  BY <1>1, <1>3, <1>4 DEF ProtocolInv

LEMMA OutstandingNat ==
  Fields => /\ Len(inbox) \in Nat /\ Len(stored) \in Nat
            /\ Len(outbox) \in Nat /\ Len(sock) \in Nat
            /\ Held \in Nat /\ Worked \in Nat /\ Outstanding \in Nat
<1> SUFFICES ASSUME Fields
             PROVE  /\ Len(inbox) \in Nat /\ Len(stored) \in Nat
                    /\ Len(outbox) \in Nat /\ Len(sock) \in Nat
                    /\ Held \in Nat /\ Worked \in Nat /\ Outstanding \in Nat
  OBVIOUS
<1>1. /\ Len(inbox) \in Nat /\ Len(stored) \in Nat
      /\ Len(outbox) \in Nat /\ Len(sock) \in Nat
  BY DEF Fields
<1>2. Held \in Nat /\ Worked \in Nat
  BY <1>1 DEF Held, Worked
<1> QED
  BY <1>1, <1>2 DEF Outstanding

\* Nothing is between the programs: then there is nothing to be said about it.
LEMMA NothingOut ==
  Fields /\ Outstanding = 0 =>
    /\ Listening => inbox = <<>> /\ stored = <<>>
    /\ ~ InWork /\ outbox = <<>> /\ sock = <<>>
    /\ Belongs
<1> SUFFICES ASSUME Fields, Outstanding = 0
             PROVE  /\ Listening => inbox = <<>> /\ stored = <<>>
                    /\ ~ InWork /\ outbox = <<>> /\ sock = <<>>
                    /\ Belongs
  OBVIOUS
<1>1. /\ Len(inbox) \in Nat /\ Len(stored) \in Nat
      /\ Len(outbox) \in Nat /\ Len(sock) \in Nat
      /\ Held = 0 /\ Worked = 0 /\ Len(outbox) = 0 /\ Len(sock) = 0
  BY OutstandingNat DEF Outstanding
<1>2. /\ Listening => Len(inbox) = 0 /\ Len(stored) = 0
      /\ ~ InWork /\ Len(outbox) = 0 /\ Len(sock) = 0
  BY <1>1 DEF Held, Worked
<1>3. /\ Listening => inbox = <<>> /\ stored = <<>>
      /\ outbox = <<>> /\ sock = <<>>
  BY <1>2, EmptySeq DEF Fields
<1>4. pc # "reply"
  BY <1>2 DEF InWork
<1> QED
  BY <1>2, <1>3, <1>4 DEF Belongs

LEMMA NothingOutNext ==
  ASSUME Fields', Outstanding' <= 0
  PROVE  StopAndWait' /\ Belongs'
<1>1. (Fields /\ Outstanding = 0 => Belongs)'
  BY NothingOut, PTL
<1>2. (Fields => Outstanding \in Nat)'
  BY OutstandingNat, PTL
<1> QED
  BY <1>1, <1>2 DEF StopAndWait

--------------------------------------------------------------------------------
(***************************************************************************)
(* The host.                                                               *)
(***************************************************************************)
\* A call returns r: the run goes on to its next step, and claims the test only
\* if that is covered.
LEMMA CallReturns ==
  ASSUME ProtocolInv, NEW r, Return(r), hpc # "off",
         run' = run, ran' = ran, gpid' \in Nat,
         step \in HostTests \cup {"CONNECT"} => gpid' = Place(step) + 1,
         step \in HostTests /\ r = 0 => <<Id(run, gpid' - 1), step, 0>> \in ran
  PROVE  /\ step' \in Steps /\ hresult' \in Nat /\ hpc' \in {"send", "off"}
         /\ Numbered' /\ SuccessMeansTested'
<1> USE DEF ProtocolInv
<1>1. CASE AfterTest(r)
  <2>1. /\ step \in HostTests \cup {"CONNECT"} /\ hpc' = "send"
        /\ \/ /\ r = 0 /\ step' = NextTest /\ claimed' = claimed \cup {step}
              /\ hresult' = hresult
           \/ /\ step' = "RESULT" /\ hresult' = 1 /\ claimed' = claimed
    BY <1>1 DEF AfterTest, Fails, FailedResult
  <2>2. step' \in Steps /\ hresult' \in Nat
    BY <2>1 DEF NextTest, Steps, HostTests, Fields
  <2>3. Numbered'
    BY <2>1 DEF Numbered, NextTest, Place, HostTests
  <2>4. step \in HostTests => gpid' - 1 \in 0 .. 3
    BY DEF Place, HostTests
  <2>5. SuccessMeansTested'
    BY <2>1, <2>4 DEF SuccessMeansTested
  <2> QED
    BY <2>1, <2>2, <2>3, <2>5
<1>2. CASE AfterResult \/ AfterFinish
  <2>1. /\ step' \in {"FINISH"} /\ hpc' \in {"send", "off"}
        /\ hresult' = hresult /\ claimed' = claimed
    BY <1>2 DEF AfterResult, AfterFinish
  <2> QED
    BY <2>1 DEF Numbered, HostTests, Steps, Fields, SuccessMeansTested
<1> QED
  BY <1>1, <1>2 DEF Return

LEMMA StartKeeps ==
  ASSUME ProtocolInv, Start
  PROVE  ProtocolInv'
<1> USE DEF ProtocolInv
<1>1. Fields'
  BY DEF Start, boardVars, Fields, Steps, HostTests, InWork
<1>2. Outstanding = 0
  BY OutstandingNat DEF Start, StopAndWait
<1>3. Outstanding' = 0
  BY <1>2, NothingOut DEF Start, boardVars, Outstanding, Held, Worked, InWork, Listening
<1>4. Numbered' /\ SuccessMeansTested'
  BY DEF Start, Numbered, Place, HostTests, SuccessMeansTested
<1> QED
  BY <1>1, <1>3, <1>4, NothingOutNext

\* The request is the only message there is.
LEMMA SendRequestKeeps ==
  ASSUME ProtocolInv, SendRequest
  PROVE  ProtocolInv'
<1> USE DEF ProtocolInv
<1>1. /\ hpc = "send" /\ hpc' = "wait" /\ gpid' = gpid + 1 /\ gpid \in Nat
      /\ step' = step /\ run' = run /\ sock' = sock /\ hresult' = hresult
      /\ claimed' = claimed
  BY DEF SendRequest, Fields
<1>2. /\ stored' = stored /\ outbox' = outbox /\ req' = req /\ pc' = pc
      /\ bLoop' = bLoop /\ ran' = ran /\ ret' = ret /\ txHeld' = txHeld
      /\ inbox' = inbox \/ inbox' = Append(inbox, Package)
  BY DEF SendRequest, Board!Arrive, boardVars
<1>3. Package \in Requests
  BY DEF Package, Requests, Fields, Id
<1>4. Fields'
  <2>1. inbox' \in Seq(Requests)
    <3>1. inbox \in Seq(Requests)
      BY DEF Fields
    <3>2. Append(inbox, Package) \in Seq(Requests)
      BY <1>3, <3>1, AppendProperties, Zenon
    <3> QED
      BY <1>2, <3>1, <3>2, Zenon
  <2>2. /\ stored' \in Seq(Requests) /\ outbox' \in Seq(Answers)
        /\ sock' \in Seq(Answers) /\ txHeld' \in Nat
    BY <1>1, <1>2, Zenon DEF Fields
  <2>3. /\ InWork' => req' \in Requests
        /\ pc' # "netTest" /\ bLoop' \in BOOLEAN
    BY <1>2, Zenon DEF Fields, InWork
  <2>4. /\ hpc' \in {"off", "send", "wait"} /\ step' \in Steps
        /\ run' \in Nat /\ gpid' \in Nat /\ hresult' \in Nat
    BY <1>1 DEF Fields
  <2> QED
    BY <2>1, <2>2, <2>3, <2>4, Zenon DEF Fields
<1>5. Outstanding = 0
  BY <1>1, OutstandingNat DEF StopAndWait
<1>6. /\ Listening => inbox = <<>> /\ stored = <<>>
      /\ ~ InWork /\ outbox = <<>> /\ sock = <<>>
  BY <1>5, NothingOut
<1>7. Listening' => inbox' = <<>> \/ inbox' = <<Package>>
  BY <1>2, <1>6 DEF Listening
<1>8. Outstanding' <= 1
  BY <1>1, <1>2, <1>6, <1>7 DEF Outstanding, Held, Worked, InWork, Listening
<1>9. Package.id = CallId' /\ Package.pid = gpid' - 1 /\ Package.cmd = step'
  BY <1>1 DEF Package, CallId, Id, Fields
<1>10. Belongs'
  BY <1>1, <1>2, <1>6, <1>7, <1>9 DEF Belongs, Asked, InWork, Listening
<1>11. Numbered' /\ SuccessMeansTested'
  BY <1>1, <1>2 DEF Numbered, SuccessMeansTested, Place, HostTests
<1> QED
  BY <1>1, <1>4, <1>8, <1>10, <1>11 DEF StopAndWait

\* The answer that is read was the only message there was, and it is true.
LEMMA ReadAnswerKeeps ==
  ASSUME ProtocolInv, ReadAnswer
  PROVE  ProtocolInv'
<1> USE DEF ProtocolInv
<1>1. /\ hpc = "wait" /\ sock # <<>> /\ sock' = Tail(sock)
      /\ Return(Judge(Head(sock)))
      /\ gpid' = gpid /\ gpid \in Nat /\ run' = run
      /\ UNCHANGED boardVars
  BY DEF ReadAnswer, Fields
<1>2. /\ Len(sock) \in Nat /\ Len(sock) >= 1 /\ Len(sock') = Len(sock) - 1
      /\ sock' \in Seq(Answers) /\ Head(sock) = sock[1]
  BY <1>1 DEF Fields
<1>3. Told(Head(sock))
  BY <1>2 DEF Belongs
<1>4. step \in HostTests /\ Judge(Head(sock)) = 0 => Passed
  BY <1>3 DEF Judge, Told
<1>5. /\ step' \in Steps /\ hresult' \in Nat /\ hpc' \in {"send", "off"}
      /\ Numbered' /\ SuccessMeansTested'
  <2>1. ran' = ran
    BY <1>1 DEF boardVars
  <2>2. step \in HostTests \cup {"CONNECT"} => gpid' = Place(step) + 1
    BY <1>1 DEF Numbered
  <2>3. step \in HostTests /\ Judge(Head(sock)) = 0 =>
          <<Id(run, gpid' - 1), step, 0>> \in ran
    BY <1>1, <1>4 DEF Passed, CallId
  <2> HIDE DEF ProtocolInv
  <2> QED
    BY <1>1, <2>1, <2>2, <2>3, CallReturns
<1>6. Fields'
  BY <1>1, <1>2, <1>5 DEF Fields, boardVars, InWork
<1>7. Outstanding' <= 0
  <2>1. Outstanding' = Outstanding - 1
    <3>1. Held' = Held /\ Worked' = Worked /\ outbox' = outbox
      BY <1>1 DEF boardVars, Held, Worked, Listening, InWork
    <3> QED
      BY <1>2, <3>1, OutstandingNat DEF Outstanding
  <2> QED
    BY <1>1, <2>1, OutstandingNat DEF StopAndWait
<1> QED
  BY <1>5, <1>6, <1>7, NothingOutNext

\* A time limit passes only when nothing is left that could be answered.
LEMMA TimeoutKeeps ==
  ASSUME ProtocolInv, Timely, Timeout
  PROVE  ProtocolInv'
<1> USE DEF ProtocolInv
<1>1. /\ hpc = "wait" /\ sock = <<>> /\ sock' = sock /\ Return(2)
      /\ gpid' = gpid /\ gpid \in Nat /\ run' = run
      /\ UNCHANGED boardVars
      /\ ~ AnswerPossible
  BY DEF Timeout, Timely, Fields
<1>2. /\ Len(outbox) = 0 /\ ~ InWork
      /\ Listening => Len(inbox) = 0 /\ Len(stored) = 0
  <2>1. /\ Len(inbox) \in Nat /\ Len(stored) \in Nat /\ Len(outbox) \in Nat
    BY DEF Fields
  <2>2. \A i \in 1 .. Len(outbox) : FALSE
    BY <1>1 DEF AnswerPossible, Belongs, Told
  <2>3. ~ InWork
    BY <1>1 DEF AnswerPossible, Belongs, Asked, InWork
  <2>4. Listening => \A i \in 1 .. Len(inbox) : FALSE
    BY <1>1 DEF AnswerPossible, Belongs, Asked, Listening
  <2>5. Listening => \A i \in 1 .. Len(stored) : FALSE
    BY <1>1 DEF AnswerPossible, Belongs, Asked, Listening
  <2> QED
    BY <2>1, <2>2, <2>3, <2>4, <2>5
<1>3. /\ step' \in Steps /\ hresult' \in Nat /\ hpc' \in {"send", "off"}
      /\ Numbered' /\ SuccessMeansTested'
  <2>1. ran' = ran
    BY <1>1 DEF boardVars
  <2>2. step \in HostTests \cup {"CONNECT"} => gpid' = Place(step) + 1
    BY <1>1 DEF Numbered
  <2> HIDE DEF ProtocolInv
  <2> QED
    BY <1>1, <2>1, <2>2, CallReturns
<1>4. Fields'
  BY <1>1, <1>3 DEF Fields, boardVars, InWork
<1>5. Outstanding' <= 0
  BY <1>1, <1>2 DEF boardVars, Outstanding, Held, Worked, Listening, InWork
<1> QED
  BY <1>3, <1>4, <1>5, NothingOutNext

\* Sending fails and nothing is sent.
LEMMA SocketErrorKeeps ==
  ASSUME ProtocolInv, Timely, SocketError
  PROVE  ProtocolInv'
<1> USE DEF ProtocolInv
<1>1. /\ hpc = "send" /\ sock' = sock /\ Return(2)
      /\ gpid' = gpid + 1 /\ gpid \in Nat /\ run' = run
      /\ UNCHANGED boardVars
  BY DEF SocketError, Timely, Fields
<1>2. Outstanding = 0
  BY <1>1, OutstandingNat DEF StopAndWait
<1>3. /\ step' \in Steps /\ hresult' \in Nat /\ hpc' \in {"send", "off"}
      /\ Numbered' /\ SuccessMeansTested'
  <2>1. ran' = ran /\ gpid' \in Nat
    BY <1>1 DEF boardVars
  <2>2. step \in HostTests \cup {"CONNECT"} => gpid' = Place(step) + 1
    BY <1>1 DEF Numbered, Place, HostTests
  <2> HIDE DEF ProtocolInv
  <2> QED
    BY <1>1, <2>1, <2>2, CallReturns
<1>4. Fields'
  BY <1>1, <1>3 DEF Fields, boardVars, InWork
<1>5. Outstanding' = Outstanding
  BY <1>1 DEF boardVars, Outstanding, Held, Worked, Listening, InWork
<1> QED
  BY <1>2, <1>3, <1>4, <1>5, NothingOutNext

--------------------------------------------------------------------------------
(***************************************************************************)
(* The link and the board.                                                 *)
(***************************************************************************)
LEMMA DeliverKeeps ==
  ASSUME ProtocolInv, Deliver
  PROVE  ProtocolInv'
<1> USE DEF ProtocolInv
<1>1. /\ outbox # <<>> /\ outbox' = Tail(outbox) /\ txHeld' = txHeld
      /\ inbox' = inbox /\ stored' = stored /\ pc' = pc /\ req' = req /\ ret' = ret
      /\ bLoop' = bLoop /\ ran' = ran
      /\ hpc' = hpc /\ step' = step /\ gpid' = gpid /\ hresult' = hresult
      /\ run' = run /\ claimed' = claimed
  BY DEF Deliver, Fields
<1>2. /\ Len(outbox) \in Nat /\ Len(outbox) >= 1 /\ outbox' \in Seq(Answers)
      /\ Len(outbox') = Len(outbox) - 1 /\ Head(outbox) = outbox[1]
      /\ outbox[1] \in Answers
      /\ \A k \in 1 .. Len(outbox') : outbox'[k] = outbox[k + 1]
  BY <1>1 DEF Fields
<1>3. hpc # "off"
  <2> SUFFICES ASSUME hpc = "off" PROVE FALSE
    OBVIOUS
  <2>1. Outstanding = 0
    BY OutstandingNat DEF StopAndWait
  <2> QED
    BY <1>1, <2>1, NothingOut
<1>4. sock' = Append(sock, outbox[1])
  BY <1>2, <1>3 DEF Deliver
<1>5. /\ sock' \in Seq(Answers) /\ Len(sock) \in Nat /\ Len(sock') = Len(sock) + 1
      /\ \A k \in 1 .. Len(sock') :
           sock'[k] = IF k = Len(sock) + 1 THEN outbox[1] ELSE sock[k]
  BY <1>2, <1>4 DEF Fields
<1>6. Fields'
  BY <1>1, <1>2, <1>5 DEF Fields, InWork
<1>7. StopAndWait'
  <2>1. Len(outbox') + Len(sock') = Len(outbox) + Len(sock)
    BY <1>2, <1>5
  <2>2. Outstanding' = Outstanding
    <3>1. Held' = Held /\ Worked' = Worked
      BY <1>1 DEF Held, Worked, Listening, InWork
    <3> QED
      BY <1>2, <1>5, <2>1, <3>1, OutstandingNat DEF Outstanding
  <2> QED
    BY <1>1, <2>2 DEF StopAndWait
<1>8. CallId' = CallId
  BY <1>1 DEF CallId
<1>9. Belongs'
  <2>1. ASSUME NEW k \in 1 .. Len(outbox')
        PROVE  Told(outbox[k])'
    <3>1. outbox'[k] = outbox[k + 1] /\ k + 1 \in 1 .. Len(outbox)
      BY <1>2
    <3>2. Told(outbox[k + 1])
      BY <3>1 DEF Belongs
    <3> QED
      BY <1>1, <1>8, <3>1, <3>2 DEF Told, Passed
  <2>2. ASSUME NEW k \in 1 .. Len(sock')
        PROVE  Told(sock[k])'
    <3>1. sock'[k] = outbox[1] \/ (k \in 1 .. Len(sock) /\ sock'[k] = sock[k])
      BY <1>5
    <3>2. Told(outbox[1]) /\ (k \in 1 .. Len(sock) => Told(sock[k]))
      BY <1>2 DEF Belongs
    <3> QED
      BY <1>1, <1>8, <3>1, <3>2 DEF Told, Passed
  <2> QED
    BY <1>1, <1>8, <2>1, <2>2 DEF Belongs, Asked, Told, Passed, Listening, InWork
<1>10. Numbered' /\ SuccessMeansTested'
  BY <1>1 DEF Numbered, SuccessMeansTested
<1> QED
  BY <1>6, <1>7, <1>9, <1>10

LEMMA LoseAnswerKeeps ==
  ASSUME ProtocolInv, LoseAnswer
  PROVE  ProtocolInv'
<1> USE DEF ProtocolInv
<1>1. /\ outbox # <<>> /\ outbox' = Tail(outbox) /\ txHeld' = txHeld
      /\ inbox' = inbox /\ stored' = stored /\ pc' = pc /\ req' = req /\ ret' = ret
      /\ bLoop' = bLoop /\ ran' = ran /\ sock' = sock
      /\ hpc' = hpc /\ step' = step /\ gpid' = gpid /\ hresult' = hresult
      /\ run' = run /\ claimed' = claimed
  BY DEF LoseAnswer, hostVars, Fields
<1>2. /\ Len(outbox) \in Nat /\ Len(outbox) >= 1 /\ outbox' \in Seq(Answers)
      /\ Len(outbox') = Len(outbox) - 1
      /\ \A k \in 1 .. Len(outbox') : outbox'[k] = outbox[k + 1]
  BY <1>1 DEF Fields
<1>3. Fields'
  BY <1>1, <1>2 DEF Fields, InWork
<1>4. StopAndWait'
  <2>1. Held' = Held /\ Worked' = Worked
    BY <1>1 DEF Held, Worked, Listening, InWork
  <2>2. Outstanding' = Outstanding - 1
    BY <1>1, <1>2, <2>1, OutstandingNat DEF Outstanding
  <2> QED
    BY <1>1, <2>2, OutstandingNat DEF StopAndWait
<1>5. CallId' = CallId
  BY <1>1 DEF CallId
<1>6. Belongs'
  <2>1. ASSUME NEW k \in 1 .. Len(outbox')
        PROVE  Told(outbox[k])'
    <3>1. outbox'[k] = outbox[k + 1] /\ k + 1 \in 1 .. Len(outbox)
      BY <1>2
    <3>2. Told(outbox[k + 1])
      BY <3>1 DEF Belongs
    <3> QED
      BY <1>1, <1>5, <3>1, <3>2 DEF Told, Passed
  <2> QED
    BY <1>1, <1>5, <2>1 DEF Belongs, Asked, Told, Passed, Listening, InWork
<1>7. Numbered' /\ SuccessMeansTested'
  BY <1>1 DEF Numbered, SuccessMeansTested
<1> QED
  BY <1>3, <1>4, <1>6, <1>7

\* What the board's own steps leave alone; tests that have run are never taken
\* back.
LEMMA HostStands ==
  ASSUME ProtocolInv, UNCHANGED hostVars, ran \subseteq ran'
  PROVE  /\ CallId' = CallId /\ gpid' = gpid /\ step' = step /\ run' = run
         /\ sock' = sock /\ hpc' = hpc /\ hresult' = hresult
         /\ Passed => Passed'
         /\ Numbered' /\ SuccessMeansTested'
  BY DEF ProtocolInv, hostVars, CallId, Passed, Numbered, SuccessMeansTested

\* The frames sent are where they were, or a reset has dropped those still on the
\* board.
SentStands == outbox' \in {outbox, Board!Left} /\ txHeld' \in Nat

LEMMA SentKeeps ==
  ASSUME NEW S, outbox \in Seq(S), txHeld \in Nat, SentStands
  PROVE  /\ outbox' \in Seq(S) /\ Len(outbox') \in Nat /\ Len(outbox') <= Len(outbox)
         /\ \A k \in 1 .. Len(outbox') : k \in 1 .. Len(outbox) /\ outbox'[k] = outbox[k]
<1>1. CASE outbox' = outbox
  BY <1>1
<1>2. CASE outbox' = Board!Left
  <2>0. PICK n : n = Len(outbox) - txHeld
    OBVIOUS
  <2>1. n \in Int /\ n = Len(outbox) - txHeld
    BY <2>0
  <2>2. n <= Len(outbox) /\ \A k \in 1 .. n : k \in 1 .. Len(outbox) /\ outbox[k] \in S
    BY <2>1
  <2>3. /\ SubSeq(outbox, 1, n) \in Seq(S)
        /\ Len(SubSeq(outbox, 1, n)) = IF 1 <= n THEN n - 1 + 1 ELSE 0
        /\ \A k \in 1 .. n : SubSeq(outbox, 1, n)[k] = outbox[k]
    <3>1. \A k \in 1 .. n : outbox[k] \in S
      BY <2>2
    <3>2. \A k \in 1 .. n - 1 + 1 : SubSeq(outbox, 1, n)[k] = outbox[1 + k - 1]
      BY <2>1, <3>1, SubSeqProperties
    <3> QED
      BY <2>1, <3>1, <3>2, SubSeqProperties
  <2>4. outbox' = SubSeq(outbox, 1, n)
    BY <1>2, <2>1 DEF Board!Left
  <2> QED
    BY <2>1, <2>2, <2>3, <2>4
<1> QED
  BY <1>1, <1>2 DEF SentStands

\* Steps outside a request: the board may lose what it holds, never gain.
LEMMA QuietKeeps ==
  ASSUME ProtocolInv, UNCHANGED hostVars, ran' = ran, SentStands,
         ~ InWork', pc' # "netTest", bLoop' \in BOOLEAN,
         \/ inbox' = <<>> /\ stored' = <<>>
         \/ /\ Listening' => Listening
            /\ inbox' \in {inbox, <<>>} /\ stored' = stored
  PROVE  ProtocolInv'
<1> USE DEF ProtocolInv
<1>1. /\ CallId' = CallId /\ gpid' = gpid /\ step' = step /\ run' = run
      /\ sock' = sock /\ hpc' = hpc /\ hresult' = hresult
      /\ Passed => Passed'
      /\ Numbered' /\ SuccessMeansTested'
  BY HostStands
<1>2. inbox' \in Seq(Requests) /\ stored' \in Seq(Requests)
  <2>1. <<>> \in Seq(Requests)
    OBVIOUS
  <2> QED
    BY <2>1 DEF Fields
<1>3. /\ outbox' \in Seq(Answers) /\ Len(outbox') \in Nat /\ Len(outbox') <= Len(outbox)
      /\ \A k \in 1 .. Len(outbox') : k \in 1 .. Len(outbox) /\ outbox'[k] = outbox[k]
  BY SentKeeps DEF Fields
<1>4. Fields'
  BY <1>1, <1>2, <1>3 DEF Fields, SentStands
<1>5. StopAndWait'
  <2>1. Held' <= Held
    BY OutstandingNat DEF Held
  <2>2. Worked' <= Worked
    BY OutstandingNat DEF Worked
  <2>3. Held' \in Nat /\ Worked' \in Nat
    BY <1>2 DEF Held, Worked
  <2>4. Outstanding' <= Outstanding
    <3>1. /\ Held \in Nat /\ Worked \in Nat /\ Len(outbox) \in Nat /\ Len(sock) \in Nat
          /\ Len(outbox') \in Nat /\ Len(outbox') <= Len(outbox) /\ Len(sock') = Len(sock)
      BY <1>1, <1>3, OutstandingNat
    <3>2. ASSUME NEW h \in Nat, NEW w \in Nat, NEW n \in Nat, NEW m \in Nat,
                 NEW h1 \in Nat, NEW w1 \in Nat, NEW n1 \in Nat,
                 h1 <= h, w1 <= w, n1 <= n
          PROVE  h1 + w1 + n1 + m <= h + w + n + m
      BY <3>2
    <3>3. Held' + Worked' + Len(outbox') + Len(sock)
            <= Held + Worked + Len(outbox) + Len(sock)
      BY <2>1, <2>2, <2>3, <3>1, <3>2
    <3> QED
      BY <3>1, <3>3 DEF Outstanding
  <2>5. Outstanding' \in Nat
    <3>1. (Fields => Outstanding \in Nat)'
      BY OutstandingNat, PTL
    <3> QED
      BY <1>4, <3>1
  <2> QED
    BY <1>1, <2>4, <2>5, OutstandingNat DEF StopAndWait
<1>6. Belongs'
  <2>1. pc' # "reply"
    BY DEF InWork
  <2>2. /\ \A k \in 1 .. Len(outbox') : Told(outbox[k])'
        /\ \A k \in 1 .. Len(sock') : Told(sock[k])'
    BY <1>1, <1>3 DEF Belongs, Told
  <2>3. Listening' => /\ \A k \in 1 .. Len(inbox') : Asked(inbox[k])'
                      /\ \A k \in 1 .. Len(stored') : Asked(stored[k])'
    BY <1>1 DEF Belongs, Asked
  <2> QED
    BY <2>1, <2>2, <2>3 DEF Belongs
<1> QED
  BY <1>1, <1>5, <1>6, <1>4

\* Steps in the middle of a request: nothing moves, and when the loop comes to
\* the answer, a zero in ret is the value of the test.
LEMMA WorkKeeps ==
  ASSUME ProtocolInv, UNCHANGED hostVars, ran \subseteq ran', outbox' = outbox,
         txHeld' = txHeld, inbox' = inbox, stored' = stored, req' = req,
         InWork, InWork', pc' # "netTest", bLoop' \in BOOLEAN, Listening' => Listening,
         pc' = "reply" /\ step \in HostTests /\ ret' = 0 => Passed'
  PROVE  ProtocolInv'
<1> USE DEF ProtocolInv
<1>1. /\ CallId' = CallId /\ gpid' = gpid /\ step' = step /\ run' = run
      /\ sock' = sock /\ hpc' = hpc /\ hresult' = hresult
      /\ Passed => Passed'
      /\ Numbered' /\ SuccessMeansTested'
  BY HostStands
<1>2. Fields'
  BY <1>1 DEF Fields
<1>3. StopAndWait'
  <2>1. Held' <= Held /\ Worked' = Worked /\ Held' \in Nat
    BY OutstandingNat DEF Held, Worked
  <2>2. Outstanding' <= Outstanding /\ Outstanding' \in Nat
    BY <1>1, <2>1, OutstandingNat DEF Outstanding
  <2> QED
    BY <1>1, <2>2, OutstandingNat DEF StopAndWait
<1>4. Belongs'
  <2>1. /\ \A k \in 1 .. Len(outbox') : Told(outbox[k])'
        /\ \A k \in 1 .. Len(sock') : Told(sock[k])'
    BY <1>1 DEF Belongs, Told
  <2>2. Listening' => /\ \A k \in 1 .. Len(inbox') : Asked(inbox[k])'
                      /\ \A k \in 1 .. Len(stored') : Asked(stored[k])'
    BY <1>1 DEF Belongs, Asked
  <2>3. Asked(req)'
    BY <1>1 DEF Belongs, Asked
  <2> QED
    BY <1>1, <2>1, <2>2, <2>3 DEF Belongs
<1> QED
  BY <1>1, <1>2, <1>3, <1>4

\* A fetch takes the one request there is out of the pool.
LEMMA FetchKeeps ==
  ASSUME ProtocolInv, Board!Fetch, UNCHANGED hostVars
  PROVE  ProtocolInv'
<1> USE DEF ProtocolInv
<1> DEFINE all == stored \o inbox
<1>1. /\ pc = "loop" /\ pc' = "dispatch" /\ bLoop /\ bLoop' = bLoop
      /\ Board!Drained # <<>>
      /\ req' = Head(Board!Drained) /\ stored' = Tail(Board!Drained) /\ inbox' = <<>>
      /\ outbox' = outbox /\ txHeld' = txHeld /\ ran' = ran /\ ret' = ret
  BY DEF Board!Fetch
<1>2. /\ CallId' = CallId /\ gpid' = gpid /\ step' = step /\ run' = run
      /\ sock' = sock /\ hpc' = hpc /\ hresult' = hresult
      /\ Passed => Passed'
      /\ Numbered' /\ SuccessMeansTested'
  BY <1>1, HostStands
<1>3. Listening /\ ~ InWork /\ InWork'
  BY <1>1 DEF Listening, InWork
<1>4. /\ Held = Len(inbox) + Len(stored) /\ Worked = 0 /\ Worked' = 1
  BY <1>3 DEF Held, Worked
<1>5. Len(inbox) + Len(stored) <= 1
  BY <1>4, OutstandingNat DEF StopAndWait, Outstanding
<1>6. /\ all \in Seq(Requests) /\ Len(all) = Len(stored) + Len(inbox)
      /\ \A k \in 1 .. Len(all) :
           all[k] = IF k <= Len(stored) THEN stored[k] ELSE inbox[k - Len(stored)]
  BY ConcatProperties DEF Fields
<1>7. Board!Drained = all
  <2>1. Len(all) <= Capacity
    BY <1>5, <1>6, OutstandingNat, FactoryAssumption
  <2> QED
    BY <2>1 DEF Board!Drained
<1>8. Len(all) = 1
  <2>1. Len(all) \in Nat \ {0}
    BY <1>1, <1>6, <1>7, EmptySeq
  <2> QED
    BY <1>5, <1>6, <2>1, OutstandingNat
<1>9. /\ req' = all[1] /\ all[1] \in Requests
      /\ stored' \in Seq(Requests) /\ Len(stored') = 0
      /\ inbox' \in Seq(Requests) /\ Len(inbox') = 0
  <2>1. Head(all) = all[1] /\ all[1] \in Requests
    BY <1>6, <1>8
  <2>2. Tail(all) \in Seq(Requests) /\ Len(Tail(all)) = 0
    BY <1>6, <1>8
  <2>3. <<>> \in Seq(Requests) /\ Len(<<>>) = 0
    OBVIOUS
  <2> QED
    BY <1>1, <1>7, <2>1, <2>2, <2>3
<1>10. Asked(all[1])
  <2> HIDE DEF ProtocolInv, all
  <2>1. Len(stored) \in Nat /\ Len(inbox) \in Nat /\ Len(stored) + Len(inbox) = 1
    BY <1>6, <1>8, OutstandingNat DEF ProtocolInv
  <2>2. CASE Len(stored) = 1
    <3>1. all[1] = stored[1] /\ 1 \in 1 .. Len(stored)
      BY <1>6, <1>8, <2>2
    <3> QED
      BY <1>3, <3>1 DEF ProtocolInv, Belongs
  <2>3. CASE Len(stored) = 0
    <3>1. all[1] = inbox[1] /\ 1 \in 1 .. Len(inbox)
      <4>1. all[1] = inbox[1 - Len(stored)]
        BY <1>6, <1>8, <2>3
      <4>2. 1 - Len(stored) = 1 /\ Len(inbox) = 1
        BY <2>1, <2>3
      <4> QED
        BY <4>1, <4>2
    <3> QED
      BY <1>3, <3>1 DEF ProtocolInv, Belongs
  <2> QED
    BY <2>1, <2>2, <2>3
<1>11. Fields'
  BY <1>1, <1>2, <1>9 DEF Fields
<1>12. StopAndWait'
  <2>1. Held' = 0
    BY <1>9 DEF Held
  <2>2. Held = 1
    BY <1>4, <1>6, <1>8, OutstandingNat
  <2>3. Outstanding' = Outstanding
    <3>1. /\ outbox' = outbox /\ sock' = sock /\ Worked = 0 /\ Worked' = 1
          /\ Len(outbox) \in Nat /\ Len(sock) \in Nat
      BY <1>1, <1>2, <1>4, OutstandingNat
    <3> HIDE DEF ProtocolInv, all
    <3> QED
      BY <2>1, <2>2, <3>1 DEF Outstanding
  <2> QED
    BY <1>2, <2>3 DEF StopAndWait
<1>13. Belongs'
  <2>1. /\ \A k \in 1 .. Len(outbox') : Told(outbox[k])'
        /\ \A k \in 1 .. Len(sock') : Told(sock[k])'
    BY <1>1, <1>2 DEF Belongs, Told
  <2>2. Asked(req)'
    BY <1>2, <1>9, <1>10 DEF Asked
  <2> QED
    BY <1>1, <1>9, <2>1, <2>2 DEF Belongs
<1> QED
  BY <1>2, <1>11, <1>12, <1>13

\* The answer takes the place of the request.
LEMMA ReplyKeeps ==
  ASSUME ProtocolInv, Board!Reply, UNCHANGED hostVars
  PROVE  ProtocolInv'
<1> USE DEF ProtocolInv
<1> DEFINE answer == [magic |-> req.magic, pid |-> req.pid, id |-> req.id,
                      cmd |-> IF ret = 0 THEN "RET_SUCCES" ELSE "RET_FAILED",
                      of |-> req.cmd]
<1>1. /\ pc = "reply" /\ pc' = "loop" /\ outbox' = Append(outbox, answer)
      /\ inbox' = inbox /\ stored' = stored /\ req' = req /\ bLoop' = bLoop
      /\ ran' = ran /\ ret' = ret /\ txHeld' = txHeld + 1
  BY DEF Board!Reply
<1>2. /\ CallId' = CallId /\ gpid' = gpid /\ step' = step /\ run' = run
      /\ sock' = sock /\ hpc' = hpc /\ hresult' = hresult
      /\ Passed => Passed'
      /\ Numbered' /\ SuccessMeansTested'
  BY <1>1, HostStands
<1>3. InWork /\ ~ InWork' /\ (Listening' <=> Listening)
  BY <1>1 DEF InWork, Listening
<1>4. answer \in Answers /\ Told(answer)
  BY <1>1, <1>3 DEF Answers, Requests, Fields, Belongs, Asked, Told
<1>5. /\ outbox' \in Seq(Answers) /\ Len(outbox') = Len(outbox) + 1
      /\ \A k \in 1 .. Len(outbox') :
           outbox'[k] = answer \/ (k \in 1 .. Len(outbox) /\ outbox'[k] = outbox[k])
  <2> HIDE DEF answer
  <2>1. /\ Len(outbox) \in Nat /\ Append(outbox, answer) \in Seq(Answers)
        /\ Len(Append(outbox, answer)) = Len(outbox) + 1
        /\ \A k \in 1 .. Len(outbox) + 1 :
             Append(outbox, answer)[k] = IF k = Len(outbox) + 1 THEN answer ELSE outbox[k]
    BY <1>4 DEF Fields
  <2> QED
    BY <1>1, <2>1
<1>6. Fields'
  BY <1>1, <1>2, <1>3, <1>5 DEF Fields
<1>7. StopAndWait'
  <2>1. Held' = Held /\ Worked = 1 /\ Worked' = 0
    BY <1>1, <1>3 DEF Held, Worked, Listening
  <2>2. Outstanding' = Outstanding
    BY <1>2, <1>5, <2>1, OutstandingNat DEF Outstanding
  <2> QED
    BY <1>2, <2>2 DEF StopAndWait
<1>8. Belongs'
  <2>1. ASSUME NEW k \in 1 .. Len(outbox')
        PROVE  Told(outbox[k])'
    <3>1. outbox'[k] = answer \/ (k \in 1 .. Len(outbox) /\ outbox'[k] = outbox[k])
      BY <1>5
    <3>2. k \in 1 .. Len(outbox) => Told(outbox[k])
      BY DEF Belongs
    <3> HIDE DEF answer
    <3> QED
      BY <1>2, <1>4, <3>1, <3>2 DEF Told
  <2>2. \A k \in 1 .. Len(sock') : Told(sock[k])'
    BY <1>2 DEF Belongs, Told
  <2>3. Listening' => /\ \A k \in 1 .. Len(inbox') : Asked(inbox[k])'
                      /\ \A k \in 1 .. Len(stored') : Asked(stored[k])'
    BY <1>1, <1>2, <1>3 DEF Belongs, Asked
  <2> QED
    BY <1>1, <1>3, <2>1, <2>2, <2>3 DEF Belongs
<1> QED
  BY <1>2, <1>6, <1>7, <1>8

LEMMA BoardKeeps ==
  ASSUME ProtocolInv, Board!BoardStep, UNCHANGED hostVars
  PROVE  ProtocolInv'
<1>1. InWork => req.cmd = step /\ step \in Steps
  BY DEF ProtocolInv, Belongs, Asked, Fields
<1>2. bLoop \in BOOLEAN /\ pc # "netTest" /\ txHeld \in Nat
  BY DEF ProtocolInv, Fields
<1>3. CASE \/ Board!Boot \/ Board!BootFailed \/ Board!BootDone \/ Board!BadMagic
           \/ Board!ShowVerdict \/ Board!Blink
  <2>1. /\ ran' = ran /\ SentStands /\ stored' = stored
        /\ inbox' \in {inbox, <<>>} /\ bLoop' = bLoop
        /\ pc' \in {"bootCheck", "dead", "loop", "ledSuccess", "ledFailed"}
        /\ pc # "dead"
    BY <1>2, <1>3 DEF Board!Boot, Board!ResetFifo, Board!BootFailed, Board!BootDone,
                Board!BadMagic, Board!ShowVerdict, Board!Blink, SentStands
  <2>2. ~ InWork' /\ (Listening' => Listening)
    BY <2>1 DEF InWork, Listening
  <2> QED
    BY <1>2, <2>1, <2>2, QuietKeeps
<1>4. CASE \/ Board!Connect \/ Board!SetResult \/ Board!Finish
           \/ Board!UnknownCommand \/ Board!StartTest
  <2>1. /\ ran' = ran /\ outbox' = outbox /\ stored' = stored /\ inbox' = inbox
        /\ txHeld' = txHeld /\ req' = req /\ bLoop' \in {bLoop, FALSE}
        /\ pc = "dispatch" /\ pc' \in {"reply", "test"}
        /\ pc' = "reply" => req.cmd \in {"CONNECT", "RESULT", "FINISH", "unknown"}
    BY <1>4 DEF Board!Dispatch, Board!Connect, Board!SetResult, Board!Finish,
                Board!UnknownCommand, Board!StartTest
  <2>2. InWork /\ InWork'
    BY <2>1 DEF InWork
  <2>3. Listening' => Listening
    <3>1. bLoop' => bLoop
      BY <1>2, <2>1
    <3> QED
      BY <2>1, <3>1 DEF Listening
  <2>4. pc' = "reply" => step \notin HostTests
    BY <1>1, <2>1, <2>2 DEF HostTests
  <2> QED
    BY <1>2, <2>1, <2>2, <2>3, <2>4, WorkKeeps
<1>5. ASSUME NEW r \in {0, 1}, Board!EndTest(r)
      PROVE  ProtocolInv'
  <2>1. /\ ran' = ran \cup {<<req.id, req.cmd, r>>} /\ ret' = r
        /\ outbox' = outbox /\ stored' = stored /\ inbox' = inbox /\ req' = req
        /\ txHeld' = txHeld /\ bLoop' = bLoop /\ pc = "test" /\ pc' = "reply"
    BY <1>5 DEF Board!EndTest
  <2>2. InWork /\ InWork'
    BY <2>1 DEF InWork
  <2>3. Listening' => Listening
    BY <2>1 DEF Listening
  <2>4. CallId' = CallId /\ step' = step
    BY <2>1, HostStands
  <2>5. ret' = 0 => Passed'
    BY <2>1, <2>2, <2>4 DEF ProtocolInv, Belongs, Asked, Passed
  <2> QED
    BY <1>2, <2>1, <2>2, <2>3, <2>5, WorkKeeps
<1>6. ~ Board!StartNetTest /\ ~ Board!EndNetTest
  <2>1. ASSUME Board!StartNetTest PROVE FALSE
    <3>1. pc = "dispatch" /\ req.cmd = "NET_TEST"
      BY <2>1 DEF Board!StartNetTest, Board!Dispatch
    <3> QED
      BY <1>1, <3>1 DEF InWork, Steps, HostTests
  <2>2. ASSUME Board!EndNetTest PROVE FALSE
    BY <1>2, <2>2 DEF Board!EndNetTest
  <2> QED
    BY <2>1, <2>2
<1> QED
  BY <1>3, <1>4, <1>5, <1>6, FetchKeeps, ReplyKeeps
     DEF Board!BoardStep, Board!LoopStep, Board!EndAnyTest

\* What the board held is gone; what is on the wire stays there.
LEMMA PowerCycleKeeps ==
  ASSUME ProtocolInv, PowerCycle
  PROVE  ProtocolInv'
<1>1. /\ inbox' = <<>> /\ stored' = <<>> /\ pc' = "boot" /\ bLoop' = TRUE
      /\ SentStands /\ ran' = ran /\ UNCHANGED hostVars
  BY DEF PowerCycle, Board!PowerCycle, SentStands
<1>2. ~ InWork'
  BY <1>1 DEF InWork
<1> QED
  BY <1>1, <1>2, QuietKeeps

\* A frame that leaves the board is on the wire.
LEMMA TransmitKeeps ==
  ASSUME ProtocolInv, Transmit
  PROVE  ProtocolInv'
<1>1. /\ txHeld' \in Nat
      /\ UNCHANGED <<inbox, stored, pc, req, ret, bLoop, outbox, ran, hostVars>>
  BY DEF Transmit, Board!Transmit, ProtocolInv, Fields
<1> QED
  BY <1>1 DEF hostVars, ProtocolInv, Fields, StopAndWait, Belongs, Numbered,
     SuccessMeansTested, Outstanding, Held, Worked, InWork, Listening, Asked, Told,
     Passed, CallId

--------------------------------------------------------------------------------
LEMMA ProtocolStep ==
  ASSUME Timely
  PROVE  ProtocolInv /\ [Next]_vars => ProtocolInv'
<1> SUFFICES ASSUME ProtocolInv, [Next]_vars
             PROVE  ProtocolInv'
  OBVIOUS
<1>1. CASE Start
  BY <1>1, StartKeeps
<1>2. CASE HostStep
  BY <1>2, SendRequestKeeps, ReadAnswerKeeps, TimeoutKeeps DEF HostStep
<1>3. CASE SocketError
  BY <1>3, SocketErrorKeeps
<1>4. CASE Deliver \/ LoseAnswer
  BY <1>4, DeliverKeeps, LoseAnswerKeeps
<1>5. CASE Kill
  BY <1>5 DEF Kill, Timely
<1>6. CASE PowerCycle
  BY <1>6, PowerCycleKeeps
<1>7. CASE BoardStep
  BY <1>7, BoardKeeps DEF BoardStep
<1>8. CASE UNCHANGED vars
  BY <1>8 DEF vars, boardVars, hostVars, ProtocolInv, Fields, StopAndWait, Belongs,
     Numbered, SuccessMeansTested, Outstanding, Held, Worked, InWork, Listening, Asked,
     Told, Passed, CallId
<1>9. CASE Transmit
  BY <1>9, TransmitKeeps
<1> QED
  BY <1>1, <1>2, <1>3, <1>4, <1>5, <1>6, <1>7, <1>8, <1>9 DEF Next

\* "memtest success", "flashtest success", "atecctest success": in every run the
\* board has run that test for a request of this run, and it passed.
THEOREM SuccessMeansTestedAlways ==
  ASSUME Timely
  PROVE  Spec => []SuccessMeansTested
<1>1. ProtocolInv => SuccessMeansTested
  BY DEF ProtocolInv
<1>2. ProtocolInv /\ [Next]_vars => ProtocolInv'
  BY ProtocolStep
<1> QED
  BY <1>1, <1>2, ProtocolInit, PTL DEF Spec

\* While the board answers there is never more than one request or answer of any
\* run anywhere between the two programs.
THEOREM OneOutstandingAlways ==
  ASSUME Timely
  PROVE  Spec => []OneOutstanding
<1>1. ProtocolInv => OneOutstanding
  <2> SUFFICES ASSUME ProtocolInv, bLoop, pc # "dead"
               PROVE  Len(inbox) + Len(stored) + Len(outbox) + Len(sock) + Worked <= 1
    BY DEF OneOutstanding, Worked, InWork
  <2>1. Held = Len(inbox) + Len(stored)
    BY DEF Held, Listening
  <2> QED
    BY <2>1, OutstandingNat DEF ProtocolInv, StopAndWait, Outstanding
<1>2. ProtocolInv /\ [Next]_vars => ProtocolInv'
  BY ProtocolStep
<1> QED
  BY <1>1, <1>2, ProtocolInit, PTL DEF Spec
================================================================================
