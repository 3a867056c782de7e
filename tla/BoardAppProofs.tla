---------------------------- MODULE BoardAppProofs ----------------------------
(***************************************************************************)
(* Theorems about BoardApp, for every size of the pool and of the FIFO,    *)
(* every set of commands and every number of requests: what the board says *)
(* of a test is what the test returned for that very request, answers      *)
(* leave in the order of the requests, each request is answered once, and  *)
(* the pool never holds as much as it could when a test starts.            *)
(***************************************************************************)
EXTENDS BoardApp, SequenceTheorems, TLAPS

Magics == {"MAGIC", "other", "none"}
Requests == [magic : Magics, cmd : Commands \cup {"none"}, pid : Nat, id : Nat,
             data : {0, 1}]
Answers == [magic : Magics, pid : Nat, id : Nat,
            cmd : {"RET_SUCCES", "RET_FAILED", "none"},
            of : Commands \cup {"none"}]

TestCommands == Tests \cup {"NET_TEST"}

\* The types of what passes through the loop.
Fields == /\ inbox \in Seq(Requests) /\ stored \in Seq(Requests)
          /\ req \in Requests
          /\ outbox \in Seq(Answers) /\ txHeld \in 0 .. Len(outbox)
          /\ frames \in Nat

\* When the loop is about to answer a test command, ret is the value of that
\* test and not one left from the turn before.
RetIsFresh == pc = "reply" /\ req.cmd \in TestCommands =>
                <<req.id, req.cmd, IF ret = 0 THEN 0 ELSE 1>> \in ran

\* An answer reports a test that is among those done.
Honest(m, done) == m.of \in TestCommands =>
                     <<m.id, m.of, IF m.cmd = "RET_SUCCES" THEN 0 ELSE 1>> \in done

HonestInv == Fields /\ RetIsFresh /\ AnswersHonest

--------------------------------------------------------------------------------
\* AnswersHonest speaks of each answer on its own.
LEMMA EachAnswer == AnswersHonest <=> \A k \in 1 .. Len(outbox) : Honest(outbox[k], ran)
  BY DEF AnswersHonest, Honest, TestCommands

\* A step that sends nothing: the transmit FIFO stays as it is, a frame of it
\* leaves, or a reset takes what it holds.
NothingSent == \/ outbox' = outbox /\ txHeld' = txHeld
               \/ outbox' = outbox /\ txHeld > 0 /\ txHeld' = txHeld - 1
               \/ outbox' = Left /\ txHeld' = 0

LEMMA LeftIs ==
  ASSUME NEW S, outbox \in Seq(S), txHeld \in 0 .. Len(outbox)
  PROVE  /\ Left \in Seq(S) /\ Len(Left) = Len(outbox) - txHeld
         /\ \A k \in 1 .. Len(Left) : k \in 1 .. Len(outbox) /\ Left[k] = outbox[k]
<1>1. PICK n : n = Len(outbox) - txHeld
  OBVIOUS
<1>2. n \in 0 .. Len(outbox) /\ Len(outbox) \in Nat
  BY <1>1
<1>3. \A k \in 1 .. n : outbox[k] \in S
  BY <1>2
<1>4. /\ SubSeq(outbox, 1, n) \in Seq(S) /\ Len(SubSeq(outbox, 1, n)) = n
      /\ \A k \in 1 .. n : SubSeq(outbox, 1, n)[k] = outbox[k]
  BY <1>2, <1>3, SubSeqProperties
<1> QED
  BY <1>1, <1>2, <1>4 DEF Left

\* What is left of the frames are the first ones.
LEMMA NothingSentKeeps ==
  ASSUME NEW S, outbox \in Seq(S), txHeld \in 0 .. Len(outbox), NothingSent
  PROVE  /\ outbox' \in Seq(S) /\ txHeld' \in 0 .. Len(outbox')
         /\ \A k \in 1 .. Len(outbox') : k \in 1 .. Len(outbox) /\ outbox'[k] = outbox[k]
<1>1. CASE outbox' = outbox
  BY <1>1 DEF NothingSent
<1>2. CASE outbox' = Left /\ txHeld' = 0
  BY <1>2, LeftIs
<1> QED
  BY <1>1, <1>2 DEF NothingSent

\* Sending keeps it if the answer sent is honest; tests are never forgotten.
LEMMA SendHonest ==
  ASSUME Fields, AnswersHonest, ran \subseteq ran',
         NEW m \in Answers, outbox' = Append(outbox, m), Honest(m, ran')
  PROVE  outbox' \in Seq(Answers) /\ AnswersHonest'
<1>1. \A k \in 1 .. Len(outbox) : Honest(outbox[k], ran)
  BY EachAnswer
<1>2. \A k \in 1 .. Len(outbox') : k \in 1 .. Len(outbox) \/ k = Len(outbox) + 1
  BY DEF Fields
<1>3. \A k \in 1 .. Len(outbox') :
        outbox'[k] = IF k = Len(outbox) + 1 THEN m ELSE outbox[k]
  BY DEF Fields
<1>4. ASSUME NEW k \in 1 .. Len(outbox')
      PROVE  Honest(outbox'[k], ran')
  <2>1. CASE k = Len(outbox) + 1
    BY <1>3, <2>1 DEF Honest
  <2>2. CASE k \in 1 .. Len(outbox) /\ k # Len(outbox) + 1
    BY <1>1, <1>3, <2>2 DEF Honest
  <2> QED
    BY <1>2, <2>1, <2>2
<1>5. AnswersHonest'
  BY <1>4 DEF AnswersHonest, Honest, TestCommands
<1> QED
  BY <1>5 DEF Fields

\* A step that sends nothing keeps it as well.
LEMMA SilentHonest ==
  ASSUME Fields, AnswersHonest, NothingSent, ran \subseteq ran'
  PROVE  /\ AnswersHonest'
         /\ outbox' \in Seq(Answers) /\ txHeld' \in 0 .. Len(outbox')
<1>1. /\ outbox' \in Seq(Answers) /\ txHeld' \in 0 .. Len(outbox')
      /\ \A k \in 1 .. Len(outbox') : k \in 1 .. Len(outbox) /\ outbox'[k] = outbox[k]
  BY NothingSentKeeps DEF Fields
<1> QED
  BY <1>1 DEF AnswersHonest

\* What the pool hands out is what waits in it and then in the FIFO, in that order,
\* as far as it fits.
LEMMA DrainedIs ==
  ASSUME NEW S, stored \in Seq(S), inbox \in Seq(S)
  PROVE  /\ Drained \in Seq(S)
         /\ Len(Drained) <= Capacity /\ Len(Drained) <= Len(stored) + Len(inbox)
         /\ \A k \in 1 .. Len(Drained) :
              Drained[k] = IF k <= Len(stored) THEN stored[k] ELSE inbox[k - Len(stored)]
<1> DEFINE all == stored \o inbox
<1>1. /\ all \in Seq(S) /\ Len(all) = Len(stored) + Len(inbox)
      /\ \A k \in 1 .. Len(all) :
           all[k] = IF k <= Len(stored) THEN stored[k] ELSE inbox[k - Len(stored)]
  BY ConcatProperties
<1>2. CASE Len(all) <= Capacity
  BY <1>1, <1>2 DEF Drained
<1>3. CASE ~ Len(all) <= Capacity
  <2>1. \A k \in 1 .. Capacity : all[k] \in S
    BY <1>1, <1>3, BoardAssumption
  <2>2. /\ SubSeq(all, 1, Capacity) \in Seq(S)
        /\ Len(SubSeq(all, 1, Capacity)) = Capacity
        /\ \A k \in 1 .. Capacity : SubSeq(all, 1, Capacity)[k] = all[k]
    BY <2>1, SubSeqProperties, <1>1, <1>3, BoardAssumption
  <2>3. Drained = SubSeq(all, 1, Capacity)
    BY <1>3 DEF Drained
  <2> HIDE DEF all
  <2> QED
    BY <1>1, <1>3, <2>2, <2>3, BoardAssumption
<1> QED
  BY <1>1, <1>2, <1>3

\* What the pool hands out are requests, whatever has been dropped.
LEMMA DrainedRequests ==
  ASSUME Fields
  PROVE  Drained \in Seq(Requests)
  BY DrainedIs DEF Fields

--------------------------------------------------------------------------------
LEMMA HonestInit == Init => HonestInv
  BY DEF Init, BoardInit, HonestInv, Fields, RetIsFresh, AnswersHonest, Requests,
     Magics, NoReq

\* The wire, the boot and the end of the loop touch neither requests in work
\* nor answers.
LEMMA OutsideKeeps ==
  ASSUME HonestInv,
         \/ Station
         \/ /\ Boot \/ BootFailed \/ BootDone \/ ShowVerdict \/ Blink \/ Transmit
            /\ UNCHANGED frames
  PROVE  HonestInv'
<1> USE DEF HonestInv
<1>1. /\ stored' = stored /\ req' = req /\ NothingSent /\ ran' = ran /\ ret' = ret
      /\ pc' = "reply" => pc = "reply"
  BY DEF Station, Arrive, Boot, ResetFifo, BootFailed, BootDone, ShowVerdict, Blink,
         Transmit, NothingSent
<1>2. frames' \in Nat /\ inbox' \in Seq(Requests)
  <2>1. CASE Station
    <3>1. PICK cmd \in Commands, mag \in {"MAGIC", "other"}, d \in {0, 1} :
             Arrive(Request(cmd, mag, d))
      BY <2>1 DEF Station
    <3>2. Request(cmd, mag, d) \in Requests
      BY DEF Request, Requests, Magics, Fields
    <3> QED
      BY <2>1, <3>1, <3>2 DEF Station, Arrive, Fields
  <2>2. CASE /\ Boot \/ BootFailed \/ BootDone \/ ShowVerdict \/ Blink \/ Transmit
             /\ UNCHANGED frames
    <3>1. inbox' = inbox \/ inbox' = <<>>
      BY <2>2 DEF Boot, ResetFifo, BootFailed, BootDone, ShowVerdict, Blink, Transmit
    <3>2. inbox \in Seq(Requests) /\ <<>> \in Seq(Requests)
      BY DEF Fields
    <3> QED
      BY <2>2, <3>1, <3>2 DEF Fields
  <2> QED
    BY <2>1, <2>2
<1>3. /\ AnswersHonest'
      /\ outbox' \in Seq(Answers) /\ txHeld' \in 0 .. Len(outbox')
  BY <1>1, SilentHonest
<1> QED
  BY <1>1, <1>2, <1>3 DEF Fields, RetIsFresh

LEMMA FetchKeeps ==
  ASSUME HonestInv, Fetch, frames' = frames
  PROVE  HonestInv'
<1> USE DEF HonestInv
<1>1. Drained \in Seq(Requests) /\ Drained # <<>>
  BY DrainedRequests DEF Fetch
<1>2. Head(Drained) \in Requests /\ Tail(Drained) \in Seq(Requests)
  BY <1>1
<1>3. Fields'
  BY <1>2 DEF Fetch, Fields
<1>4. AnswersHonest'
  BY SilentHonest DEF Fetch, NothingSent
<1> QED
  BY <1>3, <1>4 DEF Fetch, RetIsFresh

\* The branches without a test answer at once; the others are not yet at the
\* answer.
LEMMA BranchKeeps ==
  ASSUME HonestInv, frames' = frames,
         \/ BadMagic \/ Connect \/ SetResult \/ Finish \/ UnknownCommand
         \/ StartTest \/ StartNetTest
  PROVE  HonestInv'
<1> USE DEF HonestInv
<1>1. /\ stored' = stored /\ req' = req /\ NothingSent /\ ran' = ran
      /\ inbox' \in {inbox, <<>>}
  BY DEF BadMagic, Connect, SetResult, Finish, UnknownCommand, StartTest,
         StartNetTest, ResetFifo, NothingSent
<1>2. pc' = "reply" => req.cmd \in {"CONNECT", "RESULT", "FINISH", "unknown"}
  BY DEF BadMagic, Connect, SetResult, Finish, UnknownCommand, StartTest,
         StartNetTest, Dispatch
<1>3. RetIsFresh'
  BY <1>1, <1>2 DEF RetIsFresh, TestCommands, Tests
<1>4. /\ AnswersHonest'
      /\ outbox' \in Seq(Answers) /\ txHeld' \in 0 .. Len(outbox')
  BY <1>1, SilentHonest
<1>5. inbox' \in Seq(Requests)
  <2>1. inbox \in Seq(Requests) /\ <<>> \in Seq(Requests)
    BY DEF Fields
  <2> QED
    BY <1>1, <2>1
<1>6. Fields'
  BY <1>1, <1>4, <1>5 DEF Fields
<1> QED
  BY <1>3, <1>4, <1>6

\* A test returns: its value is in ret when the loop goes on to the answer.
LEMMA EndTestKeeps ==
  ASSUME HonestInv, frames' = frames, NEW r \in {0, 1}, EndTest(r)
  PROVE  HonestInv'
<1> USE DEF HonestInv
<1>1. ran \subseteq ran' /\ NothingSent /\ req' = req
      /\ ret' = r /\ <<req.id, req.cmd, r>> \in ran'
  BY DEF EndTest, NothingSent
<1>2. AnswersHonest'
  BY <1>1, SilentHonest
<1>3. RetIsFresh'
  BY <1>1 DEF RetIsFresh
<1>4. Fields'
  BY DEF EndTest, Fields
<1> QED
  BY <1>2, <1>3, <1>4

\* The net test sends a frame of its own, which is no answer.
LEMMA EndNetTestKeeps ==
  ASSUME HonestInv, frames' = frames, EndNetTest
  PROVE  HonestInv'
<1> USE DEF HonestInv
<1>1. /\ ran \subseteq ran' /\ req' = req /\ stored' = stored
      /\ ret' \in {0, 1} /\ <<req.id, req.cmd, ret'>> \in ran'
      /\ outbox' = outbox \/ outbox' = Append(outbox, Stray)
      /\ inbox' = inbox \/ (inbox # <<>> /\ inbox' = Tail(inbox))
      /\ txHeld' = txHeld
  BY DEF EndNetTest
<1>2. Stray \in Answers /\ Honest(Stray, ran')
  BY DEF Stray, Answers, Magics, Honest, TestCommands, Tests
<1>3. /\ outbox' \in Seq(Answers) /\ AnswersHonest'
      /\ txHeld' \in 0 .. Len(outbox')
  <2>1. CASE outbox' = outbox
    BY <1>1, <2>1, SilentHonest DEF Fields, NothingSent
  <2>2. CASE outbox' = Append(outbox, Stray)
    <3>1. Len(outbox') = Len(outbox) + 1 /\ Len(outbox) \in Nat
      BY <1>2, <2>2 DEF Fields
    <3>2. txHeld' \in 0 .. Len(outbox')
      BY <1>1, <3>1 DEF Fields
    <3> QED
      BY <1>1, <1>2, <2>2, <3>2, SendHonest
  <2> QED
    BY <1>1, <2>1, <2>2
<1>4. inbox' \in Seq(Requests)
  <2>1. inbox # <<>> => Tail(inbox) \in Seq(Requests)
    BY DEF Fields
  <2>2. inbox \in Seq(Requests)
    BY DEF Fields
  <2> QED
    BY <1>1, <2>1, <2>2
<1>5. RetIsFresh'
  BY <1>1 DEF RetIsFresh
<1> QED
  BY <1>1, <1>3, <1>4, <1>5 DEF Fields

LEMMA ReplyKeeps ==
  ASSUME HonestInv, frames' = frames, Reply
  PROVE  HonestInv'
<1> USE DEF HonestInv
<1> DEFINE answer == [magic |-> req.magic, pid |-> req.pid, id |-> req.id,
                      cmd |-> IF ret = 0 THEN "RET_SUCCES" ELSE "RET_FAILED",
                      of |-> req.cmd]
<1>1. /\ outbox' = Append(outbox, answer) /\ txHeld' = txHeld + 1
      /\ ran' = ran /\ req' = req
      /\ inbox' = inbox /\ stored' = stored /\ pc = "reply" /\ pc' = "loop"
  BY DEF Reply
<1>2. answer \in Answers
  BY DEF Answers, Fields, Requests
<1>3. Honest(answer, ran')
  BY <1>1 DEF Honest, RetIsFresh
<1>4. outbox' \in Seq(Answers) /\ AnswersHonest' /\ Len(outbox') = Len(outbox) + 1
  <2> HIDE DEF answer
  <2> QED
    BY <1>1, <1>2, <1>3, SendHonest DEF Fields
<1>5. txHeld' \in 0 .. Len(outbox')
  BY <1>1, <1>4 DEF Fields
<1> QED
  BY <1>1, <1>4, <1>5 DEF Fields, RetIsFresh

LEMMA HonestStep == HonestInv /\ [Next]_vars => HonestInv'
<1> SUFFICES ASSUME HonestInv, [Next]_vars
             PROVE  HonestInv'
  OBVIOUS
<1>1. CASE Station
  BY <1>1, OutsideKeeps
<1>2. CASE (BoardStep \/ Transmit) /\ UNCHANGED frames
  <2>1. CASE Boot \/ BootFailed \/ BootDone \/ ShowVerdict \/ Blink \/ Transmit
    BY <1>2, <2>1, OutsideKeeps
  <2>2. CASE Fetch
    BY <1>2, <2>2, FetchKeeps
  <2>3. CASE \/ BadMagic \/ Connect \/ SetResult \/ Finish \/ UnknownCommand
             \/ StartTest \/ StartNetTest
    BY <1>2, <2>3, BranchKeeps
  <2>4. CASE \E r \in {0, 1} : EndTest(r)
    BY <1>2, <2>4, EndTestKeeps
  <2>5. CASE EndNetTest
    BY <1>2, <2>5, EndNetTestKeeps
  <2>6. CASE Reply
    BY <1>2, <2>6, ReplyKeeps
  <2> QED
    BY <1>2, <2>1, <2>2, <2>3, <2>4, <2>5, <2>6 DEF BoardStep, LoopStep, EndAnyTest
<1>3. CASE UNCHANGED vars
  BY <1>3 DEF vars, boardVars, HonestInv, Fields, RetIsFresh, AnswersHonest
<1> QED
  BY <1>1, <1>2, <1>3 DEF Next

\* The answer to a test command reports what the test returned for that very
\* request.
THEOREM AnswersHonestAlways == Spec => []AnswersHonest
<1>1. HonestInv => AnswersHonest
  BY DEF HonestInv
<1> QED
  BY <1>1, HonestInit, HonestStep, PTL DEF Spec

--------------------------------------------------------------------------------
(***************************************************************************)
(* The order of the answers.  Requests wait in the order they arrived,     *)
(* those of the pool before those of the FIFO; the request in work came    *)
(* before all that wait, and the answered ones before that.                *)
(***************************************************************************)
InWork == pc \in {"dispatch", "test", "netTest", "reply"}

Ascending(s) == \A i, j \in 1 .. Len(s) : i < j => s[i].id < s[j].id

\* The request with this id came before all that wait.
Ahead(n) == /\ n <= frames
            /\ \A i \in 1 .. Len(stored) : n < stored[i].id
            /\ \A i \in 1 .. Len(inbox) : n < inbox[i].id

QueueInOrder == /\ Ascending(stored) /\ Ascending(inbox)
                /\ \A i \in 1 .. Len(stored) :
                     /\ stored[i].id <= frames
                     /\ \A j \in 1 .. Len(inbox) : stored[i].id < inbox[j].id
                /\ \A j \in 1 .. Len(inbox) : inbox[j].id <= frames

\* An answer is to a request before the one in work, and before all that wait.
Settled(m) == m.of # "none" => Ahead(m.id) /\ (InWork => m.id < req.id)

OrderInv == /\ Fields
            /\ QueueInOrder
            /\ InWork => Ahead(req.id)
            /\ \A k \in 1 .. Len(outbox) : Settled(outbox[k])
            /\ AnswersInOrder

\* Requests that leave the queue, from wherever in it, leave the others in order.
Thinned(s, t) == /\ Len(t) <= Len(s)
                 /\ \/ \A k \in 1 .. Len(t) : t[k] = s[k]
                    \/ \A k \in 1 .. Len(t) : k + 1 <= Len(s) /\ t[k] = s[k + 1]

LEMMA OrderStart == Init => OrderInv
<1> SUFFICES ASSUME Init
             PROVE  OrderInv
  OBVIOUS
<1>1. Fields
  BY HonestInit DEF HonestInv
<1>2. inbox = <<>> /\ stored = <<>> /\ outbox = <<>> /\ ~ InWork
  BY DEF Init, BoardInit, InWork
<1> QED
  BY <1>1, <1>2 DEF OrderInv, QueueInOrder, Ascending, AnswersInOrder

LEMMA ThinnedAscends ==
  ASSUME NEW s \in Seq(Requests), NEW t \in Seq(Requests), Thinned(s, t), Ascending(s)
  PROVE  Ascending(t)
<1>1. CASE \A k \in 1 .. Len(t) : t[k] = s[k]
  BY <1>1 DEF Thinned, Ascending
<1>2. CASE \A k \in 1 .. Len(t) : k + 1 <= Len(s) /\ t[k] = s[k + 1]
  BY <1>2 DEF Ascending
<1> QED
  BY <1>1, <1>2 DEF Thinned

\* What is true of every waiting request stays true when some of them leave.
LEMMA ThinnedIn ==
  ASSUME NEW s \in Seq(Requests), NEW t \in Seq(Requests), Thinned(s, t),
         NEW k \in 1 .. Len(t)
  PROVE  \E i \in 1 .. Len(s) : t[k] = s[i]
<1>1. CASE t[k] = s[k]
  BY <1>1 DEF Thinned
<1>2. CASE k + 1 <= Len(s) /\ t[k] = s[k + 1]
  BY <1>2
<1> QED
  BY <1>1, <1>2 DEF Thinned

\* The FIFO loses frames: what came before all that wait still does.
LEMMA ShrinkKeepsQueue ==
  ASSUME Fields, QueueInOrder, inbox' \in Seq(Requests), frames' = frames,
         stored' = stored, Thinned(inbox, inbox')
  PROVE  QueueInOrder' /\ \A n \in Nat : Ahead(n) => Ahead(n)'
<1>1. inbox \in Seq(Requests)
  BY DEF Fields
<1>2. Ascending(inbox')
  BY <1>1, ThinnedAscends DEF QueueInOrder
<1>3. \A k \in 1 .. Len(inbox') : \E i \in 1 .. Len(inbox) : inbox'[k] = inbox[i]
  BY <1>1, ThinnedIn
<1>4. QueueInOrder'
  BY <1>2, <1>3 DEF QueueInOrder, Ascending
<1>5. ASSUME NEW n \in Nat, Ahead(n)
      PROVE  Ahead(n)'
  BY <1>3, <1>5 DEF Ahead
<1> QED
  BY <1>4, <1>5

\* A step that sends nothing and takes nothing into work.
LEMMA SilentKeepsOrder ==
  ASSUME OrderInv, Fields', QueueInOrder', \A n \in Nat : Ahead(n) => Ahead(n)',
         NothingSent, req' = req, InWork' => InWork
  PROVE  OrderInv'
<1> USE DEF OrderInv
<1>1. InWork' => Ahead(req.id)'
  BY DEF Fields, Requests
<1>2. \A k \in 1 .. Len(outbox') : k \in 1 .. Len(outbox) /\ outbox'[k] = outbox[k]
  BY NothingSentKeeps DEF Fields
<1>3. ASSUME NEW k \in 1 .. Len(outbox')
      PROVE  Settled(outbox[k])'
  <2>1. outbox'[k] = outbox[k] /\ outbox[k] \in Answers /\ Settled(outbox[k])
    BY <1>2, <1>3 DEF Fields
  <2>2. outbox[k].id \in Nat
    BY <2>1 DEF Answers
  <2> QED
    BY <2>1, <2>2 DEF Settled
<1>4. AnswersInOrder'
  BY <1>2 DEF AnswersInOrder
<1> QED
  BY <1>1, <1>3, <1>4

\* A frame goes out: an answer to the request in work, which is then done with, or
\* no answer at all.
LEMMA SendKeepsOrder ==
  ASSUME OrderInv, Fields', QueueInOrder', \A n \in Nat : Ahead(n) => Ahead(n)',
         NEW m \in Answers, outbox' = Append(outbox, m), req' = req,
         InWork' => InWork,
         m.of # "none" => InWork /\ ~ InWork' /\ m.id = req.id
  PROVE  OrderInv'
<1> USE DEF OrderInv
<1>1. /\ Len(outbox') = Len(outbox) + 1
      /\ \A k \in 1 .. Len(outbox) : outbox'[k] = outbox[k]
      /\ outbox'[Len(outbox) + 1] = m
  BY DEF Fields
<1>2. InWork' => Ahead(req.id)'
  BY DEF Fields, Requests
<1>3. ASSUME NEW k \in 1 .. Len(outbox)
      PROVE  Settled(outbox[k])'
  <2>1. outbox[k] \in Answers /\ Settled(outbox[k])
    BY DEF Fields
  <2>2. outbox[k].id \in Nat
    BY <2>1 DEF Answers
  <2> QED
    BY <1>1, <2>1, <2>2 DEF Settled
<1>4. Settled(m)'
  <2>1. m.id \in Nat
    BY DEF Answers
  <2> QED
    BY <2>1 DEF Settled
<1>5. ASSUME NEW k \in 1 .. Len(outbox')
      PROVE  Settled(outbox[k])'
  <2>1. CASE k \in 1 .. Len(outbox)
    BY <1>1, <1>3, <2>1 DEF Settled
  <2>2. CASE k = Len(outbox) + 1
    BY <1>1, <1>4, <2>2 DEF Settled
  <2> QED
    BY <1>1, <2>1, <2>2 DEF Fields
<1>6. \A k \in 1 .. Len(outbox) : {outbox[k].of, m.of} \cap {"none"} = {} =>
                                    outbox[k].id < m.id
  BY DEF Settled
<1>7. ASSUME NEW i \in 1 .. Len(outbox'), NEW j \in 1 .. Len(outbox'), i < j,
             "none" \notin {outbox'[i].of, outbox'[j].of}
      PROVE  outbox'[i].id < outbox'[j].id
  <2> Len(outbox) \in Nat
    BY DEF Fields
  <2>1. i \in 1 .. Len(outbox) /\ (j \in 1 .. Len(outbox) \/ j = Len(outbox) + 1)
    <3> HIDE DEF OrderInv
    <3> QED
      BY <1>1, <1>7
  <2>2. CASE j \in 1 .. Len(outbox)
    BY <1>1, <1>7, <2>1, <2>2 DEF AnswersInOrder
  <2>3. CASE j = Len(outbox) + 1
    BY <1>1, <1>6, <1>7, <2>1, <2>3
  <2> QED
    BY <2>1, <2>2, <2>3
<1>8. AnswersInOrder'
  BY <1>7 DEF AnswersInOrder
<1> QED
  BY <1>2, <1>5, <1>8

\* A new frame is younger than everything the board has seen.
LEMMA StationKeepsOrder == OrderInv /\ Fields' /\ Station => OrderInv'
<1> SUFFICES ASSUME OrderInv, Fields', Station
             PROVE  OrderInv'
  OBVIOUS
<1> USE DEF OrderInv
<1>1. PICK m : m.id = frames + 1 /\ inbox' = Append(inbox, m)
  BY DEF Station, Arrive, Request
<1>2. /\ frames' = frames + 1 /\ stored' = stored /\ NothingSent
      /\ req' = req /\ pc' = pc
  BY DEF Station, Arrive, NothingSent
<1>3. /\ frames \in Nat /\ inbox \in Seq(Requests) /\ stored \in Seq(Requests)
      /\ Len(inbox) \in Nat /\ Len(stored) \in Nat
  BY DEF Fields
<1>4. /\ \A k \in 1 .. Len(inbox) : inbox'[k] = inbox[k] /\ inbox[k].id \in Nat
      /\ inbox'[Len(inbox) + 1] = m /\ Len(inbox') = Len(inbox) + 1
  <2>1. \A k \in 1 .. Len(inbox) : inbox[k] \in Requests
    BY <1>3
  <2>2. \A k \in 1 .. Len(inbox) : inbox[k].id \in Nat
    BY <2>1 DEF Requests
  <2> HIDE DEF OrderInv
  <2> QED
    BY <1>1, <1>3, <2>2
<1>5. \A k \in 1 .. Len(inbox') : k \in 1 .. Len(inbox) \/ k = Len(inbox) + 1
  <2> HIDE DEF OrderInv
  <2> QED
    BY <1>3, <1>4
<1>6. \A k \in 1 .. Len(stored) : stored[k].id \in Nat
  <2>1. \A k \in 1 .. Len(stored) : stored[k] \in Requests
    BY <1>3
  <2> QED
    BY <2>1 DEF Requests
<1>7. Ascending(inbox')
  <2>1. \A k \in 1 .. Len(inbox) : inbox[k].id < frames + 1
    BY <1>3, <1>4 DEF QueueInOrder
  <2>2. ASSUME NEW i \in 1 .. Len(inbox'), NEW j \in 1 .. Len(inbox'), i < j
        PROVE  inbox'[i].id < inbox'[j].id
    <3>1. i \in 1 .. Len(inbox)
      BY <1>3, <1>5, <2>2
    <3>2. CASE j \in 1 .. Len(inbox)
      BY <1>4, <2>2, <3>1, <3>2 DEF QueueInOrder, Ascending
    <3>3. CASE j = Len(inbox) + 1
      BY <1>1, <1>4, <2>1, <3>1, <3>3
    <3> QED
      BY <1>5, <3>2, <3>3
  <2> QED
    BY <2>2 DEF Ascending
<1>8. QueueInOrder'
  <2>1. \A j \in 1 .. Len(inbox') :
          inbox'[j].id <= frames' /\ \A i \in 1 .. Len(stored) : stored[i].id < inbox'[j].id
    BY <1>1, <1>2, <1>3, <1>4, <1>5, <1>6 DEF QueueInOrder
  <2>2. Ascending(stored') /\ \A i \in 1 .. Len(stored') : stored'[i].id <= frames'
    BY <1>2, <1>3, <1>6 DEF QueueInOrder
  <2> QED
    BY <1>2, <1>7, <2>1, <2>2 DEF QueueInOrder
<1>9. \A n \in Nat : Ahead(n) => Ahead(n)'
  BY <1>1, <1>2, <1>3, <1>4, <1>5 DEF Ahead
<1> QED
  BY <1>2, <1>8, <1>9, SilentKeepsOrder DEF InWork

\* The first of what waits is taken into work; the others stay behind it.
LEMMA FetchKeepsOrder == OrderInv /\ Fields' /\ Fetch /\ frames' = frames => OrderInv'
<1> SUFFICES ASSUME OrderInv, Fields', Fetch, frames' = frames
             PROVE  OrderInv'
  OBVIOUS
<1> USE DEF OrderInv
<1>1. /\ inbox \in Seq(Requests) /\ stored \in Seq(Requests)
      /\ Len(inbox) \in Nat /\ Len(stored) \in Nat
  BY DEF Fields
<1>2. /\ Drained # <<>> /\ req' = Head(Drained) /\ stored' = Tail(Drained) /\ inbox' = <<>>
      /\ outbox' = outbox
  BY DEF Fetch
<1>3. /\ Drained \in Seq(Requests) /\ Len(Drained) \in Nat
      /\ Len(Drained) <= Len(stored) + Len(inbox)
      /\ \A k \in 1 .. Len(Drained) :
           Drained[k] = IF k <= Len(stored) THEN stored[k] ELSE inbox[k - Len(stored)]
  BY <1>1, DrainedIs
<1>4. \A k \in 1 .. Len(Drained) :
        \/ k \in 1 .. Len(stored) /\ Drained[k] = stored[k]
        \/ k - Len(stored) \in 1 .. Len(inbox) /\ Drained[k] = inbox[k - Len(stored)]
  <2> HIDE DEF OrderInv
  <2> QED
    BY <1>1, <1>3
<1>5. ASSUME NEW i \in 1 .. Len(Drained), NEW j \in 1 .. Len(Drained), i < j
      PROVE  Drained[i].id < Drained[j].id
  <2>1. CASE j \in 1 .. Len(stored) /\ Drained[j] = stored[j]
    <3>1. i \in 1 .. Len(stored) /\ Drained[i] = stored[i]
      BY <1>1, <1>3, <1>5, <2>1
    <3> QED
      BY <1>5, <2>1, <3>1 DEF QueueInOrder, Ascending
  <2>2. CASE j - Len(stored) \in 1 .. Len(inbox) /\ Drained[j] = inbox[j - Len(stored)]
    <3>1. CASE i \in 1 .. Len(stored) /\ Drained[i] = stored[i]
      BY <2>2, <3>1 DEF QueueInOrder
    <3>2. CASE i - Len(stored) \in 1 .. Len(inbox) /\ Drained[i] = inbox[i - Len(stored)]
      <4>1. i - Len(stored) < j - Len(stored)
        BY <1>1, <1>5
      <4> QED
        BY <2>2, <3>2, <4>1 DEF QueueInOrder, Ascending
    <3> QED
      BY <1>4, <3>1, <3>2
  <2> QED
    BY <1>4, <2>1, <2>2
<1>6. \A k \in 1 .. Len(Drained) : Drained[k].id <= frames
  BY <1>4 DEF QueueInOrder
<1>7. \A n \in Nat : Ahead(n) => \A k \in 1 .. Len(Drained) : n < Drained[k].id
  BY <1>4 DEF Ahead
<1>8. /\ req' = Drained[1] /\ 1 \in 1 .. Len(Drained)
      /\ Len(stored') = Len(Drained) - 1 /\ Len(inbox') = 0
      /\ \A k \in 1 .. Len(stored') : k + 1 \in 1 .. Len(Drained) /\ stored'[k] = Drained[k + 1]
  BY <1>2, <1>3
<1>9. QueueInOrder' /\ \A k \in 1 .. Len(stored') : req'.id < stored'[k].id
  <2> HIDE DEF OrderInv
  <2>1. ASSUME NEW i \in 1 .. Len(stored'), NEW j \in 1 .. Len(stored'), i < j
        PROVE  stored'[i].id < stored'[j].id
    BY <1>5, <1>8, <2>1
  <2>2. \A k \in 1 .. Len(stored') : stored'[k].id <= frames' /\ req'.id < stored'[k].id
    BY <1>3, <1>5, <1>6, <1>8
  <2> QED
    BY <1>8, <2>1, <2>2 DEF QueueInOrder, Ascending
<1>10. Ahead(req.id)'
  BY <1>6, <1>8, <1>9 DEF Ahead
<1>11. ASSUME NEW k \in 1 .. Len(outbox')
       PROVE  Settled(outbox[k])'
  <2>1. outbox[k] \in Answers /\ Settled(outbox[k])
    BY <1>2, <1>11 DEF Fields
  <2>2. outbox[k].id \in Nat
    BY <2>1 DEF Answers
  <2> DEFINE n == outbox[k].id
  <2>3. CASE Ahead(n)
    <3>1. \A i \in 1 .. Len(Drained) : n < Drained[i].id
      BY <1>7, <2>2, <2>3
    <3>2. n < req'.id
      BY <1>8, <3>1
    <3>3. (\A i \in 1 .. Len(stored') : n < stored'[i].id) /\ n <= frames'
      BY <1>8, <2>3, <3>1 DEF Ahead
    <3> QED
      BY <1>2, <1>8, <3>2, <3>3 DEF Settled, Ahead
  <2>4. CASE ~ Ahead(n)
    BY <1>2, <2>1, <2>4 DEF Settled
  <2> QED
    BY <2>3, <2>4
<1> QED
  BY <1>2, <1>9, <1>10, <1>11 DEF AnswersInOrder

LEMMA OrderStep == OrderInv /\ Fields' /\ [Next]_vars => OrderInv'
<1> SUFFICES ASSUME OrderInv, Fields', [Next]_vars
             PROVE  OrderInv'
  OBVIOUS
<1>1. inbox \in Seq(Requests) /\ outbox \in Seq(Answers) /\ Fields
  BY DEF OrderInv, Fields
<1>2. CASE Station
  BY <1>2, StationKeepsOrder
<1>3. CASE Fetch /\ UNCHANGED frames
  BY <1>3, FetchKeepsOrder
<1>4. CASE Reply /\ UNCHANGED frames
  <2> DEFINE answer == [magic |-> req.magic, pid |-> req.pid, id |-> req.id,
                        cmd |-> IF ret = 0 THEN "RET_SUCCES" ELSE "RET_FAILED",
                        of |-> req.cmd]
  <2>1. /\ answer \in Answers /\ answer.id = req.id
        /\ outbox' = Append(outbox, answer) /\ req' = req
        /\ inbox' = inbox /\ stored' = stored /\ frames' = frames
        /\ InWork /\ ~ InWork'
    BY <1>1, <1>4 DEF Reply, Answers, Fields, Requests, InWork
  <2>2. QueueInOrder' /\ \A n \in Nat : Ahead(n) => Ahead(n)'
    BY <2>1 DEF OrderInv, QueueInOrder, Ascending, Ahead
  <2> HIDE DEF answer
  <2> QED
    BY <2>1, <2>2, SendKeepsOrder
<1>5. CASE EndNetTest /\ UNCHANGED frames
  <2>1. /\ req' = req /\ stored' = stored /\ frames' = frames /\ InWork
        /\ outbox' = outbox \/ outbox' = Append(outbox, Stray)
        /\ inbox' = inbox \/ (inbox # <<>> /\ inbox' = Tail(inbox))
        /\ txHeld' = txHeld
    BY <1>5 DEF EndNetTest, InWork
  <2>2. Thinned(inbox, inbox') /\ inbox' \in Seq(Requests)
    <3>1. CASE inbox' = inbox
      BY <1>1, <3>1 DEF Thinned
    <3>2. CASE inbox # <<>> /\ inbox' = Tail(inbox)
      <4>1. /\ inbox' \in Seq(Requests) /\ Len(inbox) \in Nat
            /\ Len(inbox') = Len(inbox) - 1
            /\ \A k \in 1 .. Len(inbox') : inbox'[k] = inbox[k + 1]
        BY <1>1, <3>2
      <4> QED
        BY <4>1 DEF Thinned
    <3> QED
      BY <2>1, <3>1, <3>2
  <2>3. QueueInOrder' /\ \A n \in Nat : Ahead(n) => Ahead(n)'
    BY <1>1, <2>1, <2>2, ShrinkKeepsQueue DEF OrderInv
  <2>4. CASE outbox' = outbox
    BY <2>1, <2>3, <2>4, SilentKeepsOrder DEF NothingSent
  <2>5. CASE outbox' = Append(outbox, Stray)
    <3>1. Stray \in Answers /\ Stray.of = "none"
      BY DEF Stray, Answers, Magics
    <3> QED
      BY <2>1, <2>3, <2>5, <3>1, SendKeepsOrder
  <2> QED
    BY <2>1, <2>4, <2>5
<1>6. CASE /\ \/ Boot \/ BootFailed \/ BootDone \/ BadMagic \/ Connect \/ SetResult
              \/ Finish \/ UnknownCommand \/ StartTest \/ (\E r \in {0, 1} : EndTest(r))
              \/ StartNetTest \/ ShowVerdict \/ Blink \/ Transmit
           /\ UNCHANGED frames
  <2>1. /\ req' = req /\ stored' = stored /\ frames' = frames /\ NothingSent
        /\ InWork' => InWork
        /\ inbox' \in {inbox, <<>>}
    BY <1>6 DEF Boot, BootFailed, BootDone, BadMagic, Connect, SetResult, Finish,
       UnknownCommand, StartTest, EndTest, StartNetTest, ShowVerdict, Blink, ResetFifo,
       Transmit, NothingSent, Dispatch, InWork
  <2>2. Thinned(inbox, inbox') /\ inbox' \in Seq(Requests)
    BY <1>1, <2>1 DEF Thinned, Fields
  <2>3. QueueInOrder' /\ \A n \in Nat : Ahead(n) => Ahead(n)'
    BY <1>1, <2>1, <2>2, ShrinkKeepsQueue DEF OrderInv
  <2> QED
    BY <2>1, <2>3, SilentKeepsOrder
<1>7. CASE UNCHANGED vars
  BY <1>7 DEF vars, boardVars, OrderInv, Fields, QueueInOrder, Ascending, Ahead, InWork,
     Settled, AnswersInOrder
<1> QED
  BY <1>2, <1>3, <1>4, <1>5, <1>6, <1>7 DEF Next, BoardStep, LoopStep, EndAnyTest

\* Answers leave in the order the requests arrived, and no request is answered
\* twice, whatever is dropped, reset or left unanswered between them.
THEOREM AnswersInOrderAlways == Spec => []AnswersInOrder
<1>1. HonestInv' => Fields'
  BY DEF HonestInv
<1>2. OrderInv => AnswersInOrder
  BY DEF OrderInv
<1> QED
  BY <1>1, <1>2, HonestInit, HonestStep, OrderStart, OrderStep, PTL DEF Spec

--------------------------------------------------------------------------------
(***************************************************************************)
(* The types, and with them the limits of the two queues.                  *)
(***************************************************************************)
TypeInv == TypeOK /\ frames \in 0 .. MaxFrames

\* A step that leaves the queues and the request in work, but that the FIFO may be reset.
LEMMA QuietKeepsTypes ==
  ASSUME TypeInv, Fields', frames' = frames,
         \/ Boot \/ BootFailed \/ BootDone \/ BadMagic \/ Connect \/ SetResult
         \/ Finish \/ UnknownCommand \/ StartTest \/ (\E r \in {0, 1} : EndTest(r))
         \/ StartNetTest \/ Reply \/ ShowVerdict \/ Blink \/ Transmit
  PROVE  TypeInv'
<1> USE DEF TypeInv
<1>1. /\ stored' = stored /\ req' = req /\ inbox' \in {inbox, <<>>}
      /\ rxEvent' \in {rxEvent, FALSE}
  BY DEF Boot, BootFailed, BootDone, BadMagic, Connect, SetResult, Finish,
     UnknownCommand, StartTest, EndTest, StartNetTest, Reply, ShowVerdict, Blink, ResetFifo,
     Transmit, Dispatch
<1>2. inbox' \in Seq(RequestType) /\ Len(inbox') <= InboxDepth
  <2>1. <<>> \in Seq(RequestType) /\ Len(<<>>) = 0 /\ InboxDepth \in Nat
    BY BoardAssumption
  <2>2. inbox \in Seq(RequestType) /\ Len(inbox) <= InboxDepth
    BY DEF TypeOK
  <2>3. CASE inbox' = inbox
    BY <2>2, <2>3
  <2>4. CASE inbox' = <<>>
    <3>1. inbox' \in Seq(RequestType)
      BY <2>1, <2>4
    <3>2. Len(inbox') = 0
      BY <2>1, <2>4
    <3> QED
      BY <2>1, <3>1, <3>2
  <2> QED
    BY <1>1, <2>3, <2>4
<1>3. ret' \in {0, 1} /\ result' \in {0, 1} /\ led' \subseteq LED_ALL /\ bLoop' \in BOOLEAN
  <2>1. /\ req.data \in {0, 1} /\ ret \in {0, 1} /\ result \in {0, 1}
        /\ led \subseteq LED_ALL /\ bLoop \in BOOLEAN
    BY DEF TypeOK, RequestType
  <2>2. ret' \in {ret, 0, 1} /\ result' \in {result, req.data} /\ bLoop' \in {bLoop, FALSE}
    <3> USE DEF Dispatch
    <3>1. CASE \E r \in {0, 1} : EndTest(r)
      BY <3>1 DEF EndTest
    <3>2. CASE ~ \E r \in {0, 1} : EndTest(r)
      BY <3>2 DEF Boot, BootFailed, BootDone, BadMagic, Connect, SetResult, Finish,
         UnknownCommand, StartTest, StartNetTest, Reply, ShowVerdict, Blink, Transmit
    <3> QED
      BY <3>1, <3>2
  <2>3. led' \in {led, {1}, {1, 2}, LED_ALL, LED_ALL \ led}
    BY DEF Boot, BootFailed, BootDone, BadMagic, Connect, SetResult, Finish,
       UnknownCommand, StartTest, EndTest, StartNetTest, Reply, ShowVerdict, Blink, Transmit
  <2>4. led' \subseteq LED_ALL
    BY <2>1, <2>3 DEF LED_ALL
  <2> QED
    BY <2>1, <2>2, <2>4
<1>4. pc' \in {"boot", "bootCheck", "dead", "loop", "dispatch", "test",
               "netTest", "reply", "ledSuccess", "ledFailed"}
  BY DEF TypeOK, Boot, BootFailed, BootDone, BadMagic, Connect, SetResult,
     Finish, UnknownCommand, StartTest, EndTest, StartNetTest, Reply, ShowVerdict, Blink,
     Transmit
<1> QED
  BY <1>1, <1>2, <1>3, <1>4 DEF TypeOK, Fields

LEMMA TypeStep == TypeInv /\ Fields' /\ [Next]_vars => TypeInv'
<1> SUFFICES ASSUME TypeInv, Fields', [Next]_vars
             PROVE  TypeInv'
  OBVIOUS
<1> USE DEF TypeInv
<1>1. CASE Station
  <2>1. PICK cmd \in Commands, mag \in {"MAGIC", "other"}, d \in {0, 1} :
           Arrive(Request(cmd, mag, d))
    BY <1>1 DEF Station
  <2>2. frames' = frames + 1 /\ frames < MaxFrames
    BY <1>1 DEF Station
  <2>3. frames' \in 0 .. MaxFrames
    BY <2>2, BoardAssumption
  <2>4. Request(cmd, mag, d) \in RequestType
    BY <2>2, <2>3, BoardAssumption DEF Request, RequestType
  <2>5. inbox' \in Seq(RequestType) /\ Len(inbox') <= InboxDepth
    BY <2>1, <2>4, BoardAssumption DEF Arrive, TypeOK
  <2> QED
    BY <2>1, <2>3, <2>5 DEF Arrive, TypeOK
<1>2. CASE Fetch /\ UNCHANGED frames
  <2>1. /\ Drained \in Seq(RequestType) /\ Len(Drained) <= Capacity /\ Drained # <<>>
    BY <1>2, DrainedIs DEF TypeOK, Fetch
  <2>2. /\ Head(Drained) \in RequestType
        /\ Tail(Drained) \in Seq(RequestType) /\ Len(Tail(Drained)) < Capacity
    BY <2>1, BoardAssumption
  <2>3. <<>> \in Seq(RequestType) /\ Len(<<>>) <= InboxDepth
    BY BoardAssumption
  <2> QED
    BY <1>2, <2>2, <2>3 DEF Fetch, TypeOK
<1>3. CASE EndNetTest /\ UNCHANGED frames
  <2>1. inbox' = inbox \/ (inbox # <<>> /\ inbox' = Tail(inbox))
    BY <1>3 DEF EndNetTest
  <2>2. inbox' \in Seq(RequestType) /\ Len(inbox') <= InboxDepth
    <3>1. inbox \in Seq(RequestType) /\ Len(inbox) <= InboxDepth
      BY DEF TypeOK
    <3>2. inbox # <<>> => /\ Tail(inbox) \in Seq(RequestType)
                          /\ Len(Tail(inbox)) <= Len(inbox) /\ Len(Tail(inbox)) \in Nat
      BY <3>1
    <3> QED
      BY <2>1, <3>1, <3>2, BoardAssumption
  <2> QED
    BY <1>3, <2>2 DEF EndNetTest, TypeOK, Fields
<1>4. CASE /\ \/ Boot \/ BootFailed \/ BootDone \/ BadMagic \/ Connect \/ SetResult
              \/ Finish \/ UnknownCommand \/ StartTest \/ (\E r \in {0, 1} : EndTest(r))
              \/ StartNetTest \/ Reply \/ ShowVerdict \/ Blink \/ Transmit
           /\ UNCHANGED frames
  BY <1>4, QuietKeepsTypes
<1>5. CASE UNCHANGED vars
  BY <1>5 DEF vars, boardVars, TypeOK
<1> QED
  BY <1>1, <1>2, <1>3, <1>4, <1>5 DEF Next, BoardStep, LoopStep, EndAnyTest

\* Requests keep their form from the wire to the answer, the FIFO keeps its size, and
\* when the loop works on a request the pool has room for at least one more.
THEOREM TypeCorrect == Spec => []TypeOK
<1>1. Init => TypeInv
  <2>1. <<>> \in Seq(RequestType) /\ Len(<<>>) = 0
    OBVIOUS
  <2>2. NoReq \in RequestType
    BY BoardAssumption DEF NoReq, RequestType
  <2>3. 0 <= InboxDepth /\ 0 < Capacity /\ 0 \in 0 .. MaxFrames
    BY BoardAssumption
  <2> SUFFICES ASSUME Init
               PROVE  TypeOK /\ frames \in 0 .. MaxFrames
    BY DEF TypeInv
  <2>4. /\ inbox = <<>> /\ stored = <<>> /\ req = NoReq /\ frames = 0
        /\ outbox = <<>> /\ txHeld = 0
    BY DEF Init, BoardInit
  <2>5. /\ inbox \in Seq(RequestType) /\ Len(inbox) <= InboxDepth
        /\ stored \in Seq(RequestType) /\ Len(stored) < Capacity
    BY <2>1, <2>3, <2>4
  <2>6. txHeld \in 0 .. Len(outbox)
    BY <2>4
  <2> QED
    BY <2>2, <2>3, <2>4, <2>5, <2>6 DEF Init, BoardInit, TypeOK
<1>2. TypeInv => TypeOK
  BY DEF TypeInv
<1>3. HonestInv' => Fields'
  BY DEF HonestInv
<1> QED
  BY <1>1, <1>2, <1>3, HonestInit, HonestStep, TypeStep, PTL DEF Spec
================================================================================
