-------------------------------- MODULE FifoTx --------------------------------
(***************************************************************************)
(* How the board sends an answer: msg_pool_txsend and FifoSend of          *)
(* community.c, word by word into the transmit side of the AXI-stream      *)
(* FIFO.  The FIFO works in store-and-forward mode (arm_core.hwh): a frame *)
(* leaves once its length has been written.  Its transmit-complete bit TC  *)
(* is sticky: FifoInit clears it, FifoSend does not.  The link may stall   *)
(* for any time, while requests keep coming in on its other side.          *)
(***************************************************************************)
EXTENDS Naturals, Sequences

CONSTANTS Depth,       \* words the transmit FIFO can hold, 2048 in hardware
          BufWords,    \* words in wBuf of FifoSend, 100 in the code
          Lengths,     \* lengths in words of the messages that are sent
          Patience,    \* polls before FifoSend gives up, 2000 in the code
          MaxSends     \* bound: number of calls

ASSUME FifoAssumption ==
         /\ Depth \in Nat /\ BufWords \in Nat /\ Patience \in Nat
         /\ MaxSends \in Nat
         /\ Lengths \subseteq Nat \ {0}

VARIABLES pc,          \* "idle", "write", "setLen" or "poll"
          wlen,        \* words of the message being sent
          i,           \* words handled so far
          polls,       \* polls without TC so far
          loose,       \* words in the FIFO that no length covers yet
          queue,       \* frames in the FIFO: which call, its length, its words
          vacancy,     \* words there is room for, what XLlFifo_iTxVacancy reads
          tc,          \* the transmit-complete bit
          sends,       \* history: number of calls
          gone,        \* history: calls whose frame has been transmitted
          ret          \* what msg_pool_txsend returned last, None during a call

vars == <<pc, wlen, i, polls, loose, queue, vacancy, tc, sends, gone, ret>>

XST_SUCCESS == 0
None == 3

--------------------------------------------------------------------------------
\* Seeded fault: FifoInit leaves the interrupt status as it is.
InitUncleared == /\ pc = "idle" /\ wlen = 0 /\ i = 0 /\ polls = 0
                 /\ loose = 0 /\ queue = <<>> /\ vacancy = Depth /\ tc \in BOOLEAN
                 /\ sends = 0 /\ gone = {} /\ ret = None

\* After FifoInit: an empty FIFO and a clear interrupt status.
Init == /\ pc = "idle" /\ wlen = 0 /\ i = 0 /\ polls = 0
        /\ loose = 0 /\ queue = <<>> /\ vacancy = Depth /\ tc = FALSE
        /\ sends = 0 /\ gone = {} /\ ret = None

\* A message that fits into wBuf.  The main loop sends the next answer whether
\* or not the ones before have left: a call that gave up is not looked at, and
\* once TC is set no call waits any more.
CallSend == /\ pc = "idle"
            /\ sends < MaxSends
            /\ wlen' \in {n \in Lengths : n <= BufWords}
            /\ sends' = sends + 1
            /\ i' = 0 /\ polls' = 0 /\ pc' = "write" /\ ret' = None
            /\ UNCHANGED <<loose, queue, vacancy, tc, gone>>

\* A longer one: FifoSend returns -1, msg_pool_txsend 1, nothing is sent.
TooLong == /\ pc = "idle"
           /\ sends < MaxSends
           /\ \E n \in Lengths : n > BufWords
           /\ sends' = sends + 1
           /\ ret' = 1 /\ polls' = 0
           /\ UNCHANGED <<pc, wlen, i, loose, queue, vacancy, tc, gone>>

\* Seeded fault: the last free word of the FIFO is not used.
PutWordMargin == /\ pc = "write"
                 /\ i < wlen
                 /\ i' = i + 1
                 /\ IF vacancy > 1
                    THEN loose' = loose + 1 /\ vacancy' = vacancy - 1
                    ELSE UNCHANGED <<loose, vacancy>>
                 /\ UNCHANGED <<pc, wlen, polls, queue, tc, sends, gone, ret>>

\* The loop that fills the FIFO: a word without vacancy is passed over.
PutWord == /\ pc = "write"
           /\ i < wlen
           /\ i' = i + 1
           /\ IF vacancy > 0
              THEN loose' = loose + 1 /\ vacancy' = vacancy - 1
              ELSE UNCHANGED <<loose, vacancy>>
           /\ UNCHANGED <<pc, wlen, polls, queue, tc, sends, gone, ret>>

\* XLlFifo_iTxSetLen makes a frame of what has been written.
SetLen == /\ pc = "write"
          /\ i = wlen
          /\ queue' = Append(queue, [call |-> sends, len |-> wlen, words |-> loose])
          /\ loose' = 0
          /\ pc' = "poll"
          /\ UNCHANGED <<wlen, i, polls, vacancy, tc, sends, gone, ret>>

\* XLlFifo_IsTxDone: FifoSend and msg_pool_txsend return XST_SUCCESS.
SeeDone == /\ pc = "poll"
           /\ tc
           /\ pc' = "idle" /\ ret' = XST_SUCCESS
           /\ UNCHANGED <<wlen, i, polls, loose, queue, vacancy, tc, sends, gone>>

\* Seeded fault: one poll too many.
PollAgainLate == /\ pc = "poll"
                 /\ ~ tc
                 /\ polls <= Patience
                 /\ polls' = polls + 1
                 /\ UNCHANGED <<pc, wlen, i, loose, queue, vacancy, tc, sends, gone, ret>>

\* Seeded fault: the polls are not counted.
PollAgainUncounted == /\ pc = "poll"
                      /\ ~ tc
                      /\ polls < Patience
                      /\ UNCHANGED vars

PollAgain == /\ pc = "poll"
             /\ ~ tc
             /\ polls < Patience
             /\ polls' = polls + 1
             /\ UNCHANGED <<pc, wlen, i, loose, queue, vacancy, tc, sends, gone, ret>>

\* Two seconds have passed: FifoSend returns 1, and so does msg_pool_txsend.
GiveUp == /\ pc = "poll"
          /\ ~ tc
          /\ polls = Patience
          /\ pc' = "idle" /\ ret' = 1
          /\ UNCHANGED <<wlen, i, polls, loose, queue, vacancy, tc, sends, gone>>

\* Hardware: the oldest complete frame leaves for the bridge.
Transmit == /\ queue # <<>>
            /\ gone' = gone \cup {Head(queue).call}
            /\ queue' = Tail(queue)
            /\ vacancy' = vacancy + Head(queue).words
            /\ tc' = TRUE
            /\ UNCHANGED <<pc, wlen, i, polls, loose, sends, ret>>

Software == PutWord \/ SetLen \/ SeeDone \/ PollAgain \/ GiveUp

Next == CallSend \/ TooLong \/ Software \/ Transmit

Spec == Init /\ [][Next]_vars

\* A call once begun goes on; nothing is assumed of the link.
FairSpec == Spec /\ WF_vars(Software)

--------------------------------------------------------------------------------
TypeOK == /\ pc \in {"idle", "write", "poll"}
          /\ wlen \in 0 .. BufWords
          /\ i \in 0 .. wlen /\ polls \in 0 .. Patience
          /\ loose \in 0 .. Depth /\ vacancy \in 0 .. Depth
          /\ queue \in Seq([call : 1 .. MaxSends, len : Lengths, words : 0 .. Depth])
          /\ tc \in BOOLEAN /\ sends \in 0 .. MaxSends
          /\ gone \subseteq 1 .. MaxSends
          /\ ret \in {XST_SUCCESS, 1, None}

\* FifoSend passes over a word that finds no room, and tells nobody.  It happens
\* only behind a backlog: when the answers that have not left fill the FIFO so
\* far that one more of full length would not fit, whatever their lengths are
\* and whichever of them leave while the words are written.
WordLostOnlyInBacklog ==
  [][i' > i /\ loose' = loose => (Len(queue) + 1) * BufWords > Depth]_vars

\* "Transmission Complete" (community.c:132): the first answer after FifoInit is
\* confirmed only when it has left.  Those after it are not: the bit stays set.
FirstSendHonest == sends = 1 /\ ret = XST_SUCCESS => 1 \in gone

\* A call returns, however long the link stalls.
SendReturns == (pc # "idle") ~> (pc = "idle")
================================================================================
