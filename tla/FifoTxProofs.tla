----------------------------- MODULE FifoTxProofs -----------------------------
(***************************************************************************)
(* Theorems about FifoTx, for every depth of the FIFO, every length of     *)
(* message, every patience and number of calls.  The transmit-complete bit *)
(* can be believed for the first call after FifoInit; from the second on it*)
(* cannot, as the run fifo_tx_done shows.  FifoSend takes no notice when it*)
(* passes a word over; that happens only when the answers that have not    *)
(* left fill the FIFO.  That needs the words of all frames together, here  *)
(* as the prefix sums of the queue.                                        *)
(***************************************************************************)
EXTENDS FifoTx, SequenceTheorems, TLAPS

Frames == [call : Nat, len : Nat, words : Nat]

\* What the other parts need of the types.
Fields == /\ sends \in Nat /\ wlen \in Nat /\ loose \in Nat
          /\ queue \in Seq(Frames)

\* Before the first call nothing is under way and the bit is clear.
Untouched == sends = 0 => pc = "idle" /\ queue = <<>> /\ ~ tc /\ ret = None

\* During and after the first call the FIFO holds frames of that call only,
OnlyFirst == sends <= 1 => \A k \in 1 .. Len(queue) : queue[k].call = sends

\* so that the bit, when it is set, was set by that frame.
BitIsFirst == sends = 1 /\ tc => 1 \in gone

FirstInv == Fields /\ Untouched /\ OnlyFirst /\ BitIsFirst /\ FirstSendHonest

--------------------------------------------------------------------------------
LEMMA FirstInit == Init => FirstInv
  BY FifoAssumption DEF Init, FirstInv, Fields, Untouched, OnlyFirst, BitIsFirst,
     FirstSendHonest, None, XST_SUCCESS

\* A call begins: the counter moves on, and what the FIFO holds stays.
LEMMA BeginKeepsFirst ==
  ASSUME FirstInv, CallSend \/ TooLong
  PROVE  FirstInv'
<1> USE FifoAssumption DEF FirstInv
<1>1. /\ sends' = sends + 1
      /\ queue' = queue /\ tc' = tc /\ gone' = gone /\ loose' = loose
      /\ wlen' \in Nat
      /\ ret' \in {None, 1}
  BY DEF CallSend, TooLong, Fields
<1>2. Fields'
  BY <1>1 DEF Fields
<1>3. sends' # 0
  BY <1>1 DEF Fields
<1>4. ASSUME sends' <= 1
      PROVE  sends = 0 /\ sends' = 1
  BY <1>1, <1>4 DEF Fields
<1>5. Untouched'
  BY <1>3 DEF Untouched
<1>6. OnlyFirst'
  BY <1>1, <1>4 DEF OnlyFirst, Untouched
<1>7. BitIsFirst'
  BY <1>1, <1>4 DEF BitIsFirst, Untouched
<1>8. FirstSendHonest'
  BY <1>1 DEF FirstSendHonest, None, XST_SUCCESS
<1> QED
  BY <1>2, <1>5, <1>6, <1>7, <1>8

\* XLlFifo_iTxSetLen appends a frame of the call under way.
LEMMA SetLenKeepsFirst ==
  ASSUME FirstInv, SetLen
  PROVE  FirstInv'
<1> USE DEF FirstInv
<1> DEFINE frame == [call |-> sends, len |-> wlen, words |-> loose]
<1>1. /\ queue' = Append(queue, frame) /\ loose' = 0
      /\ sends' = sends /\ wlen' = wlen /\ tc' = tc /\ gone' = gone /\ ret' = ret
  BY DEF SetLen
<1>2. frame \in Frames
  BY DEF Frames, Fields
<1>3. Fields'
  BY <1>1, <1>2 DEF Fields
<1>4. sends # 0
  BY DEF SetLen, Untouched
<1>5. \A k \in 1 .. Len(queue') :
        queue'[k] = IF k = Len(queue) + 1 THEN frame ELSE queue[k]
  BY <1>1, <1>2 DEF Fields
<1>6. OnlyFirst'
  <2> SUFFICES ASSUME sends <= 1, NEW k \in 1 .. Len(queue')
               PROVE  queue'[k].call = sends
    BY <1>1 DEF OnlyFirst
  <2>1. k \in 1 .. Len(queue) \/ k = Len(queue) + 1
    BY <1>1, <1>2 DEF Fields
  <2>2. CASE k = Len(queue) + 1
    BY <1>5, <2>2
  <2>3. CASE k \in 1 .. Len(queue)
    BY <1>5, <2>3 DEF OnlyFirst, Fields
  <2> QED
    BY <2>1, <2>2, <2>3
<1>7. Untouched' /\ BitIsFirst' /\ FirstSendHonest'
  BY <1>1, <1>4 DEF Untouched, BitIsFirst, FirstSendHonest
<1> QED
  BY <1>3, <1>6, <1>7

\* The bit is set for the frame that leaves: the first call's, if there has
\* been one call only.
LEMMA TransmitKeepsFirst ==
  ASSUME FirstInv, Transmit
  PROVE  FirstInv'
<1> USE DEF FirstInv
<1>1. /\ queue # <<>> /\ queue' = Tail(queue) /\ gone' = gone \cup {queue[1].call}
      /\ sends' = sends /\ wlen' = wlen /\ loose' = loose /\ ret' = ret
  BY DEF Transmit, Fields
<1>2. /\ queue' \in Seq(Frames)
      /\ Len(queue) \in Nat /\ Len(queue) >= 1 /\ Len(queue') = Len(queue) - 1
      /\ \A k \in 1 .. Len(queue') : queue'[k] = queue[k + 1]
  BY <1>1 DEF Fields
<1>3. Fields'
  BY <1>1, <1>2 DEF Fields
<1>4. sends # 0
  BY <1>1 DEF Untouched
<1>5. OnlyFirst'
  BY <1>1, <1>2 DEF OnlyFirst
<1>6. sends = 1 => 1 \in gone'
  BY <1>1, <1>2 DEF OnlyFirst
<1>7. Untouched' /\ BitIsFirst' /\ FirstSendHonest'
  BY <1>1, <1>4, <1>6 DEF Untouched, BitIsFirst, FirstSendHonest
<1> QED
  BY <1>3, <1>5, <1>7

\* Words and polls do not touch what has been sent; a success is read off the
\* bit.
LEMMA PollKeepsFirst ==
  ASSUME FirstInv, PutWord \/ SeeDone \/ PollAgain \/ GiveUp
  PROVE  FirstInv'
<1> USE DEF FirstInv
<1>1. /\ queue' = queue /\ sends' = sends /\ wlen' = wlen /\ tc' = tc /\ gone' = gone
      /\ pc # "idle"
  BY DEF PutWord, SeeDone, PollAgain, GiveUp
<1>2. loose' \in Nat
  BY DEF PutWord, SeeDone, PollAgain, GiveUp, Fields
<1>3. ret' = ret \/ ret' = 1 \/ tc
  BY DEF PutWord, SeeDone, PollAgain, GiveUp
<1>4. Fields'
  BY <1>1, <1>2 DEF Fields
<1>5. Untouched' /\ OnlyFirst' /\ BitIsFirst'
  BY <1>1 DEF Untouched, OnlyFirst, BitIsFirst
<1>6. FirstSendHonest'
  BY <1>1, <1>3 DEF FirstSendHonest, BitIsFirst, XST_SUCCESS
<1> QED
  BY <1>4, <1>5, <1>6

LEMMA FirstStep == FirstInv /\ [Next]_vars => FirstInv'
<1> SUFFICES ASSUME FirstInv, [Next]_vars
             PROVE  FirstInv'
  OBVIOUS
<1>1. CASE CallSend \/ TooLong
  BY <1>1, BeginKeepsFirst
<1>2. CASE SetLen
  BY <1>2, SetLenKeepsFirst
<1>3. CASE Transmit
  BY <1>3, TransmitKeepsFirst
<1>4. CASE PutWord \/ SeeDone \/ PollAgain \/ GiveUp
  BY <1>4, PollKeepsFirst
<1>5. CASE UNCHANGED vars
  BY <1>5 DEF vars, FirstInv, Fields, Untouched, OnlyFirst, BitIsFirst, FirstSendHonest
<1> QED
  BY <1>1, <1>2, <1>3, <1>4, <1>5 DEF Next, Software

\* The first answer after FifoInit that FifoSend confirms has left the board,
\* whatever the link does.
THEOREM FirstSendHonestAlways == Spec => []FirstSendHonest
<1>1. FirstInv => FirstSendHonest
  BY DEF FirstInv
<1> QED
  BY <1>1, FirstInit, FirstStep, PTL DEF Spec

--------------------------------------------------------------------------------
(***************************************************************************)
(* The words in the FIFO.                                                  *)
(***************************************************************************)
FrameSet == [call : 1 .. MaxSends, len : Lengths, words : 0 .. BufWords]

\* The types, and what of them depends on the call under way.
Shapes == /\ pc \in {"idle", "write", "poll"}
          /\ wlen \in 0 .. BufWords
          /\ pc # "idle" => wlen \in Lengths /\ sends \in 1 .. MaxSends
          /\ i \in 0 .. wlen /\ polls \in 0 .. Patience
          /\ loose \in 0 .. i /\ (pc # "write" => loose = 0)
          /\ queue \in Seq(FrameSet)
          /\ vacancy \in 0 .. Depth
          /\ tc \in BOOLEAN /\ sends \in 0 .. MaxSends
          /\ gone \subseteq 1 .. MaxSends
          /\ ret \in {XST_SUCCESS, 1, None}

\* s[k] is the number of words in the first k frames, none of which is longer
\* than the buffer of FifoSend.
PrefixSums(s) ==
    /\ s[0] = 0
    /\ \A k \in 1 .. Len(queue) : s[k] = s[k - 1] + queue[k].words
    /\ \A j, k \in 0 .. Len(queue) :
           j <= k => s[j] <= s[k] /\ s[k] <= s[j] + (k - j) * BufWords

\* Every word is in a frame, waits for its length, or could still be written.
Balance == \E s \in [0 .. Len(queue) -> 0 .. Depth] :
               PrefixSums(s) /\ vacancy + loose + s[Len(queue)] = Depth

RoomInv == Shapes /\ Balance

LEMMA ProductStep ==
  ASSUME NEW B \in Nat, NEW d \in Nat
  PROVE  (d + 1) * B = d * B + B /\ d * B \in Nat /\ 0 * B = 0
  OBVIOUS

LEMMA RoomInit == Init => RoomInv
<1> SUFFICES ASSUME Init
             PROVE  RoomInv
  OBVIOUS
<1> USE FifoAssumption
<1>1. Shapes
  <2>1. /\ pc = "idle" /\ wlen = 0 /\ i = 0 /\ polls = 0 /\ loose = 0
        /\ queue = <<>> /\ vacancy = Depth /\ tc = FALSE
        /\ sends = 0 /\ gone = {} /\ ret = None
    BY DEF Init
  <2>2. queue \in Seq(FrameSet)
    BY <2>1
  <2>3. /\ 0 \in 0 .. BufWords /\ 0 \in 0 .. 0 /\ 0 \in 0 .. Patience
        /\ Depth \in 0 .. Depth /\ 0 \in 0 .. MaxSends
    OBVIOUS
  <2> QED
    BY <2>1, <2>2, <2>3 DEF Shapes
<1>2. Len(queue) = 0
  BY DEF Init
<1> DEFINE s == [k \in 0 .. 0 |-> 0]
<1>3. s \in [0 .. Len(queue) -> 0 .. Depth] /\ s[0] = 0
  BY <1>2
<1>4. ASSUME NEW j \in 0 .. Len(queue), NEW k \in 0 .. Len(queue), j <= k
      PROVE  s[j] <= s[k] /\ s[k] <= s[j] + (k - j) * BufWords
  <2>1. j = 0 /\ k = 0
    BY <1>2, <1>4
  <2>2. (k - j) * BufWords = 0
    BY <2>1
  <2> QED
    BY <1>3, <2>1, <2>2
<1>5. PrefixSums(s)
  BY <1>2, <1>3, <1>4 DEF PrefixSums
<1>6. vacancy + loose + s[Len(queue)] = Depth
  BY <1>2, <1>3 DEF Init
<1>7. Balance
  BY <1>3, <1>5, <1>6 DEF Balance
<1> QED
  BY <1>1, <1>7 DEF RoomInv

\* A step that leaves the queue, and the words outside it, as they are.
LEMMA SameBalance ==
  ASSUME Balance, queue' = queue, vacancy' + loose' = vacancy + loose
  PROVE  Balance'
  BY DEF Balance, PrefixSums

\* A word moves from the vacancy to the words that wait for their length, or
\* is passed over.
LEMMA PutWordKeepsRoom ==
  ASSUME RoomInv, PutWord
  PROVE  RoomInv'
<1> USE FifoAssumption DEF RoomInv
<1>1. /\ pc = "write" /\ i < wlen /\ i' = i + 1
      /\ UNCHANGED <<pc, wlen, polls, queue, tc, sends, gone, ret>>
      /\ \/ vacancy > 0 /\ loose' = loose + 1 /\ vacancy' = vacancy - 1
         \/ loose' = loose /\ vacancy' = vacancy
  BY DEF PutWord
<1>2. /\ i' \in 0 .. wlen /\ loose' \in 0 .. i' /\ vacancy' \in 0 .. Depth
      /\ vacancy' + loose' = vacancy + loose
  BY <1>1 DEF Shapes
<1>3. Shapes'
  BY <1>1, <1>2 DEF Shapes
<1>4. Balance'
  BY <1>1, <1>2, SameBalance
<1> QED
  BY <1>3, <1>4

\* The words that waited become the last frame.
LEMMA SetLenKeepsRoom ==
  ASSUME RoomInv, SetLen
  PROVE  RoomInv'
<1> USE FifoAssumption DEF RoomInv
<1>1. PICK frame : frame = [call |-> sends, len |-> wlen, words |-> loose]
  OBVIOUS
<1>2. PICK n : n = Len(queue)
  OBVIOUS
<1>3. /\ pc = "write" /\ pc' = "poll"
      /\ queue' = Append(queue, frame) /\ loose' = 0
      /\ UNCHANGED <<wlen, i, polls, vacancy, tc, sends, gone, ret>>
  BY <1>1 DEF SetLen
<1>4. loose \in 0 .. BufWords /\ frame \in FrameSet /\ frame.words = loose
  BY <1>1, <1>3 DEF Shapes, FrameSet
<1>5. /\ n \in Nat /\ queue' \in Seq(FrameSet) /\ Len(queue') = n + 1
      /\ queue'[n + 1] = frame
      /\ \A k \in 1 .. n : queue'[k] = queue[k]
  BY <1>2, <1>3, <1>4 DEF Shapes
<1>6. Shapes'
  BY <1>3, <1>5 DEF Shapes
<1>7. PICK s \in [0 .. n -> 0 .. Depth] :
           PrefixSums(s) /\ vacancy + loose + s[n] = Depth
  BY <1>2 DEF Balance
<1>8. PICK t : t = [k \in 0 .. n + 1 |-> IF k = n + 1 THEN s[n] + loose ELSE s[k]]
  OBVIOUS
<1>9. /\ s[n] \in Nat /\ vacancy \in Nat /\ s[n] + loose \in 0 .. Depth
      /\ t \in [0 .. n + 1 -> 0 .. Depth]
      /\ t[n + 1] = s[n] + loose
      /\ \A k \in 0 .. n : t[k] = s[k] /\ t[k] \in Nat
  <2>1. s[n] \in Nat /\ vacancy \in Nat /\ s[n] + loose \in 0 .. Depth
    BY <1>4, <1>5, <1>7 DEF Shapes
  <2> QED
    BY <1>5, <1>7, <1>8, <2>1
<1>10. t[0] = 0
  BY <1>5, <1>7, <1>9 DEF PrefixSums
<1>11. ASSUME NEW k \in 1 .. n + 1
       PROVE  t[k] = t[k - 1] + queue'[k].words
  <2>1. CASE k = n + 1
    BY <1>4, <1>5, <1>9, <2>1
  <2>2. CASE k \in 1 .. n
    <3>1. k \in 0 .. n /\ k - 1 \in 0 .. n
      BY <1>5, <2>2
    <3>2. s[k] = s[k - 1] + queue[k].words
      BY <1>2, <1>7, <2>2 DEF PrefixSums
    <3> QED
      BY <1>5, <1>9, <2>2, <3>1, <3>2
  <2> QED
    BY <1>5, <2>1, <2>2
<1>12. ASSUME NEW j \in 0 .. n + 1, NEW k \in 0 .. n + 1, j <= k
       PROVE  t[j] <= t[k] /\ t[k] <= t[j] + (k - j) * BufWords
  <2>1. CASE k \in 0 .. n
    <3>1. j \in 0 .. n
      BY <1>5, <1>12, <2>1
    <3>2. s[j] <= s[k] /\ s[k] <= s[j] + (k - j) * BufWords
      BY <1>2, <1>7, <1>12, <2>1, <3>1 DEF PrefixSums
    <3> QED
      BY <1>9, <2>1, <3>1, <3>2
  <2>2. CASE k = n + 1 /\ j \in 0 .. n
    <3>1. s[j] <= s[n] /\ s[n] <= s[j] + (n - j) * BufWords
      <4>1. n \in 0 .. n /\ j <= n
        BY <1>5, <2>2
      <4> QED
        BY <1>2, <1>7, <2>2, <4>1 DEF PrefixSums
    <3>2. /\ n - j \in Nat /\ k - j = (n - j) + 1
      BY <1>5, <2>2
    <3>3. /\ (k - j) * BufWords = (n - j) * BufWords + BufWords
          /\ (n - j) * BufWords \in Nat
      BY <3>2, ProductStep
    <3>4. t[j] = s[j] /\ t[k] = s[n] + loose /\ s[j] \in Nat /\ s[n] \in Nat
      BY <1>9, <2>2
    <3>5. loose \in Nat /\ loose <= BufWords
      BY <1>4
    <3>6. PICK a \in Nat, b \in Nat, p \in Nat :
               a = s[j] /\ b = s[n] /\ p = (n - j) * BufWords
      BY <3>3, <3>4
    <3>7. a <= b /\ b <= a + p
      BY <3>1, <3>6
    <3>8. a <= b + loose /\ b + loose <= a + (p + BufWords)
      BY <3>5, <3>7
    <3> QED
      BY <3>3, <3>4, <3>6, <3>8
  <2>3. CASE k = n + 1 /\ j = n + 1
    <3>1. (k - j) * BufWords = 0
      BY <1>5, <2>3
    <3>2. t[j] = t[k] /\ t[k] \in Nat
      BY <1>9, <2>3
    <3> QED
      BY <3>1, <3>2
  <2> QED
    BY <1>5, <1>12, <2>1, <2>2, <2>3
<1>13. PrefixSums(t)'
  BY <1>5, <1>10, <1>11, <1>12 DEF PrefixSums
<1>14. vacancy' + loose' + t[n + 1] = Depth
  BY <1>3, <1>4, <1>7, <1>9
<1>15. Balance'
  BY <1>5, <1>9, <1>13, <1>14 DEF Balance
<1> QED
  BY <1>6, <1>15

\* The words of the first frame become vacancy again.
LEMMA TransmitKeepsRoom ==
  ASSUME RoomInv, Transmit
  PROVE  RoomInv'
<1> USE FifoAssumption DEF RoomInv
<1>1. PICK n : n = Len(queue)
  OBVIOUS
<1>2. /\ queue # <<>> /\ queue' = Tail(queue)
      /\ gone' = gone \cup {queue[1].call} /\ vacancy' = vacancy + queue[1].words
      /\ tc' = TRUE
      /\ UNCHANGED <<pc, wlen, i, polls, loose, sends, ret>>
  BY DEF Transmit, Shapes
<1>3. /\ n \in Nat /\ n >= 1
      /\ queue[1] \in FrameSet
      /\ queue' \in Seq(FrameSet) /\ Len(queue') = n - 1
      /\ \A k \in 1 .. n - 1 : queue'[k] = queue[k + 1]
  BY <1>1, <1>2 DEF Shapes
<1>4. queue[1].call \in 1 .. MaxSends /\ queue[1].words \in Nat
  BY <1>3 DEF FrameSet
<1>5. PICK s \in [0 .. n -> 0 .. Depth] :
           PrefixSums(s) /\ vacancy + loose + s[n] = Depth
  BY <1>1 DEF Balance
<1>6. 0 \in 0 .. n /\ 1 \in 0 .. n /\ n \in 0 .. n
  BY <1>3
<1>7. /\ s[0] = 0 /\ s[1] = queue[1].words
      /\ s[1] \in Nat /\ s[n] \in Nat /\ s[1] <= s[n]
  <2>1. s[1] = s[0] + queue[1].words /\ s[0] = 0
    BY <1>1, <1>3, <1>5 DEF PrefixSums
  <2>2. s[1] <= s[n]
    BY <1>1, <1>3, <1>5, <1>6 DEF PrefixSums
  <2> QED
    BY <1>4, <1>5, <1>6, <2>1, <2>2
<1>8. vacancy' \in 0 .. Depth
  <2>1. /\ vacancy \in Nat /\ loose \in Nat /\ vacancy' = vacancy + s[1]
    BY <1>2, <1>7 DEF Shapes
  <2>2. PICK a \in Nat, b \in Nat : a = s[1] /\ b = s[n]
    BY <1>7
  <2>3. a <= b /\ vacancy + loose + b = Depth /\ vacancy' = vacancy + a
    BY <1>5, <1>7, <2>1, <2>2
  <2> QED
    BY <2>1, <2>3
<1>9. Shapes'
  BY <1>2, <1>3, <1>4, <1>8 DEF Shapes
<1>10. PICK t : t = [k \in 0 .. n - 1 |-> s[k + 1] - s[1]]
  OBVIOUS
<1>11. ASSUME NEW k \in 0 .. n - 1
       PROVE  /\ k + 1 \in 0 .. n /\ s[k + 1] \in 0 .. Depth
              /\ s[1] <= s[k + 1] /\ t[k] = s[k + 1] - s[1]
              /\ t[k] \in 0 .. Depth
  <2>1. k + 1 \in 0 .. n /\ 1 <= k + 1
    BY <1>3
  <2>2. s[1] <= s[k + 1]
    BY <1>1, <1>5, <1>6, <2>1 DEF PrefixSums
  <2>3. s[k + 1] \in 0 .. Depth /\ t[k] = s[k + 1] - s[1]
    BY <1>5, <1>10, <2>1
  <2> QED
    BY <1>7, <2>1, <2>2, <2>3
<1>12. t \in [0 .. n - 1 -> 0 .. Depth]
  BY <1>10, <1>11
<1>13. t[0] = 0
  <2>1. 0 \in 0 .. n - 1
    BY <1>3
  <2> QED
    BY <1>7, <1>11, <2>1
<1>14. ASSUME NEW k \in 1 .. n - 1
       PROVE  t[k] = t[k - 1] + queue'[k].words
  <2>1. k \in 0 .. n - 1 /\ k - 1 \in 0 .. n - 1 /\ k + 1 \in 1 .. n /\ (k - 1) + 1 = k
    BY <1>3
  <2>2. s[k + 1] = s[k] + queue[k + 1].words
    <3>1. (k + 1) - 1 = k
      BY <1>3
    <3> QED
      BY <1>1, <1>5, <2>1, <3>1 DEF PrefixSums
  <2>3. t[k] = s[k + 1] - s[1] /\ t[k - 1] = s[k] - s[1] /\ s[k] \in Nat
    BY <1>11, <2>1
  <2>4. queue[k + 1] \in FrameSet
    BY <1>1, <2>1 DEF Shapes
  <2>5. queue[k + 1].words \in Nat
    BY <2>4 DEF FrameSet
  <2>6. queue'[k] = queue[k + 1] /\ s[1] \in Nat
    BY <1>3, <1>7
  <2>7. s[k + 1] - s[1] = (s[k] - s[1]) + queue[k + 1].words
    <3>1. PICK a \in Nat, b \in Nat, c \in Nat :
               a = s[1] /\ b = s[k] /\ c = queue[k + 1].words
      BY <2>3, <2>5, <2>6
    <3>2. s[k + 1] = b + c
      BY <2>2, <3>1
    <3>3. (b + c) - a = (b - a) + c
      OBVIOUS
    <3> QED
      BY <3>1, <3>2, <3>3
  <2> QED
    BY <2>3, <2>6, <2>7
<1>15. ASSUME NEW j \in 0 .. n - 1, NEW k \in 0 .. n - 1, j <= k
       PROVE  t[j] <= t[k] /\ t[k] <= t[j] + (k - j) * BufWords
  <2>1. j + 1 \in 0 .. n /\ k + 1 \in 0 .. n /\ j + 1 <= k + 1
        /\ (k + 1) - (j + 1) = k - j /\ k - j \in Nat
    BY <1>3, <1>15
  <2>2. s[j + 1] <= s[k + 1] /\ s[k + 1] <= s[j + 1] + ((k + 1) - (j + 1)) * BufWords
    BY <1>1, <1>5, <2>1 DEF PrefixSums
  <2>3. (k - j) * BufWords \in Nat
    BY <2>1, ProductStep
  <2>4. /\ t[j] = s[j + 1] - s[1] /\ t[k] = s[k + 1] - s[1]
        /\ s[j + 1] \in Nat /\ s[k + 1] \in Nat
    BY <1>11
  <2> QED
    BY <1>7, <2>1, <2>2, <2>3, <2>4
<1>16. PrefixSums(t)'
  BY <1>3, <1>13, <1>14, <1>15 DEF PrefixSums
<1>17. vacancy' + loose' + t[n - 1] = Depth
  <2>1. n - 1 \in 0 .. n - 1 /\ (n - 1) + 1 = n
    BY <1>3
  <2>2. t[n - 1] = s[n] - s[1]
    BY <1>11, <2>1
  <2>3. /\ loose \in Nat /\ vacancy \in Nat
        /\ vacancy' = vacancy + s[1] /\ loose' = loose
    BY <1>2, <1>7 DEF Shapes
  <2>4. vacancy + loose + s[n] = Depth /\ s[1] \in Nat /\ s[n] \in Nat
    BY <1>5, <1>7
  <2> QED
    BY <2>2, <2>3, <2>4
<1>18. Balance'
  BY <1>3, <1>12, <1>16, <1>17 DEF Balance
<1> QED
  BY <1>9, <1>18

\* The other steps move no word.
LEMMA OthersKeepRoom ==
  ASSUME RoomInv,
         CallSend \/ TooLong \/ SeeDone \/ PollAgain \/ GiveUp \/ UNCHANGED vars
  PROVE  RoomInv'
<1> USE FifoAssumption DEF RoomInv
<1>1. /\ queue' = queue /\ loose' = loose /\ vacancy' = vacancy
  BY DEF CallSend, TooLong, SeeDone, PollAgain, GiveUp, vars
<1>2. Balance'
  BY <1>1, SameBalance
<1>3. CASE CallSend
  BY <1>2, <1>3 DEF Shapes, CallSend
<1>4. CASE TooLong
  BY <1>2, <1>4 DEF Shapes, TooLong
<1>5. CASE SeeDone \/ PollAgain \/ GiveUp
  <2>1. /\ pc = "poll" /\ pc' \in {"idle", "poll"}
        /\ polls' \in 0 .. Patience
        /\ ret' \in {ret, XST_SUCCESS, 1}
        /\ UNCHANGED <<wlen, i, loose, queue, vacancy, tc, sends, gone>>
    BY <1>5 DEF Shapes, SeeDone, PollAgain, GiveUp
  <2>2. Shapes'
    BY <2>1 DEF Shapes
  <2> QED
    BY <1>2, <2>2
<1>6. CASE UNCHANGED vars
  BY <1>2, <1>6 DEF Shapes, vars
<1> QED
  BY <1>2, <1>3, <1>4, <1>5, <1>6

LEMMA RoomStep == RoomInv /\ [Next]_vars => RoomInv'
  BY PutWordKeepsRoom, SetLenKeepsRoom, TransmitKeepsRoom, OthersKeepRoom
     DEF Next, Software

\* No frame has more words than the FIFO.
LEMMA RoomTypes == RoomInv => TypeOK
<1> SUFFICES ASSUME RoomInv
             PROVE  TypeOK
  OBVIOUS
<1> USE FifoAssumption DEF RoomInv
<1>1. PICK n : n = Len(queue)
  OBVIOUS
<1>2. PICK s \in [0 .. n -> 0 .. Depth] :
           PrefixSums(s) /\ vacancy + loose + s[n] = Depth
  BY <1>1 DEF Balance
<1>3. n \in Nat /\ loose \in Nat /\ vacancy \in Nat
  BY <1>1 DEF Shapes
<1>4. ASSUME NEW k \in 1 .. n
      PROVE  queue[k] \in [call : 1 .. MaxSends, len : Lengths, words : 0 .. Depth]
  <2>1. queue[k] \in FrameSet
    BY <1>1 DEF Shapes
  <2>2. k \in 0 .. n /\ k - 1 \in 0 .. n
    BY <1>3
  <2>3. /\ s[k] = s[k - 1] + queue[k].words
        /\ s[k] \in 0 .. Depth /\ s[k - 1] \in 0 .. Depth
    BY <1>1, <1>2, <2>2 DEF PrefixSums
  <2>4. queue[k].words \in 0 .. Depth
    BY <2>1, <2>3 DEF FrameSet
  <2> QED
    BY <2>1, <2>4 DEF FrameSet
<1>5. queue \in Seq([call : 1 .. MaxSends, len : Lengths, words : 0 .. Depth])
  <2> DEFINE T == [call : 1 .. MaxSends, len : Lengths, words : 0 .. Depth]
  <2>1. queue = [k \in 1 .. n |-> queue[k]]
    BY <1>1 DEF Shapes
  <2>2. \A k \in 1 .. n : queue[k] \in T
    BY <1>4
  <2> HIDE DEF T
  <2>3. queue \in [1 .. n -> T]
    BY <2>1, <2>2
  <2>4. queue \in Seq(T)
    BY <1>3, <2>3, SeqDef
  <2> QED
    BY <2>4 DEF T
<1>6. loose \in 0 .. Depth
  <2>1. s[n] \in Nat
    BY <1>2, <1>3
  <2> QED
    BY <1>2, <1>3, <2>1
<1> QED
  BY <1>5, <1>6 DEF Shapes, TypeOK

\* Types, with the two sizes of the FIFO as bounds of what it holds.
THEOREM TypeCorrect == Spec => []TypeOK
  BY RoomInit, RoomStep, RoomTypes, PTL DEF Spec

--------------------------------------------------------------------------------
(***************************************************************************)
(* Where words are passed over.                                            *)
(***************************************************************************)
\* A word without vacancy: the words that wait for their length are fewer than
\* the message has, so the frames before it hold the rest of the FIFO.
LEMMA NoRoomMeansBacklog ==
  ASSUME RoomInv, PutWord, vacancy = 0
  PROVE  (Len(queue) + 1) * BufWords > Depth
<1> USE FifoAssumption DEF RoomInv
<1>1. PICK n : n = Len(queue)
  OBVIOUS
<1>2. PICK s \in [0 .. n -> 0 .. Depth] :
           PrefixSums(s) /\ vacancy + loose + s[n] = Depth
  BY <1>1 DEF Balance
<1>3. n \in Nat /\ loose \in Nat /\ loose < BufWords
  <2>1. loose \in 0 .. i /\ i \in 0 .. wlen /\ wlen \in 0 .. BufWords /\ i < wlen
    BY DEF PutWord, Shapes
  <2> QED
    BY <1>1, <2>1 DEF Shapes
<1>4. s[n] \in Nat /\ s[n] <= n * BufWords /\ n * BufWords \in Nat
  <2>1. 0 \in 0 .. n /\ n \in 0 .. n /\ 0 <= n /\ n - 0 = n
    BY <1>3
  <2>2. s[n] <= s[0] + (n - 0) * BufWords /\ s[0] = 0
    BY <1>1, <1>2, <2>1 DEF PrefixSums
  <2>3. n * BufWords \in Nat
    BY <1>3, ProductStep
  <2> QED
    BY <1>2, <2>1, <2>2, <2>3
<1>5. (n + 1) * BufWords = n * BufWords + BufWords
  BY <1>3, ProductStep
<1>6. loose + s[n] = Depth
  BY <1>2, <1>3, <1>4
<1>7. n * BufWords + BufWords > Depth
  BY <1>3, <1>4, <1>6
<1> QED
  BY <1>1, <1>5, <1>7

\* Words are lost only behind a backlog, in any FIFO: an answer is sent whole if
\* one more of full length would still fit behind those that wait.
THEOREM WordLostOnlyInBacklogAlways == Spec => WordLostOnlyInBacklog
<1>1. ASSUME RoomInv, [Next]_vars, i' > i, loose' = loose
      PROVE  (Len(queue) + 1) * BufWords > Depth
  <2>1. i \in Nat /\ loose \in Nat /\ vacancy \in Nat
    <3>1. /\ wlen \in 0 .. BufWords /\ i \in 0 .. wlen /\ loose \in 0 .. i
          /\ vacancy \in 0 .. Depth
      BY <1>1 DEF RoomInv, Shapes
    <3> QED
      BY <3>1, FifoAssumption
  <2>2. PutWord
    <3>1. CASE CallSend
      BY <1>1, <2>1, <3>1 DEF CallSend
    <3>2. CASE TooLong \/ SetLen \/ SeeDone \/ PollAgain \/ GiveUp \/ Transmit \/ UNCHANGED vars
      <4>1. i' = i
        BY <3>2 DEF TooLong, SetLen, SeeDone, PollAgain, GiveUp, Transmit, vars
      <4> QED
        BY <1>1, <2>1, <4>1
    <3> QED
      BY <1>1, <3>1, <3>2 DEF Next, Software
  <2>3. vacancy = 0
    BY <1>1, <2>1, <2>2 DEF PutWord
  <2> QED
    BY <1>1, <2>2, <2>3, NoRoomMeansBacklog
<1>2. RoomInv /\ [Next]_vars =>
        [i' > i /\ loose' = loose => (Len(queue) + 1) * BufWords > Depth]_vars
  BY <1>1
<1> QED
  BY <1>2, RoomInit, RoomStep, PTL DEF Spec, WordLostOnlyInBacklog
================================================================================
