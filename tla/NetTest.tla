-------------------------------- MODULE NetTest --------------------------------
(***************************************************************************)
(* The test of the Ethernet link in the PL (pl_eth_test.c): one frame out, *)
(* one frame in, and a comparison with the pattern in SourceBuffer.  What  *)
(* TxSend sends is DestinationBuffer, a static buffer that holds what the  *)
(* last test has received.  Frames hold "pattern", "zero" or "other" data  *)
(* and are as long as the buffers, or shorter; sixteen words always fit    *)
(* into the FIFO that has just been reset.                                 *)
(***************************************************************************)
EXTENDS Naturals, Sequences

CONSTANTS MaxFrames,   \* bound: frames other stations send
          RxDepth      \* frames the receive side of the FIFO holds

VARIABLES pc,       \* where the test is; "off" between tests
          link,     \* "plug": frames come back; "open": they do not; "down": stalled
          dest,     \* DestinationBuffer
          tx,       \* the frame in the transmit side, Nothing if none
          wire,     \* the frame on its way back through the plug
          rx,       \* the receive side
          event,    \* a bit of the interrupt status is set
          tc,       \* the transmit-complete bit
          ret,      \* what the last test returned; None while it runs
          frames,   \* history: frames other stations have sent
          foreign   \* history: DestinationBuffer has held another station's pattern

vars == <<pc, link, dest, tx, wire, rx, event, tc, ret, frames, foreign>>

XST_SUCCESS == 0
XST_FAILURE == 1
None == 2
Nothing == "nothing"

Init == /\ pc = "off" /\ link \in {"plug", "open", "down"} /\ dest = "zero"
        /\ tx = Nothing /\ wire = Nothing /\ rx = <<>>
        /\ event = FALSE /\ tc = FALSE /\ ret = None
        /\ frames = 0 /\ foreign = FALSE

\* XLlFifo_CfgInitialize and XLlFifo_IntClear.
Call == /\ pc = "off"
        /\ tx' = Nothing /\ rx' = <<>> /\ event' = FALSE /\ tc' = FALSE
        /\ ret' = None /\ pc' = "check"
        /\ UNCHANGED <<link, dest, wire, frames, foreign>>

\* A frame has come in since: the test fails.
CheckStatus == /\ pc = "check"
               /\ IF event THEN pc' = "off" /\ ret' = XST_FAILURE
                  ELSE pc' = "send" /\ UNCHANGED ret
               /\ UNCHANGED <<link, dest, tx, wire, rx, event, tc, frames, foreign>>

TxSend == /\ pc = "send"
          /\ tx' = dest /\ pc' = "poll"
          /\ UNCHANGED <<link, dest, wire, rx, event, tc, ret, frames, foreign>>

\* The poll has no limit: without the bit there is no step.
TxDone == /\ pc = "poll" /\ tc
          /\ pc' = "receive"
          /\ UNCHANGED <<link, dest, tx, wire, rx, event, tc, ret, frames, foreign>>

\* Seeded fault: the data are not compared.
MatchesLength(f, data) == f.full

\* getlen = sendlen, and DestinationBuffer equals SourceBuffer.
Matches(f, data) == f.full /\ data = "pattern"

\* RxReceive does not wait, and takes the oldest frame, whoever has sent it.  A short
\* frame overwrites the beginning of the buffer.
RxReceive ==
    /\ pc = "receive" /\ pc' = "off"
    /\ IF rx = <<>> THEN ret' = XST_FAILURE /\ UNCHANGED <<dest, rx, foreign>>
       ELSE LET f == Head(rx)
            IN /\ dest' = IF f.full \/ f.data = dest THEN f.data ELSE "other"
               /\ rx' = Tail(rx)
               /\ ret' = IF Matches(f, dest') THEN XST_SUCCESS ELSE XST_FAILURE
               /\ foreign' = (foreign \/ (f.foreign /\ dest' = "pattern"))
    /\ UNCHANGED <<link, tx, wire, event, tc, frames>>

Software == CheckStatus \/ TxSend \/ TxDone \/ RxReceive

--------------------------------------------------------------------------------
Arrives(f) == /\ rx' = (IF Len(rx) < RxDepth THEN Append(rx, f) ELSE rx)
              /\ event' = TRUE

Transmit == /\ tx # Nothing /\ link # "down"
            /\ wire' = IF link = "plug" THEN tx ELSE wire
            /\ tx' = Nothing /\ tc' = TRUE /\ event' = TRUE
            /\ UNCHANGED <<pc, link, dest, rx, ret, frames, foreign>>

ComesBack == /\ wire # Nothing
             /\ Arrives([data |-> wire, full |-> TRUE, foreign |-> FALSE])
             /\ wire' = Nothing
             /\ UNCHANGED <<pc, link, dest, tx, tc, ret, frames, foreign>>

Station == /\ frames < MaxFrames /\ frames' = frames + 1
           /\ \E data \in {"pattern", "other"}, full \in BOOLEAN :
                Arrives([data |-> data, full |-> full, foreign |-> TRUE])
           /\ UNCHANGED <<pc, link, dest, tx, wire, tc, ret, foreign>>

Net == Transmit \/ ComesBack \/ Station

--------------------------------------------------------------------------------
Data == {"pattern", "zero", "other"}

TypeOK == /\ pc \in {"off", "check", "send", "poll", "receive"}
          /\ link \in {"plug", "open", "down"} /\ dest \in Data
          /\ {tx, wire} \subseteq Data \cup {Nothing}
          /\ rx \in Seq([data : Data, full : BOOLEAN, foreign : BOOLEAN])
          /\ Len(rx) <= RxDepth
          /\ {event, tc, foreign} \subseteq BOOLEAN
          /\ ret \in {XST_SUCCESS, XST_FAILURE, None} /\ frames \in 0..MaxFrames

\* "Transmit the data, receive the data from fifo, compare the data" (pl_eth_test.c:71):
\* a test that gets its own frame back succeeds.  It does not: what it has sent is not
\* the pattern.
OwnFramePasses ==
  [][pc = "receive" /\ pc' = "off" /\ rx # <<>> /\ ~Head(rx).foreign
       => ret' = XST_SUCCESS]_vars

\* What its success tells instead: a station that happens to know the pattern has sent
\* it, to this test or to one before, and DestinationBuffer has kept it.
PassIsForeign == ret = XST_SUCCESS => foreign
================================================================================
