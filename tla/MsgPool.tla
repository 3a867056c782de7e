-------------------------------- MODULE MsgPool --------------------------------
(***************************************************************************)
(* The message pool of the board application (boe_factory_test/src/        *)
(* community.c).  FifoReceive copies frames from the receive side of the   *)
(* AXI-stream FIFO into a ring of Space slots; msg_pool_fetch hands the    *)
(* main loop a POINTER to the oldest slot, not a copy, and moves r_pos on  *)
(* at once.  The ring is full with one slot empty; that slot is what keeps *)
(* the message behind the last pointer alive.                              *)
(*                                                                         *)
(* A frame is its arrival number, and fits the package FifoReceive copies  *)
(* it into; 0 is the zeroed memory of a slot never written.  The FIFO's    *)
(* hardware runs beside the program: Arrive may happen between any two     *)
(* steps of the software.                                                  *)
(***************************************************************************)
EXTENDS Naturals, Sequences

CONSTANTS Space,       \* MSG_POOL_SPACE, 6 in the code
          TimeoutMs,   \* timeout_ms of msg_pool_fetch; the main loop passes 0
          WireDepth,   \* bound: frames the receive FIFO can hold
          MaxFrames    \* bound: frames that ever arrive

\* One slot stays empty, so a ring of one slot could hold nothing.
ASSUME PoolAssumption == /\ Space \in Nat /\ Space >= 2
                         /\ TimeoutMs \in Nat
                         /\ WireDepth \in Nat
                         /\ MaxFrames \in Nat

VARIABLES arrived,     \* frames that reached the receive FIFO so far
          rxFifo,      \* the receive FIFO, oldest frame first
          pool,        \* the slots of the ring
          r_pos,       \* next slot to hand out
          w_pos,       \* next slot to write
          pack,        \* slot the caller's pointer points into, NoSlot before
          waited,      \* milliseconds the running msg_pool_fetch has slept
          pc,          \* "caller" or "receive" (inside msg_pool_fetch)
          held,        \* history: the frame behind pack when it was handed out
          dropped      \* history: frames FifoReceive could not push

vars == <<arrived, rxFifo, pool, r_pos, w_pos, pack, waited, pc, held, dropped>>

Slots == 0 .. Space - 1
NoSlot == Space

--------------------------------------------------------------------------------
\* Seeded fault: the ring never counts as full.
FullNever == FALSE

\* Seeded fault: one slot too many is kept empty.
FullEarly == (r_pos + Space - w_pos) % Space = 2

msg_pool_full == (r_pos + Space - w_pos) % Space = 1

msg_pool_empty == r_pos = w_pos

\* The position after p: the ring wraps at its last slot.
Following(p) == (p + 1) % Space

\* msg_pool_init: malloc, both positions 0, the slots zeroed, the FIFO reset.
Init == /\ arrived = 0 /\ rxFifo = <<>>
        /\ pool = [s \in Slots |-> 0]
        /\ r_pos = 0 /\ w_pos = 0
        /\ pack = NoSlot /\ held = 0
        /\ waited = 0 /\ pc = "caller"
        /\ dropped = 0

\* Hardware: a frame from the Ethernet bridge enters the receive FIFO.
Arrive == /\ arrived < MaxFrames
          /\ Len(rxFifo) < WireDepth
          /\ arrived' = arrived + 1
          /\ rxFifo' = Append(rxFifo, arrived + 1)
          /\ UNCHANGED <<pool, r_pos, w_pos, pack, waited, pc, held, dropped>>

\* The main loop calls msg_pool_fetch.
CallFetch == /\ pc = "caller"
             /\ pc' = "receive"
             /\ waited' = 0
             /\ UNCHANGED <<arrived, rxFifo, pool, r_pos, w_pos, pack, held, dropped>>

\* One turn of FifoReceive's loop whose msg_pool_push finds room.
PushFrame == /\ pc = "receive"
             /\ rxFifo # <<>>
             /\ ~ msg_pool_full
             /\ pool' = [pool EXCEPT ![w_pos] = Head(rxFifo)]
             /\ w_pos' = Following(w_pos)
             /\ rxFifo' = Tail(rxFifo)
             /\ UNCHANGED <<arrived, r_pos, pack, waited, pc, held, dropped>>

\* Seeded fault: a frame that cannot be pushed is left in the FIFO.
PushFailedKept == /\ pc = "receive"
                  /\ rxFifo # <<>>
                  /\ msg_pool_full
                  /\ UNCHANGED vars

\* One turn of FifoReceive's loop whose msg_pool_push fails: the frame has left
\* the FIFO and only a line is printed.
PushFailed == /\ pc = "receive"
              /\ rxFifo # <<>>
              /\ msg_pool_full
              /\ rxFifo' = Tail(rxFifo)
              /\ dropped' = dropped + 1
              /\ UNCHANGED <<arrived, pool, r_pos, w_pos, pack, waited, pc, held>>

\* Seeded fault: r_pos is not taken modulo the size.
HandOutUnwrapped == /\ pc = "receive"
                    /\ rxFifo = <<>>
                    /\ ~ msg_pool_empty
                    /\ pack' = r_pos
                    /\ held' = pool[r_pos]
                    /\ r_pos' = r_pos + 1
                    /\ pc' = "caller"
                    /\ UNCHANGED <<arrived, rxFifo, pool, w_pos, waited, dropped>>

\* The FIFO is drained and a message waits: msg_pool_fetch returns its slot.
HandOut == /\ pc = "receive"
           /\ rxFifo = <<>>
           /\ ~ msg_pool_empty
           /\ pack' = r_pos
           /\ held' = pool[r_pos]
           /\ r_pos' = Following(r_pos)
           /\ pc' = "caller"
           /\ UNCHANGED <<arrived, rxFifo, pool, w_pos, waited, dropped>>

\* Nothing waits and there is time left: sleep a millisecond and try again.
Sleep == /\ pc = "receive"
         /\ rxFifo = <<>>
         /\ msg_pool_empty
         /\ waited < TimeoutMs
         /\ waited' = waited + 1
         /\ UNCHANGED <<arrived, rxFifo, pool, r_pos, w_pos, pack, pc, held, dropped>>

\* Nothing waits and the time is over: msg_pool_fetch returns 1.
FetchTimeout == /\ pc = "receive"
                /\ rxFifo = <<>>
                /\ msg_pool_empty
                /\ waited >= TimeoutMs
                /\ pc' = "caller"
                /\ UNCHANGED <<arrived, rxFifo, pool, r_pos, w_pos, pack, waited,
                               held, dropped>>

\* The steps of msg_pool_fetch, once it has been called.
Fetching == PushFrame \/ PushFailed \/ HandOut \/ Sleep \/ FetchTimeout

Next == Arrive \/ CallFetch \/ Fetching

Spec == Init /\ [][Next]_vars

\* A msg_pool_fetch once called goes on.  Nothing is assumed of the hardware, nor
\* of the main loop: it calls no more after FINISH, or while a test blocks.
FairSpec == Spec /\ WF_vars(Fetching)

--------------------------------------------------------------------------------
\* Messages stored and not handed out, and the sequence they form.
Count == IF w_pos >= r_pos THEN w_pos - r_pos ELSE w_pos + Space - r_pos

SlotAt(i) == IF r_pos + i - 1 < Space THEN r_pos + i - 1 ELSE r_pos + i - 1 - Space

Pending == [i \in 1 .. Count |-> pool[SlotAt(i)]]

TypeOK == /\ arrived \in 0 .. MaxFrames
          /\ rxFifo \in Seq(1 .. arrived)
          /\ pool \in [Slots -> 0 .. arrived]
          /\ r_pos \in Slots
          /\ w_pos \in Slots
          /\ pack \in Slots \cup {NoSlot}
          /\ waited \in 0 .. TimeoutMs
          /\ pc \in {"caller", "receive"}
          /\ held \in 0 .. arrived
          /\ dropped \in Nat

\* The main loop reads the message through the pointer after msg_pool_fetch has
\* already given the slot back to the ring, several times, and make_package
\* reads it once more after the test has run: until the next message is handed
\* out, the slot still holds the message that was handed out, whatever the ring
\* receives meanwhile.
HeldIntact == pack # NoSlot => pool[pack] = held

\* What HeldIntact rests on: the slot handed out last is the one just before
\* r_pos, which is never the next slot to write while frames can be pushed.
HeldBehindReader == pack # NoSlot => r_pos = Following(pack)

\* The ring delivers frames as a bounded queue does: in arrival order, each at
\* most once, and nothing is lost while a slot is free (one less than Space).
Queue == INSTANCE MsgQueue WITH Capacity <- Space - 1, wire <- rxFifo,
                                queue <- Pending
ImplementsQueue == Queue!Spec

\* The main loop calls msg_pool_fetch again and again.
KeepsFetching == []<>(pc = "receive")

\* As long as the main loop keeps calling, every frame that reaches the FIFO is
\* settled: it is handed out or dropped by a full ring, and neither rots in the
\* FIFO nor in a slot, behind frames that arrive while the FIFO is drained.
EveryFrameSettled ==
  KeepsFetching =>
    \A n \in 1 .. MaxFrames :
      arrived >= n ~> /\ \A i \in 1 .. Len(rxFifo) : rxFifo[i] # n
                      /\ \A i \in 1 .. Count : Pending[i] # n
================================================================================
