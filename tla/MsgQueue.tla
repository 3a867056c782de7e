------------------------------- MODULE MsgQueue -------------------------------
(***************************************************************************)
(* What the message pool of the board application promises to its main     *)
(* loop: a queue of bounded length between the receive FIFO of the         *)
(* Ethernet bridge (wire) and the main loop (held).  Frames are numbered   *)
(* in the order they arrive.  Frames are handed to the main loop in that   *)
(* order, each at most once, and a frame is thrown away only when Capacity *)
(* earlier ones still wait.  How the pool stores them is MsgPool's matter. *)
(***************************************************************************)
EXTENDS Naturals, Sequences

CONSTANTS Capacity,    \* frames the queue can hold
          WireDepth,   \* bound: frames the receive FIFO can hold
          MaxFrames    \* bound: frames that ever arrive

VARIABLES arrived,     \* number of frames that reached the receive FIFO
          wire,        \* the frames in the receive FIFO, oldest first
          queue,       \* the frames accepted and not yet handed out
          held,        \* the frame the main loop works on, 0 before the first
          dropped      \* number of frames thrown away

vars == <<arrived, wire, queue, held, dropped>>

Init == /\ arrived = 0 /\ wire = <<>> /\ queue = <<>>
        /\ held = 0 /\ dropped = 0

\* A frame enters the receive FIFO.
Arrive == /\ arrived < MaxFrames
          /\ Len(wire) < WireDepth
          /\ arrived' = arrived + 1
          /\ wire' = Append(wire, arrived + 1)
          /\ UNCHANGED <<queue, held, dropped>>

\* The oldest frame of the receive FIFO is stored.
Accept == /\ wire # <<>>
          /\ Len(queue) < Capacity
          /\ queue' = Append(queue, Head(wire))
          /\ wire' = Tail(wire)
          /\ UNCHANGED <<arrived, held, dropped>>

\* The oldest frame of the receive FIFO is lost: the queue is full.
Drop == /\ wire # <<>>
        /\ Len(queue) = Capacity
        /\ wire' = Tail(wire)
        /\ dropped' = dropped + 1
        /\ UNCHANGED <<arrived, queue, held>>

\* The oldest stored frame is handed to the main loop.
Take == /\ queue # <<>>
        /\ held' = Head(queue)
        /\ queue' = Tail(queue)
        /\ UNCHANGED <<arrived, wire, dropped>>

Next == Arrive \/ Accept \/ Drop \/ Take

Spec == Init /\ [][Next]_vars
===============================================================================
