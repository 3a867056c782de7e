----------------------------- MODULE MsgPoolProofs -----------------------------
(***************************************************************************)
(* Theorems about MsgPool, for every size of the ring, every timeout and   *)
(* every number of frames.  The inductive invariant is PoolInv: the types, *)
(* and where the handed-out slot lies relative to the reader.              *)
(***************************************************************************)
EXTENDS MsgPool, SequenceTheorems, TLAPS

PoolInv == TypeOK /\ HeldIntact /\ HeldBehindReader

\* The position after p in a ring of S slots, without a modulus.
After(p, S) == IF p + 1 = S THEN 0 ELSE p + 1

--------------------------------------------------------------------------------
\* Adding one to a position: the wrap happens exactly at the last slot.
LEMMA NextSlot ==
  ASSUME NEW S \in Nat, S >= 2, NEW p \in 0 .. S - 1
  PROVE  (p + 1) % S = After(p, S)
<1>1. CASE p + 1 = S
  BY <1>1, SMT DEF After
<1>2. CASE p + 1 < S
  BY <1>2, SMT DEF After
<1> QED
  BY <1>1, <1>2

\* The full test of the code, without its modulus: the writer is one slot
\* behind the reader.
LEMMA FullTest ==
  ASSUME NEW S \in Nat, S >= 2, NEW r \in 0 .. S - 1, NEW w \in 0 .. S - 1
  PROVE  (r + S - w) % S = 1 <=> r = After(w, S)
<1>1. CASE r >= w
  <2>1. (r + S - w) % S = r - w
    BY <1>1, SMT
  <2> QED
    BY <1>1, <2>1 DEF After
<1>2. CASE r < w
  <2>1. (r + S - w) % S = r + S - w
    BY <1>2, SMT
  <2> QED
    BY <1>2, <2>1 DEF After
<1> QED
  BY <1>1, <1>2

\* The two facts for the ring itself: no other proof opens a modulus.
LEMMA FollowingIs ==
  ASSUME NEW p \in 0 .. Space - 1
  PROVE  Following(p) = After(p, Space)
<1>1. Space \in Nat /\ Space >= 2
  BY PoolAssumption
<1>2. (p + 1) % Space = After(p, Space)
  BY <1>1, NextSlot, Zenon
<1> QED
  BY <1>2, Zenon DEF Following

LEMMA FullMeans ==
  ASSUME TypeOK
  PROVE  msg_pool_full <=> r_pos = After(w_pos, Space)
<1>1. /\ Space \in Nat /\ Space >= 2
      /\ r_pos \in 0 .. Space - 1 /\ w_pos \in 0 .. Space - 1
  BY PoolAssumption DEF TypeOK, Slots
<1>2. (r_pos + Space - w_pos) % Space = 1
        <=> r_pos = After(w_pos, Space)
  BY <1>1, FullTest, Zenon
<1> QED
  BY <1>2, Zenon DEF msg_pool_full

\* What a push does to w_pos and a hand-out to r_pos.
LEMMA WriterMoves ==
  ASSUME TypeOK, PushFrame
  PROVE  w_pos' = After(w_pos, Space)
<1>1. w_pos \in 0 .. Space - 1
  BY Zenon DEF TypeOK, Slots
<1>2. Following(w_pos) = After(w_pos, Space)
  BY <1>1, FollowingIs, Zenon
<1> QED
  BY <1>2, Zenon DEF PushFrame

LEMMA ReaderMoves ==
  ASSUME TypeOK, HandOut
  PROVE  r_pos' = After(r_pos, Space)
<1>1. r_pos \in 0 .. Space - 1
  BY Zenon DEF TypeOK, Slots
<1>2. Following(r_pos) = After(r_pos, Space)
  BY <1>1, FollowingIs, Zenon
<1> QED
  BY <1>2, Zenon DEF HandOut

--------------------------------------------------------------------------------
\* The types hold in every state msg_pool_init can produce, and every step of
\* the FIFO or of the software keeps them.
LEMMA TypeInit == Init => TypeOK
  BY PoolAssumption DEF Init, TypeOK, Slots, NoSlot

\* One step per action of MsgPool.
LEMMA TypeStep == TypeOK /\ [Next]_vars => TypeOK'
<1> SUFFICES ASSUME TypeOK, [Next]_vars
             PROVE  TypeOK'
  OBVIOUS
<1> USE PoolAssumption DEF TypeOK, Slots, NoSlot
<1>1. CASE Arrive
  <2>1. rxFifo' \in Seq(1 .. arrived')
    <3>1. rxFifo \in Seq(1 .. arrived')
      BY <1>1, SeqMonotonic DEF Arrive
    <3> QED
      BY <1>1, <3>1 DEF Arrive
  <2>2. pool' \in [Slots -> 0 .. arrived']
    BY <1>1 DEF Arrive
  <2> QED
    BY <1>1, <2>1, <2>2 DEF Arrive
<1>2. CASE CallFetch
  BY <1>2 DEF CallFetch
<1>3. CASE PushFrame
  <2>1. w_pos' \in Slots
    BY <1>3, WriterMoves DEF After
  <2>2. Head(rxFifo) \in 1 .. arrived /\ rxFifo' \in Seq(1 .. arrived)
    BY <1>3, HeadTailProperties DEF PushFrame
  <2> QED
    BY <1>3, <2>1, <2>2 DEF PushFrame
<1>4. CASE PushFailed
  BY <1>4, HeadTailProperties DEF PushFailed
<1>5. CASE HandOut
  <2>1. r_pos' \in Slots
    BY <1>5, ReaderMoves DEF After
  <2> QED
    BY <1>5, <2>1 DEF HandOut
<1>6. CASE Sleep
  BY <1>6 DEF Sleep
<1>7. CASE FetchTimeout
  BY <1>7 DEF FetchTimeout
<1>8. CASE UNCHANGED vars
  BY <1>8 DEF vars
<1> QED
  BY <1>1, <1>2, <1>3, <1>4, <1>5, <1>6, <1>7, <1>8 DEF Next, Fetching

\* Every value in the model stays in its type, for every ring and timeout.
THEOREM TypeCorrect == Spec => []TypeOK
  BY TypeInit, TypeStep, PTL DEF Spec

--------------------------------------------------------------------------------
\* A push never hits the slot handed out last: that slot is the one before
\* r_pos, and the full test refuses exactly that one.
LEMMA PushMissesHandedOut ==
  ASSUME TypeOK, HeldBehindReader, pack # NoSlot, ~ msg_pool_full
  PROVE  w_pos # pack
<1> USE PoolAssumption DEF TypeOK, Slots, NoSlot
<1> SUFFICES ASSUME w_pos = pack
             PROVE  msg_pool_full
  OBVIOUS
<1>1. r_pos = After(w_pos, Space)
  <2>1. w_pos \in 0 .. Space - 1
    BY Zenon
  <2>2. Following(w_pos) = After(w_pos, Space)
    BY <2>1, FollowingIs, Zenon
  <2> QED
    BY <2>2, Zenon DEF HeldBehindReader
<1> QED
  BY <1>1, FullMeans, Zenon

\* Only a push and a hand-out can disturb the message behind the pointer.
LEMMA PoolInvStep == PoolInv /\ [Next]_vars => PoolInv'
<1> SUFFICES ASSUME PoolInv, [Next]_vars
             PROVE  HeldIntact' /\ HeldBehindReader'
  BY TypeStep DEF PoolInv
<1> USE DEF PoolInv, HeldIntact, HeldBehindReader
<1>1. CASE Arrive
  BY <1>1 DEF Arrive
<1>2. CASE CallFetch
  BY <1>2 DEF CallFetch
<1>3. CASE PushFrame
  <2>1. pack # NoSlot => w_pos # pack
    BY <1>3, PushMissesHandedOut DEF PushFrame
  <2>2. pack' # NoSlot => pool'[pack'] = held'
    BY <1>3, <2>1 DEF PushFrame, TypeOK
  <2> QED
    BY <1>3, <2>2 DEF PushFrame
<1>4. CASE PushFailed
  BY <1>4 DEF PushFailed
<1>5. CASE HandOut
  BY <1>5 DEF HandOut
<1>6. CASE Sleep
  BY <1>6 DEF Sleep
<1>7. CASE FetchTimeout
  BY <1>7 DEF FetchTimeout
<1>8. CASE UNCHANGED vars
  BY <1>8 DEF vars
<1> QED
  BY <1>1, <1>2, <1>3, <1>4, <1>5, <1>6, <1>7, <1>8 DEF Next, Fetching

\* The inductive invariant of the ring.
LEMMA PoolInvariant == Spec => []PoolInv
<1>1. Init => PoolInv
  BY TypeInit DEF Init, PoolInv, HeldIntact, HeldBehindReader
<1> QED
  BY <1>1, PoolInvStep, PTL DEF Spec

\* The message behind the pointer msg_pool_fetch returned is not overwritten
\* before the next one is handed out, although its slot is free again.
THEOREM HeldStaysIntact == Spec => []HeldIntact
  BY PoolInvariant, PTL DEF PoolInv

--------------------------------------------------------------------------------
\* The tests of the ring in terms of the number of stored messages.
LEMMA CountFacts ==
  ASSUME TypeOK
  PROVE  /\ Count \in 0 .. Space - 1
         /\ msg_pool_full <=> Count = Space - 1
         /\ msg_pool_empty <=> Count = 0
         /\ \A i \in 1 .. Count : SlotAt(i) \in Slots
<1> USE PoolAssumption DEF TypeOK, Slots, Count
<1>1. msg_pool_full <=> r_pos = After(w_pos, Space)
  BY FullMeans, Zenon
<1>2. \A i \in 1 .. Count : SlotAt(i) \in Slots
  BY DEF SlotAt
<1> QED
  BY <1>1, <1>2 DEF msg_pool_empty, After

\* The stored messages form a sequence of frames.
PendingShape ==
  /\ Pending \in Seq(0 .. arrived)
  /\ Len(Pending) = Count
  /\ \A i \in 1 .. Count : Pending[i] = pool[SlotAt(i)]

\* The stored messages form a sequence, before a step and after it.
LEMMA PendingIsSeq == TypeOK => PendingShape
<1> SUFFICES ASSUME TypeOK
             PROVE  PendingShape
  OBVIOUS
<1>1. Count \in Nat
  BY CountFacts, PoolAssumption
<1>2. \A i \in 1 .. Count : pool[SlotAt(i)] \in 0 .. arrived
  BY CountFacts DEF TypeOK
<1>3. Pending \in [1 .. Count -> 0 .. arrived]
  BY <1>2 DEF Pending
<1>4. Pending \in Seq(0 .. arrived)
  BY <1>1, <1>3, SeqDef
<1>5. Len(Pending) = Count
  BY <1>1, <1>3, <1>4, LenProperties
<1> QED
  BY <1>4, <1>5 DEF Pending, PendingShape

\* The same of the next state, for use under an action.
LEMMA PendingIsSeqNext == TypeOK' => PendingShape'
  BY PendingIsSeq, PTL

\* A push appends to the stored messages.
LEMMA PushAppends ==
  ASSUME TypeOK, TypeOK', PushFrame
  PROVE  /\ Len(Pending) < Space - 1
         /\ Pending' = Append(Pending, Head(rxFifo))
<1> USE PoolAssumption
<1> DEFINE frame == Head(rxFifo)
<1>1. w_pos' = After(w_pos, Space)
  BY WriterMoves
<1>2. Count < Space - 1 /\ Count \in Nat
  BY CountFacts DEF PushFrame
<1>3. /\ r_pos \in 0 .. Space - 1 /\ w_pos \in 0 .. Space - 1
      /\ r_pos' = r_pos
  BY DEF PushFrame, TypeOK, Slots
<1>4. Count' = Count + 1
  BY <1>1, <1>2, <1>3 DEF Count, After
<1>6. frame \in 0 .. arrived /\ arrived' = arrived
  BY HeadTailProperties DEF PushFrame, TypeOK
<1> HIDE DEF frame
<1>7. /\ Append(Pending, frame) \in Seq(0 .. arrived)
      /\ Len(Append(Pending, frame)) = Count + 1
      /\ \A i \in 1 .. Count : Append(Pending, frame)[i] = Pending[i]
      /\ Append(Pending, frame)[Count + 1] = frame
  <2>1. /\ Pending \in Seq(0 .. arrived)
        /\ Len(Pending) = Count
    BY PendingIsSeq DEF PendingShape
  <2> QED
    BY <1>2, <1>6, <2>1, AppendProperties
<1>8. /\ Pending' \in Seq(0 .. arrived)
      /\ Len(Pending') = Count + 1
      /\ \A i \in 1 .. Count + 1 : Pending'[i] = pool'[SlotAt(i)']
  BY <1>4, <1>6, PendingIsSeqNext DEF PendingShape
<1>9. \A i \in 1 .. Count + 1 : Pending'[i] = Append(Pending, frame)[i]
  <2> SUFFICES ASSUME NEW i \in 1 .. Count + 1
               PROVE  Pending'[i] = Append(Pending, frame)[i]
    OBVIOUS
  <2>0. SlotAt(i)' = SlotAt(i) /\ (SlotAt(i) = w_pos <=> i = Count + 1)
    BY <1>2, <1>3 DEF Count, SlotAt
  <2>1. Pending'[i] = pool'[SlotAt(i)]
    BY <1>8, <2>0
  <2>2. pool' = [pool EXCEPT ![w_pos] = frame] /\ w_pos \in DOMAIN pool
    BY DEF PushFrame, TypeOK, frame
  <2>3. CASE i = Count + 1
    BY <1>2, <1>7, <2>0, <2>1, <2>2, <2>3
  <2>4. CASE i # Count + 1
    <3>1. i \in 1 .. Count /\ SlotAt(i) # w_pos
      BY <1>2, <2>0, <2>4
    <3>2. SlotAt(i) \in DOMAIN pool
      BY <3>1, CountFacts DEF TypeOK
    <3>3. Pending[i] = pool[SlotAt(i)]
      BY <3>1, PendingIsSeq DEF PendingShape
    <3> QED
      BY <1>7, <2>1, <2>2, <3>1, <3>2, <3>3
  <2> QED
    BY <2>3, <2>4
<1> QED
  BY <1>2, <1>7, <1>8, <1>9, PendingIsSeq, SeqEqual DEF frame, PendingShape

\* Handing out takes the oldest of the stored messages.
LEMMA HandOutTakes ==
  ASSUME TypeOK, TypeOK', HandOut
  PROVE  /\ Pending # <<>>
         /\ held' = Head(Pending)
         /\ Pending' = Tail(Pending)
<1> USE PoolAssumption
<1>1. r_pos' = After(r_pos, Space)
  BY ReaderMoves
<1>2. Count > 0 /\ Count \in Nat
  BY CountFacts DEF HandOut
<1>3. Count' = Count - 1
  BY <1>1, <1>2 DEF HandOut, TypeOK, Slots, Count, After
<1>4. \A i \in 1 .. Count - 1 : SlotAt(i)' = SlotAt(i + 1)
  <2> SUFFICES ASSUME NEW i \in 1 .. Count - 1
               PROVE  SlotAt(i)' = SlotAt(i + 1)
    OBVIOUS
  <2>1. i \in Nat /\ i >= 1 /\ i < Space /\ r_pos \in 0 .. Space - 1
    <3>1. Count \in 0 .. Space - 1
      BY CountFacts
    <3> QED
      BY <3>1 DEF TypeOK, Slots
  <2>2. CASE r_pos + 1 = Space
    BY <1>1, <2>1, <2>2 DEF SlotAt, After
  <2>3. CASE r_pos + 1 # Space
    BY <1>1, <2>1, <2>3 DEF SlotAt, After
  <2> QED
    BY <2>2, <2>3
<1>5. SlotAt(1) = r_pos
  BY DEF TypeOK, Slots, SlotAt
<1>6. Pending # <<>> /\ Head(Pending) = pool[r_pos]
  BY <1>2, <1>5, PendingIsSeq DEF PendingShape
<1>7. /\ Tail(Pending) \in Seq(0 .. arrived)
      /\ Len(Tail(Pending)) = Count - 1
      /\ \A i \in 1 .. Count - 1 : Tail(Pending)[i] = pool[SlotAt(i + 1)]
  BY <1>2, <1>6, PendingIsSeq, HeadTailProperties DEF PendingShape
<1>8. /\ Pending' \in Seq(0 .. arrived)
      /\ Len(Pending') = Count - 1
      /\ \A i \in 1 .. Count - 1 : Pending'[i] = pool[SlotAt(i + 1)]
  <2>1. /\ Pending' \in Seq(0 .. arrived)
        /\ Len(Pending') = Count - 1
        /\ \A i \in 1 .. Count - 1 : Pending'[i] = pool[SlotAt(i)']
    BY <1>3, PendingIsSeqNext DEF HandOut, PendingShape
  <2> QED
    BY <1>4, <2>1
<1>9. Pending' = Tail(Pending)
  BY <1>7, <1>8, SeqEqual
<1> QED
  BY <1>6, <1>9 DEF HandOut

\* The ring of community.c is a bounded queue: arrival order, at most once, and
\* a frame is lost only when Space - 1 earlier ones are stored.
THEOREM RefinesQueue == Spec => ImplementsQueue
<1>1. Init => Queue!Init
  <2> SUFFICES ASSUME Init
               PROVE  Pending = <<>>
    BY DEF Init, Queue!Init
  <2>1. TypeOK /\ Count = 0
    BY TypeInit, PoolAssumption DEF Init, Count
  <2> QED
    BY <2>1, PendingIsSeq, EmptySeq DEF PendingShape
<1>2. TypeOK /\ TypeOK' /\ [Next]_vars => [Queue!Next]_(Queue!vars)
  <2> SUFFICES ASSUME TypeOK, TypeOK', [Next]_vars
               PROVE  Queue!Next \/ UNCHANGED Queue!vars
    OBVIOUS
  <2> USE DEF Queue!Next, Queue!vars
  <2>0. UNCHANGED <<pool, r_pos, w_pos>> => UNCHANGED Pending
    BY DEF Pending, Count, SlotAt
  <2>1. CASE Arrive
    BY <2>0, <2>1 DEF Arrive, Queue!Arrive
  <2>2. CASE CallFetch
    BY <2>0, <2>2 DEF CallFetch
  <2>3. CASE PushFrame
    BY <2>3, PushAppends, PendingIsSeq DEF PushFrame, PendingShape, Queue!Accept
  <2>4. CASE PushFailed
    <3>1. Len(Pending) = Space - 1
      BY <2>4, CountFacts, PendingIsSeq DEF PushFailed, PendingShape
    <3> QED
      BY <2>0, <2>4, <3>1 DEF PushFailed, Queue!Drop
  <2>5. CASE HandOut
    BY <2>5, HandOutTakes DEF HandOut, Queue!Take
  <2>6. CASE Sleep
    BY <2>0, <2>6 DEF Sleep
  <2>7. CASE FetchTimeout
    BY <2>0, <2>7 DEF FetchTimeout
  <2>8. CASE UNCHANGED vars
    BY <2>0, <2>8 DEF vars
  <2> QED
    BY <2>1, <2>2, <2>3, <2>4, <2>5, <2>6, <2>7, <2>8 DEF Next, Fetching
<1> QED
  BY <1>1, <1>2, TypeCorrect, PTL DEF Spec, ImplementsQueue, Queue!Spec
================================================================================
