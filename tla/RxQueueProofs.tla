--------------------------- MODULE RxQueueProofs ---------------------------
(* The safety half of ImplementsRxQueue, for every ring size and frame    *)
(* count, when a cache line holds one descriptor: under the refinement    *)
(* mapping of RxRingQueue, every step of the NIC, the caches and          *)
(* rtl8125_recv_packet is a step of the FIFO RxQueue or leaves it         *)
(* unchanged.  The mapping reads the queue off memory, the proof off the  *)
(* histories: by RxInv the host-owned slots from Base are exactly the     *)
(* Pending completions not yet consumed, so counting and reading them     *)
(* gives the unconsumed suffix of accepted.                               *)
EXTENDS RxOrderProofs, RxRingQueue, FiniteSetTheorems, TLAPS

(* The NIC writes a frame's buffer together with its descriptor           *)
(* (NicAccept), so a completed slot's buffer holds the frame its status   *)
(* word names.                                                            *)
BufTag == \A s \in Slots : ~mem[s].own => bmem[s] = mem[s].tag

(* From RxGot to the return, the status word rtl8125_recv_packet acts on  *)
(* names a frame the NIC completed.                                       *)
StTag == pc \in PostGot => st.tag \in 1 .. MaxPkts

(* The invariant behind the refinement: RxInv with the two facts above.   *)
(* rtl8125_recv_packet returns the frame of the slot it consumed, the     *)
(* queue RxQueue shows being the completed slots' buffers in ring order;  *)
(* RxInv alone says nothing of buffers or of the status word in hand.     *)
RefInv == RxInv /\ BufTag /\ StTag

(* The unconsumed completions, in order, read off the histories. *)
QPending == [k \in 1 .. Pending |-> accepted[Len(taken) + k]]

(* The refinement mapping's queue is the unconsumed suffix of accepted.   *)
AbsEq == PendingCount = Pending /\ PendingFrames = QPending

(* Going round the ring from x. *)
Wrap(x) == IF x < NumRxDesc THEN x ELSE x - NumRxDesc

-----------------------------------------------------------------------------
(* Going k - 1 places round the ring from Base reaches the slot           *)
(* (Base + k - 1) % NumRxDesc, at position k - 1.                         *)
LEMMA WrapPos ==
  ASSUME rx_idx \in Slots, NEW k \in 1 .. NumRxDesc
  PROVE  /\ Wrap(Base + k - 1) \in Slots
         /\ Pos(Wrap(Base + k - 1)) = k - 1
         /\ (Base + k - 1) % NumRxDesc = Wrap(Base + k - 1)
<1>1. Base \in Slots
  BY PosRange
<1>2. QED
  BY <1>1, NumRxDescAssumption DEF Wrap, Pos, Slots

(* The slots within Pending places of Base are Pending in number: the     *)
(* slot at position k - 1 is Wrap(Base + k - 1), a bijection from         *)
(* 1 .. Pending.                                                          *)
LEMMA QueueCount ==
  ASSUME rx_idx \in Slots, Pending \in 0 .. NumRxDesc
  PROVE  Cardinality({s \in Slots : Pos(s) < Pending}) = Pending
<1> DEFINE QS == {s \in Slots : Pos(s) < Pending}
           f == [k \in 1 .. Pending |-> Wrap(Base + k - 1)]
<1>1. Base \in Slots /\ \A s, t \in Slots : Pos(s) = Pos(t) => s = t
  BY PosRange
<1>2. \A k \in 1 .. Pending : f[k] \in Slots /\ Pos(f[k]) = k - 1
  <2> SUFFICES ASSUME NEW k \in 1 .. Pending
               PROVE  f[k] \in Slots /\ Pos(f[k]) = k - 1
    OBVIOUS
  <2>1. k \in 1 .. NumRxDesc
    BY NumRxDescAssumption
  <2>2. QED
    BY <2>1, WrapPos
<1>3. f \in Injection(1 .. Pending, QS)
  BY <1>2 DEF Injection, IsInjective
<1>4. f \in Surjection(1 .. Pending, QS)
  <2> SUFFICES ASSUME NEW s \in QS PROVE \E k \in 1 .. Pending : f[k] = s
    BY <1>3 DEF Surjection, Injection
  <2> DEFINE j == Pos(s) + 1
  <2>1. j \in 1 .. Pending /\ Pos(s) \in Int
    BY PosRange, NumRxDescAssumption
  <2>2. f[j] \in Slots /\ Pos(f[j]) = j - 1
    BY <1>2, <2>1, Zenon
  <2>3. Pos(f[j]) = Pos(s)
    BY <2>1, <2>2
  <2>4. QED
    BY <1>1, <2>1, <2>2, <2>3
<1>5. ExistsBijection(1 .. Pending, QS)
  BY <1>3, <1>4 DEF ExistsBijection, Bijection
<1>6. IsFiniteSet(1 .. Pending) /\ Cardinality(1 .. Pending) = Pending
  BY FS_Interval
<1>7. QED
  BY <1>5, <1>6, FS_Bijection

(* The set the mapping counts is the queue: a host-owned slot outside it *)
(* is rx_idx while the driver holds it, and rx_idx sits last in the ring *)
(* from Base, behind the whole queue.                                    *)
LEMMA HeldSlots ==
  ASSUME DescPerLine = 1, RxInv
  PROVE  {s \in Slots : ~mem[s].own} \ (IF Held THEN {rx_idx} ELSE {})
           = {s \in Slots : Pos(s) < Pending}
<1>1. rx_idx \in Slots /\ Pending \in 0 .. NumRxDesc
  BY NumRxDescAssumption DEF RxInv, TypeOK, IsPrefix, Pending
<1>2. Held <=> pc \in InUse \/ (pc = "clean" /\ dline[LineOf(rx_idx)] = "D")
  BY DEF Held, Consumed, InUse
<1>3. Held => Pos(rx_idx) = NumRxDesc - 1 /\ Pending <= NumRxDesc - 1
  <2>1. Held => pc \in PostGot
    BY <1>2 DEF InUse, PostGot
  <2>2. Held => Pending <= NumRxDesc - 1
    BY <1>1, <1>2, OneLine DEF RxInv, Consuming
  <2>3. QED
    BY <1>1, <2>1, <2>2, PosRange
<1>4. ASSUME NEW s \in Slots, Pos(s) < Pending
      PROVE  ~mem[s].own /\ ~(Held /\ s = rx_idx)
  BY <1>1, <1>3, <1>4, PosRange, NumRxDescAssumption DEF RxInv, Queue
<1>5. ASSUME NEW s \in Slots, ~mem[s].own, ~(Held /\ s = rx_idx)
      PROVE  Pos(s) < Pending
  <2>1. Pos(s) \in Int
    BY <1>1, PosRange, NumRxDescAssumption
  <2>2. ~(Pos(s) >= Pending)
    BY <1>2, <1>5 DEF RxInv, Free
  <2>3. QED
    BY <1>1, <2>1, <2>2
<1>6. QED
  BY <1>4, <1>5

(* Under the invariant the mapping's queue is the suffix of accepted the *)
(* driver has not consumed.                                               *)
LEMMA Abstraction ==
  ASSUME DescPerLine = 1
  PROVE  RefInv => AbsEq
<1> SUFFICES ASSUME RefInv PROVE AbsEq
  OBVIOUS
<1>1. rx_idx \in Slots /\ Pending \in 0 .. NumRxDesc
  BY NumRxDescAssumption DEF RefInv, RxInv, TypeOK, IsPrefix, Pending
<1>2. PendingCount = Pending
  BY <1>1, HeldSlots, QueueCount DEF RefInv, PendingCount
<1>3. First = Base
  BY <1>1, SuccMod DEF First, Consumed, Base, PostGot
<1>4. ASSUME NEW k \in 1 .. Pending
      PROVE  bmem[(First + k - 1) % NumRxDesc] = accepted[Len(taken) + k]
  <2> DEFINE s == (Base + k - 1) % NumRxDesc
  <2>0. k \in 1 .. NumRxDesc
    BY <1>1, NumRxDescAssumption
  <2>1. s \in Slots /\ Pos(s) = k - 1
    BY <1>1, <2>0, WrapPos
  <2>2. ~mem[s].own /\ mem[s].tag = accepted[Len(taken) + k]
    BY <1>1, <2>1 DEF RefInv, RxInv, Queue
  <2>3. QED
    BY <1>3, <2>1, <2>2 DEF RefInv, BufTag
<1>5. QED
  BY <1>2, <1>4 DEF AbsEq, PendingFrames, QPending

-----------------------------------------------------------------------------
(* The invariant behind the refinement holds. *)

LEMMA RefInvInit ==
  Init => RefInv
<1> SUFFICES ASSUME Init PROVE RefInv
  OBVIOUS
<1>1. BufTag /\ StTag
  BY DEF Init, BufTag, StTag, Armed, PostGot
<1>2. QED
  BY <1>1, RxInvInit DEF RefInv

(* With one descriptor per line the only dirty line is rx_idx's, holding *)
(* its re-arm, so writing a dirty line back hands every slot it changes  *)
(* back to the NIC.                                                       *)
LEMMA WriteBackOwn ==
  ASSUME DescPerLine = 1, RxInv, NEW l \in Lines, dline[l] = "D"
  PROVE  \A j \in Slots : WrittenBack(l)[j] = mem[j] \/ WrittenBack(l)[j].own
<1>1. rx_idx \in Slots /\ l = LineOf(rx_idx) /\ dcache[rx_idx] = Armed(rx_idx)
  BY DEF RxInv, Consuming, TypeOK
<1>2. l = rx_idx /\ \A j \in Slots : LineOf(j) = j
  BY <1>1, OneLine
<1>3. QED
  BY <1>1, <1>2 DEF WrittenBack, Armed

(* A step that leaves the buffers alone and changes a descriptor only by *)
(* handing it back to the NIC keeps BufTag.                               *)
LEMMA BufTagFrame ==
  ASSUME BufTag, bmem' = bmem, \A s \in Slots : mem'[s] = mem[s] \/ mem'[s].own
  PROVE  BufTag'
BY DEF BufTag

LEMMA RefInvStep ==
  ASSUME DescPerLine = 1
  PROVE  RefInv /\ [Next]_vars => RefInv'
<1> SUFFICES ASSUME RefInv, [Next]_vars PROVE RefInv'
  OBVIOUS
<1>1. RxInv'
  BY RxInvStep DEF RefInv
<1>2. StTag'
  <2>1. CASE RxGot
    <3>1. taken' = Append(taken, st'.tag) /\ taken \in Seq(Frames)
      BY <2>1 DEF RxGot, RefInv, RxInv, TypeOK
    <3>2. IsPrefix(taken', accepted') /\ accepted' \in Seq(1 .. MaxPkts)
      BY <1>1 DEF RxInv, TypeOK
    <3>3. Len(taken') = Len(taken) + 1 /\ taken'[Len(taken) + 1] = st'.tag
      BY <3>1
    <3>4. Len(taken) + 1 \in 1 .. Len(accepted')
      BY <3>2, <3>3 DEF IsPrefix
    <3>5. taken'[Len(taken) + 1] = accepted'[Len(taken) + 1]
      BY <3>2, <3>3, <3>4 DEF IsPrefix
    <3>6. accepted'[Len(taken) + 1] \in 1 .. MaxPkts
      <4>1. accepted' = accepted /\ accepted \in Seq(1 .. MaxPkts)
        BY <2>1 DEF RxGot, RefInv, RxInv, TypeOK
      <4>2. QED
        BY <3>4, <4>1, MaxPktsAssumption
    <3>7. QED
      BY <3>3, <3>5, <3>6 DEF StTag
  <2>2. CASE Hardware \/ UNCHANGED vars
    <3>1. st' = st /\ pc' = pc
      BY <2>2 DEF Hardware, NicAccept, NicDrop, DescEvict, DescPrefetch,
                  BufEvict, BufPrefetch, drv, vars
    <3>2. QED
      BY <3>1 DEF RefInv, StTag
  <2>3. CASE RxInvalidate \/ RxPollRead \/ RxFinalCheck \/ RxClean
    BY <2>3 DEF RxInvalidate, RxPollRead, RxFinalCheck, RxClean, StTag, PostGot
  <2>4. CASE RxInvalidateBuf \/ RxCopy \/ RxRearm
    <3>1. st' = st /\ pc \in PostGot
      BY <2>4 DEF RxInvalidateBuf, RxCopy, RxRearm, PostGot
    <3>2. QED
      BY <3>1 DEF RefInv, StTag
  <2>5. QED
    BY <2>1, <2>2, <2>3, <2>4 DEF Next, Driver
<1>3. BufTag'
  <2>0. BufTag /\ RxInv /\ mem \in [Slots -> Status]
    BY DEF RefInv, RxInv, TypeOK
  <2>1. CASE NicAccept
    <3>1. PICK len \in FrameLens, err \in RxErrs :
            mem' = [mem EXCEPT ![nic] = [own |-> FALSE, eor |-> @.eor, err |-> err,
                                         len |-> len, tag |-> arrived + 1]]
      BY <2>1 DEF NicAccept
    <3>2. nic \in Slots /\ bmem' = [bmem EXCEPT ![nic] = arrived + 1]
      BY <2>1 DEF NicAccept
    <3>3. bmem \in [Slots -> Frames]
      BY DEF RefInv, RxInv, TypeOK
    <3>4. QED
      BY <2>0, <3>1, <3>2, <3>3 DEF BufTag
  <2>2. CASE \E l \in Lines : DescEvict(l)
    <3>1. PICK l \in Lines : DescEvict(l)
      BY <2>2
    <3>2. bmem' = bmem /\ mem' = IF dline[l] = "D" THEN WrittenBack(l) ELSE mem
      BY <3>1 DEF DescEvict
    <3>3. \A s \in Slots : mem'[s] = mem[s] \/ mem'[s].own
      BY <2>0, <3>2, WriteBackOwn
    <3>4. QED
      BY <2>0, <3>2, <3>3, BufTagFrame
  <2>3. CASE RxClean
    <3>1. LineOf(rx_idx) \in Lines
      BY <2>0, OneLine DEF RxInv, TypeOK
    <3>2. bmem' = bmem
          /\ mem' = IF dline[LineOf(rx_idx)] = "D" THEN WrittenBack(LineOf(rx_idx))
                                                 ELSE mem
      BY <2>3 DEF RxClean
    <3>3. \A s \in Slots : mem'[s] = mem[s] \/ mem'[s].own
      BY <2>0, <3>1, <3>2, WriteBackOwn
    <3>4. QED
      BY <2>0, <3>2, <3>3, BufTagFrame
  <2>4. CASE \/ NicDrop \/ \E l \in Lines : DescPrefetch(l)
             \/ \E i \in Slots : BufEvict(i) \/ BufPrefetch(i)
             \/ RxInvalidate \/ RxPollRead \/ RxFinalCheck \/ RxGot
             \/ RxInvalidateBuf \/ RxCopy \/ RxRearm \/ UNCHANGED vars
    <3>1. bmem' = bmem /\ mem' = mem
      BY <2>4 DEF NicDrop, DescPrefetch, BufEvict, BufPrefetch, RxInvalidate,
                  RxPollRead, RxFinalCheck, RxGot, RxInvalidateBuf, RxCopy,
                  RxRearm, vars, hw
    <3>2. QED
      BY <2>0, <3>1, BufTagFrame
  <2>5. QED
    BY <2>1, <2>2, <2>3, <2>4 DEF Next, Driver, Hardware
<1>4. QED
  BY <1>1, <1>2, <1>3 DEF RefInv

-----------------------------------------------------------------------------
(* Each step of the ring is a step of the queue or leaves it unchanged. *)

(* A step that logs no completion and no consumption leaves the queue.  *)
LEMMA QPendingFrame ==
  ASSUME accepted' = accepted, taken' = taken
  PROVE  QPending' = QPending
BY DEF QPending, Pending

(* The frame in hand, as the mapping reads it. *)
LEMMA CurFrameDef ==
  /\ CurFrame = IF pc \in PostGot THEN st.tag ELSE 0
  /\ CurFrame' = IF pc' \in PostGot THEN st'.tag ELSE 0
BY DEF CurFrame, Consumed, PostGot

LEMMA RefineStep ==
  ASSUME DescPerLine = 1, RefInv, RefInv', AbsEq, AbsEq', [Next]_vars
  PROVE  [Q!QNext]_Q!qvars
<1>0. /\ accepted \in Seq(1 .. MaxPkts) /\ taken \in Seq(Frames)
      /\ Len(taken) <= Len(accepted) /\ Pending \in Nat
      /\ PendingFrames = QPending /\ PendingFrames' = QPending'
  BY DEF RefInv, RxInv, TypeOK, IsPrefix, Pending, AbsEq
<1>1. CASE NicAccept
  <2>1. /\ accepted' = Append(accepted, arrived + 1) /\ taken' = taken
        /\ arrived' = arrived + 1 /\ arrived < MaxPkts /\ pc' = pc /\ st' = st
    BY <1>1 DEF NicAccept, drv
  <2>2. Pending' = Pending + 1
    BY <1>0, <2>1 DEF Pending
  <2>3. QPending' = Append(QPending, arrived + 1)
    BY <1>0, <2>1, <2>2 DEF QPending, Pending
  <2>4. Q!Complete
    BY <1>0, <2>1, <2>3, CurFrameDef DEF Q!Complete
  <2>5. QED
    BY <2>4 DEF Q!QNext
<1>2. CASE NicDrop
  <2>1. /\ accepted' = accepted /\ taken' = taken /\ pc' = pc /\ st' = st
        /\ arrived' = arrived + 1 /\ arrived < MaxPkts
    BY <1>2 DEF NicDrop, drv
  <2>2. Q!Lose
    BY <1>0, <2>1, QPendingFrame, CurFrameDef DEF Q!Lose
  <2>3. QED
    BY <2>2 DEF Q!QNext
<1>3. CASE RxGot
  <2>1. /\ pc = "got" /\ pc' \in {"rearm", "invbuf"}
        /\ taken' = Append(taken, st'.tag) /\ accepted' = accepted
        /\ arrived' = arrived
    BY <1>3 DEF RxGot
  <2>2. Pending >= 1
    BY <2>1 DEF RefInv, RxInv, Consuming
  <2>3. st'.tag = accepted[Len(taken) + 1]
    <3>1. IsPrefix(taken', accepted')
      BY DEF RefInv, RxInv
    <3>2. Len(taken) + 1 \in 1 .. Len(taken')
      BY <1>0, <2>1
    <3>3. QED
      BY <1>0, <2>1, <3>1, <3>2 DEF IsPrefix
  <2>4. Pending' = Pending - 1
    BY <1>0, <2>1 DEF Pending
  <2>5. QPending # << >> /\ Head(QPending) = accepted[Len(taken) + 1]
    <3>0. \A k \in 1 .. Pending : accepted[Len(taken) + k] \in Int
      <4> SUFFICES ASSUME NEW k \in 1 .. Pending
                   PROVE  accepted[Len(taken) + k] \in Int
        OBVIOUS
      <4>1. Len(taken) + k \in 1 .. Len(accepted)
        BY <1>0 DEF Pending
      <4>2. QED
        BY <1>0, <4>1, MaxPktsAssumption
    <3>1. QPending \in Seq(Int) /\ Len(QPending) = Pending
      BY <1>0, <3>0 DEF QPending
    <3>2. QPending[1] = accepted[Len(taken) + 1]
      BY <2>2 DEF QPending
    <3>3. QED
      BY <2>2, <3>1, <3>2
  <2>6. QPending' = Tail(QPending)
    BY <1>0, <2>1, <2>2, <2>4 DEF QPending
  <2>7. CurFrame = 0 /\ CurFrame' = st'.tag
    BY <2>1, CurFrameDef DEF PostGot
  <2>8. Q!Take
    BY <1>0, <2>1, <2>3, <2>5, <2>6, <2>7 DEF Q!Take
  <2>9. QED
    BY <2>8 DEF Q!QNext
<1>4. CASE RxClean
  <2>1. /\ pc = "clean" /\ pc' = "idle" /\ accepted' = accepted
        /\ taken' = taken /\ arrived' = arrived
    BY <1>4 DEF RxClean
  <2>2. st.tag \in 1 .. MaxPkts
    BY <2>1 DEF RefInv, StTag, PostGot
  <2>3. CurFrame # 0 /\ CurFrame' = 0
    BY <2>1, <2>2, CurFrameDef DEF PostGot
  <2>4. Q!Done
    BY <1>0, <2>1, <2>3, QPendingFrame DEF Q!Done
  <2>5. QED
    BY <2>4 DEF Q!QNext
<1>5. CASE \/ \E l \in Lines : DescEvict(l) \/ DescPrefetch(l)
           \/ \E i \in Slots : BufEvict(i) \/ BufPrefetch(i)
           \/ UNCHANGED vars
  <2>1. /\ accepted' = accepted /\ taken' = taken /\ arrived' = arrived
        /\ pc' = pc /\ st' = st
    BY <1>5 DEF DescEvict, DescPrefetch, BufEvict, BufPrefetch, vars, drv
  <2>2. QED
    BY <1>0, <2>1, QPendingFrame, CurFrameDef DEF Q!qvars
<1>6. CASE \/ RxInvalidate \/ RxPollRead \/ RxFinalCheck
           \/ RxInvalidateBuf \/ RxCopy \/ RxRearm
  <2>1. accepted' = accepted /\ taken' = taken /\ arrived' = arrived
    BY <1>6 DEF RxInvalidate, RxPollRead, RxFinalCheck, RxInvalidateBuf,
                RxCopy, RxRearm
  <2>2. \/ pc \notin PostGot /\ pc' \notin PostGot
        \/ pc \in PostGot /\ pc' \in PostGot /\ st' = st
    BY <1>6 DEF RxInvalidate, RxPollRead, RxFinalCheck, RxInvalidateBuf,
                RxCopy, RxRearm, PostGot
  <2>3. CurFrame' = CurFrame
    BY <2>2, CurFrameDef
  <2>4. QED
    BY <1>0, <2>1, <2>3, QPendingFrame DEF Q!qvars
<1>7. QED
  BY <1>1, <1>2, <1>3, <1>4, <1>5, <1>6 DEF Next, Driver, Hardware

(* With one descriptor per line, in every reachable state the queue of   *)
(* completed slots is as RxInv describes, each completed slot's buffer    *)
(* holds the frame its status word names, and the status word             *)
(* rtl8125_recv_packet copies after RxGot names a frame the NIC           *)
(* completed, for every ring size and frame count.                        *)
THEOREM RefinementInvariant ==
  ASSUME DescPerLine = 1
  PROVE  Spec => []RefInv
BY RefInvInit, RefInvStep, PTL DEF Spec

(* Every behaviour of the ring, NIC, non-coherent cache and               *)
(* rtl8125_recv_packet, seen through the mapping of RxRingQueue, starts   *)
(* empty and moves only by completing, losing, taking or finishing with  *)
(* a frame in FIFO order: the safety part of ImplementsRxQueue, for every *)
(* ring size and frame count with one descriptor per cache line.          *)
THEOREM RxQueueRefinement ==
  ASSUME DescPerLine = 1
  PROVE  Spec => Q!QInit /\ [][Q!QNext]_Q!qvars
<1>1. Init => Q!QInit
  <2> SUFFICES ASSUME Init PROVE Q!QInit
    OBVIOUS
  <2>1. AbsEq /\ Pending = 0
    BY RefInvInit, Abstraction DEF Init, Pending
  <2>2. PendingFrames = << >> /\ CurFrame = 0
    BY <2>1, CurFrameDef DEF QPending, AbsEq, Init, PostGot
  <2>3. QED
    BY <2>2 DEF Init, Q!QInit
<1>2. RefInv => AbsEq
  BY Abstraction
<1>3. RefInv /\ RefInv' /\ AbsEq /\ AbsEq' /\ [Next]_vars => [Q!QNext]_Q!qvars
  BY RefineStep
<1>4. QED
  BY <1>1, <1>2, <1>3, RefInvInit, RefInvStep, PTL DEF Spec

=============================================================================
