--------------------------- MODULE RxOrderProofs ---------------------------
(* The RX ring of rtl8125_recv_packet hands frames to the caller in the   *)
(* order the NIC completed them (RxInOrder), for every ring size and      *)
(* frame count, when a cache line holds one descriptor.  The inductive    *)
(* invariant describes the ring as a circular queue: from the first slot  *)
(* the driver has not consumed, Pending slots hold the next completions   *)
(* in order, and every other slot is the NIC's, except the one the driver *)
(* is between RxGot and the write-back of its re-arm.                      *)
EXTENDS RxRingProofs

(* The slot after i in ring order: rx_idx = (rx_idx + 1) % NUM_RX_DESC and *)
(* the NIC's wrap at the EOR slot.                                         *)
Succ(i) == IF i = NumRxDesc - 1 THEN 0 ELSE i + 1

(* Driver phases after RxGot consumed rx_idx, before RxClean advanced it. *)
PostGot == {"invbuf", "copy", "rearm", "clean"}
InUse == {"invbuf", "copy", "rearm"}

(* The first slot whose completion the driver has not yet consumed. *)
Base == IF pc \in PostGot THEN Succ(rx_idx) ELSE rx_idx

(* Completions the NIC made and the driver has not consumed. *)
Pending == Len(accepted) - Len(taken)

(* The distance of slot s from Base, going round the ring. *)
Pos(s) == IF s >= Base THEN s - Base ELSE s - Base + NumRxDesc

(* EOR marks exactly the last slot (Init and reinit_desc write it so).    *)
EorInv == \A i \in Slots : mem[i].eor = (i = NumRxDesc - 1)

(* The NIC's next slot is Pending places after Base. *)
NicAt ==
  nic = IF Base + Pending < NumRxDesc THEN Base + Pending
                                      ELSE Base + Pending - NumRxDesc

(* The Pending slots from Base are completed, in acceptance order. *)
Queue ==
  \A s \in Slots : Pos(s) < Pending =>
    ~mem[s].own /\ mem[s].tag = accepted[Len(taken) + 1 + Pos(s)]

(* Every other slot is armed for the NIC, except rx_idx while the driver *)
(* copies and re-arms it and until its dirty line reaches memory.        *)
Free ==
  \A s \in Slots : Pos(s) >= Pending =>
    \/ mem[s].own
    \/ s = rx_idx /\ (pc \in InUse \/ (pc = "clean" /\ dline[LineOf(s)] = "D"))

(* What the driver's phases know: a completion is pending at RxGot and   *)
(* its cached copy is memory's; rx_idx stays completed in memory while   *)
(* it is in use; the only dirty line is rx_idx's re-arm, before RxClean.  *)
Consuming ==
  /\ pc = "got" =>
       /\ Pending >= 1
       /\ dline[LineOf(rx_idx)] # "I" => dcache[rx_idx] = mem[rx_idx]
  /\ pc \in InUse => Pending <= NumRxDesc - 1 /\ ~mem[rx_idx].own
  /\ \A l \in Lines : dline[l] = "D" =>
       /\ pc = "clean" /\ l = LineOf(rx_idx) /\ dcache[rx_idx] = Armed(rx_idx)
       /\ Pending <= NumRxDesc - 1 /\ ~mem[rx_idx].own

(* The RX ring is a circular queue shared by the NIC and                  *)
(* rtl8125_recv_packet: the completions not yet consumed sit, in order, in *)
(* consecutive slots from the one after the last slot the driver consumed,*)
(* the NIC writes the next one right after them, and every other          *)
(* descriptor is armed for the NIC, except the one the driver is copying  *)
(* and re-arming, whose re-arm reaches memory only by the clean or an      *)
(* eviction.  This is the inductive invariant behind RxFifo.              *)
RxInv ==
  /\ TypeOK /\ HostCacheCoherent /\ EorInv /\ IsPrefix(taken, accepted)
  /\ Pending <= NumRxDesc /\ NicAt /\ Queue /\ Free /\ Consuming

-----------------------------------------------------------------------------
(* Lemmas about the ring arithmetic. *)

(* With one descriptor per line, a line is its slot. *)
LEMMA OneLine ==
  ASSUME DescPerLine = 1
  PROVE  /\ Lines = Slots
         /\ \A i \in Slots : LineOf(i) = i
BY NumRxDescAssumption DEF Lines, Slots, LineOf

(* rx_idx + 1 modulo the ring size is the successor slot. *)
LEMMA SuccMod ==
  \A i \in Slots : (i + 1) % NumRxDesc = Succ(i) /\ Succ(i) \in Slots
BY NumRxDescAssumption DEF Succ, Slots

(* Base is a slot, and slot positions lie in 0 .. NumRxDesc - 1, Base's  *)
(* being 0.                                                               *)
LEMMA PosRange ==
  ASSUME rx_idx \in Slots
  PROVE  /\ Base \in Slots
         /\ \A s \in Slots : Pos(s) \in 0 .. NumRxDesc - 1
         /\ Pos(Base) = 0
         /\ \A s, t \in Slots : Pos(s) = Pos(t) => s = t
         /\ pc \in PostGot => Pos(rx_idx) = NumRxDesc - 1
         /\ pc \notin PostGot => Base = rx_idx
BY NumRxDescAssumption DEF Base, Succ, Pos, Slots

-----------------------------------------------------------------------------
(* The initial state: nothing pending, every slot armed. *)
LEMMA RxInvInit == Init => RxInv
<1> SUFFICES ASSUME Init PROVE RxInv
  OBVIOUS
<1>1. TypeOK /\ HostCacheCoherent
  BY TypeInit DEF Init, HostCacheCoherent
<1>2. Pending = 0 /\ IsPrefix(taken, accepted) /\ Base = 0
  BY DEF Init, Pending, IsPrefix, Base, PostGot
<1>3. EorInv /\ NicAt
  BY <1>2, NumRxDescAssumption DEF Init, EorInv, Armed, NicAt
<1>4. Queue /\ Free
  BY <1>2, NumRxDescAssumption DEF Init, Queue, Free, Pos, Armed, Slots
<1>5. Consuming
  BY <1>2 DEF Init, Consuming, InUse
<1>6. QED
  BY <1>1, <1>2, <1>3, <1>4, <1>5, NumRxDescAssumption DEF RxInv

-----------------------------------------------------------------------------
(* Steps that leave the ring, the NIC, the descriptor cache and the two   *)
(* frame logs alone, and move the driver at most inside its copy phase,   *)
(* keep the invariant.                                                    *)
LEMMA RxFrame ==
  ASSUME RxInv, TypeOK', HostCacheCoherent',
         mem' = mem, dline' = dline, dcache' = dcache, nic' = nic,
         rx_idx' = rx_idx, accepted' = accepted, taken' = taken,
         pc' = pc \/ (pc \in InUse /\ pc' \in InUse)
  PROVE  RxInv'
<1>1. Base' = Base /\ Pending' = Pending
  BY DEF Base, PostGot, InUse, Pending
<1>2. \A s \in Slots : Pos(s)' = Pos(s)
  BY <1>1 DEF Pos
<1>3. EorInv' /\ IsPrefix(taken, accepted)' /\ Pending' <= NumRxDesc /\ NicAt'
  BY <1>1 DEF RxInv, EorInv, NicAt
<1>4. Queue'
  BY <1>1, <1>2 DEF RxInv, Queue
<1>5. Free'
  BY <1>1, <1>2 DEF RxInv, Free
<1>6. Consuming'
  BY <1>1 DEF RxInv, Consuming, InUse
<1>7. QED
  BY <1>3, <1>4, <1>5, <1>6 DEF RxInv


-----------------------------------------------------------------------------
(* The NIC completes the slot at nic.  That slot is the one Pending places *)
(* after Base, so the queue grows at its tail; nic then moves on, wrapping *)
(* at the EOR slot exactly where rx_idx wraps.                            *)
LEMMA NicAcceptStep ==
  ASSUME RxInv, TypeOK', HostCacheCoherent', NicAccept
  PROVE  RxInv'
<1>0. /\ TypeOK /\ EorInv /\ IsPrefix(taken, accepted) /\ Pending <= NumRxDesc
      /\ NicAt /\ Queue /\ Free /\ Consuming
  BY DEF RxInv
<1>1. /\ rx_idx \in Slots /\ accepted \in Seq(1 .. MaxPkts) /\ taken \in Seq(Frames)
      /\ mem \in [Slots -> Status]
  BY <1>0 DEF TypeOK
<1>2. /\ Base \in Slots /\ \A s \in Slots : Pos(s) \in 0 .. NumRxDesc - 1
      /\ Pos(Base) = 0 /\ \A s, t \in Slots : Pos(s) = Pos(t) => s = t
      /\ pc \in PostGot => Pos(rx_idx) = NumRxDesc - 1
      /\ pc \notin PostGot => Base = rx_idx
  BY <1>1, PosRange
<1>3. PICK len \in FrameLens, err \in RxErrs :
        mem' = [mem EXCEPT ![nic] = [own |-> FALSE, eor |-> mem[nic].eor, err |-> err,
                                     len |-> len, tag |-> arrived + 1]]
  BY DEF NicAccept
<1>4. /\ nic \in Slots /\ mem[nic].own
      /\ nic' = IF mem[nic].eor THEN 0 ELSE nic + 1
      /\ accepted' = Append(accepted, arrived + 1)
      /\ UNCHANGED <<dline, dcache, rx_idx, pc, taken>>
  BY DEF NicAccept, drv
<1>5. Pending \in 0 .. NumRxDesc
  BY <1>0, <1>1 DEF IsPrefix, Pending
<1>6. Pending # NumRxDesc
  BY <1>0, <1>2, <1>4, <1>5, NumRxDescAssumption DEF NicAt, Queue
<1>7. Pos(nic) = Pending
  BY <1>0, <1>2, <1>4, <1>5, <1>6, NumRxDescAssumption DEF NicAt, Pos, Slots
<1>8. /\ Base' = Base /\ \A s \in Slots : Pos(s)' = Pos(s)
      /\ Len(accepted') = Len(accepted) + 1
      /\ \A k \in 1 .. Len(accepted) : accepted'[k] = accepted[k]
      /\ accepted'[Len(accepted) + 1] = arrived + 1
      /\ Pending' = Pending + 1
  BY <1>1, <1>4 DEF Base, Pos, Pending
<1>9. EorInv'
  BY <1>0, <1>3, <1>4 DEF EorInv
<1>10. IsPrefix(taken, accepted)'
  BY <1>0, <1>1, <1>4, <1>8 DEF IsPrefix
<1>11. Pending' <= NumRxDesc
  BY <1>5, <1>6, <1>8, NumRxDescAssumption
<1>12. NicAt'
  <2>1. nic' = Succ(nic)
    BY <1>0, <1>4 DEF EorInv, Succ
  <2>2. QED
    BY <2>1, <1>0, <1>2, <1>5, <1>6, <1>8, NumRxDescAssumption DEF NicAt, Succ, Slots
<1>13. Queue'
  <2> SUFFICES ASSUME NEW s \in Slots, Pos(s) < Pending + 1
               PROVE  ~mem'[s].own /\ mem'[s].tag = accepted'[Len(taken) + 1 + Pos(s)]
    BY <1>4, <1>8 DEF Queue
  <2>1. CASE s = nic
    BY <2>1, <1>1, <1>3, <1>4, <1>7, <1>8 DEF Pending
  <2>2. CASE s # nic
    <3>1. Pos(s) < Pending
      BY <2>2, <1>2, <1>4, <1>7
    <3>2. Len(taken) + 1 + Pos(s) \in 1 .. Len(accepted)
      BY <3>1, <1>1, <1>2 DEF Pending
    <3>3. QED
      BY <2>2, <3>1, <3>2, <1>0, <1>3, <1>4, <1>8 DEF Queue
  <2>3. QED
    BY <2>1, <2>2
<1>14. Free'
  <2> SUFFICES ASSUME NEW s \in Slots, Pos(s) >= Pending + 1
               PROVE  \/ mem'[s].own
                      \/ s = rx_idx /\ (pc \in InUse \/ (pc = "clean" /\ dline[LineOf(s)] = "D"))
    BY <1>4, <1>8 DEF Free
  <2>1. s # nic
    BY <1>5, <1>7
  <2>2. Pos(s) >= Pending
    BY <1>2, <1>5
  <2>3. QED
    BY <2>1, <2>2, <1>0, <1>1, <1>3, <1>4 DEF Free
<1>15. pc = "got" => rx_idx # nic
  BY <1>0, <1>1, <1>2, <1>4, <1>5 DEF Consuming, Queue, PostGot
<1>16. ASSUME pc \in InUse \/ \E l \in Lines : dline[l] = "D"
       PROVE  rx_idx # nic /\ Pending <= NumRxDesc - 2
  <2>1. ~mem[rx_idx].own /\ Pending <= NumRxDesc - 1 /\ pc \in PostGot
    BY <1>16, <1>0 DEF Consuming, InUse, PostGot
  <2>2. rx_idx # nic
    BY <2>1, <1>4
  <2>3. Pending # NumRxDesc - 1
    BY <2>1, <2>2, <1>1, <1>2, <1>4, <1>7
  <2>4. QED
    BY <2>1, <2>2, <2>3, <1>5, NumRxDescAssumption
<1>17. Consuming'
  <2>0. \A s \in Slots : s # nic => mem'[s] = mem[s]
    BY <1>1, <1>3
  <2>1. (pc = "got" => Pending >= 1 /\ (dline[LineOf(rx_idx)] # "I" => dcache[rx_idx] = mem[rx_idx]))'
    <3> SUFFICES ASSUME pc = "got"
                 PROVE  Pending' >= 1 /\ (dline[LineOf(rx_idx)] # "I" => dcache[rx_idx] = mem'[rx_idx])
      BY <1>4
    <3>1. mem'[rx_idx] = mem[rx_idx]
      BY <2>0, <1>1, <1>15
    <3>2. QED
      BY <3>1, <1>0, <1>5, <1>8 DEF Consuming
  <2>2. (pc \in InUse => Pending <= NumRxDesc - 1 /\ ~mem[rx_idx].own)'
    <3> SUFFICES ASSUME pc \in InUse
                 PROVE  Pending' <= NumRxDesc - 1 /\ ~mem'[rx_idx].own
      BY <1>4
    <3>1. rx_idx # nic /\ Pending <= NumRxDesc - 2
      BY <1>16, Zenon
    <3>2. QED
      BY <3>1, <2>0, <1>0, <1>1, <1>5, <1>8, NumRxDescAssumption DEF Consuming
  <2>3. (\A l \in Lines : dline[l] = "D" =>
           /\ pc = "clean" /\ l = LineOf(rx_idx) /\ dcache[rx_idx] = Armed(rx_idx)
           /\ Pending <= NumRxDesc - 1 /\ ~mem[rx_idx].own)'
    <3> SUFFICES ASSUME NEW l \in Lines, dline[l] = "D"
                 PROVE  /\ pc = "clean" /\ l = LineOf(rx_idx) /\ dcache[rx_idx] = Armed(rx_idx)
                        /\ Pending' <= NumRxDesc - 1 /\ ~mem'[rx_idx].own
      BY <1>4
    <3>1. rx_idx # nic /\ Pending <= NumRxDesc - 2
      BY <1>16, Zenon
    <3>2. QED
      BY <3>1, <2>0, <1>0, <1>1, <1>5, <1>8, NumRxDescAssumption DEF Consuming
  <2>4. QED
    BY <2>1, <2>2, <2>3 DEF Consuming
<1>18. QED
  BY <1>9, <1>10, <1>11, <1>12, <1>13, <1>14, <1>17 DEF RxInv


-----------------------------------------------------------------------------
(* Steps that change only the descriptor cache, leave its dirty lines and *)
(* their contents alone and do not cross RxGot or RxClean (a clean line    *)
(* evicted or prefetched, the invalidate, the two status reads) keep the  *)
(* invariant, if a move to "got" finds a completion whose cached copy, if  *)
(* any, is memory's.                                                       *)
LEMMA CacheOnlyStep ==
  ASSUME DescPerLine = 1, RxInv, TypeOK', HostCacheCoherent',
         mem' = mem, nic' = nic, rx_idx' = rx_idx, accepted' = accepted,
         taken' = taken,
         pc' = pc \/ (pc \notin PostGot /\ pc' \notin PostGot),
         \A x \in Slots : (dline'[x] = "D") = (dline[x] = "D"),
         \A x \in Slots : dline[x] = "D" => dcache'[x] = dcache[x],
         pc' = "got" => Pending >= 1 /\ (dline'[rx_idx] # "I" => dcache'[rx_idx] = mem[rx_idx])
  PROVE  RxInv'
<1>0. /\ TypeOK /\ EorInv /\ IsPrefix(taken, accepted) /\ Pending <= NumRxDesc
      /\ NicAt /\ Queue /\ Free /\ Consuming
  BY DEF RxInv
<1>1. /\ Lines = Slots /\ \A i \in Slots : LineOf(i) = i
      /\ rx_idx \in Slots
  BY OneLine, <1>0 DEF TypeOK
<1>2. Base' = Base /\ Pending' = Pending /\ \A s \in Slots : Pos(s)' = Pos(s)
  BY DEF Base, PostGot, Pending, Pos
<1>3. EorInv' /\ IsPrefix(taken, accepted)' /\ Pending' <= NumRxDesc /\ NicAt' /\ Queue'
  BY <1>0, <1>2 DEF EorInv, NicAt, Queue
<1>4. Free'
  <2> SUFFICES ASSUME NEW s \in Slots, Pos(s) >= Pending, ~mem[s].own
               PROVE  s = rx_idx /\ (pc' \in InUse \/ (pc' = "clean" /\ dline'[s] = "D"))
    BY <1>1, <1>2 DEF Free
  <2>1. s = rx_idx /\ (pc \in InUse \/ (pc = "clean" /\ dline[s] = "D"))
    BY <1>0, <1>1 DEF Free
  <2>2. pc' = pc
    BY <2>1 DEF InUse, PostGot
  <2>3. QED
    BY <2>1, <2>2
<1>5. Consuming'
  <2>1. (pc = "got" => Pending >= 1 /\ (dline[LineOf(rx_idx)] # "I" => dcache[rx_idx] = mem[rx_idx]))'
    BY <1>1, <1>2
  <2>2. (pc \in InUse => Pending <= NumRxDesc - 1 /\ ~mem[rx_idx].own)'
    BY <1>0, <1>2 DEF Consuming, InUse, PostGot
  <2>3. (\A l \in Lines : dline[l] = "D" =>
           /\ pc = "clean" /\ l = LineOf(rx_idx) /\ dcache[rx_idx] = Armed(rx_idx)
           /\ Pending <= NumRxDesc - 1 /\ ~mem[rx_idx].own)'
    <3> SUFFICES ASSUME NEW l \in Slots, dline'[l] = "D"
                 PROVE  /\ pc' = "clean" /\ l = rx_idx /\ dcache'[rx_idx] = Armed(rx_idx)
                        /\ Pending <= NumRxDesc - 1 /\ ~mem[rx_idx].own
      BY <1>1, <1>2
    <3>1. dline[l] = "D"
      OBVIOUS
    <3>2. pc = "clean" /\ l = rx_idx /\ dcache[rx_idx] = Armed(rx_idx)
          /\ Pending <= NumRxDesc - 1 /\ ~mem[rx_idx].own
      BY <3>1, <1>0, <1>1 DEF Consuming
    <3>3. pc' = pc
      BY <3>2 DEF PostGot
    <3>4. QED
      BY <3>1, <3>2, <3>3
  <2>4. QED
    BY <2>1, <2>2, <2>3 DEF Consuming
<1>6. QED
  BY <1>3, <1>4, <1>5 DEF RxInv


(* The cache evicts or prefetches a descriptor line.  A dirty line can   *)
(* only be rx_idx's re-arm, and its write-back hands the slot to the NIC. *)
LEMMA DescCacheStep ==
  ASSUME DescPerLine = 1, RxInv, TypeOK', HostCacheCoherent',
         NEW l \in Lines, DescEvict(l) \/ DescPrefetch(l)
  PROVE  RxInv'
<1>0. /\ TypeOK /\ HostCacheCoherent /\ EorInv /\ Pending <= NumRxDesc
      /\ Queue /\ Free /\ Consuming
  BY DEF RxInv
<1>1. /\ Lines = Slots /\ \A i \in Slots : LineOf(i) = i
      /\ rx_idx \in Slots /\ l \in Slots
      /\ dline \in [Slots -> {"I", "C", "D"}] /\ dline' \in [Slots -> {"I", "C", "D"}]
      /\ dcache \in [Slots -> Status] /\ mem \in [Slots -> Status]
  BY OneLine, <1>0 DEF TypeOK
<1>9. Pending \in 0 .. NumRxDesc
  BY <1>0 DEF RxInv, TypeOK, IsPrefix, Pending
<1>2. UNCHANGED <<nic, rx_idx, pc, accepted, taken>>
  BY DEF DescEvict, DescPrefetch, drv
<1>3. CASE DescEvict(l) /\ dline[l] = "D"
  <2>1. /\ pc = "clean" /\ l = rx_idx /\ dcache[rx_idx] = Armed(rx_idx)
        /\ Pending <= NumRxDesc - 1
    BY <1>3, <1>0, <1>1 DEF Consuming
  <2>2. /\ mem'[rx_idx] = Armed(rx_idx)
        /\ \A j \in Slots : j # rx_idx => mem'[j] = mem[j]
        /\ dline'[rx_idx] = "I"
        /\ \A j \in Slots : j # rx_idx => dline'[j] = dline[j]
    BY <1>3, <2>1, <1>1 DEF DescEvict, WrittenBack
  <2>3. /\ rx_idx' = rx_idx /\ Base' = Base /\ Pending' = Pending
        /\ \A s \in Slots : Pos(s)' = Pos(s)
    BY <1>2 DEF Base, Pending, Pos
  <2>4. Pos(rx_idx) >= Pending
    BY <2>1, <1>1, PosRange DEF PostGot
  <2>5. EorInv' /\ IsPrefix(taken, accepted)' /\ Pending' <= NumRxDesc /\ NicAt'
    BY <2>2, <2>3, <1>2, <1>0 DEF RxInv, EorInv, Armed, NicAt
  <2>6. Queue'
    <3> SUFFICES ASSUME NEW s \in Slots, Pos(s) < Pending
                 PROVE  ~mem'[s].own /\ mem'[s].tag = accepted[Len(taken) + 1 + Pos(s)]
      BY <2>3, <1>2 DEF Queue
    <3>1. s # rx_idx
      BY <2>4, <1>9, <1>1, PosRange
    <3>2. QED
      BY <3>1, <2>2, <1>0 DEF Queue
  <2>7. Free'
    BY <2>1, <2>2, <2>3, <1>0, <1>1, <1>2 DEF Free, Armed
  <2>8. Consuming'
    <3>1. \A x \in Slots : dline'[x] # "D"
      BY <2>1, <2>2, <1>0, <1>1 DEF Consuming
    <3>2. QED
      BY <3>1, <2>1, <1>1, <1>2 DEF Consuming, InUse
  <2>9. QED
    BY <2>5, <2>6, <2>7, <2>8 DEF RxInv
<1>4. CASE DescEvict(l) /\ dline[l] # "D"
  <2>1. /\ mem' = mem /\ dline' = [dline EXCEPT ![l] = "I"]
        /\ \A j \in Slots : j # l => dcache'[j] = dcache[j]
    BY <1>4, <1>1 DEF DescEvict, Dropped
  <2>2. pc = "got" => (dline'[rx_idx] # "I" => dcache'[rx_idx] = mem[rx_idx])
    BY <2>1, <1>0, <1>1 DEF Consuming
  <2>3. QED
    BY <1>4, <2>1, <2>2, <1>0, <1>1, <1>2, CacheOnlyStep DEF Consuming
<1>5. CASE DescPrefetch(l)
  <2>1. /\ mem' = mem /\ dline[l] = "I" /\ dline' = [dline EXCEPT ![l] = "C"]
        /\ dcache'[l] = mem[l]
        /\ \A j \in Slots : j # l => dcache'[j] = dcache[j]
    BY <1>5, <1>1 DEF DescPrefetch, Filled
  <2>2. pc = "got" => (dline'[rx_idx] # "I" => dcache'[rx_idx] = mem[rx_idx])
    BY <2>1, <1>0, <1>1 DEF Consuming
  <2>3. QED
    BY <2>1, <2>2, <1>0, <1>1, <1>2, CacheOnlyStep DEF Consuming
<1>6. QED
  BY <1>3, <1>4, <1>5


(* The poll loop: invalidate the line of rx_idx, then read its status.   *)
(* A status read with OWN clear sees memory's completion, which is the    *)
(* head of the queue, so a completion is pending when the driver takes it.*)
LEMMA DriverLoadStep ==
  ASSUME DescPerLine = 1, RxInv, TypeOK', HostCacheCoherent',
         RxInvalidate \/ RxPollRead \/ RxFinalCheck
  PROVE  RxInv'
<1>0. /\ TypeOK /\ HostCacheCoherent /\ Queue /\ Free /\ Consuming
  BY DEF RxInv
<1>1. /\ Lines = Slots /\ \A i \in Slots : LineOf(i) = i
      /\ rx_idx \in Slots
      /\ dline \in [Slots -> {"I", "C", "D"}] /\ dline' \in [Slots -> {"I", "C", "D"}]
      /\ dcache \in [Slots -> Status] /\ mem \in [Slots -> Status]
  BY OneLine, <1>0 DEF TypeOK
<1>2. /\ mem' = mem /\ nic' = nic /\ rx_idx' = rx_idx
      /\ accepted' = accepted /\ taken' = taken
      /\ pc \in {"idle", "poll", "read", "final"}
      /\ pc' \in {"read", "poll", "final", "got", "idle"}
  BY DEF RxInvalidate, RxPollRead, RxFinalCheck
<1>3. \A x \in Slots : dline[x] # "D"
  BY <1>0, <1>1, <1>2 DEF Consuming
<1>4. pc \notin PostGot /\ pc' \notin PostGot
  BY <1>2 DEF PostGot
<1>5. CASE RxInvalidate
  <2>1. dline' = [dline EXCEPT ![rx_idx] = "I"] /\ pc' = "read"
    BY <1>5, <1>1 DEF RxInvalidate
  <2>2. \A x \in Slots : (dline'[x] = "D") = (dline[x] = "D")
    BY <2>1, <1>1, <1>3
  <2>3. QED
    BY <2>1, <2>2, <1>2, <1>3, <1>4, CacheOnlyStep
<1>6. CASE RxPollRead \/ RxFinalCheck
  <2>1. /\ LoadDesc(rx_idx)
        /\ pc' = "got" => ~Seen(rx_idx).own
    BY <1>6 DEF RxPollRead, RxFinalCheck
  <2>2. /\ dcache' = LoadedCache(rx_idx)
        /\ \A x \in Slots : dline'[x] \in {dline[x], "C"}
        /\ dline'[rx_idx] # "I"
    BY <2>1, <1>1 DEF LoadDesc
  <2>3. \A x \in Slots : (dline'[x] = "D") = (dline[x] = "D")
    BY <2>2, <1>3
  <2>4. dcache'[rx_idx] = Seen(rx_idx)
    BY <2>2 DEF Seen
  <2>5. ASSUME ~Seen(rx_idx).own PROVE dcache'[rx_idx] = mem[rx_idx]
    <3>1. CASE dline[LineOf(rx_idx)] = "I"
      BY <3>1, <2>2, <1>1 DEF LoadedCache, Filled
    <3>2. CASE dline[LineOf(rx_idx)] # "I"
      <4>1. dcache'[rx_idx] = dcache[rx_idx]
        BY <3>2, <2>2 DEF LoadedCache
      <4>2. QED
        BY <4>1, <2>4, <2>5, <3>2, <1>0, <1>1 DEF HostCacheCoherent
    <3>3. QED
      BY <3>1, <3>2
  <2>6. ASSUME ~Seen(rx_idx).own PROVE Pending >= 1
    <3>1. ~mem[rx_idx].own
      BY <2>4, <2>5, <2>6
    <3>2. Base = rx_idx /\ Pos(rx_idx) = 0 /\ Pending \in 0 .. NumRxDesc
      BY <1>1, <1>4, PosRange DEF RxInv, TypeOK, IsPrefix, Pending
    <3>3. QED
      BY <3>1, <3>2, <1>0, <1>1, <1>2 DEF Free, InUse
  <2>7. QED
    BY <2>1, <2>3, <2>5, <2>6, <1>2, <1>3, <1>4, CacheOnlyStep
<1>7. QED
  BY <1>5, <1>6


(* RxGot takes the head of the queue: the completion at rx_idx is the     *)
(* oldest one not yet consumed, and Base moves past rx_idx.               *)
LEMMA RxGotStep ==
  ASSUME DescPerLine = 1, RxInv, TypeOK', HostCacheCoherent', RxGot
  PROVE  RxInv'
<1>0. /\ TypeOK /\ EorInv /\ IsPrefix(taken, accepted) /\ Pending <= NumRxDesc
      /\ NicAt /\ Queue /\ Free /\ Consuming
  BY DEF RxInv
<1>1. /\ Lines = Slots /\ \A i \in Slots : LineOf(i) = i
      /\ rx_idx \in Slots /\ Succ(rx_idx) \in Slots
      /\ dline \in [Slots -> {"I", "C", "D"}] /\ dcache \in [Slots -> Status]
      /\ mem \in [Slots -> Status]
      /\ accepted \in Seq(1 .. MaxPkts) /\ taken \in Seq(Frames)
  BY OneLine, SuccMod, <1>0 DEF TypeOK
<1>2. /\ pc = "got" /\ LoadDesc(rx_idx)
      /\ taken' = Append(taken, Seen(rx_idx).tag)
      /\ pc' \in {"rearm", "invbuf"}
      /\ UNCHANGED <<mem, nic, rx_idx, accepted>>
  BY DEF RxGot
<1>3. /\ Pending \in 1 .. NumRxDesc
      /\ Base = rx_idx /\ Pos(rx_idx) = 0
      /\ Base' = Succ(rx_idx)
  BY <1>0, <1>1, <1>2, PosRange DEF Consuming, IsPrefix, Pending, Base, PostGot
<1>4. Seen(rx_idx) = mem[rx_idx]
  BY <1>0, <1>1, <1>2 DEF Consuming, Seen, LoadedCache, Filled
<1>5. ~mem[rx_idx].own /\ mem[rx_idx].tag = accepted[Len(taken) + 1]
  BY <1>0, <1>1, <1>3 DEF Queue
<1>6. /\ Len(taken') = Len(taken) + 1
      /\ \A k \in 1 .. Len(taken) : taken'[k] = taken[k]
      /\ taken'[Len(taken) + 1] = accepted[Len(taken) + 1]
      /\ Pending' = Pending - 1
  BY <1>1, <1>2, <1>4, <1>5 DEF Pending
<1> DEFINE NewPos(x) == IF x >= Succ(rx_idx) THEN x - Succ(rx_idx)
                                            ELSE x - Succ(rx_idx) + NumRxDesc
<1>7. /\ \A s \in Slots : Pos(s)' = NewPos(s)
      /\ \A s \in Slots : NewPos(s) = IF s = rx_idx THEN NumRxDesc - 1 ELSE Pos(s) - 1
  BY <1>1, <1>2, <1>3, NumRxDescAssumption DEF Pos, Base, Succ, PostGot, Slots
<1>8. EorInv' /\ IsPrefix(taken, accepted)' /\ Pending' <= NumRxDesc
  <2>1. EorInv'
    BY <1>0, <1>2 DEF EorInv
  <2>2. IsPrefix(taken, accepted)'
    <3>1. Len(taken) + 1 <= Len(accepted)
      BY <1>1, <1>3 DEF Pending
    <3>2. QED
      BY <3>1, <1>0, <1>1, <1>2, <1>6 DEF IsPrefix
  <2>3. Pending' <= NumRxDesc
    BY <1>3, <1>6, NumRxDescAssumption
  <2>4. QED
    BY <2>1, <2>2, <2>3
<1>9. NicAt'
  BY <1>0, <1>1, <1>2, <1>3, <1>6, NumRxDescAssumption DEF NicAt, Succ, Slots
<1>10. Queue'
  <2> SUFFICES ASSUME NEW s \in Slots, NewPos(s) < Pending - 1
               PROVE  ~mem[s].own /\ mem[s].tag = accepted[Len(taken) + 1 + 1 + NewPos(s)]
    BY <1>2, <1>6, <1>7 DEF Queue
  <2>1. s # rx_idx
    BY <1>1, <1>3, <1>7, NumRxDescAssumption
  <2>2. Pos(s) = NewPos(s) + 1 /\ Pos(s) < Pending
    BY <2>1, <1>3, <1>7, <1>1, PosRange, NumRxDescAssumption
  <2>3. ~mem[s].own /\ mem[s].tag = accepted[Len(taken) + 1 + Pos(s)]
    BY <2>2, <1>0 DEF Queue
  <2>4. Len(taken) + 1 + Pos(s) = Len(taken) + 1 + 1 + NewPos(s)
    <3>1. Pos(s) \in Int
      BY <1>1, PosRange
    <3>2. NewPos(s) \in Int
      BY <1>1, NumRxDescAssumption DEF Succ, Slots
    <3>3. Len(taken) \in Nat
      BY <1>1
    <3>4. QED
      BY <2>2, <3>1, <3>2, <3>3
  <2>5. QED
    BY <2>3, <2>4
<1>11. Free'
  <2> SUFFICES ASSUME NEW s \in Slots, NewPos(s) >= Pending - 1
               PROVE  mem[s].own \/ (s = rx_idx /\ pc' \in InUse)
    BY <1>2, <1>6, <1>7 DEF Free
  <2>1. CASE s = rx_idx
    BY <2>1, <1>2 DEF InUse
  <2>2. CASE s # rx_idx
    <3>1. Pos(s) >= Pending
      BY <2>2, <1>7, <1>3, <1>1, PosRange, NumRxDescAssumption
    <3>2. QED
      BY <3>1, <2>2, <1>0 DEF Free
  <2>3. QED
    BY <2>1, <2>2
<1>12. Consuming'
  <2>1. \A x \in Slots : dline'[x] # "D"
    BY <1>0, <1>1, <1>2 DEF Consuming, LoadDesc
  <2>2. (pc \in InUse => Pending <= NumRxDesc - 1 /\ ~mem[rx_idx].own)'
    BY <1>2, <1>3, <1>5, <1>6, NumRxDescAssumption
  <2>3. QED
    BY <2>1, <2>2, <1>1, <1>2 DEF Consuming
<1>13. QED
  BY <1>8, <1>9, <1>10, <1>11, <1>12 DEF RxInv


(* reinit_desc re-arms rx_idx in the cache only: its line turns dirty and *)
(* memory still holds the consumed completion until the clean.            *)
LEMMA RxRearmStep ==
  ASSUME DescPerLine = 1, RxInv, TypeOK', HostCacheCoherent', RxRearm
  PROVE  RxInv'
<1>0. /\ TypeOK /\ EorInv /\ IsPrefix(taken, accepted) /\ Pending <= NumRxDesc
      /\ NicAt /\ Queue /\ Free /\ Consuming
  BY DEF RxInv
<1>1. /\ Lines = Slots /\ \A i \in Slots : LineOf(i) = i
      /\ rx_idx \in Slots
      /\ dline \in [Slots -> {"I", "C", "D"}]
  BY OneLine, <1>0 DEF TypeOK
<1>2. /\ pc = "rearm" /\ pc' = "clean"
      /\ dcache'[rx_idx] = Armed(rx_idx)
      /\ dline' = [dline EXCEPT ![rx_idx] = "D"]
      /\ UNCHANGED <<mem, nic, rx_idx, accepted, taken>>
  BY <1>1, CacheHelpers DEF RxRearm, TypeOK, RxInv
<1>3. Base' = Base /\ Pending' = Pending /\ \A s \in Slots : Pos(s)' = Pos(s)
  BY <1>2 DEF Base, PostGot, Pending, Pos
<1>4. /\ Pending <= NumRxDesc - 1 /\ ~mem[rx_idx].own
      /\ \A x \in Slots : dline[x] # "D"
  BY <1>0, <1>1, <1>2 DEF Consuming, InUse
<1>5. EorInv' /\ IsPrefix(taken, accepted)' /\ Pending' <= NumRxDesc /\ NicAt' /\ Queue'
  BY <1>0, <1>2, <1>3 DEF EorInv, NicAt, Queue
<1>6. Free'
  <2> SUFFICES ASSUME NEW s \in Slots, Pos(s) >= Pending, ~mem[s].own
               PROVE  s = rx_idx /\ dline'[s] = "D"
    BY <1>1, <1>2, <1>3 DEF Free
  <2>1. s = rx_idx
    BY <1>0, <1>2 DEF Free, InUse
  <2>2. QED
    BY <2>1, <1>1, <1>2
<1>7. Consuming'
  <2>1. \A x \in Slots : dline'[x] = "D" => x = rx_idx
    BY <1>1, <1>2, <1>4
  <2>2. QED
    BY <2>1, <1>1, <1>2, <1>3, <1>4 DEF Consuming, InUse
<1>8. QED
  BY <1>5, <1>6, <1>7 DEF RxInv

(* The clean writes the re-armed descriptor back if its line is still     *)
(* dirty (an eviction may have written it already) and advances rx_idx:   *)
(* either way the slot is the NIC's again and Base does not move.         *)
LEMMA RxCleanStep ==
  ASSUME DescPerLine = 1, RxInv, TypeOK', HostCacheCoherent', RxClean
  PROVE  RxInv'
<1>0. /\ TypeOK /\ EorInv /\ IsPrefix(taken, accepted) /\ Pending <= NumRxDesc
      /\ NicAt /\ Queue /\ Free /\ Consuming
  BY DEF RxInv
<1>1. /\ Lines = Slots /\ \A i \in Slots : LineOf(i) = i
      /\ rx_idx \in Slots /\ Succ(rx_idx) \in Slots
      /\ dline \in [Slots -> {"I", "C", "D"}] /\ mem \in [Slots -> Status]
      /\ dcache \in [Slots -> Status]
  BY OneLine, SuccMod, <1>0 DEF TypeOK
<1>2. /\ pc = "clean" /\ pc' = "idle" /\ rx_idx' = Succ(rx_idx)
      /\ UNCHANGED <<nic, accepted, taken>>
  BY <1>1, SuccMod DEF RxClean
<1>3. Base' = Base /\ Pending' = Pending /\ \A s \in Slots : Pos(s)' = Pos(s)
  BY <1>2 DEF Base, PostGot, Pending, Pos
<1>4. Pos(rx_idx) = NumRxDesc - 1 /\ Pending \in 0 .. NumRxDesc
  BY <1>0, <1>1, <1>2, PosRange DEF PostGot, TypeOK, IsPrefix, Pending
<1>5. /\ mem'[rx_idx] = IF dline[rx_idx] = "D" THEN Armed(rx_idx) ELSE mem[rx_idx]
      /\ \A j \in Slots : j # rx_idx => mem'[j] = mem[j]
      /\ \A x \in Slots : dline'[x] # "D"
  <2>1. CASE dline[rx_idx] = "D"
    <3>1. dcache[rx_idx] = Armed(rx_idx) /\ \A x \in Slots : dline[x] = "D" => x = rx_idx
      BY <2>1, <1>0, <1>1 DEF Consuming
    <3>2. QED
      BY <2>1, <3>1, <1>1 DEF RxClean, WrittenBack
  <2>2. CASE dline[rx_idx] # "D"
    <3>1. \A x \in Slots : dline[x] = "D" => x = rx_idx
      BY <1>0, <1>1 DEF Consuming
    <3>2. QED
      BY <2>2, <3>1, <1>1 DEF RxClean
  <2>3. QED
    BY <2>1, <2>2
<1>6. EorInv'
  BY <1>0, <1>1, <1>5 DEF EorInv, Armed
<1>7. IsPrefix(taken, accepted)' /\ Pending' <= NumRxDesc /\ NicAt'
  BY <1>0, <1>2, <1>3 DEF NicAt
<1>8. Queue'
  <2> SUFFICES ASSUME NEW s \in Slots, Pos(s) < Pending
               PROVE  ~mem'[s].own /\ mem'[s].tag = accepted[Len(taken) + 1 + Pos(s)]
    BY <1>2, <1>3 DEF Queue
  <2>1. mem'[s] = mem[s]
    <3>1. s = rx_idx => dline[rx_idx] # "D"
      BY <1>0, <1>1, <1>4, NumRxDescAssumption DEF Consuming
    <3>2. QED
      BY <3>1, <1>5
  <2>2. QED
    BY <2>1, <1>0 DEF Queue
<1>9. Free'
  <2> SUFFICES ASSUME NEW s \in Slots, Pos(s) >= Pending
               PROVE  mem'[s].own
    BY <1>3 DEF Free
  <2>1. CASE s = rx_idx
    BY <2>1, <1>0, <1>1, <1>2, <1>5 DEF Free, Armed, InUse
  <2>2. CASE s # rx_idx
    BY <2>2, <1>0, <1>5 DEF Free
  <2>3. QED
    BY <2>1, <2>2
<1>10. Consuming'
  BY <1>1, <1>2, <1>5 DEF Consuming, InUse
<1>11. QED
  BY <1>6, <1>7, <1>8, <1>9, <1>10 DEF RxInv


-----------------------------------------------------------------------------
(* Every step of the ring keeps the circular-queue invariant. *)
LEMMA RxInvStep ==
  ASSUME DescPerLine = 1
  PROVE  RxInv /\ [Next]_vars => RxInv'
<1> SUFFICES ASSUME RxInv, [Next]_vars PROVE RxInv'
  OBVIOUS
<1>1. TypeOK' /\ HostCacheCoherent'
  BY TypeStep, CoherentStep DEF RxInv
<1>2. CASE NicAccept
  BY <1>1, <1>2, NicAcceptStep
<1>3. CASE NicDrop
  <2>1. /\ mem' = mem /\ dline' = dline /\ dcache' = dcache /\ nic' = nic
        /\ rx_idx' = rx_idx /\ pc' = pc /\ accepted' = accepted /\ taken' = taken
    BY <1>3 DEF NicDrop, hw, drv
  <2>2. QED
    BY <1>1, <2>1, RxFrame
<1>4. CASE \E l \in Lines : DescEvict(l) \/ DescPrefetch(l)
  BY <1>1, <1>4, DescCacheStep
<1>5. CASE \E i \in Slots : BufEvict(i) \/ BufPrefetch(i)
  <2>1. /\ mem' = mem /\ dline' = dline /\ dcache' = dcache /\ nic' = nic
        /\ rx_idx' = rx_idx /\ pc' = pc /\ accepted' = accepted /\ taken' = taken
    BY <1>5 DEF BufEvict, BufPrefetch, drv
  <2>2. QED
    BY <1>1, <2>1, RxFrame
<1>6. CASE RxInvalidate \/ RxPollRead \/ RxFinalCheck
  BY <1>1, <1>6, DriverLoadStep
<1>7. CASE RxGot
  BY <1>1, <1>7, RxGotStep
<1>8. CASE RxInvalidateBuf \/ RxCopy
  <2>1. /\ mem' = mem /\ dline' = dline /\ dcache' = dcache /\ nic' = nic
        /\ rx_idx' = rx_idx /\ accepted' = accepted /\ taken' = taken
        /\ pc \in InUse /\ pc' \in InUse
    BY <1>8 DEF RxInvalidateBuf, RxCopy, InUse
  <2>2. QED
    BY <1>1, <2>1, RxFrame
<1>9. CASE RxRearm
  BY <1>1, <1>9, RxRearmStep
<1>10. CASE RxClean
  BY <1>1, <1>10, RxCleanStep
<1>11. CASE UNCHANGED vars
  <2>1. /\ mem' = mem /\ dline' = dline /\ dcache' = dcache /\ nic' = nic
        /\ rx_idx' = rx_idx /\ pc' = pc /\ accepted' = accepted /\ taken' = taken
    BY <1>11 DEF vars, hw, drv
  <2>2. QED
    BY <1>1, <2>1, RxFrame
<1>12. QED
  BY <1>2, <1>3, <1>4, <1>5, <1>6, <1>7, <1>8, <1>9, <1>10, <1>11
     DEF Next, Driver, Hardware

(* rtl8125_recv_packet hands the caller the frames in the order the NIC   *)
(* completed them, none skipped, repeated or invented, for every ring     *)
(* size and frame count, when a cache line holds one descriptor (the run  *)
(* rx_false_sharing shows the order breaks when it holds more).           *)
THEOREM RxFifo ==
  ASSUME DescPerLine = 1
  PROVE  Spec => []RxInOrder
<1>1. Init => RxInv
  BY RxInvInit
<1>2. RxInv /\ [Next]_vars => RxInv'
  BY RxInvStep
<1>3. RxInv => RxInOrder
  BY DEF RxInv, RxInOrder
<1>4. QED
  BY <1>1, <1>2, <1>3, PTL DEF Spec

(* The NIC's next-descriptor pointer, advanced by its wrap at EOR, always *)
(* names a slot of the ring: reinit_desc keeps DESC_EOR on the last slot, *)
(* so the NIC never runs past it.                                          *)
THEOREM NicStaysInRing ==
  ASSUME DescPerLine = 1
  PROVE  Spec => []NicInRing
<1>1. RxInv => NicInRing
  <2> SUFFICES ASSUME RxInv PROVE nic \in Slots
    BY DEF NicInRing
  <2>1. Base \in Slots /\ Pending \in 0 .. NumRxDesc
    BY PosRange DEF RxInv, TypeOK, IsPrefix, Pending
  <2>2. QED
    BY <2>1, NumRxDescAssumption DEF RxInv, NicAt, Slots
<1>2. QED
  BY <1>1, RxInvInit, RxInvStep, PTL DEF Spec

(* The whole receive-ring invariant RxInv holds in every reachable state  *)
(* when a cache line holds one descriptor: the NIC's writes and the        *)
(* driver's poll, copy, re-arm and write-back in rtl8125_recv_packet keep  *)
(* the queue of completed slots, the free slots and the NIC pointer in     *)
(* step, whatever the cache evicts or prefetches between them.             *)
THEOREM RxQueueInvariant ==
  ASSUME DescPerLine = 1
  PROVE  Spec => []RxInv
BY RxInvInit, RxInvStep, PTL DEF Spec
=============================================================================
