---------------------------- MODULE RxRingProofs ----------------------------
(***************************************************************************)
(* Proofs about the receive ring of RxRing, for every ring size, every    *)
(* number of descriptors per cache line and every set of frame lengths.   *)
(***************************************************************************)
EXTENDS RxRing, TLAPS


-----------------------------------------------------------------------------
(* Lemmas about the values and helpers the actions are built from. *)

(* The driver's two status words, the blank word of a dropped line and   *)
(* the re-arm value of reinit_desc, are status words.                    *)
LEMMA StatusValues ==
  /\ Blank \in Status
  /\ \A i \in Slots : Armed(i) \in Status
BY MaxPktsAssumption DEF Blank, Armed, Status, Frames, RX_BUF_SIZE, DESC_LEN_MASK

(* The length rtl8125_recv_packet copies never exceeds RX_BUF_SIZE, for  *)
(* every length field the NIC can write, the uint32_t wrap included.     *)
LEMMA PktLenRange ==
  \A len \in 0 .. DESC_LEN_MASK : RxPktLen(len) \in 0 .. RX_BUF_SIZE
BY SMTT(30) DEF RxPktLen, RX_BUF_SIZE, DESC_LEN_MASK

(* Every frame length the NIC may write fits the status word's length    *)
(* field.                                                                 *)
LEMMA FrameLenField == \A len \in FrameLens : len \in 0 .. DESC_LEN_MASK
BY FrameLensAssumption DEF DESC_LEN_MASK

(* Filling, writing back or dropping a line, and a CPU load, keep the    *)
(* descriptor copies well typed.                                         *)
LEMMA CacheHelpers ==
  ASSUME mem \in [Slots -> Status], dcache \in [Slots -> Status]
  PROVE  /\ \A l : Filled(l) \in [Slots -> Status]
         /\ \A l : WrittenBack(l) \in [Slots -> Status]
         /\ \A l : Dropped(l) \in [Slots -> Status]
         /\ \A i \in Slots : LoadedCache(i) \in [Slots -> Status]
         /\ \A i \in Slots : Seen(i) \in Status
<1>1. \A l : Filled(l) \in [Slots -> Status] /\ WrittenBack(l) \in [Slots -> Status]
  BY DEF Filled, WrittenBack
<1>2. \A l : Dropped(l) \in [Slots -> Status]
  BY StatusValues DEF Dropped
<1>3. \A i \in Slots : LoadedCache(i) \in [Slots -> Status]
  BY <1>1 DEF LoadedCache
<1>4. QED
  BY <1>1, <1>2, <1>3 DEF Seen

(* A CPU load changes only the loaded line's state, from "I" to "C". *)
LEMMA LoadDescType ==
  ASSUME mem \in [Slots -> Status], dcache \in [Slots -> Status],
         dline \in [Lines -> {"I", "C", "D"}],
         NEW i \in Slots, LoadDesc(i)
  PROVE  dcache' \in [Slots -> Status] /\ dline' \in [Lines -> {"I", "C", "D"}]
BY CacheHelpers DEF LoadDesc

-----------------------------------------------------------------------------
(* Type correctness. *)

(* rtl8125_init leaves the ring in a well-typed state. *)
LEMMA TypeInit == Init => TypeOK
<1> SUFFICES ASSUME Init PROVE TypeOK
  OBVIOUS
<1>1. mem \in [Slots -> Status] /\ dcache \in [Slots -> Status]
  BY StatusValues DEF Init
<1>2. /\ bmem \in [Slots -> Frames] /\ bcache \in [Slots -> Frames \cup {BufInvalid}]
      /\ nic \in 0 .. NumRxDesc /\ arrived \in 0 .. MaxPkts /\ rx_idx \in Slots
      /\ pkt_len \in 0 .. RX_BUF_SIZE /\ ubuf \in Frames
  BY NumRxDescAssumption, MaxPktsAssumption DEF Init, Frames, Slots, RX_BUF_SIZE
<1>3. st \in Status
  BY StatusValues DEF Init
<1>4. /\ dline \in [Lines -> {"I", "C", "D"}] /\ pc \in PcValues
      /\ ulen \in {Undef} \cup 0 .. RX_BUF_SIZE
      /\ accepted \in Seq(1 .. MaxPkts) /\ taken \in Seq(Frames)
  BY DEF Init, PcValues
<1>5. QED
  BY <1>1, <1>2, <1>3, <1>4, Zenon DEF TypeOK

(* Every step of the ring, driver's or hardware's, keeps the state typed. *)
LEMMA TypeStep == TypeOK /\ [Next]_vars => TypeOK'
<1> SUFFICES ASSUME TypeOK, [Next]_vars PROVE TypeOK'
  OBVIOUS
<1>0. /\ mem \in [Slots -> Status] /\ dcache \in [Slots -> Status]
      /\ dline \in [Lines -> {"I", "C", "D"}] /\ rx_idx \in Slots
  BY DEF TypeOK
<1>1. CASE NicAccept
  <2>1. PICK len \in FrameLens, err \in RxErrs :
          mem' = [mem EXCEPT ![nic] = [own |-> FALSE, eor |-> @.eor, err |-> err,
                                       len |-> len, tag |-> arrived + 1]]
    BY <1>1, Zenon DEF NicAccept
  <2>2. arrived + 1 \in 1 .. MaxPkts /\ nic \in Slots
    BY <1>1, MaxPktsAssumption DEF NicAccept, TypeOK
  <2>3. mem[nic] \in Status
    BY <1>0, <2>2
  <2>4. mem' \in [Slots -> Status]
    <3>a. len \in 0 .. DESC_LEN_MASK
      BY FrameLenField
    <3>b. err \in BOOLEAN
      BY RxErrsAssumption
    <3>c. mem[nic].eor \in BOOLEAN /\ arrived + 1 \in Frames
      BY <2>2, <2>3 DEF Status, Frames
    <3>0. /\ len \in 0 .. DESC_LEN_MASK /\ err \in BOOLEAN
          /\ mem[nic].eor \in BOOLEAN /\ arrived + 1 \in Frames
      BY <3>a, <3>b, <3>c
    <3>1. [own |-> FALSE, eor |-> mem[nic].eor, err |-> err,
           len |-> len, tag |-> arrived + 1] \in Status
      BY <3>0 DEF Status
    <3>2. QED
      BY <1>0, <2>1, <3>1
  <2>5. /\ bmem' \in [Slots -> Frames]
        /\ nic' \in 0 .. NumRxDesc
        /\ arrived' \in 0 .. MaxPkts
        /\ accepted' \in Seq(1 .. MaxPkts)
    BY <1>1, <2>2, NumRxDescAssumption DEF NicAccept, TypeOK, Frames, Slots
  <2>6. QED
    BY <1>1, <2>4, <2>5, Zenon DEF NicAccept, TypeOK, drv
<1>2. CASE NicDrop
  <2>1. arrived' \in 0 .. MaxPkts
    BY <1>2, MaxPktsAssumption DEF NicDrop, TypeOK
  <2>2. QED
    BY <1>2, <2>1, Zenon DEF NicDrop, TypeOK, hw, drv
<1>3. ASSUME NEW l \in Lines, DescEvict(l) PROVE TypeOK'
  <2>1. /\ mem' \in [Slots -> Status] /\ dcache' \in [Slots -> Status]
        /\ dline' \in [Lines -> {"I", "C", "D"}]
    BY <1>0, <1>3, CacheHelpers DEF DescEvict
  <2>2. QED
    BY <1>3, <2>1, Zenon DEF DescEvict, TypeOK, drv
<1>4. ASSUME NEW l \in Lines, DescPrefetch(l) PROVE TypeOK'
  <2>1. dcache' \in [Slots -> Status] /\ dline' \in [Lines -> {"I", "C", "D"}]
    BY <1>0, <1>4, CacheHelpers DEF DescPrefetch
  <2>2. QED
    BY <1>4, <2>1, Zenon DEF DescPrefetch, TypeOK, drv
<1>5. ASSUME NEW i \in Slots, BufEvict(i) \/ BufPrefetch(i) PROVE TypeOK'
  <2>1. bcache' \in [Slots -> Frames \cup {BufInvalid}]
    BY <1>5 DEF BufEvict, BufPrefetch, TypeOK
  <2>2. QED
    BY <1>5, <2>1, Zenon DEF BufEvict, BufPrefetch, TypeOK, drv
<1>6. CASE RxInvalidate
  <2>1. dcache' \in [Slots -> Status] /\ dline' \in [Lines -> {"I", "C", "D"}]
    BY <1>0, <1>6, CacheHelpers DEF RxInvalidate
  <2>2. QED
    BY <1>6, <2>1, Zenon DEF RxInvalidate, TypeOK, PcValues
<1>7. CASE RxPollRead \/ RxFinalCheck
  <2>1. dcache' \in [Slots -> Status] /\ dline' \in [Lines -> {"I", "C", "D"}]
    BY <1>0, <1>7, LoadDescType DEF RxPollRead, RxFinalCheck
  <2>2. QED
    BY <1>7, <2>1, Zenon DEF RxPollRead, RxFinalCheck, TypeOK, PcValues
<1>8. CASE RxGot
  <2>1. dcache' \in [Slots -> Status] /\ dline' \in [Lines -> {"I", "C", "D"}]
    BY <1>0, <1>8, LoadDescType DEF RxGot
  <2>2. Seen(rx_idx) \in Status
    BY <1>0, CacheHelpers
  <2>3. /\ st' \in Status
        /\ taken' \in Seq(Frames)
    BY <1>8, <2>2 DEF RxGot, TypeOK, Status
  <2>4. pkt_len' \in 0 .. RX_BUF_SIZE
    BY <1>8, <2>2, PktLenRange DEF RxGot, TypeOK, Status
  <2>5. QED
    BY <1>8, <2>1, <2>3, <2>4, Zenon DEF RxGot, TypeOK, PcValues
<1>9. CASE RxInvalidateBuf
  <2>1. bcache' \in [Slots -> Frames \cup {BufInvalid}]
    BY <1>0, <1>9 DEF RxInvalidateBuf, TypeOK
  <2>2. QED
    BY <1>9, <2>1, Zenon DEF RxInvalidateBuf, TypeOK, PcValues
<1>14. CASE RxCopy
  <2>1. bcache \in [Slots -> Frames \cup {BufInvalid}] /\ bmem \in [Slots -> Frames]
    BY DEF TypeOK
  <2>2. /\ bcache' \in [Slots -> Frames \cup {BufInvalid}]
        /\ ubuf' \in Frames
    BY <1>0, <1>14, <2>1 DEF RxCopy
  <2>3. ulen' \in {Undef} \cup 0 .. RX_BUF_SIZE
    BY <1>14 DEF RxCopy, TypeOK
  <2>4. QED
    BY <1>14, <2>2, <2>3, Zenon DEF RxCopy, TypeOK, PcValues
<1>10. CASE RxRearm
  <2>1. dcache' \in [Slots -> Status] /\ dline' \in [Lines -> {"I", "C", "D"}]
    BY <1>0, <1>10, CacheHelpers, StatusValues DEF RxRearm
  <2>2. QED
    BY <1>10, <2>1, Zenon DEF RxRearm, TypeOK, PcValues
<1>11. CASE RxClean
  <2>1. mem' \in [Slots -> Status]
    BY <1>0, <1>11, CacheHelpers DEF RxClean
  <2>2. dline' \in [Lines -> {"I", "C", "D"}]
    BY <1>0, <1>11 DEF RxClean
  <2>3. rx_idx' \in Slots
    BY <1>0, <1>11, NumRxDescAssumption DEF RxClean, Slots
  <2>4. QED
    BY <1>11, <2>1, <2>2, <2>3, Zenon DEF RxClean, TypeOK, PcValues
<1>12. CASE UNCHANGED vars
  BY <1>12, Zenon DEF vars, hw, drv, TypeOK
<1>13. QED
  BY <1>1, <1>2, <1>3, <1>4, <1>5, <1>6, <1>7, <1>8, <1>9, <1>10, <1>11, <1>12,
     <1>14
  DEF Next, Driver, Hardware

(* Every reachable state of the receive ring is well typed: in           *)
(* particular the NIC's pointer stays within 0 .. NUM_RX_DESC, the length *)
(* rtl8125_recv_packet copies stays within RX_BUF_SIZE, and the ring      *)
(* index advanced with % NUM_RX_DESC stays a slot.                        *)
THEOREM TypeCorrect == Spec => []TypeOK
BY TypeInit, TypeStep, PTL DEF Spec

-----------------------------------------------------------------------------
(* Cache coherence of the descriptor ring. *)

(* A CPU load keeps the coherence: a missed line is filled from memory.  *)
LEMMA LoadDescCoherent ==
  ASSUME TypeOK, HostCacheCoherent, NEW i \in Slots, LoadDesc(i),
         mem' = mem
  PROVE  HostCacheCoherent'
BY DEF TypeOK, HostCacheCoherent, LoadDesc, LoadedCache, Filled

(* Every step keeps the cached copy of a descriptor the CPU would read as *)
(* its own equal to memory: a line is filled from memory, dropped, or     *)
(* written back whole, the NIC completes only descriptors whose cached    *)
(* copy still shows OWN, and the re-arm writes OWN.                       *)
LEMMA CoherentStep ==
  TypeOK /\ HostCacheCoherent /\ [Next]_vars => HostCacheCoherent'
<1> SUFFICES ASSUME TypeOK, HostCacheCoherent, [Next]_vars
             PROVE  HostCacheCoherent'
  OBVIOUS
<1>1. CASE NicAccept
  <2>1. PICK len \in FrameLens, err \in RxErrs :
          mem' = [mem EXCEPT ![nic] = [own |-> FALSE, eor |-> @.eor, err |-> err,
                                       len |-> len, tag |-> arrived + 1]]
    BY <1>1, Zenon DEF NicAccept
  <2>2. SUFFICES ASSUME NEW i \in Slots, dline'[LineOf(i)] # "I", ~dcache'[i].own
                 PROVE  dcache'[i] = mem'[i]
    BY DEF HostCacheCoherent
  <2>3. dline' = dline /\ dcache' = dcache /\ nic \in Slots /\ mem[nic].own
    BY <1>1 DEF NicAccept
  <2>4. i # nic
    BY <2>2, <2>3 DEF HostCacheCoherent
  <2>5. QED
    BY <2>1, <2>2, <2>3, <2>4 DEF HostCacheCoherent, TypeOK
<1>2. CASE NicDrop
  BY <1>2 DEF NicDrop, hw, HostCacheCoherent
<1>3. ASSUME NEW l \in Lines, DescEvict(l) PROVE HostCacheCoherent'
  BY <1>3 DEF DescEvict, TypeOK, HostCacheCoherent, WrittenBack, Dropped
<1>4. ASSUME NEW l \in Lines, DescPrefetch(l) PROVE HostCacheCoherent'
  BY <1>4 DEF DescPrefetch, TypeOK, HostCacheCoherent, Filled
<1>5. ASSUME NEW i \in Slots, BufEvict(i) \/ BufPrefetch(i) PROVE HostCacheCoherent'
  BY <1>5 DEF BufEvict, BufPrefetch, HostCacheCoherent
<1>6. CASE RxInvalidate
  <2>1. SUFFICES ASSUME NEW i \in Slots, dline'[LineOf(i)] # "I", ~dcache'[i].own
                 PROVE  dcache'[i] = mem'[i]
    BY DEF HostCacheCoherent
  <2>2. LineOf(i) # LineOf(rx_idx)
    BY <1>6, <2>1 DEF RxInvalidate, Dropped, Blank
  <2>3. QED
    BY <1>6, <2>1, <2>2 DEF RxInvalidate, TypeOK, HostCacheCoherent, Dropped
<1>7. CASE RxPollRead \/ RxFinalCheck \/ RxGot
  BY <1>7, LoadDescCoherent DEF RxPollRead, RxFinalCheck, RxGot, TypeOK
<1>8. CASE RxInvalidateBuf \/ RxCopy
  BY <1>8 DEF RxInvalidateBuf, RxCopy, HostCacheCoherent
<1>9. CASE RxRearm
  BY <1>9 DEF RxRearm, TypeOK, HostCacheCoherent, LoadedCache, Filled, Armed
<1>10. CASE RxClean
  BY <1>10 DEF RxClean, TypeOK, HostCacheCoherent, WrittenBack
<1>11. CASE UNCHANGED vars
  BY <1>11 DEF vars, hw, HostCacheCoherent
<1>12. QED
  BY <1>1, <1>2, <1>3, <1>4, <1>5, <1>6, <1>7, <1>8, <1>9, <1>10, <1>11
  DEF Next, Driver, Hardware

(* The CPU's cached copy of a descriptor that shows the driver's          *)
(* ownership (OWN clear) always equals memory, for every ring size and    *)
(* line size: rtl8125_recv_packet never acts on a completion the NIC did  *)
(* not write, however the cache fills, evicts and writes back lines.      *)
THEOREM CacheCoherence == Spec => []HostCacheCoherent
<1>1. Init => TypeOK /\ HostCacheCoherent
  BY TypeInit DEF Init, HostCacheCoherent
<1>2. TypeOK /\ HostCacheCoherent /\ [Next]_vars => (TypeOK /\ HostCacheCoherent)'
  BY TypeStep, CoherentStep
<1>3. QED
  BY <1>1, <1>2, PTL DEF Spec

=============================================================================
