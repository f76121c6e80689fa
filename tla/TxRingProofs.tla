---------------------------- MODULE TxRingProofs ----------------------------
(***************************************************************************)
(* Proofs about the transmit ring of TxRing, for every ring size, every   *)
(* number of descriptors per cache line, every number of sends and every  *)
(* set of lengths the caller may pass.                                    *)
(***************************************************************************)
EXTENDS TxRing, TLAPS

-----------------------------------------------------------------------------
(* Lemmas about the values and helpers the actions are built from. *)

(* The length a send writes: short frames padded to ETH_ZLEN. *)
LEMMA PadLenRange ==
  ASSUME NEW len \in Nat, len <= TX_BUF_SIZE
  PROVE  PadLen(len) \in 0 .. TX_BUF_SIZE
BY DEF PadLen, ETH_ZLEN, TX_BUF_SIZE

(* Every slot lies in a line of the ring: NUM_TX_DESC is a multiple of  *)
(* the descriptors per line.                                            *)
LEMMA LineOfType == \A i \in Slots : LineOf(i) \in Lines
BY NumTxDescAssumption, DescPerLineAssumption, SMTT(60) DEF Slots, Lines, LineOf

(* Filling, writing back or dropping a line, and a CPU load, keep the    *)
(* descriptor copies well typed.                                         *)
LEMMA CacheHelpers ==
  ASSUME mem \in [Slots -> Status], dcache \in [Slots -> Status]
  PROVE  /\ \A l : Filled(l) \in [Slots -> Status]
         /\ \A l : WrittenBack(l) \in [Slots -> Status]
         /\ \A l : Dropped(l) \in [Slots -> Status]
         /\ \A i \in Slots : LoadedCache(i) \in [Slots -> Status]
<1>1. Blank \in Status
  BY MaxSendsAssumption DEF Blank, Status, Payloads, TX_BUF_SIZE
<1>2. \A l : Filled(l) \in [Slots -> Status] /\ WrittenBack(l) \in [Slots -> Status]
  BY DEF Filled, WrittenBack
<1>3. \A l : Dropped(l) \in [Slots -> Status]
  BY <1>1 DEF Dropped
<1>4. QED
  BY <1>2, <1>3 DEF LoadedCache

(* A CPU load of descriptor i keeps the cache well typed. *)
LEMMA LoadDescType ==
  ASSUME mem \in [Slots -> Status], dcache \in [Slots -> Status],
         dline \in [Lines -> {"I", "C", "D"}],
         NEW i \in Slots, LoadDesc(i)
  PROVE  dcache' \in [Slots -> Status] /\ dline' \in [Lines -> {"I", "C", "D"}]
BY CacheHelpers DEF LoadDesc

-----------------------------------------------------------------------------
(* Typing. *)

(* TypeOK with what keeps the NIC's pointer within 0 .. NUM_TX_DESC: it   *)
(* only advances from a descriptor it fetched from the ring.             *)
TypeInv == TypeOK /\ (nbusy => ntx \in Slots)

LEMMA TypeInit == Init => TypeInv
<1> SUFFICES ASSUME Init PROVE TypeInv
  OBVIOUS
<1>1. mem \in [Slots -> Status] /\ dcache \in [Slots -> Status]
  BY MaxSendsAssumption DEF Init, Status, Payloads, TX_BUF_SIZE
<1>2. nfetched \in Status
  BY MaxSendsAssumption DEF Init, Blank, Status, Payloads, TX_BUF_SIZE
<1>3. wire \in Seq([tag: Payloads, data: Payloads]) /\ okd \in Seq(Payloads)
  BY DEF Init
<1>4. /\ tx_idx \in Slots /\ ntx \in 0 .. NumTxDesc
      /\ cur \in Payloads /\ plen \in 0 .. TX_BUF_SIZE
  BY NumTxDescAssumption, MaxSendsAssumption DEF Init, Slots, Payloads, TX_BUF_SIZE
<1>5. /\ dline \in [Lines -> {"I", "C", "D"}] /\ bline \in [Slots -> {"I", "C", "D"}]
      /\ bmem \in [Slots -> Payloads] /\ bcache \in [Slots -> Payloads]
  BY MaxSendsAssumption DEF Init, Payloads
<1>6. QED
  BY <1>1, <1>2, <1>3, <1>4, <1>5 DEF Init, TypeInv, TypeOK, PcValues

LEMMA TypeStep == TypeInv /\ [Next]_vars => TypeInv'
<1> SUFFICES ASSUME TypeInv, [Next]_vars PROVE TypeInv'
  OBVIOUS
<1> USE DEF TypeInv, TypeOK
<1>0. /\ mem \in [Slots -> Status] /\ dcache \in [Slots -> Status]
      /\ dline \in [Lines -> {"I", "C", "D"}] /\ tx_idx \in Slots
      /\ MaxSends \in Nat /\ NumTxDesc \in Nat \ {0}
  BY MaxSendsAssumption, NumTxDescAssumption
<1>1. CASE NicTxFetch
  BY <1>1 DEF NicTxFetch, hw, drv
<1>2. CASE NicTxSend
  <2>1. [own |-> FALSE, eor |-> nfetched.eor, len |-> nfetched.len,
         tag |-> nfetched.tag] \in Status
    BY DEF Status
  <2>2. [tag |-> nfetched.tag, data |-> bmem[ntx]] \in [tag: Payloads, data: Payloads]
    BY <1>2 DEF NicTxSend, Status
  <2>3. mem' \in [Slots -> Status]
    BY <1>2, <2>1, <1>0 DEF NicTxSend
  <2>4. wire' \in Seq([tag: Payloads, data: Payloads])
    BY <1>2, <2>2 DEF NicTxSend
  <2>5. ntx' \in 0 .. NumTxDesc
    BY <1>2, <1>0 DEF NicTxSend, Slots
  <2>6. QED
    BY <1>2, <2>3, <2>4, <2>5 DEF NicTxSend, drv

<1>3. CASE NicTxIdle
  BY <1>3 DEF NicTxIdle, hw, drv
<1>4. ASSUME NEW l \in Lines, DescEvict(l) PROVE TypeInv'
  BY <1>4, <1>0, CacheHelpers DEF DescEvict, nicv, drv
<1>5. ASSUME NEW l \in Lines, DescPrefetch(l) PROVE TypeInv'
  BY <1>5, <1>0, CacheHelpers DEF DescPrefetch, nicv, drv
<1>6. ASSUME NEW i \in Slots, BufEvict(i) PROVE TypeInv'
  BY <1>6, <1>0 DEF BufEvict, nicv, drv, Payloads
<1>7. ASSUME NEW i \in Slots, BufPrefetch(i) PROVE TypeInv'
  BY <1>7 DEF BufPrefetch, nicv, drv
<1>8. CASE TxStart
  <2>1. PICK len \in SendLens :
          IF len > TX_BUF_SIZE
            THEN UNCHANGED <<bline, bcache, pc, plen>>
            ELSE /\ bcache' = [bcache EXCEPT ![tx_idx] = cur + 1]
                 /\ bline' = [bline EXCEPT ![tx_idx] = "D"]
                 /\ plen' = PadLen(len)
                 /\ pc' = "cleanbuf"
    BY <1>8, Zenon DEF TxStart
  <2>2. len \in Nat /\ cur + 1 \in Payloads
    BY <1>8, <1>0, SendLensAssumption DEF TxStart, Payloads
  <2>3. len <= TX_BUF_SIZE => PadLen(len) \in 0 .. TX_BUF_SIZE
    BY <2>2, PadLenRange
  <2>4. CASE len > TX_BUF_SIZE
    BY <1>8, <2>1, <2>2, <2>4 DEF TxStart, nicv
  <2>5. CASE len <= TX_BUF_SIZE
    <3>1. bcache' \in [Slots -> Payloads] /\ bline' \in [Slots -> {"I", "C", "D"}]
      BY <2>1, <2>2, <2>5, <1>0
    <3>2. plen' \in 0 .. TX_BUF_SIZE /\ pc' \in PcValues
      BY <2>1, <2>2, <2>3, <2>5 DEF PcValues
    <3>3. QED
      BY <1>8, <2>1, <2>5, <3>1, <3>2, <2>2 DEF TxStart, nicv
  <2>6. QED
    BY <2>2, <2>4, <2>5 DEF TX_BUF_SIZE
<1>9. CASE TxCleanBuf
  BY <1>9, <1>0 DEF TxCleanBuf, nicv, PcValues
<1>10. CASE TxWriteDesc
  <2>1. [own |-> TRUE, eor |-> FALSE, len |-> plen, tag |-> cur] \in Status
    BY DEF Status
  <2>2. QED
    BY <1>10, <1>0, <2>1, CacheHelpers DEF TxWriteDesc, nicv, PcValues
<1>11. CASE TxCleanDesc
  BY <1>11, <1>0, CacheHelpers DEF TxCleanDesc, CleanDescLine, nicv, PcValues
<1>12. CASE TxKick
  BY <1>12 DEF TxKick, hw, PcValues
<1>13. CASE TxInvalidate
  BY <1>13, <1>0, CacheHelpers DEF TxInvalidate, nicv, PcValues
<1>14. CASE TxPollRead
  BY <1>14, <1>0, LoadDescType DEF TxPollRead, nicv, PcValues
<1>15. CASE TxCheck
  <2>1. (tx_idx + 1) % NumTxDesc \in Slots
    BY <1>0 DEF Slots
  <2>2. dcache' \in [Slots -> Status] /\ dline' \in [Lines -> {"I", "C", "D"}]
    BY <1>15, <1>0, LoadDescType DEF TxCheck
  <2>3. CASE Seen(tx_idx).own
    <3>1. tx_idx' = tx_idx /\ okd' = okd
      BY <1>15, <2>3 DEF TxCheck
    <3>2. QED
      BY <1>15, <2>2, <3>1 DEF TxCheck, nicv, PcValues
  <2>4. CASE ~Seen(tx_idx).own
    <3>0. okd' = Append(okd, cur)
      BY <1>15, <2>4 DEF TxCheck
    <3>1. okd' \in Seq(Payloads)
      BY <3>0
    <3>2. QED
      BY <1>15, <2>1, <2>2, <2>4, <3>1 DEF TxCheck, nicv, PcValues
  <2>5. QED
    BY <2>3, <2>4
<1>16. CASE UNCHANGED vars
  BY <1>16 DEF vars, hw, nicv, drv
<1>17. QED
  BY <1>1, <1>2, <1>3, <1>4, <1>5, <1>6, <1>7, <1>8, <1>9, <1>10, <1>11,
     <1>12, <1>13, <1>14, <1>15, <1>16 DEF Next, Driver, Hardware

(* Whatever the NIC and the cache do, the transmit ring stays well typed: *)
(* the NIC's pointer stays within 0 .. NUM_TX_DESC, the padded length     *)
(* within TX_BUF_SIZE, tx_idx a slot.                                     *)
THEOREM TxTypeCorrect == Spec => []TypeOK
<1>1. TypeInv => TypeOK
  BY DEF TypeInv
<1>2. QED
  BY TypeInit, TypeStep, <1>1, PTL DEF Spec


-----------------------------------------------------------------------------
(* The payload and the success of each send, for a NIC that completes     *)
(* within the poll budget (TxMayTimeout = FALSE).                         *)

(* The descriptor the current send writes, and the same after the NIC    *)
(* has transmitted it and cleared OWN.                                    *)
NewDesc == [own |-> TRUE, eor |-> FALSE, len |-> plen, tag |-> cur]
DoneDesc == [own |-> FALSE, eor |-> FALSE, len |-> plen, tag |-> cur]

(* The current send's frame is on the wire. *)
Sent == \E j \in 1 .. Len(wire) : wire[j].tag = cur

(* The CPU holds a copy of descriptor i's line. *)
Valid(i) == dline[LineOf(i)] # "I"

Armed == {"kick", "inv", "read"}

(* Memory holds the current descriptor, armed or already transmitted. *)
InFlight == mem[tx_idx] = NewDesc \/ (mem[tx_idx] = DoneDesc /\ Sent)

(* No descriptor but the current one is owned by the NIC, and the CPU's   *)
(* copies of the others equal memory.                                     *)
OthersIdle ==
  \A i \in Slots \ {tx_idx} : ~mem[i].own /\ (Valid(i) => dcache[i] = mem[i])

(* Only the current descriptor's line is ever dirty, between its write    *)
(* and its clean.                                                         *)
OnlyCurDirty ==
  \A l \in Lines : dline[l] = "D" => pc = "cleandesc" /\ l = LineOf(tx_idx)

(* Where the send is tells what memory and the cache hold of the current *)
(* descriptor: not owned until the clean, then armed or transmitted, and  *)
(* transmitted once the poll has seen OWN clear.                          *)
CurDesc ==
  /\ pc \in {"idle", "cleanbuf", "desc"} =>
       ~mem[tx_idx].own /\ (Valid(tx_idx) => dcache[tx_idx] = mem[tx_idx])
  /\ pc = "cleandesc" =>
       IF dline[LineOf(tx_idx)] = "D"
         THEN dcache[tx_idx] = NewDesc /\ ~mem[tx_idx].own
         ELSE InFlight /\ (Valid(tx_idx) => dcache[tx_idx] \in {NewDesc, mem[tx_idx]})
  /\ pc \in Armed =>
       InFlight /\ (Valid(tx_idx) => dcache[tx_idx] \in {NewDesc, mem[tx_idx]})
  /\ pc = "check" =>
       mem[tx_idx] = DoneDesc /\ Sent /\ (Valid(tx_idx) => dcache[tx_idx] = mem[tx_idx])

(* The NIC only ever works on the current, armed descriptor. *)
NicBusy ==
  nbusy => /\ ntx = tx_idx /\ pc \in {"cleandesc"} \cup Armed
           /\ nfetched = NewDesc /\ mem[ntx] = NewDesc

(* Only the current buffer is ever dirty, before its clean; clean copies  *)
(* equal memory; memory holds the current payload from the clean on.      *)
BufCoherent ==
  /\ \A i \in Slots : bline[i] = "D" => i = tx_idx /\ pc = "cleanbuf" /\ bcache[i] = cur
  /\ \A i \in Slots : bline[i] = "C" => bcache[i] = bmem[i]
  /\ pc = "cleanbuf" => bline[tx_idx] = "D" \/ bmem[tx_idx] = cur
  /\ pc \in {"desc", "cleandesc", "check"} \cup Armed => bmem[tx_idx] = cur

TxInv ==
  /\ TypeInv
  /\ OthersIdle /\ OnlyCurDirty /\ CurDesc /\ NicBusy /\ BufCoherent
  /\ TxPayloadMatches /\ TxOkMeansSent

LEMMA TxInvInit == Init => TxInv
<1> SUFFICES ASSUME Init PROVE TxInv
  OBVIOUS
<1>1. TypeInv
  BY TypeInit
<1>2. \A i \in Slots : ~mem[i].own /\ dcache[i] = mem[i]
  BY DEF Init
<1>3. tx_idx \in Slots
  BY <1>1 DEF TypeInv, TypeOK
<1>4. OthersIdle /\ CurDesc
  BY <1>2, <1>3 DEF OthersIdle, CurDesc, Init, Armed
<1>5. OnlyCurDirty /\ NicBusy /\ BufCoherent
  BY DEF Init, OnlyCurDirty, NicBusy, BufCoherent, Armed
<1>6. TxPayloadMatches /\ TxOkMeansSent
  BY DEF Init, TxPayloadMatches, TxOkMeansSent
<1>7. QED
  BY <1>1, <1>4, <1>5, <1>6 DEF TxInv


(* A step that leaves the histories alone keeps the two history         *)
(* properties; one that only extends the wire keeps TxOkMeansSent.        *)
LEMMA HistFrame ==
  ASSUME TxPayloadMatches, TxOkMeansSent, wire' = wire, okd' = okd
  PROVE  TxPayloadMatches' /\ TxOkMeansSent'
BY DEF TxPayloadMatches, TxOkMeansSent

LEMMA OkdFrame ==
  ASSUME TxOkMeansSent, okd' = okd,
         \A k \in 1 .. Len(wire) : wire'[k] = wire[k],
         Len(wire) <= Len(wire'), Len(wire) \in Nat
  PROVE  TxOkMeansSent'
<1> SUFFICES ASSUME NEW k \in 1 .. Len(okd')
             PROVE  \E j \in 1 .. Len(wire') : wire'[j].tag = okd'[k]
  BY DEF TxOkMeansSent
<1>1. PICK j \in 1 .. Len(wire) : wire[j].tag = okd[k]
  BY DEF TxOkMeansSent
<1>2. QED
  BY <1>1

(* The buffer part of the invariant is kept by a step from one point of *)
(* the call after the buffer clean to another, or back to idle, that     *)
(* leaves the buffers and the payload number alone.                      *)
(* The NIC part of the invariant is kept by a step that leaves the NIC,  *)
(* the current descriptor and the send alone, and stays in the armed     *)
(* part of the call while the NIC is busy.                               *)
LEMMA NicBusyFrame ==
  ASSUME NicBusy, nbusy' = nbusy, ntx' = ntx, nfetched' = nfetched,
         tx_idx' = tx_idx, cur' = cur, plen' = plen, mem' = mem,
         nbusy => pc' \in {"cleandesc"} \cup Armed
  PROVE  NicBusy'
BY DEF NicBusy, NewDesc

DescPhase == {"desc", "cleandesc", "check"} \cup Armed

LEMMA BufFrame ==
  ASSUME BufCoherent, UNCHANGED <<bmem, bline, bcache, cur>>,
         pc \in DescPhase,
         (pc' \in DescPhase /\ tx_idx' = tx_idx) \/ pc' = "idle"
  PROVE  BufCoherent'
BY DEF BufCoherent, DescPhase, Armed

(* The hardware steps: the NIC's engine, and evictions and prefetches of *)
(* descriptor and buffer lines.                                          *)
LEMMA HardwareStep ==
  ASSUME TxInv, Hardware
  PROVE  TxInv'
<1> USE DEF TxInv
<1>0. /\ TypeInv' /\ tx_idx \in Slots /\ pc \in PcValues
      /\ mem \in [Slots -> Status] /\ dcache \in [Slots -> Status]
      /\ dline \in [Lines -> {"I", "C", "D"}] /\ bline \in [Slots -> {"I", "C", "D"}]
      /\ bmem \in [Slots -> Payloads] /\ bcache \in [Slots -> Payloads]
      /\ wire \in Seq([tag: Payloads, data: Payloads]) /\ okd \in Seq(Payloads)
      /\ \A i \in Slots : LineOf(i) \in Lines
  BY TypeStep, LineOfType DEF Next, TypeInv, TypeOK
<1>1. CASE NicTxFetch
  <2>1. ntx = tx_idx
    BY <1>1 DEF NicTxFetch, OthersIdle
  <2>2. pc \in {"cleandesc"} \cup Armed /\ mem[tx_idx] = NewDesc
    BY <1>0, <1>1, <2>1 DEF NicTxFetch, CurDesc, InFlight, NewDesc, DoneDesc, Armed, PcValues
  <2>3. NicBusy'
    BY <1>1, <2>1, <2>2 DEF NicBusy, NicTxFetch, hw, drv, NewDesc
  <2>4. QED
    BY <1>0, <1>1, <2>3 DEF NicTxFetch, hw, drv, OthersIdle, OnlyCurDirty, CurDesc,
       BufCoherent, TxPayloadMatches, TxOkMeansSent, Valid, InFlight, NewDesc,
       DoneDesc, Sent, Armed
<1>2. CASE NicTxSend
  <2>1. /\ ntx = tx_idx /\ pc \in {"cleandesc"} \cup Armed
        /\ nfetched = NewDesc /\ mem[tx_idx] = NewDesc
    BY <1>2 DEF NicTxSend, NicBusy
  <2>2. pc = "cleandesc" => dline[LineOf(tx_idx)] # "D"
    BY <2>1 DEF CurDesc, NewDesc
  <2>3. bmem[tx_idx] = cur
    BY <2>1 DEF BufCoherent, Armed
  <2>4. mem' = [mem EXCEPT ![tx_idx] = DoneDesc]
    BY <1>2, <2>1 DEF NicTxSend, NewDesc, DoneDesc
  <2>5. wire' = Append(wire, [tag |-> cur, data |-> cur])
    BY <1>2, <2>1, <2>3 DEF NicTxSend, NewDesc
  <2>6. /\ Len(wire') = Len(wire) + 1
        /\ \A k \in 1 .. Len(wire) : wire'[k] = wire[k]
        /\ wire'[Len(wire) + 1] = [tag |-> cur, data |-> cur]
    BY <1>0, <2>5
  <2>7. cur' = cur /\ okd' = okd /\ Len(wire) + 1 \in 1 .. Len(wire')
    BY <1>0, <1>2, <2>6 DEF NicTxSend, drv
  <2>11. Sent'
    BY <2>6, <2>7 DEF Sent
  <2>12. TxPayloadMatches'
    BY <2>6 DEF TxPayloadMatches
  <2>13. TxOkMeansSent'
    BY <1>0, <2>6, <2>7, OkdFrame
  <2>14. \A i \in Slots \ {tx_idx} : mem'[i] = mem[i]
    BY <1>0, <2>4
  <2>8. OthersIdle'
    BY <1>2, <2>14 DEF NicTxSend, OthersIdle, Valid, drv
  <2>9. CurDesc'
    BY <1>0, <1>2, <2>1, <2>2, <2>4, <2>7, <2>11
    DEF NicTxSend, CurDesc, InFlight, Valid, Armed, NewDesc, DoneDesc, drv
  <2>10. QED
    BY <1>0, <1>2, <2>8, <2>9, <2>11, <2>12, <2>13
    DEF NicTxSend, drv, OnlyCurDirty, BufCoherent, NicBusy
<1>3. CASE NicTxIdle
  BY <1>0, <1>3 DEF NicTxIdle, hw, drv, OthersIdle, OnlyCurDirty, CurDesc, NicBusy,
     BufCoherent, TxPayloadMatches, TxOkMeansSent, Valid, InFlight, NewDesc,
     DoneDesc, Sent, Armed
<1>4. ASSUME NEW l \in Lines, DescEvict(l) PROVE TxInv'
  <2>1. /\ \A i \in Slots : dline'[LineOf(i)] = IF LineOf(i) = l THEN "I" ELSE dline[LineOf(i)]
        /\ \A i \in Slots : dcache'[i] = IF LineOf(i) = l THEN Blank ELSE dcache[i]
        /\ \A k \in Lines : dline'[k] = IF k = l THEN "I" ELSE dline[k]
    BY <1>0, <1>4 DEF DescEvict, Dropped
  <2>2. UNCHANGED <<bmem, bline, bcache, nicv, drv, wire, okd>>
    BY <1>4 DEF DescEvict
  <2>3. CASE dline[l] = "D"
    <3>1. pc = "cleandesc" /\ l = LineOf(tx_idx) /\ ~nbusy
      BY <2>3 DEF OnlyCurDirty, CurDesc, NicBusy, NewDesc
    <3>2. dcache[tx_idx] = NewDesc
      BY <2>3, <3>1 DEF CurDesc
    <3>3. \A i \in Slots : mem'[i] = IF LineOf(i) = l THEN dcache[i] ELSE mem[i]
      BY <1>4, <2>3 DEF DescEvict, WrittenBack
    <3>4. OthersIdle'
      BY <1>0, <2>1, <2>2, <2>3, <3>3 DEF OthersIdle, Valid, drv
    <3>5. OnlyCurDirty' /\ NicBusy'
      BY <1>0, <2>1, <2>2, <3>1 DEF OnlyCurDirty, NicBusy, nicv, drv
    <3>6. CurDesc'
      BY <1>0, <2>1, <2>2, <3>1, <3>2, <3>3 DEF CurDesc, InFlight, Valid, Armed, NewDesc, drv
    <3>7. QED
      BY <1>0, <2>2, <3>4, <3>5, <3>6
      DEF BufCoherent, TxPayloadMatches, TxOkMeansSent, drv
  <2>4. CASE dline[l] # "D"
    <3>1. mem' = mem
      BY <1>4, <2>4 DEF DescEvict
    <3>2. OthersIdle'
      BY <1>0, <2>1, <2>2, <3>1 DEF OthersIdle, Valid, drv
    <3>5. OnlyCurDirty'
      BY <1>0, <2>1, <2>2 DEF OnlyCurDirty, drv
    <3>6. NicBusy'
      <4>1. /\ nbusy' = nbusy /\ ntx' = ntx /\ nfetched' = nfetched /\ mem' = mem
            /\ tx_idx' = tx_idx /\ pc' = pc /\ cur' = cur /\ plen' = plen
        BY <2>2, <3>1 DEF nicv, drv
      <4>2. QED
        BY <4>1 DEF NicBusy, NewDesc
    <3>3. CurDesc'
      BY <1>0, <2>1, <2>2, <2>4, <3>1
      DEF CurDesc, InFlight, Valid, Armed, NewDesc, DoneDesc, Sent, drv
    <3>4. QED
      BY <1>0, <2>2, <3>2, <3>3, <3>5, <3>6 DEF BufCoherent, TxPayloadMatches, TxOkMeansSent, drv
  <2>5. QED
    BY <2>3, <2>4
<1>5. ASSUME NEW l \in Lines, DescPrefetch(l) PROVE TxInv'
  <2>1. /\ \A i \in Slots : dline'[LineOf(i)] = IF LineOf(i) = l THEN "C" ELSE dline[LineOf(i)]
        /\ \A i \in Slots : dcache'[i] = IF LineOf(i) = l THEN mem[i] ELSE dcache[i]
        /\ \A k \in Lines : dline'[k] = IF k = l THEN "C" ELSE dline[k]
    BY <1>0, <1>5 DEF DescPrefetch, Filled
  <2>2. UNCHANGED <<mem, bmem, bline, bcache, nicv, drv, wire, okd>>
    BY <1>5 DEF DescPrefetch
  <2>3. OthersIdle'
    BY <1>0, <2>1, <2>2 DEF OthersIdle, Valid, drv
  <2>6. OnlyCurDirty'
    BY <1>0, <1>5, <2>1, <2>2 DEF DescPrefetch, OnlyCurDirty, drv
  <2>7. NicBusy'
    <3>1. /\ nbusy' = nbusy /\ ntx' = ntx /\ nfetched' = nfetched /\ mem' = mem
          /\ tx_idx' = tx_idx /\ pc' = pc /\ cur' = cur /\ plen' = plen
      BY <2>2 DEF nicv, drv
    <3>2. QED
      BY <3>1 DEF NicBusy, NewDesc
  <2>4. CurDesc'
    <3>1. /\ mem' = mem /\ pc' = pc /\ tx_idx' = tx_idx /\ plen' = plen
          /\ cur' = cur /\ wire' = wire /\ tx_idx \in Slots
      BY <1>0, <2>2 DEF drv
    <3>2. /\ NewDesc' = NewDesc /\ DoneDesc' = DoneDesc /\ Sent' = Sent
          /\ InFlight' = InFlight
      BY <3>1 DEF NewDesc, DoneDesc, Sent, InFlight
    <3>3. CASE LineOf(tx_idx) = l
      <4>1. dline[l] = "I" /\ dline'[LineOf(tx_idx)] = "C"
            /\ dcache'[tx_idx] = mem[tx_idx]
        BY <1>5, <2>1, <3>1, <3>3 DEF DescPrefetch
      <4>2. QED
        BY <1>0, <3>1, <3>2, <3>3, <4>1 DEF CurDesc, Valid, Armed
    <3>4. CASE LineOf(tx_idx) # l
      <4>1. dline'[LineOf(tx_idx)] = dline[LineOf(tx_idx)]
            /\ dcache'[tx_idx] = dcache[tx_idx]
        BY <2>1, <3>1, <3>4
      <4>2. QED
        BY <1>0, <3>1, <3>2, <4>1 DEF CurDesc, Valid, Armed
    <3>5. QED
      BY <3>3, <3>4
  <2>5. QED
    BY <1>0, <2>2, <2>3, <2>4, <2>6, <2>7 DEF BufCoherent, TxPayloadMatches, TxOkMeansSent, drv
<1>6. ASSUME NEW i \in Slots, BufEvict(i) PROVE TxInv'
  <2>1. BufCoherent'
    BY <1>0, <1>6 DEF BufEvict, BufCoherent, drv
  <2>2. QED
    BY <1>0, <1>6, <2>1 DEF BufEvict, nicv, drv, OthersIdle, OnlyCurDirty, CurDesc,
       NicBusy, TxPayloadMatches, TxOkMeansSent, Valid, InFlight, NewDesc,
       DoneDesc, Sent, Armed
<1>7. ASSUME NEW i \in Slots, BufPrefetch(i) PROVE TxInv'
  <2>1. BufCoherent'
    BY <1>0, <1>7 DEF BufPrefetch, BufCoherent, drv
  <2>2. QED
    BY <1>0, <1>7, <2>1 DEF BufPrefetch, nicv, drv, OthersIdle, OnlyCurDirty, CurDesc,
       NicBusy, TxPayloadMatches, TxOkMeansSent, Valid, InFlight, NewDesc,
       DoneDesc, Sent, Armed
<1>8. QED
  BY <1>1, <1>2, <1>3, <1>4, <1>5, <1>6, <1>7 DEF Hardware


(* What a CPU load of descriptor i leaves in the cache: its line filled  *)
(* from memory if it was invalid, every other copy as it was.            *)
LEMMA LoadDescValues ==
  ASSUME dcache \in [Slots -> Status], dline \in [Lines -> {"I", "C", "D"}],
         \A j \in Slots : LineOf(j) \in Lines,
         NEW i \in Slots, LoadDesc(i)
  PROVE  /\ \A j \in Slots :
              dcache'[j] = IF dline[LineOf(i)] = "I" /\ LineOf(j) = LineOf(i)
                             THEN mem[j] ELSE dcache[j]
         /\ \A k \in Lines :
              dline'[k] = IF k = LineOf(i) /\ dline[k] = "I" THEN "C" ELSE dline[k]
         /\ Seen(i) = dcache'[i]
BY DEF LoadDesc, LoadedCache, Filled, Seen

(* The first steps of rtl8125_send_packet: copy, clean the buffer, write *)
(* the descriptor, clean it.                                             *)
LEMMA DriverPrepStep ==
  ASSUME TxInv, TxStart \/ TxCleanBuf \/ TxWriteDesc \/ TxCleanDesc
  PROVE  TxInv'
<1> USE DEF TxInv
<1>0. /\ TypeInv' /\ tx_idx \in Slots /\ pc \in PcValues
      /\ mem \in [Slots -> Status] /\ dcache \in [Slots -> Status]
      /\ dline \in [Lines -> {"I", "C", "D"}] /\ bline \in [Slots -> {"I", "C", "D"}]
      /\ bmem \in [Slots -> Payloads] /\ bcache \in [Slots -> Payloads]
      /\ \A i \in Slots : LineOf(i) \in Lines
  BY TypeStep, LineOfType DEF Next, Driver, TypeInv, TypeOK
<1>1. CASE TxStart
  <2>1. ~nbusy /\ \A i \in Slots : bline[i] # "D"
    BY <1>1 DEF TxStart, NicBusy, BufCoherent, Armed
  <2>2. PICK len \in SendLens :
          IF len > TX_BUF_SIZE
            THEN UNCHANGED <<bline, bcache, pc, plen>>
            ELSE /\ bcache' = [bcache EXCEPT ![tx_idx] = cur + 1]
                 /\ bline' = [bline EXCEPT ![tx_idx] = "D"]
                 /\ plen' = PadLen(len)
                 /\ pc' = "cleanbuf"
    BY <1>1, Zenon DEF TxStart
  <2>3. UNCHANGED <<mem, dline, dcache, bmem, nicv, tx_idx, wire, okd>> /\ cur' = cur + 1
    BY <1>1 DEF TxStart
  <2>4. CASE len > TX_BUF_SIZE
    BY <1>0, <1>1, <2>1, <2>2, <2>3, <2>4
    DEF TxStart, nicv, OthersIdle, OnlyCurDirty, CurDesc, NicBusy, BufCoherent,
        TxPayloadMatches, TxOkMeansSent, Valid, Armed
  <2>5. CASE ~(len > TX_BUF_SIZE)
    <3>1. BufCoherent'
      BY <1>0, <1>1, <2>1, <2>2, <2>3, <2>5 DEF TxStart, BufCoherent, Armed
    <3>2. CurDesc' /\ NicBusy'
      BY <1>1, <2>1, <2>2, <2>3, <2>5 DEF TxStart, nicv, CurDesc, NicBusy, Valid, Armed
    <3>3. QED
      BY <1>0, <1>1, <2>2, <2>3, <2>5, <3>1, <3>2
      DEF TxStart, OthersIdle, OnlyCurDirty, TxPayloadMatches, TxOkMeansSent, Valid
  <2>6. QED
    BY <2>4, <2>5
<1>2. CASE TxCleanBuf
  <2>1. ~nbusy /\ \A i \in Slots \ {tx_idx} : bline[i] # "D"
    BY <1>2 DEF TxCleanBuf, NicBusy, BufCoherent, Armed
  <2>2. BufCoherent'
    BY <1>0, <1>2, <2>1 DEF TxCleanBuf, BufCoherent, Armed
  <2>3. QED
    BY <1>0, <1>2, <2>1, <2>2
    DEF TxCleanBuf, nicv, OthersIdle, OnlyCurDirty, CurDesc, NicBusy,
        TxPayloadMatches, TxOkMeansSent, Valid, Armed
<1>3. CASE TxWriteDesc
  <2> DEFINE L == LineOf(tx_idx)
  <2>1. ~nbusy /\ \A k \in Lines : dline[k] # "D"
    BY <1>3 DEF TxWriteDesc, NicBusy, OnlyCurDirty, Armed
  <2>2. /\ \A i \in Slots \ {tx_idx} :
             dcache'[i] = IF dline[L] = "I" /\ LineOf(i) = L THEN mem[i] ELSE dcache[i]
        /\ dcache'[tx_idx] = NewDesc
    BY <1>0, <1>3 DEF TxWriteDesc, LoadedCache, Filled, NewDesc
  <2>3. \A k \in Lines : dline'[k] = IF k = L THEN "D" ELSE dline[k]
    BY <1>0, <1>3 DEF TxWriteDesc
  <2>4. UNCHANGED <<mem, bmem, bline, bcache, nicv, tx_idx, cur, plen, wire, okd>>
    BY <1>3 DEF TxWriteDesc
  <2>5. OthersIdle'
    BY <1>0, <2>2, <2>3, <2>4 DEF OthersIdle, Valid
  <2>8. L \in Lines /\ pc' = "cleandesc" /\ ~mem[tx_idx].own
    BY <1>0, <1>3 DEF TxWriteDesc, CurDesc
  <2>9. OnlyCurDirty'
    BY <2>1, <2>3, <2>4, <2>8 DEF OnlyCurDirty
  <2>10. CurDesc'
    BY <2>2, <2>3, <2>4, <2>8 DEF CurDesc, NewDesc, Armed
  <2>6. OnlyCurDirty' /\ CurDesc'
    BY <2>9, <2>10
  <2>11. NicBusy'
    BY <2>1, <2>4 DEF NicBusy, nicv
  <2>12. BufCoherent'
    BY <1>3, <2>4, <2>8, BufFrame DEF TxWriteDesc, DescPhase
  <2>13. TxPayloadMatches' /\ TxOkMeansSent'
    BY <2>4, HistFrame
  <2>7. QED
    BY <1>0, <2>5, <2>6, <2>11, <2>12, <2>13
<1>4. CASE TxCleanDesc
  <2> DEFINE L == LineOf(tx_idx)
  <2>1. UNCHANGED <<dcache, bmem, bline, bcache, nicv, tx_idx, cur, plen, wire, okd>>
        /\ pc' = "kick"
    BY <1>4 DEF TxCleanDesc
  <2>2. \A k \in Lines \ {L} : dline[k] # "D"
    BY <1>4 DEF TxCleanDesc, OnlyCurDirty
  <2>3. CASE dline[L] = "D"
    <3>1. dcache[tx_idx] = NewDesc /\ ~nbusy
      BY <1>4, <2>3 DEF TxCleanDesc, CurDesc, NicBusy, NewDesc
    <3>2. \A i \in Slots : mem'[i] = IF LineOf(i) = L THEN dcache[i] ELSE mem[i]
      BY <1>0, <1>4, <2>3 DEF TxCleanDesc, CleanDescLine, WrittenBack
    <3>3. \A k \in Lines : dline'[k] = IF k = L THEN "C" ELSE dline[k]
      BY <1>0, <1>4, <2>3 DEF TxCleanDesc, CleanDescLine
    <3>4. OthersIdle'
      BY <1>0, <2>1, <2>3, <3>2, <3>3 DEF OthersIdle, Valid
    <3>5. OnlyCurDirty' /\ CurDesc'
      BY <1>0, <2>1, <2>2, <3>1, <3>2, <3>3
      DEF OnlyCurDirty, CurDesc, InFlight, Valid, Armed, NewDesc
    <3>7. NicBusy'
      BY <2>1, <3>1 DEF NicBusy, nicv
    <3>8. BufCoherent' /\ TxPayloadMatches' /\ TxOkMeansSent'
      BY <1>4, <2>1, BufFrame, HistFrame DEF TxCleanDesc, DescPhase, Armed
    <3>6. QED
      BY <1>0, <3>4, <3>5, <3>7, <3>8
  <2>4. CASE dline[L] # "D"
    <3>1. mem' = mem /\ dline' = dline
      BY <1>4, <2>4 DEF TxCleanDesc, CleanDescLine
    <3>2. OthersIdle'
      BY <2>1, <3>1 DEF OthersIdle, Valid
    <3>3. OnlyCurDirty'
      BY <2>1, <2>2, <2>4, <3>1 DEF OnlyCurDirty
    <3>4. CurDesc'
      BY <1>4, <2>1, <2>4, <3>1 DEF TxCleanDesc, CurDesc, InFlight, Valid, Armed,
         NewDesc, DoneDesc, Sent
    <3>5. NicBusy'
      <4>1. nbusy' = nbusy /\ ntx' = ntx /\ nfetched' = nfetched
        BY <2>1 DEF nicv
      <4>2. QED
        BY <2>1, <3>1, <4>1, NicBusyFrame DEF Armed
    <3>6. BufCoherent' /\ TxPayloadMatches' /\ TxOkMeansSent'
      BY <1>4, <2>1, BufFrame, HistFrame DEF TxCleanDesc, DescPhase, Armed
    <3>7. QED
      BY <1>0, <3>2, <3>3, <3>4, <3>5, <3>6
  <2>5. QED
    BY <2>3, <2>4
<1>5. QED
  BY <1>1, <1>2, <1>3, <1>4


(* The rest of rtl8125_send_packet: the doorbell, the poll loop and the  *)
(* check after it, for a NIC that clears OWN within the poll budget.     *)
LEMMA DriverPollStep ==
  ASSUME ~TxMayTimeout, TxInv, TxKick \/ TxInvalidate \/ TxPollRead \/ TxCheck
  PROVE  TxInv'
<1> USE DEF TxInv
<1>0. /\ TypeInv' /\ tx_idx \in Slots /\ pc \in PcValues
      /\ mem \in [Slots -> Status] /\ dcache \in [Slots -> Status]
      /\ dline \in [Lines -> {"I", "C", "D"}]
      /\ wire \in Seq([tag: Payloads, data: Payloads]) /\ okd \in Seq(Payloads)
      /\ \A i \in Slots : LineOf(i) \in Lines
  BY TypeStep, LineOfType DEF Next, Driver, TypeInv, TypeOK
<1>1. CASE TxKick
  BY <1>0, <1>1 DEF TxKick, hw, OthersIdle, OnlyCurDirty, CurDesc, NicBusy,
     BufCoherent, TxPayloadMatches, TxOkMeansSent, Valid, InFlight, NewDesc,
     DoneDesc, Sent, Armed
<1>2. CASE TxInvalidate
  <2> DEFINE L == LineOf(tx_idx)
  <2>1. /\ \A i \in Slots : dcache'[i] = IF LineOf(i) = L THEN Blank ELSE dcache[i]
        /\ \A k \in Lines : dline'[k] = IF k = L THEN "I" ELSE dline[k]
        /\ pc' = "read"
    BY <1>0, <1>2 DEF TxInvalidate, Dropped
  <2>2. UNCHANGED <<mem, bmem, bline, bcache, nicv, tx_idx, cur, plen, wire, okd>>
    BY <1>2 DEF TxInvalidate
  <2>3. OthersIdle'
    BY <1>0, <2>1, <2>2 DEF OthersIdle, Valid
  <2>4. OnlyCurDirty' /\ CurDesc'
    BY <1>0, <1>2, <2>1, <2>2 DEF TxInvalidate, OnlyCurDirty, CurDesc, Valid, InFlight,
       Armed, NewDesc, DoneDesc, Sent
  <2>6. NicBusy'
    <3>1. nbusy' = nbusy /\ ntx' = ntx /\ nfetched' = nfetched
      BY <2>2 DEF nicv
    <3>2. QED
      BY <1>2, <2>1, <2>2, <3>1, NicBusyFrame DEF TxInvalidate, Armed
  <2>7. BufCoherent' /\ TxPayloadMatches' /\ TxOkMeansSent'
    BY <1>2, <2>1, <2>2, BufFrame, HistFrame DEF TxInvalidate, DescPhase, Armed
  <2>5. QED
    BY <1>0, <2>3, <2>4, <2>6, <2>7
<1>3. CASE TxPollRead
  <2>1. /\ \A j \in Slots :
             dcache'[j] = IF dline[LineOf(tx_idx)] = "I" /\ LineOf(j) = LineOf(tx_idx)
                            THEN mem[j] ELSE dcache[j]
        /\ \A k \in Lines :
             dline'[k] = IF k = LineOf(tx_idx) /\ dline[k] = "I" THEN "C" ELSE dline[k]
        /\ Seen(tx_idx) = dcache'[tx_idx]
    BY <1>0, <1>3, LoadDescValues DEF TxPollRead
  <2>2. UNCHANGED <<mem, bmem, bline, bcache, nicv, tx_idx, cur, plen, wire, okd>>
    BY <1>3 DEF TxPollRead
  <2>3. /\ InFlight /\ dcache'[tx_idx] \in {NewDesc, mem[tx_idx]}
        /\ \A k \in Lines : dline[k] # "D"
    BY <1>0, <1>3, <2>1 DEF TxPollRead, CurDesc, OnlyCurDirty, Valid, Armed
  <2>4. OthersIdle' /\ OnlyCurDirty'
    BY <1>0, <2>1, <2>2, <2>3 DEF OthersIdle, OnlyCurDirty, Valid
  <2>8. TxPayloadMatches' /\ TxOkMeansSent'
    BY <2>2, HistFrame
  <2>5. CASE Seen(tx_idx).own
    <3>1. pc' = "inv"
      BY <1>3, <2>5 DEF TxPollRead
    <3>2. CurDesc'
      BY <1>0, <2>1, <2>2, <2>3, <3>1 DEF CurDesc, Valid, InFlight, Armed, NewDesc,
         DoneDesc, Sent
    <3>3. NicBusy'
      <4>1. nbusy' = nbusy /\ ntx' = ntx /\ nfetched' = nfetched
        BY <2>2 DEF nicv
      <4>2. QED
        BY <2>2, <3>1, <4>1, NicBusyFrame DEF Armed
    <3>4. BufCoherent'
      BY <1>3, <2>2, <3>1, BufFrame DEF TxPollRead, DescPhase, Armed
    <3>5. QED
      BY <1>0, <2>4, <2>8, <3>2, <3>3, <3>4
  <2>6. CASE ~Seen(tx_idx).own
    <3>1. pc' = "check"
      BY <1>3, <2>6 DEF TxPollRead
    <3>2. dcache'[tx_idx] = mem[tx_idx] /\ mem[tx_idx] = DoneDesc /\ Sent
      BY <2>1, <2>3, <2>6 DEF InFlight, NewDesc
    <3>3. ~nbusy
      BY <3>2 DEF NicBusy, NewDesc, DoneDesc
    <3>4. CurDesc'
      BY <1>0, <2>1, <2>2, <3>1, <3>2 DEF CurDesc, Valid, Armed, DoneDesc, Sent
    <3>5. NicBusy'
      BY <2>2, <3>3 DEF NicBusy, nicv
    <3>6. BufCoherent'
      BY <1>3, <2>2, <3>1, BufFrame DEF TxPollRead, DescPhase, Armed
    <3>7. QED
      BY <1>0, <2>4, <2>8, <3>4, <3>5, <3>6
  <2>7. QED
    BY <2>5, <2>6
<1>4. CASE TxCheck
  <2>1. /\ \A j \in Slots :
             dcache'[j] = IF dline[LineOf(tx_idx)] = "I" /\ LineOf(j) = LineOf(tx_idx)
                            THEN mem[j] ELSE dcache[j]
        /\ \A k \in Lines :
             dline'[k] = IF k = LineOf(tx_idx) /\ dline[k] = "I" THEN "C" ELSE dline[k]
        /\ Seen(tx_idx) = dcache'[tx_idx]
    BY <1>0, <1>4, LoadDescValues DEF TxCheck
  <2>2. UNCHANGED <<mem, bmem, bline, bcache, nicv, cur, plen, wire>> /\ pc' = "idle"
    BY <1>4 DEF TxCheck
  <2>13. mem[tx_idx] = DoneDesc /\ Sent
    BY <1>4 DEF TxCheck, CurDesc
  <2>14. ~nbusy
    BY <2>13 DEF NicBusy, NewDesc, DoneDesc
  <2>15. \A k \in Lines : dline[k] # "D"
    BY <1>4 DEF TxCheck, OnlyCurDirty
  <2>16. \A i \in Slots : bline[i] # "D"
    BY <1>4 DEF TxCheck, BufCoherent
  <2>3. /\ mem[tx_idx] = DoneDesc /\ Sent /\ ~nbusy
        /\ \A k \in Lines : dline[k] # "D"
        /\ \A i \in Slots : bline[i] # "D"
    BY <2>13, <2>14, <2>15, <2>16
  <2>4. \A i \in Slots : ~mem'[i].own /\ (dline'[LineOf(i)] # "I" => dcache'[i] = mem'[i])
    <3>1. SUFFICES ASSUME NEW i \in Slots
                   PROVE  ~mem[i].own /\ (dline'[LineOf(i)] # "I" => dcache'[i] = mem[i])
      BY <2>2
    <3>2. CASE i = tx_idx
      <4>1. dcache'[i] = IF dline[LineOf(i)] = "I" THEN mem[i] ELSE dcache[i]
        BY <2>1, <3>2
      <4>2. dline[LineOf(i)] # "I" => dcache[i] = mem[i]
        BY <1>4, <3>2 DEF TxCheck, CurDesc, Valid
      <4>3. QED
        BY <2>3, <3>2, <4>1, <4>2 DEF DoneDesc
    <3>3. CASE i # tx_idx
      <4>1. dline'[LineOf(i)] = IF LineOf(i) = LineOf(tx_idx) /\ dline[LineOf(i)] = "I"
                                  THEN "C" ELSE dline[LineOf(i)]
        BY <1>0, <2>1
      <4>2. dcache'[i] = IF dline[LineOf(tx_idx)] = "I" /\ LineOf(i) = LineOf(tx_idx)
                           THEN mem[i] ELSE dcache[i]
        BY <2>1
      <4>3. QED
        BY <3>3, <4>1, <4>2 DEF OthersIdle, Valid
    <3>4. QED
      BY <3>2, <3>3
  <2>12. dline'[LineOf(tx_idx)] # "I"
    BY <1>0, <2>1
  <2>5. ~Seen(tx_idx).own
    BY <1>0, <2>1, <2>2, <2>3, <2>4, <2>12 DEF DoneDesc
  <2>6. tx_idx' = (tx_idx + 1) % NumTxDesc /\ okd' = Append(okd, cur)
    BY <1>4, <2>5 DEF TxCheck
  <2>7. tx_idx' \in Slots
    BY <1>0 DEF TypeInv, TypeOK
  <2>8. OthersIdle' /\ CurDesc'
    BY <2>2, <2>4, <2>7 DEF OthersIdle, CurDesc, Armed, Valid
  <2>9. OnlyCurDirty' /\ NicBusy' /\ BufCoherent'
    BY <1>0, <2>1, <2>2, <2>3 DEF OnlyCurDirty, NicBusy, BufCoherent, nicv, Armed
  <2>10. TxOkMeansSent'
    <3>1. SUFFICES ASSUME NEW k \in 1 .. Len(okd')
                   PROVE  \E j \in 1 .. Len(wire') : wire'[j].tag = okd'[k]
      BY DEF TxOkMeansSent
    <3>2. CASE k = Len(okd) + 1
      <4>1. okd'[k] = cur
        BY <1>0, <2>6, <3>2
      <4>2. PICK j \in 1 .. Len(wire) : wire[j].tag = cur
        BY <2>3 DEF Sent
      <4>3. QED
        BY <2>2, <4>1, <4>2
    <3>3. CASE k \in 1 .. Len(okd)
      <4>1. PICK j \in 1 .. Len(wire) : wire[j].tag = okd[k]
        BY <3>3 DEF TxOkMeansSent
      <4>2. QED
        BY <1>0, <2>2, <2>6, <3>3, <4>1
    <3>5. Len(okd') = Len(okd) + 1 /\ Len(okd) \in Nat
      BY <1>0, <2>6
    <3>6. k = Len(okd) + 1 \/ k \in 1 .. Len(okd)
      BY <3>5
    <3>4. QED
      BY <3>2, <3>3, <3>6
  <2>11. QED
    BY <1>0, <2>2, <2>8, <2>9, <2>10 DEF TxPayloadMatches
<1>5. QED
  BY <1>1, <1>2, <1>3, <1>4

(* TxInv is inductive when the NIC clears OWN within the poll budget. *)
LEMMA TxInvStep ==
  ASSUME ~TxMayTimeout
  PROVE  TxInv /\ [Next]_vars => TxInv'
<1> SUFFICES ASSUME TxInv, [Next]_vars PROVE TxInv'
  OBVIOUS
<1>1. CASE Hardware
  BY <1>1, HardwareStep
<1>2. CASE TxStart \/ TxCleanBuf \/ TxWriteDesc \/ TxCleanDesc
  BY <1>2, DriverPrepStep
<1>3. CASE TxKick \/ TxInvalidate \/ TxPollRead \/ TxCheck
  BY <1>3, DriverPollStep
<1>4. CASE UNCHANGED vars
  BY <1>4 DEF vars, hw, nicv, drv, TxInv, TypeInv, TypeOK, OthersIdle, OnlyCurDirty,
     CurDesc, NicBusy, BufCoherent, TxPayloadMatches, TxOkMeansSent, Valid, InFlight,
     NewDesc, DoneDesc, Sent
<1>5. QED
  BY <1>1, <1>2, <1>3, <1>4 DEF Next, Driver

(* When the NIC clears OWN within rtl8125_send_packet's 10000 polls,      *)
(* every frame it transmits carries the payload written by the send that *)
(* armed its descriptor: the buffer clean precedes the descriptor write, *)
(* the descriptor clean precedes the doorbell, and tx_idx only advances  *)
(* past a descriptor the NIC has given back (finding F5 needs a timeout). *)
THEOREM TxPayloadCorrect ==
  ASSUME ~TxMayTimeout
  PROVE  Spec => []TxPayloadMatches
<1>1. TxInv => TxPayloadMatches
  BY DEF TxInv
<1>2. QED
  BY TxInvInit, TxInvStep, <1>1, PTL DEF Spec

(* Under the same condition, rtl8125_send_packet returns 0 only for a    *)
(* call whose frame the NIC has put on the wire.                         *)
THEOREM TxOkSent ==
  ASSUME ~TxMayTimeout
  PROVE  Spec => []TxOkMeansSent
<1>1. TxInv => TxOkMeansSent
  BY DEF TxInv
<1>2. QED
  BY TxInvInit, TxInvStep, <1>1, PTL DEF Spec

=============================================================================
