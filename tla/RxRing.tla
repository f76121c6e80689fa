------------------------------- MODULE RxRing -------------------------------
(***************************************************************************)
(* The RTL8125 receive descriptor ring of src/pcie_test_impl.c:            *)
(* rtl8125_init's RX part and rtl8125_recv_packet, run against the NIC's   *)
(* receive DMA engine and a write-back data cache that is NOT coherent     *)
(* with DMA.                                                               *)
(*                                                                         *)
(* Memory holds the descriptors (mem) and the receive buffers (bmem).  The *)
(* CPU sees them through its cache: a descriptor line (DescPerLine         *)
(* descriptors of 16 bytes share one cache line) is Invalid, Clean or      *)
(* Dirty; a buffer is cached or not.  The NIC reads and writes memory      *)
(* only.  The hardware may evict (writing back a dirty line) or prefetch   *)
(* any line at any time.  Every step of the driver that touches the cache  *)
(* or memory is one action, so the NIC and the cache interleave with it.   *)
(*                                                                         *)
(* Data is abstracted: a frame is its sequence number (1..MaxPkts) and a   *)
(* buffer holds the number of the frame last written into it; a status     *)
(* word carries, as a ghost field tag, the number of the frame the NIC     *)
(* completed into the slot (0 for the driver's own re-arm value).          *)
(***************************************************************************)
EXTENDS Integers, Sequences, Functions

(* s is a prefix of t (SequencesExt's IsPrefix; that module is kept out   *)
(* of reach of the proofs, whose obligations it slows down).              *)
IsPrefix(s, t) == Len(s) <= Len(t) /\ \A k \in 1 .. Len(s) : s[k] = t[k]

CONSTANTS
  NumRxDesc,     \* NUM_RX_DESC
  DescPerLine,   \* g_cache_line_size / sizeof(rtl_desc_t)
  MaxPkts,       \* frames the wire offers in one behaviour
  FrameLens,     \* length fields the NIC may write back (frame + FCS)
  RxErrs,        \* the values the NIC may give the RxRES error flag
  CallerBufSize  \* bytes of the caller's receive buffer

ASSUME NumRxDescAssumption == NumRxDesc \in Nat \ {0}
ASSUME DescPerLineAssumption ==
  /\ DescPerLine \in Nat \ {0}
  /\ NumRxDesc % DescPerLine = 0
ASSUME MaxPktsAssumption == MaxPkts \in Nat
ASSUME FrameLensAssumption == FrameLens \subseteq 0 .. 16383 /\ FrameLens # {}
ASSUME RxErrsAssumption == RxErrs \subseteq BOOLEAN /\ RxErrs # {}
ASSUME CallerBufSizeAssumption == CallerBufSize \in Nat

RX_BUF_SIZE == 2048
DESC_LEN_MASK == 16383          \* status & 0x3FFF
Slots == 0 .. NumRxDesc - 1
Lines == 0 .. (NumRxDesc \div DescPerLine) - 1
LineOf(i) == i \div DescPerLine
Frames == 0 .. MaxPkts
BufInvalid == -1                \* bcache value of an uncached buffer
Undef == -1                     \* an uninitialised uint32_t of the caller

(* The fields of a descriptor status word that the driver or NIC use. *)
Status == [own: BOOLEAN, eor: BOOLEAN, err: BOOLEAN,
           len: 0 .. DESC_LEN_MASK, tag: Frames]

(* What a cache line of an invalid line holds: nothing the CPU can read. *)
Blank == [own |-> TRUE, eor |-> FALSE, err |-> FALSE, len |-> 0, tag |-> 0]

(* The status the driver writes to hand slot i back to the NIC. *)
Armed(i) == [own |-> TRUE, eor |-> (i = NumRxDesc - 1), err |-> FALSE,
             len |-> RX_BUF_SIZE, tag |-> 0]

(* pkt_len = (status & 0x3FFF) - 4 in uint32_t, clamped to RX_BUF_SIZE.  *)
(* Below 4 the subtraction wraps to 2^32 + len - 4, which the clamp maps  *)
(* to RX_BUF_SIZE.                                                        *)
RxPktLen(len) ==
  IF len < 4 \/ len - 4 > RX_BUF_SIZE THEN RX_BUF_SIZE ELSE len - 4

VARIABLES
  mem,       \* descriptor status words in memory
  dline,     \* cache state of each descriptor line: "I", "C" or "D"
  dcache,    \* the CPU's cached copy of each descriptor
  bmem,      \* frame held by each receive buffer in memory
  bcache,    \* the CPU's cached copy of each buffer, or BufInvalid
  nic,       \* the NIC's next receive descriptor (NumRxDesc: off the ring)
  arrived,   \* frames offered by the wire so far
  rx_idx,    \* the driver's ring index
  pc,        \* where rtl8125_recv_packet is
  st,        \* the status word the driver acts on
  pkt_len,   \* the length the driver copies
  ubuf,      \* frame held by the caller's buffer
  ulen,      \* the caller's rx_len
  accepted,  \* history: frames the NIC completed into a descriptor
  taken      \* history: tags of the descriptors the driver consumed

hw == <<mem, dline, dcache, bmem, bcache>>
drv == <<rx_idx, pc, st, pkt_len, ubuf, ulen>>
vars == <<hw, nic, arrived, drv, accepted, taken>>

-----------------------------------------------------------------------------
(* Cache helpers. *)

(* The cache after line l is filled from memory. *)
Filled(l) == [j \in Slots |-> IF LineOf(j) = l THEN mem[j] ELSE dcache[j]]
(* Memory after line l is written back from the cache. *)
WrittenBack(l) == [j \in Slots |-> IF LineOf(j) = l THEN dcache[j] ELSE mem[j]]
(* The cache after line l is dropped. *)
Dropped(l) == [j \in Slots |-> IF LineOf(j) = l THEN Blank ELSE dcache[j]]

(* A CPU load of descriptor i: a miss allocates its line from memory.     *)
(* LoadedCache is the cache after the load, Seen the value loaded.        *)
LoadedCache(i) == IF dline[LineOf(i)] = "I" THEN Filled(LineOf(i)) ELSE dcache
Seen(i) == LoadedCache(i)[i]
LoadDesc(i) ==
  /\ dcache' = LoadedCache(i)
  /\ dline' = IF dline[LineOf(i)] = "I" THEN [dline EXCEPT ![LineOf(i)] = "C"]
                                         ELSE dline

-----------------------------------------------------------------------------
(* rtl8125_init, RX part: every slot OWN | RX_BUF_SIZE, EOR on the last,  *)
(* the ring cleaned to memory; rx_idx = 0.                                *)
Init ==
  /\ mem = [i \in Slots |-> Armed(i)]
  /\ dline = [l \in Lines |-> "C"]
  /\ dcache = [i \in Slots |-> Armed(i)]
  /\ bmem = [i \in Slots |-> 0]
  /\ bcache = [i \in Slots |-> BufInvalid]
  /\ nic = 0
  /\ arrived = 0
  /\ rx_idx = 0
  /\ pc = "idle"
  /\ st = Blank
  /\ pkt_len = 0
  /\ ubuf = 0
  /\ ulen = Undef
  /\ accepted = << >>
  /\ taken = << >>

-----------------------------------------------------------------------------
(* The NIC's receive engine (hardware; not in src/). *)

(* A frame arrives and the descriptor at nic is the NIC's: the frame is   *)
(* written to the buffer, then the status (OWN clear, length, error flag) *)
(* and the NIC moves to the next slot, wrapping only at EOR.              *)
NicAccept ==
  /\ arrived < MaxPkts
  /\ nic \in Slots
  /\ mem[nic].own
  /\ \E len \in FrameLens, err \in RxErrs :
       mem' = [mem EXCEPT ![nic] = [own |-> FALSE, eor |-> @.eor, err |-> err,
                                    len |-> len, tag |-> arrived + 1]]
  /\ bmem' = [bmem EXCEPT ![nic] = arrived + 1]
  /\ nic' = IF mem[nic].eor THEN 0 ELSE nic + 1
  /\ arrived' = arrived + 1
  /\ accepted' = Append(accepted, arrived + 1)
  /\ UNCHANGED <<dline, dcache, bcache, drv, taken>>

(* A frame arrives while the NIC owns no descriptor: it is dropped. *)
NicDrop ==
  /\ arrived < MaxPkts
  /\ nic \in Slots => ~mem[nic].own
  /\ arrived' = arrived + 1
  /\ UNCHANGED <<hw, nic, drv, accepted, taken>>

(* The cache hardware: eviction (a dirty line is written back first) and  *)
(* speculative fill, at any time.                                         *)
DescEvict(l) ==
  /\ dline[l] # "I"
  /\ mem' = IF dline[l] = "D" THEN WrittenBack(l) ELSE mem
  /\ dline' = [dline EXCEPT ![l] = "I"]
  /\ dcache' = Dropped(l)
  /\ UNCHANGED <<bmem, bcache, nic, arrived, drv, accepted, taken>>

DescPrefetch(l) ==
  /\ dline[l] = "I"
  /\ dline' = [dline EXCEPT ![l] = "C"]
  /\ dcache' = Filled(l)
  /\ UNCHANGED <<mem, bmem, bcache, nic, arrived, drv, accepted, taken>>

BufEvict(i) ==
  /\ bcache[i] # BufInvalid
  /\ bcache' = [bcache EXCEPT ![i] = BufInvalid]
  /\ UNCHANGED <<mem, dline, dcache, bmem, nic, arrived, drv, accepted, taken>>

BufPrefetch(i) ==
  /\ bcache[i] = BufInvalid
  /\ bcache' = [bcache EXCEPT ![i] = bmem[i]]
  /\ UNCHANGED <<mem, dline, dcache, bmem, nic, arrived, drv, accepted, taken>>

-----------------------------------------------------------------------------
(* rtl8125_recv_packet, one action per cache or memory access. *)

(* Loop head (entered by the call and by each retry): invalidate the line *)
(* of the current descriptor.                                             *)
(* Mutant: the poll loop without invalidate_dcache_va_range. *)
RxInvalidateSkipped ==
  /\ pc \in {"idle", "poll"}
  /\ pc' = "read"
  /\ UNCHANGED <<hw, nic, arrived, rx_idx, st, pkt_len, ubuf, ulen,
                 accepted, taken>>

RxInvalidate ==
  /\ pc \in {"idle", "poll"}
  /\ dline' = [dline EXCEPT ![LineOf(rx_idx)] = "I"]
  /\ dcache' = Dropped(LineOf(rx_idx))
  /\ pc' = "read"
  /\ UNCHANGED <<mem, bmem, bcache, nic, arrived, rx_idx, st, pkt_len,
                 ubuf, ulen, accepted, taken>>

(* Read the status: OWN clear breaks the loop; OWN set retries, or ends   *)
(* the loop when the timeout budget is spent.                             *)
RxPollRead ==
  /\ pc = "read"
  /\ LoadDesc(rx_idx)
  /\ IF Seen(rx_idx).own THEN pc' \in {"poll", "final"} ELSE pc' = "got"
  /\ UNCHANGED <<mem, bmem, bcache, nic, arrived, rx_idx, st, pkt_len,
                 ubuf, ulen, accepted, taken>>

(* After the loop the status is read again: OWN still set returns -1. *)
RxFinalCheck ==
  /\ pc = "final"
  /\ LoadDesc(rx_idx)
  /\ pc' = IF Seen(rx_idx).own THEN "idle" ELSE "got"
  /\ UNCHANGED <<mem, bmem, bcache, nic, arrived, rx_idx, st, pkt_len,
                 ubuf, ulen, accepted, taken>>

(* The descriptor is the driver's: on RxRES go straight to re-arming,     *)
(* otherwise compute the length to copy.                                  *)
RxGot ==
  /\ pc = "got"
  /\ LoadDesc(rx_idx)
  /\ st' = Seen(rx_idx)
  /\ taken' = Append(taken, Seen(rx_idx).tag)
  /\ IF Seen(rx_idx).err
       THEN pc' = "rearm" /\ pkt_len' = pkt_len
       ELSE pc' = "invbuf" /\ pkt_len' = RxPktLen(Seen(rx_idx).len)
  /\ UNCHANGED <<mem, bmem, bcache, nic, arrived, rx_idx, ubuf, ulen, accepted>>

(* Invalidate the buffer's cache lines. *)
(* Mutant: the copy without invalidating the buffer first. *)
RxInvalidateBufSkipped ==
  /\ pc = "invbuf"
  /\ pc' = "copy"
  /\ UNCHANGED <<hw, nic, arrived, rx_idx, st, pkt_len, ubuf, ulen,
                 accepted, taken>>

RxInvalidateBuf ==
  /\ pc = "invbuf"
  /\ bcache' = [bcache EXCEPT ![rx_idx] = BufInvalid]
  /\ pc' = "copy"
  /\ UNCHANGED <<mem, dline, dcache, bmem, nic, arrived, rx_idx, st, pkt_len,
                 ubuf, ulen, accepted, taken>>

(* Copy pkt_len bytes to the caller and set *len (a miss fills the line). *)
RxCopy ==
  /\ pc = "copy"
  /\ LET b == IF bcache[rx_idx] = BufInvalid THEN bmem[rx_idx] ELSE bcache[rx_idx]
     IN  /\ bcache' = [bcache EXCEPT ![rx_idx] = b]
         /\ ubuf' = b
  /\ ulen' = pkt_len
  /\ pc' = "rearm"
  /\ UNCHANGED <<mem, dline, dcache, bmem, nic, arrived, rx_idx, st, pkt_len,
                 accepted, taken>>

(* reinit_desc: write OWN | RX_BUF_SIZE (| EOR on the last slot) and the  *)
(* buffer address into the cached descriptor (a miss allocates the line). *)
(* Mutant: the re-arm without DESC_EOR on the last slot. *)
RxRearmNoEor ==
  /\ pc = "rearm"
  /\ dcache' = [LoadedCache(rx_idx) EXCEPT ![rx_idx] = [Armed(rx_idx) EXCEPT !.eor = FALSE]]
  /\ dline' = [dline EXCEPT ![LineOf(rx_idx)] = "D"]
  /\ pc' = "clean"
  /\ UNCHANGED <<mem, bmem, bcache, nic, arrived, rx_idx, st, pkt_len,
                 ubuf, ulen, accepted, taken>>

(* Mutant: the re-arm without DESC_OWN. *)
RxRearmNoOwn ==
  /\ pc = "rearm"
  /\ dcache' = [LoadedCache(rx_idx) EXCEPT ![rx_idx] = [Armed(rx_idx) EXCEPT !.own = FALSE]]
  /\ dline' = [dline EXCEPT ![LineOf(rx_idx)] = "D"]
  /\ pc' = "clean"
  /\ UNCHANGED <<mem, bmem, bcache, nic, arrived, rx_idx, st, pkt_len,
                 ubuf, ulen, accepted, taken>>

RxRearm ==
  /\ pc = "rearm"
  /\ dcache' = [LoadedCache(rx_idx) EXCEPT ![rx_idx] = Armed(rx_idx)]
  /\ dline' = [dline EXCEPT ![LineOf(rx_idx)] = "D"]
  /\ pc' = "clean"
  /\ UNCHANGED <<mem, bmem, bcache, nic, arrived, rx_idx, st, pkt_len,
                 ubuf, ulen, accepted, taken>>

(* Clean the descriptor's line to memory, advance rx_idx, return 0. *)
(* Mutant: no clean_dcache_va_range after the re-arm. *)
RxCleanSkipped ==
  /\ pc = "clean"
  /\ rx_idx' = (rx_idx + 1) % NumRxDesc
  /\ pc' = "idle"
  /\ UNCHANGED <<hw, nic, arrived, st, pkt_len, ubuf, ulen, accepted, taken>>

(* Mutant: rx_idx advanced without the modulo. *)
RxCleanNoWrap ==
  /\ pc = "clean"
  /\ mem' = IF dline[LineOf(rx_idx)] = "D" THEN WrittenBack(LineOf(rx_idx)) ELSE mem
  /\ dline' = IF dline[LineOf(rx_idx)] = "D"
                THEN [dline EXCEPT ![LineOf(rx_idx)] = "C"] ELSE dline
  /\ rx_idx' = rx_idx + 1
  /\ pc' = "idle"
  /\ UNCHANGED <<dcache, bmem, bcache, nic, arrived, st, pkt_len,
                 ubuf, ulen, accepted, taken>>

RxClean ==
  /\ pc = "clean"
  /\ mem' = IF dline[LineOf(rx_idx)] = "D" THEN WrittenBack(LineOf(rx_idx)) ELSE mem
  /\ dline' = IF dline[LineOf(rx_idx)] = "D"
                THEN [dline EXCEPT ![LineOf(rx_idx)] = "C"] ELSE dline
  /\ rx_idx' = (rx_idx + 1) % NumRxDesc
  /\ pc' = "idle"
  /\ UNCHANGED <<dcache, bmem, bcache, nic, arrived, st, pkt_len,
                 ubuf, ulen, accepted, taken>>

Driver ==
  \/ RxInvalidate \/ RxPollRead \/ RxFinalCheck \/ RxGot
  \/ RxInvalidateBuf \/ RxCopy \/ RxRearm \/ RxClean

Hardware ==
  \/ NicAccept \/ NicDrop
  \/ \E l \in Lines : DescEvict(l) \/ DescPrefetch(l)
  \/ \E i \in Slots : BufEvict(i) \/ BufPrefetch(i)

Next == Driver \/ Hardware

(* The caller polls rtl8125_recv_packet in a loop; the driver is a        *)
(* running CPU, so its steps are weakly fair.  The NIC and the cache      *)
(* hardware are not: frames need not arrive, lines need not be evicted.   *)
Spec == Init /\ [][Next]_vars /\ WF_vars(Driver)

-----------------------------------------------------------------------------
(* Properties. *)

PcValues == {"idle", "poll", "read", "final", "got", "invbuf", "copy",
             "rearm", "clean"}

(* Every variable holds a value of its type. *)
TypeOK ==
  /\ mem \in [Slots -> Status]
  /\ dline \in [Lines -> {"I", "C", "D"}]
  /\ dcache \in [Slots -> Status]
  /\ bmem \in [Slots -> Frames]
  /\ bcache \in [Slots -> Frames \cup {BufInvalid}]
  /\ nic \in 0 .. NumRxDesc
  /\ arrived \in 0 .. MaxPkts
  /\ rx_idx \in Slots
  /\ pc \in PcValues
  /\ st \in Status
  /\ pkt_len \in 0 .. RX_BUF_SIZE
  /\ ubuf \in Frames
  /\ ulen \in {Undef} \cup 0 .. RX_BUF_SIZE
  /\ accepted \in Seq(1 .. MaxPkts)
  /\ taken \in Seq(Frames)

(* The ownership hand-off of rtl8125_recv_packet is a FIFO: the driver    *)
(* consumes the descriptors in exactly the order the NIC completed them,  *)
(* none skipped, repeated or invented, whatever the cache does between    *)
(* the poll, the copy, the re-arm and the clean.                          *)
RxInOrder == IsPrefix(taken, accepted)

(* No phantom or repeated packet: every descriptor the driver consumes    *)
(* carries a completion the NIC made, and no completion is consumed twice *)
(* (the invalidate before each poll and the re-arm's clean at work).      *)
NoPhantomRx ==
  /\ \A k \in 1 .. Len(taken) : taken[k] \in Range(accepted)
  /\ IsInjective(taken)

(* A cached descriptor the CPU would read as its own is exactly the word  *)
(* in memory: the cache never shows a completion memory does not hold.    *)
HostCacheCoherent ==
  \A i \in Slots :
    dline[LineOf(i)] # "I" /\ ~dcache[i].own => dcache[i] = mem[i]

(* After the copy, the caller's buffer holds the frame of the descriptor  *)
(* the driver consumed, not a stale cached copy of an earlier frame (the  *)
(* buffer invalidate before memcpy_local).                                *)
RxDataIntegrity ==
  pc \in {"rearm", "clean"} /\ ~st.err => ubuf = st.tag

(* The NIC's receive pointer never leaves the ring: the re-arm keeps the  *)
(* EOR flag on the last descriptor.                                       *)
NicInRing == nic \in Slots

(* Every frame the NIC completes into a descriptor is eventually consumed *)
(* by the polling driver.                                                 *)
RxEventuallyTaken ==
  \A f \in 1 .. MaxPkts :
    (f \in Range(accepted)) ~> (f \in Range(taken))

(* When rtl8125_recv_packet returns 0, the caller's buffer holds the frame *)
(* consumed by that call (spec 7: a device-reported error is returned to  *)
(* the caller, never a success).                                          *)
RecvOkFresh == pc = "clean" => ubuf = st.tag

(* memcpy_local never copies more bytes than the caller's buffer holds    *)
(* (spec 4.5: the payload length is clamped to the buffer's capacity).    *)
CopyFitsCaller == pc = "copy" => pkt_len <= CallerBufSize

=============================================================================
