------------------------------- MODULE TxRing -------------------------------
(***************************************************************************)
(* The RTL8125 transmit descriptor ring of src/pcie_test_impl.c:           *)
(* rtl8125_init's TX part and rtl8125_send_packet, run against the NIC's   *)
(* transmit DMA engine and the same non-coherent write-back cache as      *)
(* RxRing: descriptor lines (DescPerLine descriptors each) and buffers are *)
(* Invalid, Clean or Dirty in the CPU's cache, the NIC sees memory only,   *)
(* and the hardware may evict or prefetch any line at any time.           *)
(*                                                                         *)
(* A payload is the number of the send call that wrote it; a descriptor   *)
(* carries, as a ghost field tag, the number of the send that armed it.   *)
(***************************************************************************)
EXTENDS Naturals, Sequences

CONSTANTS
  NumTxDesc,        \* NUM_TX_DESC
  DescPerLine,      \* g_cache_line_size / sizeof(rtl_desc_t)
  MaxSends,         \* calls of rtl8125_send_packet in one behaviour
  SendLens,         \* lengths the caller may pass
  TxMayTimeout      \* whether the 10000-poll budget can run out first

ASSUME NumTxDescAssumption == NumTxDesc \in Nat \ {0}
ASSUME DescPerLineAssumption ==
  DescPerLine \in Nat \ {0} /\ NumTxDesc % DescPerLine = 0
ASSUME MaxSendsAssumption == MaxSends \in Nat
ASSUME SendLensAssumption == SendLens \subseteq Nat /\ SendLens # {}
ASSUME TxMayTimeoutAssumption == TxMayTimeout \in BOOLEAN

TX_BUF_SIZE == 2048
ETH_ZLEN == 60
Slots == 0 .. NumTxDesc - 1
Lines == 0 .. (NumTxDesc \div DescPerLine) - 1
LineOf(i) == i \div DescPerLine
Payloads == 0 .. MaxSends

(* The fields of a TX status word the driver or NIC use (FS and LS are    *)
(* always set together with OWN and are left out).                        *)
Status == [own: BOOLEAN, eor: BOOLEAN, len: 0 .. TX_BUF_SIZE, tag: Payloads]
Blank == [own |-> FALSE, eor |-> FALSE, len |-> 0, tag |-> 0]

(* Short frames are zero-padded to ETH_ZLEN. *)
PadLen(len) == IF len < ETH_ZLEN THEN ETH_ZLEN ELSE len

VARIABLES
  mem,      \* descriptor status words in memory
  dline,    \* cache state of each descriptor line: "I", "C" or "D"
  dcache,   \* the CPU's cached copy of each descriptor
  bmem,     \* payload held by each transmit buffer in memory
  bline,    \* cache state of each buffer: "I", "C" or "D"
  bcache,   \* the CPU's cached copy of each buffer
  ntx,      \* the NIC's next transmit descriptor (NumTxDesc: off the ring)
  nbusy,    \* the NIC has fetched the descriptor at ntx and is sending it
  nfetched, \* the descriptor the NIC fetched
  kick,     \* a TxPoll doorbell the NIC has not finished serving
  tx_idx,   \* the driver's ring index
  pc,       \* where rtl8125_send_packet is
  cur,      \* number of the current send call
  plen,     \* pad_len of the current send
  wire,     \* history: frames transmitted, [tag, data]
  okd       \* history: the send calls that returned 0

hw == <<mem, dline, dcache, bmem, bline, bcache>>
nicv == <<ntx, nbusy, nfetched, kick>>
drv == <<tx_idx, pc, cur, plen>>
vars == <<hw, nicv, drv, wire, okd>>

-----------------------------------------------------------------------------
Filled(l) == [j \in Slots |-> IF LineOf(j) = l THEN mem[j] ELSE dcache[j]]
WrittenBack(l) == [j \in Slots |-> IF LineOf(j) = l THEN dcache[j] ELSE mem[j]]
Dropped(l) == [j \in Slots |-> IF LineOf(j) = l THEN Blank ELSE dcache[j]]
LoadedCache(i) == IF dline[LineOf(i)] = "I" THEN Filled(LineOf(i)) ELSE dcache
Seen(i) == LoadedCache(i)[i]
LoadDesc(i) ==
  /\ dcache' = LoadedCache(i)
  /\ dline' = IF dline[LineOf(i)] = "I" THEN [dline EXCEPT ![LineOf(i)] = "C"]
                                         ELSE dline
(* Memory and line state after a clean of descriptor line l. *)
CleanDescLine(l) ==
  /\ mem' = IF dline[l] = "D" THEN WrittenBack(l) ELSE mem
  /\ dline' = IF dline[l] = "D" THEN [dline EXCEPT ![l] = "C"] ELSE dline

-----------------------------------------------------------------------------
(* rtl8125_init, TX part: status 0 with EOR on the last slot, ring        *)
(* cleaned to memory; tx_idx = 0.                                         *)
Init ==
  /\ mem = [i \in Slots |-> [own |-> FALSE, eor |-> (i = NumTxDesc - 1), len |-> 0, tag |-> 0]]
  /\ dline = [l \in Lines |-> "C"]
  /\ dcache = mem
  /\ bmem = [i \in Slots |-> 0]
  /\ bline = [i \in Slots |-> "I"]
  /\ bcache = [i \in Slots |-> 0]
  /\ ntx = 0
  /\ nbusy = FALSE
  /\ nfetched = Blank
  /\ kick = FALSE
  /\ tx_idx = 0
  /\ pc = "idle"
  /\ cur = 0
  /\ plen = 0
  /\ wire = << >>
  /\ okd = << >>

-----------------------------------------------------------------------------
(* The NIC's transmit engine (hardware; not in src/).  After a doorbell   *)
(* it fetches descriptors from ntx while they carry OWN, DMA-reads each    *)
(* buffer from memory, transmits, writes the status back without OWN and  *)
(* moves on, wrapping only at EOR.                                        *)
NicTxFetch ==
  /\ kick /\ ~nbusy
  /\ ntx \in Slots
  /\ mem[ntx].own
  /\ nbusy' = TRUE
  /\ nfetched' = mem[ntx]
  /\ UNCHANGED <<hw, ntx, kick, drv, wire, okd>>

NicTxSend ==
  /\ nbusy
  /\ wire' = Append(wire, [tag |-> nfetched.tag, data |-> bmem[ntx]])
  /\ mem' = [mem EXCEPT ![ntx] = [own |-> FALSE, eor |-> nfetched.eor,
                                  len |-> nfetched.len, tag |-> nfetched.tag]]
  /\ ntx' = IF nfetched.eor THEN 0 ELSE ntx + 1
  /\ nbusy' = FALSE
  /\ UNCHANGED <<dline, dcache, bmem, bline, bcache, nfetched, kick, drv, okd>>

(* No descriptor with OWN at ntx: the NIC goes idle until the next kick. *)
NicTxIdle ==
  /\ kick /\ ~nbusy
  /\ ntx \in Slots => ~mem[ntx].own
  /\ kick' = FALSE
  /\ UNCHANGED <<hw, ntx, nbusy, nfetched, drv, wire, okd>>

DescEvict(l) ==
  /\ dline[l] # "I"
  /\ mem' = IF dline[l] = "D" THEN WrittenBack(l) ELSE mem
  /\ dline' = [dline EXCEPT ![l] = "I"]
  /\ dcache' = Dropped(l)
  /\ UNCHANGED <<bmem, bline, bcache, nicv, drv, wire, okd>>

DescPrefetch(l) ==
  /\ dline[l] = "I"
  /\ dline' = [dline EXCEPT ![l] = "C"]
  /\ dcache' = Filled(l)
  /\ UNCHANGED <<mem, bmem, bline, bcache, nicv, drv, wire, okd>>

BufEvict(i) ==
  /\ bline[i] # "I"
  /\ bmem' = IF bline[i] = "D" THEN [bmem EXCEPT ![i] = bcache[i]] ELSE bmem
  /\ bline' = [bline EXCEPT ![i] = "I"]
  /\ bcache' = [bcache EXCEPT ![i] = 0]
  /\ UNCHANGED <<mem, dline, dcache, nicv, drv, wire, okd>>

BufPrefetch(i) ==
  /\ bline[i] = "I"
  /\ bline' = [bline EXCEPT ![i] = "C"]
  /\ bcache' = [bcache EXCEPT ![i] = bmem[i]]
  /\ UNCHANGED <<mem, dline, dcache, bmem, nicv, drv, wire, okd>>

-----------------------------------------------------------------------------
(* rtl8125_send_packet. *)

(* The call: reject len > TX_BUF_SIZE, else copy and pad the payload into *)
(* the cached buffer (a write allocates the line, leaving it dirty).      *)
TxStart ==
  /\ pc = "idle"
  /\ cur < MaxSends
  /\ cur' = cur + 1
  /\ \E len \in SendLens :
       IF len > TX_BUF_SIZE
         THEN UNCHANGED <<bline, bcache, pc, plen>>
         ELSE /\ bcache' = [bcache EXCEPT ![tx_idx] = cur + 1]
              /\ bline' = [bline EXCEPT ![tx_idx] = "D"]
              /\ plen' = PadLen(len)
              /\ pc' = "cleanbuf"
  /\ UNCHANGED <<mem, dline, dcache, bmem, nicv, tx_idx, wire, okd>>

(* Mutant: the buffer is not cleaned before the descriptor is armed. *)
TxCleanBufSkipped ==
  /\ pc = "cleanbuf"
  /\ pc' = "desc"
  /\ UNCHANGED <<hw, nicv, tx_idx, cur, plen, wire, okd>>

(* Clean the buffer's lines to memory. *)
TxCleanBuf ==
  /\ pc = "cleanbuf"
  /\ bmem' = IF bline[tx_idx] = "D" THEN [bmem EXCEPT ![tx_idx] = bcache[tx_idx]]
                                    ELSE bmem
  /\ bline' = IF bline[tx_idx] = "D" THEN [bline EXCEPT ![tx_idx] = "C"] ELSE bline
  /\ pc' = "desc"
  /\ UNCHANGED <<mem, dline, dcache, bcache, nicv, tx_idx, cur, plen, wire, okd>>

(* status = DESC_OWN | DESC_FS | DESC_LS | pad_len: the whole word is     *)
(* replaced, so the EOR flag that init put on the last slot is lost.      *)
TxWriteDesc ==
  /\ pc = "desc"
  /\ dcache' = [LoadedCache(tx_idx) EXCEPT
                  ![tx_idx] = [own |-> TRUE, eor |-> FALSE, len |-> plen, tag |-> cur]]
  /\ dline' = [dline EXCEPT ![LineOf(tx_idx)] = "D"]
  /\ pc' = "cleandesc"
  /\ UNCHANGED <<mem, bmem, bline, bcache, nicv, tx_idx, cur, plen, wire, okd>>

(* Mutant: the descriptor is not cleaned before the doorbell. *)
TxCleanDescSkipped ==
  /\ pc = "cleandesc"
  /\ pc' = "kick"
  /\ UNCHANGED <<hw, nicv, tx_idx, cur, plen, wire, okd>>

(* Clean the descriptor's line. *)
TxCleanDesc ==
  /\ pc = "cleandesc"
  /\ CleanDescLine(LineOf(tx_idx))
  /\ pc' = "kick"
  /\ UNCHANGED <<dcache, bmem, bline, bcache, nicv, tx_idx, cur, plen, wire, okd>>

(* rtl_write8(RTL8125_TxPoll, 0x01). *)
TxKick ==
  /\ pc = "kick"
  /\ kick' = TRUE
  /\ pc' = "inv"
  /\ UNCHANGED <<hw, ntx, nbusy, nfetched, tx_idx, cur, plen, wire, okd>>

(* Poll loop head: invalidate the descriptor's line. *)
TxInvalidate ==
  /\ pc = "inv"
  /\ dline' = [dline EXCEPT ![LineOf(tx_idx)] = "I"]
  /\ dcache' = Dropped(LineOf(tx_idx))
  /\ pc' = "read"
  /\ UNCHANGED <<mem, bmem, bline, bcache, nicv, tx_idx, cur, plen, wire, okd>>

(* OWN clear breaks the loop; OWN set retries or spends the budget. *)
TxPollRead ==
  /\ pc = "read"
  /\ LoadDesc(tx_idx)
  /\ IF Seen(tx_idx).own
       THEN pc' \in IF TxMayTimeout THEN {"inv", "check"} ELSE {"inv"}
       ELSE pc' = "check"
  /\ UNCHANGED <<mem, bmem, bline, bcache, nicv, tx_idx, cur, plen, wire, okd>>

(* Mutant: tx_idx advanced without the modulo. *)
TxCheckNoWrap ==
  /\ pc = "check"
  /\ LoadDesc(tx_idx)
  /\ IF Seen(tx_idx).own
       THEN UNCHANGED <<tx_idx, okd>>
       ELSE tx_idx' = tx_idx + 1 /\ okd' = Append(okd, cur)
  /\ pc' = "idle"
  /\ UNCHANGED <<mem, bmem, bline, bcache, nicv, cur, plen, wire>>

(* After the loop: OWN still set is "TX timeout!" (return -1, tx_idx      *)
(* kept); otherwise advance tx_idx and return 0.                          *)
TxCheck ==
  /\ pc = "check"
  /\ LoadDesc(tx_idx)
  /\ IF Seen(tx_idx).own
       THEN UNCHANGED <<tx_idx, okd>>
       ELSE tx_idx' = (tx_idx + 1) % NumTxDesc /\ okd' = Append(okd, cur)
  /\ pc' = "idle"
  /\ UNCHANGED <<mem, bmem, bline, bcache, nicv, cur, plen, wire>>

Driver ==
  \/ TxStart \/ TxCleanBuf \/ TxWriteDesc \/ TxCleanDesc \/ TxKick
  \/ TxInvalidate \/ TxPollRead \/ TxCheck

Hardware ==
  \/ NicTxFetch \/ NicTxSend \/ NicTxIdle
  \/ \E l \in Lines : DescEvict(l) \/ DescPrefetch(l)
  \/ \E i \in Slots : BufEvict(i) \/ BufPrefetch(i)

Next == Driver \/ Hardware

Spec == Init /\ [][Next]_vars

-----------------------------------------------------------------------------
(* Properties. *)

PcValues == {"idle", "cleanbuf", "desc", "cleandesc", "kick", "inv", "read",
             "check"}

(* Every variable holds a value of its type. *)
TypeOK ==
  /\ mem \in [Slots -> Status]
  /\ dline \in [Lines -> {"I", "C", "D"}]
  /\ dcache \in [Slots -> Status]
  /\ bmem \in [Slots -> Payloads]
  /\ bline \in [Slots -> {"I", "C", "D"}]
  /\ bcache \in [Slots -> Payloads]
  /\ ntx \in 0 .. NumTxDesc
  /\ nbusy \in BOOLEAN
  /\ nfetched \in Status
  /\ kick \in BOOLEAN
  /\ tx_idx \in Slots
  /\ pc \in PcValues
  /\ cur \in Payloads
  /\ plen \in 0 .. TX_BUF_SIZE
  /\ wire \in Seq([tag: Payloads, data: Payloads])
  /\ okd \in Seq(Payloads)

(* Every frame the NIC transmits carries the payload written by the send  *)
(* that armed its descriptor: the buffer clean precedes the descriptor    *)
(* write, and nothing rewrites a buffer the NIC is still reading.         *)
TxPayloadMatches == \A k \in 1 .. Len(wire) : wire[k].tag = wire[k].data

(* rtl8125_send_packet returns 0 only after its frame went on the wire.   *)
TxOkMeansSent ==
  \A k \in 1 .. Len(okd) : \E j \in 1 .. Len(wire) : wire[j].tag = okd[k]

(* The NIC's transmit pointer never leaves the ring (spec 3: the last     *)
(* descriptor always carries the end-of-ring flag).                       *)
NicTxInRing == ntx \in Slots

(* The driver never writes a transmit buffer whose descriptor the NIC     *)
(* still owns (spec 3: a device-owned entry is never reused by software   *)
(* until its ownership bit clears).                                       *)
TxNoReuseWhileOwned ==
  [][pc = "idle" /\ pc' = "cleanbuf" => ~mem[tx_idx].own]_vars

=============================================================================
