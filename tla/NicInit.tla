------------------------------- MODULE NicInit -------------------------------
(***************************************************************************)
(* rtl8125_init of src/pcie_test_impl.c: the software reset and its        *)
(* bounded wait, the Cfg9346 unlock, the set-up of the TX and RX rings     *)
(* through the CPU's write-back cache, their clean to memory, the ring     *)
(* base and configuration registers, the TX/RX enable and the lock.        *)
(*                                                                         *)
(* The NIC is a record of the register state the function changes.  The   *)
(* reset (hardware; not in src/) completes whenever the chip gets to it,   *)
(* or never, and restores the registers' defaults when it completes.  The  *)
(* cache may evict a line at any time.  A descriptor in memory or in the   *)
(* cache holds either what rtl8125_init writes into it ("init") or what    *)
(* was there before ("junk"): which bits the init value has is RxRing's   *)
(* and TxRing's concern.                                                   *)
(*                                                                         *)
(* Names carry an Init or Nic prefix so that the module composes with      *)
(* PcieEnum by EXTENDS (PcieTest).                                         *)
(***************************************************************************)
EXTENDS Naturals

CONSTANTS
  NumTxDesc,      \* NUM_TX_DESC
  NumRxDesc,      \* NUM_RX_DESC
  IDescPerLine,   \* descriptors per cache line
  ResetPolls      \* polls of ChipCmd before "Reset timeout!" (1000)

ASSUME NicDescAssumption ==
  /\ NumTxDesc \in Nat \ {0} /\ NumRxDesc \in Nat \ {0}
  /\ IDescPerLine \in Nat \ {0}
ASSUME ResetPollsAssumption == ResetPolls \in Nat

Descs == ({"tx"} \X (0 .. NumTxDesc - 1)) \cup ({"rx"} \X (0 .. NumRxDesc - 1))
ILineOf(d) == <<d[1], d[2] \div IDescPerLine>>
ILines == {ILineOf(d) : d \in Descs}
DescVals == {"junk", "init"}

(* The NIC registers rtl8125_init changes: ChipCmd's reset and enable     *)
(* bits, whether the descriptor base registers point at tx_ring/rx_ring,  *)
(* and Cfg9346's lock.                                                    *)
Chip == [rst: BOOLEAN, en: BOOLEAN, txbase: BOOLEAN, rxbase: BOOLEAN,
         unlocked: BOOLEAN]
ChipDefaults == [rst |-> FALSE, en |-> FALSE, txbase |-> FALSE,
                 rxbase |-> FALSE, unlocked |-> FALSE]

VARIABLES
  ipc,     \* where rtl8125_init is ("idle": not called yet)
  polls,   \* i of the reset wait loop: ChipCmd reads made
  chip,    \* the NIC's registers
  imem,    \* descriptors in memory
  iline,   \* cache state of each descriptor line: "I", "C" or "D"
  icache   \* the CPU's cached copy of each descriptor

ivars == <<ipc, polls, chip, imem, iline, icache>>

IpcValues == {"idle", "start", "poll", "unlock", "rings", "clean", "regs",
              "enable", "lock", "ok", "fail"}

(* Before the call: the rings' memory and cache hold whatever was there;  *)
(* the NIC is out of reset, may have been left running by firmware, but   *)
(* its base registers do not point at tx_ring/rx_ring.                    *)
NicIdle ==
  /\ ipc = "idle"
  /\ polls = 0
  /\ chip \in {c \in Chip : ~c.rst /\ ~c.txbase /\ ~c.rxbase}
  /\ imem = [d \in Descs |-> "junk"]
  /\ iline \in [ILines -> {"I", "C", "D"}]
  /\ icache = [d \in Descs |-> "junk"]

-----------------------------------------------------------------------------
(* rtl8125_init. *)

(* The call (from test_dw_pcie_atu). *)
InitCall ==
  /\ ipc = "idle"
  /\ ipc' = "start"
  /\ UNCHANGED <<polls, chip, imem, iline, icache>>

(* Read the MAC address, write CMD_RESET to ChipCmd (TX and RX enable     *)
(* bits 0: the engines stop), mdelay(10), enter the wait loop at i = 0.   *)
InitReset ==
  /\ ipc = "start"
  /\ chip' = [chip EXCEPT !.rst = TRUE, !.en = FALSE]
  /\ polls' = 0
  /\ ipc' = "poll"
  /\ UNCHANGED <<imem, iline, icache>>

(* One iteration: the reset bit read clear breaks the loop; otherwise     *)
(* udelay(10) and i++.                                                    *)
(* Mutant: the wait as while (ChipCmd & CMD_RESET) udelay(10), no bound. *)
InitResetPollUnbounded ==
  /\ ipc = "poll"
  /\ polls < ResetPolls
  /\ IF chip.rst THEN polls' = polls /\ ipc' = "poll"
                 ELSE polls' = polls /\ ipc' = "unlock"
  /\ UNCHANGED <<chip, imem, iline, icache>>

(* Mutant: the loop bound as i <= 1000. *)
InitResetPollOffByOne ==
  /\ ipc = "poll"
  /\ polls <= ResetPolls
  /\ IF chip.rst THEN polls' = polls + 1 /\ ipc' = "poll"
                 ELSE polls' = polls /\ ipc' = "unlock"
  /\ UNCHANGED <<chip, imem, iline, icache>>

InitResetPoll ==
  /\ ipc = "poll"
  /\ polls < ResetPolls
  /\ IF chip.rst THEN polls' = polls + 1 /\ ipc' = "poll"
                 ELSE polls' = polls /\ ipc' = "unlock"
  /\ UNCHANGED <<chip, imem, iline, icache>>

(* i >= 1000: "Reset timeout!", return -1. *)
InitResetTimeout ==
  /\ ipc = "poll"
  /\ polls = ResetPolls
  /\ ipc' = "fail"
  /\ UNCHANGED <<polls, chip, imem, iline, icache>>

(* Cfg9346 = CFG9346_UNLOCK. *)
InitUnlock ==
  /\ ipc = "unlock"
  /\ chip' = [chip EXCEPT !.unlocked = TRUE]
  /\ ipc' = "rings"
  /\ UNCHANGED <<polls, imem, iline, icache>>

(* The memset and the two set-up loops (EOR or-ed into the last slots):   *)
(* every field of every descriptor is stored, so each line, allocated on  *)
(* a miss, ends up dirty holding the init values.  The NIC is stopped and *)
(* reads nothing meanwhile, so the stores are one step.                   *)
InitRings ==
  /\ ipc = "rings"
  /\ icache' = [d \in Descs |-> "init"]
  /\ iline' = [l \in ILines |-> "D"]
  /\ ipc' = "clean"
  /\ UNCHANGED <<polls, chip, imem>>

(* clean_dcache_va_range over the lines of the rings in rs: dirty lines   *)
(* are written back and stay valid.                                       *)
CleanRings(rs) ==
  LET dirty == {l \in ILines : l[1] \in rs /\ iline[l] = "D"}
  IN  /\ imem' = [d \in Descs |-> IF ILineOf(d) \in dirty THEN icache[d] ELSE imem[d]]
      /\ iline' = [l \in ILines |-> IF l \in dirty THEN "C" ELSE iline[l]]

(* Mutant: only tx_ring is cleaned. *)
InitCleanTxOnly ==
  /\ ipc = "clean"
  /\ CleanRings({"tx"})
  /\ ipc' = "regs"
  /\ UNCHANGED <<polls, chip, icache>>

InitClean ==
  /\ ipc = "clean"
  /\ CleanRings({"tx", "rx"})
  /\ ipc' = "regs"
  /\ UNCHANGED <<polls, chip, icache>>

(* The descriptor base registers, TxConfig, RxConfig, MaxRxPacketSize. *)
InitRegs ==
  /\ ipc = "regs"
  /\ chip' = [chip EXCEPT !.txbase = TRUE, !.rxbase = TRUE]
  /\ ipc' = "enable"
  /\ UNCHANGED <<polls, imem, iline, icache>>

(* ChipCmd = CMD_TX_ENABLE | CMD_RX_ENABLE: the DMA engines start. *)
InitEnable ==
  /\ ipc = "enable"
  /\ chip' = [chip EXCEPT !.en = TRUE]
  /\ ipc' = "lock"
  /\ UNCHANGED <<polls, imem, iline, icache>>

(* Cfg9346 = CFG9346_LOCK, return 0. *)
InitLock ==
  /\ ipc = "lock"
  /\ chip' = [chip EXCEPT !.unlocked = FALSE]
  /\ ipc' = "ok"
  /\ UNCHANGED <<polls, imem, iline, icache>>

-----------------------------------------------------------------------------
(* The hardware (not in src/). *)

(* The chip completes its reset: the bit clears and the registers return  *)
(* to their defaults.                                                     *)
NicResetDone ==
  /\ chip.rst
  /\ chip' = ChipDefaults
  /\ UNCHANGED <<ipc, polls, imem, iline, icache>>

(* The cache evicts line l: a dirty line is written back, a clean one     *)
(* dropped.                                                               *)
IEvict(l) ==
  /\ iline[l] # "I"
  /\ imem' = [d \in Descs |-> IF ILineOf(d) = l /\ iline[l] = "D"
                                THEN icache[d] ELSE imem[d]]
  /\ iline' = [iline EXCEPT ![l] = IF @ = "D" THEN "C" ELSE "I"]
  /\ UNCHANGED <<ipc, polls, chip, icache>>

InitProgram ==
  \/ InitReset \/ InitResetPoll \/ InitResetTimeout \/ InitUnlock
  \/ InitRings \/ InitClean \/ InitRegs \/ InitEnable \/ InitLock

InitHardware == NicResetDone \/ \E l \in ILines : IEvict(l)

NicStep == InitProgram \/ InitHardware

(* rtl8125_init on its own, from any call on. *)
NicNext == InitCall \/ NicStep
NicSpec == NicIdle /\ [][NicNext]_ivars

-----------------------------------------------------------------------------
(* Properties. *)

NicTypeOK ==
  /\ ipc \in IpcValues
  /\ polls \in 0 .. ResetPolls
  /\ chip \in Chip
  /\ imem \in [Descs -> DescVals]
  /\ iline \in [ILines -> {"I", "C", "D"}]
  /\ icache \in [Descs -> DescVals]

(* Once rtl8125_init has reset the chip, the DMA engines only ever run    *)
(* on tx_ring and rx_ring as initialised: the base registers point at     *)
(* them and memory (which the NIC reads) holds every descriptor's init    *)
(* value.  This needs the reset to have completed before the registers    *)
(* are written and the rings cleaned before the enable.                   *)
NicRunsOnRings ==
  ipc \notin {"idle", "start"} /\ chip.en =>
    /\ chip.txbase /\ chip.rxbase
    /\ \A d \in Descs : imem[d] = "init"

(* rtl8125_init always returns: the reset wait is bounded even when the   *)
(* chip never completes its reset (spec 5: no unbounded spin).            *)
InitTerminates == ipc = "start" ~> ipc \in {"ok", "fail"}

=============================================================================
