# Formal models of `src/pcie_test_impl.c`

TLA+ models, TLC runs and TLAPS proofs for the RK3588 PCIe/RTL8125 bring-up
test in `src/pcie_test_impl.c`. The program is single-threaded and bare-metal.
It works in two steps:

1. It programs the DesignWare iATU so that one CPU window (ATU region 1, the
   "swing" region) reaches either the configuration space of bus 0 or the
   device's BAR2. Through that window it probes and enables the device.
2. It drives the RTL8125's TX and RX descriptor rings to send a ping and poll
   for the reply.

Its concurrency is not between threads. It is between the CPU and the
devices:

- the ATU, which may not confirm a setting in time;
- the NIC's DMA engines, which read and write memory while the driver polls;
- the data cache, which is not coherent with DMA and may evict or prefetch a
  line at any moment.

## 1. Inventory

| Part (spec §) | Code | Modelled by | Status |
|---|---|---|---|
| Window register access (4.1) | `read32`/`write32`, `rtl_*`, `udelay` | inside the actions that call them | not modelled on its own |
| ATU window manager (4.2) | `dw_pcie_setup_atu` 287-398 | `Atu` | modelled |
| Config-space accessor (4.3) | `pcie_config_read32/write32` 406-487 | `Atu`, `PcieEnum` | modelled |
| Enumeration, BAR sizing, enable (4.4) | `pcie_scan_bus`, `pcie_get_bar_info`, `pcie_enable_device` 494-578, 586-635 | `PcieEnum` | modelled |
| Orchestration | `test_dw_pcie_atu` 1011-1100 | `PcieEnum` (steps 1-4), `PcieTest` (step 5) | partly: the step-6 ping loop is not one composed model |
| NIC init | `rtl8125_init` 641-760 | `NicInit`; `Init` of `RxRing`/`TxRing` | modelled |
| TX ring (4.5) | `rtl8125_send_packet` 765-826 | `TxRing` | modelled |
| RX ring (4.5) | `rtl8125_recv_packet` 831-902 | `RxRing`, refined to `RxQueue` by `RxRingQueue` | modelled |
| Packet formatting | `send_ping`, `ip_checksum`, `htons`... | none | not modelled: pure formatting, a frame is a model value |

Parts of the hardware come from the spec and the RTL8125/DesignWare
behaviour, not from code under `src/`. In `PROJECT.json` they are marked
`spec_modelled`:

- the NIC's DMA engines: `NicAccept`, `NicDrop`, `NicTxFetch`, `NicTxSend`,
  `NicTxIdle`;
- the NIC's reset completion `NicResetDone` and its register defaults;
- the cache's spontaneous evict and prefetch steps;
- the frame arrivals `Complete` and `Lose` of the abstract `RxQueue`.

## 2. Modules

### `Atu`: the ATU window and the config accessor

`Atu` holds operators, not a state machine. `Region` is region 1's type,
target and enable bit. `dw_pcie_setup_atu` rewrites every register and then
polls the enable bit 5 times. The program is single-threaded and nothing
reads the region mid-call, so a call is one step with an outcome in
`Outcomes`:

- `"ok"`;
- `"timeout_on"` or `"timeout_off"`: the enable state after a timeout is up
  to the hardware.

`RegionAfterCfg` is what `pcie_config_read32/write32` leave behind. It keeps
the code's conditions:

- the access happens only on `ret == 0`;
- the restore happens only when `restore_memory && bar_phys != 0`;
- a restore failure is only logged.

The constant `AtuMayFail` chooses between an ATU that always confirms and one
that may time out.

### `PcieEnum`: steps 1-5 of `test_dw_pcie_atu`

Its state is the following:

- `region`: ATU region 1;
- `dev`: the device, with `present`, its Command register as a set of bits,
  and BAR2 as "assigned", "unassigned" or "ones";
- `pc`, with one value per config access at its call site;
- the locals `bar_orig`, `bar_val`, `bar_addr` and `cmd_reg`;
- two ghosts: `bar_pre`, BAR2 before the probe, and `mmio_region`, the region
  through which the first MMIO access went.

Every config access is one action. On failure it returns the all-ones
sentinel (`CfgRead`) or skips the write (`WriteBar`, `EnWriteCmd`). The
all-ones value is modelled by what it means: every Command bit set, BAR
"ones". `Init` takes any region 1 state and any Command register left by
firmware.

The other values are abstracted as follows:

- `bar_addr` is "bar", "zero" or "garbage". That covers assigned, unassigned,
  and built from a sentinel.
- `bar_size` is not modelled: it is only logged.

### `NicInit`: `rtl8125_init`

`ipc` walks the function's steps, one action each: `InitCall`,
`InitReset` (CMD_RESET written, which also clears the enable bits),
`InitResetPoll` (one iteration of the 1000-poll wait, `polls` is `i`),
`InitResetTimeout` (`return -1`), `InitUnlock`, `InitRings` (every
descriptor stored through the cache, so every line ends dirty),
`InitClean` (`clean_dcache_va_range` on both rings), `InitRegs` (base
and configuration registers), `InitEnable` (ChipCmd enable) and `InitLock`.
`chip` is the register state these writes change. A descriptor holds
either its init value or the junk that was in memory before; which bits
the init value has is `RxRing`'s and `TxRing`'s business, and they start
from it.

The hardware has two actions. `NicResetDone` may complete the reset at any
time, or never, and restores every register's default. `IEvict` writes a
dirty line back or drops a clean one at any time. Before the call the
chip may be running (firmware left it so), but its base registers do not
point at the rings.

### `PcieTest`: steps 1-5 composed

`PcieTest` EXTENDS `PcieEnum` and `NicInit` (their names are disjoint)
and adds `CallInit`: once the step-4 test read is done (`pc = "done"`),
`rtl8125_init` is called. The CPU's steps (`Program`) are weakly fair;
the hardware's are not.

### `RxRing` and `TxRing`: the descriptor rings

- **Memory:** `mem` holds the descriptors and `bmem` the buffers.
- **Cache:** `dline[l]` (I/C/D) and `dcache` are the cached descriptor lines.
  `DescPerLine` descriptors of 16 bytes share a line; it is 4 on the RK3588,
  whose lines are 64 bytes. The buffers have their own cache state.
- **NIC:** its ring pointer is `nic` or `ntx`. Its actions read and write
  memory only. Its pointer wraps only at a descriptor with EOR.
- **Driver:** a `pc` with one value per cache or memory operation of the
  call, for example `RxInvalidate` → `RxPollRead` → `RxFinalCheck` → `RxGot` →
  `RxInvalidateBuf` → `RxCopy` → `RxRearm` → `RxClean`.
- **Hardware:** `DescEvict`, `DescPrefetch`, `BufEvict` and `BufPrefetch`
  model the cache's own evictions and prefetches.
- **Data:** a frame or payload is a sequence number. Descriptors carry a
  ghost `tag`.
- **History:** `accepted`/`taken` (RX) and `wire`/`okd` (TX) are the histories
  the properties compare.
- **Timeouts:** the receive timeout and the TX poll budget are
  nondeterministic exits of the poll loop. `TxMayTimeout` allows the TX
  timeout.
- **Lengths:** lengths are kept where a property depends on them:
  - the RX length field minus FCS, clamped to `RX_BUF_SIZE`;
  - TX padding to `ETH_ZLEN` and rejection above `TX_BUF_SIZE`.

### `RxQueue` and `RxRingQueue`: what the receive path implements

`RxQueue` is the promise of spec 4.5 and 7. Frames the NIC completes wait in
a FIFO queue `pending`. `Take` moves the oldest one to `cur`, and `Done`
ends the call. `Complete` and `Lose` are frames that arrive and frames that
are dropped.

`RxRingQueue` maps `RxRing`'s state onto it:

- `cur` is the ghost tag of the descriptor the call holds (`st.tag`) from
  `RxGot` until the re-arm reaches memory.
- `pending` lists the buffers of the slots in memory with OWN clear, from
  the slot after the one being consumed, oldest first. The slot being
  consumed is left out while it is `Held`. It stops being held once the
  re-armed line is in memory, whether by `RxClean` or by an eviction first.
  Without this the NIC, refilling a slot the cache already wrote back,
  would appear to skip the queue.

`ImplementsRxQueue` (`Q!QSpec`) is checked as a `PROPERTY` of the
`rx_one_per_line` run, fairness included. Its safety half is proved for
every ring size with one descriptor per line (`RxQueueRefinement`,
section 5).

## 3. Runs

| Run | Config | Checks | Result |
|---|---|---|---|
| rx_one_per_line | `RxRing_L1` (2 slots, 1 desc/line, 4 frames, errors allowed) | TypeOK, RxInOrder, RxDataIntegrity, NicInRing, RxInv, RefInv, RxEventuallyTaken, ImplementsRxQueue | pass |
| rx_shared_line_coherence | `RxRing_L4` (4 slots in one line, 5 frames) | NoPhantomRx, HostCacheCoherent | pass |
| tx_ok | `TxRing_Ok` (4 slots in one line, 5 sends, lengths 42/98/2049) | TypeOK, TxPayloadMatches, TxOkMeansSent | pass |
| enum_ok | `PcieEnum_Ok` on `MCPcieTest` (ATU always confirms, BAR assigned, 4+4 descriptors, 4 per line, 3 reset polls) | TypeOK, BarRestored, MmioThroughBarWindow, NicTypeOK, NicRunsOnRings, InitTerminates | pass |
| rx_false_sharing | 4 desc/line, 6 frames | RxInOrder | violation (F1) |
| rx_error_reported_ok | errors allowed | RecvOkFresh | violation (F2) |
| rx_caller_overflow | frame length 1504, caller buffer 1024 | CopyFitsCaller | violation (F3) |
| tx_eor_lost | 5 sends on 4 slots | NicTxInRing | violation (F4) |
| tx_reuse_after_timeout | TX timeout allowed | TxNoReuseWhileOwned | violation (F5) |
| enum_bar_not_restored | ATU may fail | BarRestored | violation (F6) |
| enum_mmio_wrong_window | ATU may fail | MmioThroughBarWindow | violation (F7) |
| enum_enable_sentinel | ATU may fail | EnabledMeansMemSpace | violation (F8) |

The two RX passing runs must not hit the known bugs:

- **rx_one_per_line** uses one descriptor per line. The false-sharing bug
  (F1) then cannot happen, so the run checks the rest of the protocol: the
  invalidate-before-poll, the buffer invalidate, the EOR re-arm, and liveness.
  It allows RxRES errors, so every RX path fires. It also checks `RxInv`,
  the inductive invariant of the FIFO proof, and `RefInv`, that of the
  refinement proof (section 5). `MCRxRing` extends `RxQueueProofs` for
  this.
- **rx_shared_line_coherence** uses the real geometry. It checks the
  properties that survive F1: no phantom or repeated frame, and
  `HostCacheCoherent`.

The two other passing runs are set up as follows:

- **tx_ok** sends 5 frames on 4 slots, so the driver's index wraps. The
  NIC's pointer leaves the ring after the fourth transmission (F4). The
  fifth send arms slot 0, which the NIC never fetches, and, with no
  timeout in this run, polls for ever. So the run never has the NIC
  transmit a slot reused after the wrap. For that case only the proofs
  `TxPayloadCorrect` and `TxOkSent` (section 5) speak, for every ring
  size.
- **enum_ok** starts from any initial region and Command register and runs
  on into `rtl8125_init`. The reset completes after any number of polls
  within the budget, or never (the timeout path). The cache evicts any
  line at any point, before or after the clean. `NicRunsOnRings` says that
  once the chip was reset the engines only run with the base registers set
  and every descriptor's init value in memory. `InitTerminates` says that
  the function returns even when the reset never completes.

### Why the bounds are enough

- **Ring sizes and frame counts:** 2 or 4 slots with one more frame than
  slots makes every index wrap at least once. That is where EOR, the
  `% NUM_*_DESC` and the shared line matter.
- **RX frame lengths:** the lengths come from `{64}` plus `1504` in the
  overflow run.
- **TX send lengths:** these cover padding (42), a plain frame (98) and
  rejection (2049).
- **PcieEnum:** the model is finite and acyclic, so TLC explores it
  exhaustively for every combination of ATU outcomes.
- **NicInit:** 3 reset polls stand for 1000. Every iteration is alike;
  what matters is the reset completing before, at or never within the
  budget, and all three occur. The proofs cover any budget and any ring
  size.

### Fairness

- **RxRing** assumes `WF_vars(Driver)`: a caller that keeps calling
  `rtl8125_recv_packet`. This is a guarantee about the receive API.
  `test_dw_pcie_atu` itself calls it at most 5 times in its reply loop
  (line 1127) and once more at 1222, so for that test
  `RxEventuallyTaken` only says what a longer-lived caller would get.
- **No fairness on the hardware:** the NIC may drop frames and the cache may
  act at any time, and neither is a promise the code relies on.
  `RxEventuallyTaken` therefore says only that a frame the NIC *completed* is
  consumed.
- **TxRing** checks no liveness.
- **PcieTest** assumes `WF_tvars(Program)`: the test is the only code on
  its CPU. The reset completion and the cache are unfair: the chip may
  never leave reset, and `InitTerminates` must hold anyway.
- **RxQueue**'s fairness (`WF` on `Take` and `Done`) follows from the
  driver's weak fairness in `RxRing`: TLC checks it as part of
  `ImplementsRxQueue`.

Deadlock checking is on in the ring runs; the driver can always keep polling.
It is off in the PcieEnum runs, because the probe really does terminate
(`done`, `nodev`, `fail`).

### Mutants

Every property of a passing run is broken by a plausible bug in the mapped
code. The mutants are defined next to the actions they replace:

- a skipped invalidate or clean;
- a re-arm without OWN or EOR;
- an index that does not wrap;
- a skipped BAR restore;
- an enable that never restores the memory window;
- the upper BAR half overwriting the address.

## 4. Findings

- **F1, false sharing:** the RX re-arm's `clean_dcache_va_range` writes back
  the whole 64-byte line. That line includes stale OWN copies of the three
  neighbouring descriptors, so completions the NIC wrote meanwhile are
  erased.
- **F2, errors reported as success:** an RxRES frame makes the call return 0
  with the caller's buffer and `*len` untouched.
- **F3, caller overflow:** `pkt_len` is clamped to 2048 bytes, not to the
  caller's 1024-byte `rx_buffer`.
- **F4, EOR lost:** `send` assigns the whole status word and drops EOR, so the
  NIC's TX pointer runs off the ring after 4 sends.
- **F5, reuse after timeout:** after a TX timeout the next send rewrites a
  descriptor the NIC still owns.
- **F6, BAR2 not restored:** with an ATU failure during sizing, BAR2 is left
  all ones. Either the sentinel was saved as `bar_orig`, or the restoring
  write was skipped.
- **F7, wrong window:** a failed restore of the memory window is only logged.
  MMIO then goes through the config window or a disabled region.
- **F8, sentinel passes the check:** the read sentinel `0xFFFFFFFF` passes
  the `MEM_ENABLE` check after a skipped write.

One more case is not a run. When BAR2 is unassigned, `bar_phys == 0` skips
the restore, and MMIO goes through the config window. Instantiating
`BarAssigned <- MCAnyBar` in `PcieEnum_Ok` (`MCPcieTest`) shows it as a violation of
`MmioThroughBarWindow`. The code does not assign BARs, and neither does the
spec.

## 5. Proofs (`RxRingProofs`, `RxOrderProofs`, `RxQueueProofs`, `NicInitProofs`, `PcieEnumProofs`, `TxRingProofs`)

TLAPS proves, for every value of the constants allowed by the `ASSUME`s of
`RxRing`:

- **`TypeCorrect`** (`Spec => []TypeOK`). `TypeOK` is inductive on its own,
  so the proof is `TypeInit`, then `TypeStep` with one step per action, then
  PTL. It rests on these lemmas:
  - `StatusValues`;
  - `PktLenRange`: `(len & 0x3FFF) - 4`, clamped, lies in `0..RX_BUF_SIZE`;
  - `CacheHelpers`: `Filled`, `WrittenBack`, `Dropped`, `LoadedCache` and
    `Seen` preserve the types of memory and cache;
  - `LoadDescType`.
- **`CacheCoherence`** (`Spec => []HostCacheCoherent`). `HostCacheCoherent`
  is not inductive alone: the step proof needs the types of `dcache`, `mem`
  and `dline`. The inductive invariant is therefore
  `TypeOK /\ HostCacheCoherent`. The per-action argument runs as follows:
  - The NIC writes a completion, which has OWN clear, only to a slot whose
    cached copy shows OWN set, or whose line is invalid.
  - Loading a line copies memory (`LoadDescCoherent`).
  - The re-arm writes an OWN descriptor.
  - Invalidation empties the line.

These theorems cover an unbounded ring and any line geometry, where TLC
checks only 2 and 4 slots.

`RxRing` extends `Integers, Sequences, Functions` and defines its own
`IsPrefix`. `SequencesExt` is kept out of reach of the proofs because it
slows every obligation down.

`NicInitProofs` proves, under the `ASSUME`s of `NicInit` (nonempty rings,
a positive line size, any natural poll budget):

- **`RingsReadyAtEnable`** (`NicSpec => []NicRunsOnRings`);
- **`NicTypeCorrect`** (`NicSpec => []NicTypeOK`).

`NicRunsOnRings` is not inductive: the enable step needs to know the rings
are already in memory, and the clean step needs to know that lines that are
not dirty already agree with memory. The inductive invariant `NicInv` says
what each point of the function has established:

- past the wait loop the reset has completed, so `NicResetDone` cannot
  fire any more;
- from the clean on, the cache holds the init values;
- during the clean, a line that is not dirty has them in memory, since
  only an eviction could have made it clean;
- from the register writes on, memory holds them;
- from the enable on, the base registers are set;
- the engines run only before the call or once enabled.

`InvStep` has one step per action. The clean step splits on whether the
descriptor's line is dirty, and evictions keep the "not dirty means
written" conjunct.

`PcieEnumProofs` proves, for any set of firmware BAR values:

- **`EnumTypeCorrect`** (`Spec => []TypeOK`), with no hypothesis, so also
  when the ATU may time out. `TypeOK` alone is not inductive: the restore
  writes `bar_orig` and the final read uses `bar_addr`, so the inductive
  invariant `TInv` adds that these locals hold a BAR value and an address
  from the call site that assigns them on, that `cmd_reg` is a set of
  Command bits at the write, and that BAR2 still holds its firmware value
  before the probe.
- **`BarProbeRestores`** (`BarRestored`), **`MmioThroughBar`**
  (`MmioThroughBarWindow`) and **`EnableMeansMem`**
  (`EnabledMeansMemSpace`), under the hypothesis `~AtuMayFail`;
  `MmioThroughBar` also needs `BarAssigned = {TRUE}`. The hypotheses are
  exactly what the violation runs `enum_bar_not_restored`,
  `enum_mmio_wrong_window` and `enum_enable_sentinel` show to be necessary
  (findings F6-F8, and the unassigned BAR that maps region 1 onto address
  0). The inductive invariant `EnumInv` follows the probe: a device past
  the Vendor ID check is present; `bar_orig` equals the pre-probe value;
  BAR2 reads "ones" between the all-ones write and the size read, and the
  size read returns the mask; the restore puts the pre-probe value back;
  `bar_addr` is the address that value decodes to (`AddrOf`); region 1 is
  the enabled memory window onto `bar_addr` from the verifying read on; and
  Memory Space Enable is set once the enable succeeded.

Writing these proofs found two errors in the model, both since corrected:

- `TypeOK` read `cmd_reg \in SUBSET CmdBits \cup {Undef}`. That parses as
  `SUBSET (CmdBits \cup {Undef})`, which is weaker than intended.
- `DevRead` was a `CASE` whose arms overlapped for an absent device. TLA+
  leaves such a `CASE` unspecified, and TLC had been taking the first arm.
  It is now an `IF` on presence, followed by a `CASE` on the offset.

`TxRingProofs` proves:

- **`TxTypeCorrect`** (`Spec => []TypeOK`), for every value of the
  constants. The inductive invariant adds only that a busy NIC's pointer is
  a slot.
- **`TxPayloadCorrect`** (`TxPayloadMatches`) and **`TxOkSent`**
  (`TxOkMeansSent`), under `~TxMayTimeout`. With a timeout, the driver
  reuses a descriptor the NIC still owns (finding F5, run
  `tx_reuse_after_timeout`). The inductive invariant `TxInv` says where the
  current send is:
  - `OthersIdle`: no slot but `tx_idx` is owned by the NIC, and the cached
    copies of those slots equal memory;
  - `OnlyCurDirty`: only the current descriptor's line is ever dirty,
    between `TxWriteDesc` and `TxCleanDesc`;
  - `CurDesc`: per call site, what memory and the cache hold of the current
    descriptor. Before the write it is not owned; after the clean, memory
    holds it armed (`NewDesc`) or transmitted (`DoneDesc` and the frame on
    the wire); once the poll has seen OWN clear, it is transmitted;
  - `NicBusy`: the NIC only ever works on the current, armed descriptor;
  - `BufCoherent`: only the current buffer is ever dirty, and only before
    its clean; from the clean on, memory holds the current payload.

  The step proof is split into `HardwareStep`, `DriverPrepStep` (copy and
  cleans) and `DriverPollStep` (doorbell and poll). Each has one step per
  action and, where a cache line may or may not be dirty, one case for each.
  For the proofs, `TxRing` builds descriptors with record constructors
  rather than `EXCEPT` on fields. The SMT backend cannot translate the
  latter; the values are the same.

### The receive ring is a FIFO (`RxOrderProofs`)

`RxOrderProofs` proves two theorems under the hypothesis
`DescPerLine = 1`. The run `rx_false_sharing` (F1) shows that the first
fails without it:

- **`RxFifo`** (`Spec => []RxInOrder`);
- **`NicStaysInRing`** (`Spec => []NicInRing`);
- **`RxQueueInvariant`** (`Spec => []RxInv`), the invariant itself.

Both hold for every ring size and every frame count. They follow from the
inductive invariant `RxInv`. TLC checked `RxInv` on 2 and 3 slots before
the proof, and the run `rx_one_per_line` checks it too. `RxInv` reads the
ring as a circular queue:

- `Base` is the first slot the driver has not consumed: `rx_idx`, or the
  slot after it once `RxGot` has taken it.
- `Pending` is `Len(accepted) - Len(taken)`.
- `Pos(s)` is the distance of slot `s` from `Base`, going round the ring.
  It is written with a comparison instead of `%`, so that the provers stay
  in linear arithmetic.

The conjuncts of `RxInv` are:

- `Queue`: the `Pending` slots from `Base` hold completions, and hold them
  in acceptance order.
- `NicAt`: the NIC's pointer is `Pending` slots after `Base`.
- `EorInv`: EOR marks exactly the last slot. So the NIC's wrap and the
  driver's `% NUM_RX_DESC` agree.
- `Free`: every other slot is armed for the NIC, with one exception. That
  is `rx_idx`, from `RxGot` until its re-arm reaches memory.
- `Consuming`: what each driver phase relies on:
  - at `RxGot`, a completion is pending, and its cached copy is memory's;
  - while the slot is in use, it stays completed in memory;
  - the only dirty line is the re-arm of `rx_idx`, and it exists only
    before `RxClean`.
- `TypeOK` and `HostCacheCoherent`, from `RxRingProofs`.

The step proof has one lemma per group of actions:

- `NicAcceptStep`: the queue grows at its tail.
- `DescCacheStep`: a write-back of the dirty line hands `rx_idx` back.
- `DriverLoadStep`: a status read that sees OWN clear has found the head
  of the queue.
- `RxGotStep`: the head is consumed, and `Base` moves.
- `RxRearmStep` and `RxCleanStep`.
- `RxFrame` and `CacheOnlyStep`: the steps that leave the ring alone.

`PosRange` and `SuccMod` give the ring arithmetic. Among them, `Pos` is
injective, and once `rx_idx` has been consumed it is at distance
`NumRxDesc - 1`.

### The receive ring implements the FIFO (`RxQueueProofs`)

`RxQueueProofs` proves, again under `DescPerLine = 1` and for every ring
size and frame count:

- **`RefinementInvariant`** (`Spec => []RefInv`);
- **`RxQueueRefinement`** (`Spec => Q!QInit /\ [][Q!QNext]_Q!qvars`). This
  is the safety part of `ImplementsRxQueue`, under the mapping of
  `RxRingQueue`.

The mapping reads the queue off memory: it counts the host-owned slots,
less the one the driver holds, and reads their buffers from `First`. The
proof reads it off the histories instead. Its key lemma, `Abstraction`,
says that under `RefInv`:

- `PendingCount = Pending`;
- `PendingFrames` is the suffix of `accepted` the driver has not consumed
  (`QPending`).

`RefInv` is `RxInv` with two more facts:

- `BufTag`: a completed slot's buffer holds the frame its status word
  names. The NIC writes the two together.
- `StTag`: from `RxGot` on, the status word the driver acts on names a real
  frame.

`RxInv` says nothing of buffers, hence the first. The second makes `Done`
enabled at `RxClean`. TLC checked `RefInv`, with the abstraction
equations, on 2 and 3 slots before the proof. The run `rx_one_per_line`
checks `RefInv`.

The lemmas:

- The counting is a bijection from `1 .. Pending` onto the queue's slots,
  `k |-> Wrap(Base + k - 1)`, with `FS_Bijection` and `FS_Interval` of
  `FiniteSetTheorems` (`QueueCount`, `WrapPos`).
- `HeldSlots` shows that the slot the mapping leaves out (`Held`) is exactly
  the host-owned slot outside the queue.
- `WriteBackOwn`: with one descriptor per line, a dirty line's write-back
  only hands a slot back to the NIC, so it cannot break `BufTag`.
- `RefineStep` maps each step:
  - `NicAccept` is `Complete`;
  - `NicDrop` is `Lose`;
  - `RxGot` is `Take` of the head;
  - `RxClean` is `Done`;
  - every cache step and the other driver phases leave
    `<<arrived, PendingFrames, CurFrame>>` unchanged.

`AbsEq` is proved as an invariant, so the step lemma can use it on both
sides of a step; PTL combines the pieces.

### Left to TLC

- Liveness (`RxEventuallyTaken`) needs fairness and ENABLED, which TLAPS
  cannot handle here.
- `InitTerminates` (liveness) is model-checked only. So is the fairness
  half of `ImplementsRxQueue` (`WF(Take)`, `WF(Done)`); its safety half is
  `RxQueueRefinement`.
- `RxDataIntegrity` and `NoPhantomRx` are model-checked only.
  - `RxDataIntegrity` needs an invariant over the buffer cache in
    addition to `RxInv`.
  - `NoPhantomRx` is checked with four descriptors per line. With that
    config TLC finds `RxInv` violated: the dirty line of `rx_idx` also
    covers its neighbours, and its write-back can overwrite the NIC's
    completions (F1). A proof would need a different invariant for shared
    lines.
- `RxInOrder` and `NicInRing` are proved only for one descriptor per line;
  for more, TLC shows that the first fails.
- The properties of the violation runs are shown to fail by TLC. Where a
  theorem proves one under a hypothesis (above), it is the run's failure
  that shows the hypothesis is needed.

## 6. Not modelled

- The packet formatting and checksums.
- The MAC address read: it only fills `my_mac`, which the ping formatting
  reads.
- The values written to TxConfig, RxConfig and MaxRxPacketSize. They are
  constants, and `NicInit` records only that they were written.
- The ATU's region registers other than type, target and enable.
- `bar_size` arithmetic: it is only logged.
- The ping as one composed send→receive sequence: each call is checked
  against a NIC that is free to deliver any frame.
