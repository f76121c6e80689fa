------------------------------ MODULE PcieEnum ------------------------------
(***************************************************************************)
(* Steps 1-5 of test_dw_pcie_atu: pcie_scan_bus, pcie_get_bar_info(2),    *)
(* pcie_enable_device(bar_addr) and the first MMIO accesses through the   *)
(* memory window at 0x9c0100000 (the test read and rtl8125_init).  Each   *)
(* action is one call of pcie_config_read32/write32 at one call site,     *)
(* with the outcomes of its dw_pcie_setup_atu calls chosen by \E, and the *)
(* caller's computation on the value returned.                            *)
(*                                                                         *)
(* Data is abstracted to what the code tells apart: the Vendor ID is      *)
(* valid or all ones; BAR2 (a 64-bit memory BAR on the RTL8125) holds an  *)
(* assigned address, 0 plus its type bits ("unassigned") or all ones, and *)
(* reads back its size mask while it holds all ones; the Command register *)
(* is a set of bits; a failed config read returns all ones.               *)
(***************************************************************************)
EXTENDS Atu

CONSTANTS
  BarAssigned,  \* whether firmware left an address in BAR2
  Undef         \* a local not yet assigned (a model value)

ASSUME BarAssignedAssumption == BarAssigned \subseteq BOOLEAN /\ BarAssigned # {}

CmdBits == {"IO", "MEM", "MASTER", "INTDIS", "OTHER"}
BarRegs == {"assigned", "unassigned", "ones"}
BarReads == BarRegs \cup {"mask"}
BarAddrs == {"bar", "zero", "garbage"}
Device == [present: BOOLEAN, cmd: SUBSET CmdBits, bar2: BarRegs]

VARIABLES
  region,       \* ATU region 1 (type, target, enable)
  dev,          \* the device's configuration space
  pc,           \* the call site test_dw_pcie_atu is at
  bar_orig,     \* pcie_get_bar_info: bar_orig
  bar_val,      \* pcie_get_bar_info: bar_val
  bar_addr,     \* test_dw_pcie_atu: bar_addr
  cmd_reg,      \* pcie_enable_device: cmd_reg of the first read
  bar_pre,      \* history: BAR2 before the probe
  mmio_region   \* history: region 1 when the MMIO accesses were made

vars == <<region, dev, pc, bar_orig, bar_val, bar_addr, cmd_reg, bar_pre, mmio_region>>
locals == <<bar_orig, bar_val, bar_addr, cmd_reg>>

PcValues == {"scan_vid", "scan_class", "bar_orig", "bar_ones", "bar_val",
             "bar_restore", "bar_upper", "en_read", "en_write", "en_verify",
             "mmio", "done", "nodev", "fail"}

(* What a config read at offset off returns when the window was mapped. *)
(* An absent device reads as all ones (master abort).                    *)
DevRead(off) ==
  IF ~dev.present THEN IF off = "cmd" THEN CmdBits ELSE "ones"
  ELSE CASE off = "vid" -> "vid"
         [] off = "class" -> "class"
         [] off = "bar2" -> IF dev.bar2 = "ones" THEN "mask" ELSE dev.bar2
         [] off = "bar3" -> "upper"
         [] off = "cmd" -> dev.cmd

(* pcie_config_read32: the value, or the 0xFFFFFFFF sentinel on failure. *)
CfgRead(o1, off) ==
  IF CfgOk(o1) THEN DevRead(off) ELSE IF off = "cmd" THEN CmdBits ELSE "ones"

Init ==
  /\ region \in Region
  /\ \E p \in BOOLEAN, c \in SUBSET CmdBits, a \in BarAssigned :
       dev = [present |-> p, cmd |-> c, bar2 |-> IF a THEN "assigned" ELSE "unassigned"]
  /\ pc = "scan_vid"
  /\ bar_orig = Undef /\ bar_val = Undef /\ bar_addr = Undef /\ cmd_reg = Undef
  /\ bar_pre = dev.bar2
  /\ mmio_region = Undef

(* A config access with restore_memory = false and its two ATU outcomes. *)
NoRestore(o1) == region' = RegionAfterCfg(o1, "ok", FALSE, "zero")

(* pcie_scan_bus, Vendor ID read and the no-device check. *)
ScanReadVendor ==
  /\ pc = "scan_vid"
  /\ \E o1 \in Outcomes :
       /\ NoRestore(o1)
       /\ pc' = IF CfgRead(o1, "vid") = "ones" THEN "nodev" ELSE "scan_class"
  /\ UNCHANGED <<dev, locals, bar_pre, mmio_region>>

(* pcie_scan_bus, Class Code read; the result is only logged. *)
ScanReadClass ==
  /\ pc = "scan_class"
  /\ \E o1 \in Outcomes : NoRestore(o1)
  /\ pc' = "bar_orig"
  /\ UNCHANGED <<dev, locals, bar_pre, mmio_region>>

(* pcie_get_bar_info: bar_orig = read(BAR2). *)
BarReadOrig ==
  /\ pc = "bar_orig"
  /\ \E o1 \in Outcomes : NoRestore(o1) /\ bar_orig' = CfgRead(o1, "bar2")
  /\ pc' = "bar_ones"
  /\ UNCHANGED <<dev, bar_val, bar_addr, cmd_reg, bar_pre, mmio_region>>

(* pcie_config_write32 of a BAR2 value: skipped when the window fails. *)
WriteBar(o1, v) ==
  dev' = IF CfgOk(o1) THEN [dev EXCEPT !.bar2 = v] ELSE dev

(* pcie_get_bar_info: write all ones to BAR2. *)
BarWriteOnes ==
  /\ pc = "bar_ones"
  /\ \E o1 \in Outcomes : NoRestore(o1) /\ WriteBar(o1, "ones")
  /\ pc' = "bar_val"
  /\ UNCHANGED <<locals, bar_pre, mmio_region>>

(* pcie_get_bar_info: bar_val = read(BAR2). *)
BarReadSize ==
  /\ pc = "bar_val"
  /\ \E o1 \in Outcomes : NoRestore(o1) /\ bar_val' = CfgRead(o1, "bar2")
  /\ pc' = "bar_restore"
  /\ UNCHANGED <<dev, bar_orig, bar_addr, cmd_reg, bar_pre, mmio_region>>

(* The address pcie_get_bar_info derives from bar_orig & ~0xF (or ~0x3): *)
(* the all-ones sentinel gives 0xFFFFFFF0, an unassigned BAR gives 0.     *)
LowAddr == CASE bar_orig = "assigned" -> "bar"
             [] bar_orig = "unassigned" -> "zero"
             [] OTHER -> "garbage"

(* Mutant: the restoring write of bar_orig is left out. *)
BarRestoreSkipped ==
  /\ pc = "bar_restore"
  /\ \E o1 \in Outcomes : NoRestore(o1)
  /\ IF bar_val # "ones" /\ bar_orig # "ones"
       THEN pc' = "bar_upper" /\ UNCHANGED bar_addr
       ELSE pc' = "en_read" /\ bar_addr' = "garbage"
  /\ UNCHANGED <<dev, bar_orig, bar_val, cmd_reg, bar_pre, mmio_region>>

(* pcie_get_bar_info: restore bar_orig, then decode.  An odd bar_val (the *)
(* sentinel) is taken for an I/O BAR, whose address bar_orig & ~3 keeps   *)
(* the memory type bit 0x4; a memory BAR whose type bits read 64-bit      *)
(* ((bar_orig & 6) == 4, false for the sentinel) goes on to read BAR3.    *)
BarRestore ==
  /\ pc = "bar_restore"
  /\ \E o1 \in Outcomes : NoRestore(o1) /\ WriteBar(o1, bar_orig)
  /\ IF bar_val # "ones" /\ bar_orig # "ones"
       THEN pc' = "bar_upper" /\ UNCHANGED bar_addr
       ELSE pc' = "en_read" /\ bar_addr' = "garbage"
  /\ UNCHANGED <<bar_orig, bar_val, cmd_reg, bar_pre, mmio_region>>

(* Mutant: the upper half overwrites the address instead of OR-ing in. *)
BarReadUpperOverwrite ==
  /\ pc = "bar_upper"
  /\ \E o1 \in Outcomes : NoRestore(o1)
  /\ bar_addr' = "upper"
  /\ pc' = "en_read"
  /\ UNCHANGED <<dev, bar_orig, bar_val, cmd_reg, bar_pre, mmio_region>>

(* pcie_get_bar_info: *bar_addr |= read(BAR3) << 32; a failed read ORs   *)
(* in 0xFFFFFFFF.                                                         *)
BarReadUpper ==
  /\ pc = "bar_upper"
  /\ \E o1 \in Outcomes :
       /\ NoRestore(o1)
       /\ bar_addr' = IF CfgOk(o1) THEN LowAddr ELSE "garbage"
  /\ pc' = "en_read"
  /\ UNCHANGED <<dev, bar_orig, bar_val, cmd_reg, bar_pre, mmio_region>>

(* pcie_enable_device: cmd_reg = read(COMMAND), no restore. *)
EnReadCmd ==
  /\ pc = "en_read"
  /\ \E o1 \in Outcomes : NoRestore(o1) /\ cmd_reg' = CfgRead(o1, "cmd")
  /\ pc' = "en_write"
  /\ UNCHANGED <<dev, bar_orig, bar_val, bar_addr, bar_pre, mmio_region>>

(* pcie_enable_device: set Memory Space, Bus Master and I/O Space, clear *)
(* Interrupt Disable, and write COMMAND back, no restore.                *)
EnWriteCmd ==
  /\ pc = "en_write"
  /\ \E o1 \in Outcomes :
       /\ NoRestore(o1)
       /\ dev' = IF CfgOk(o1)
                   THEN [dev EXCEPT !.cmd = (cmd_reg \cup {"IO", "MEM", "MASTER"}) \ {"INTDIS"}]
                   ELSE dev
  /\ pc' = "en_verify"
  /\ UNCHANGED <<locals, bar_pre, mmio_region>>

(* Mutant: the verifying read does not ask for the memory window back. *)
EnVerifyNoRestore ==
  /\ pc = "en_verify"
  /\ \E o1, o2 \in Outcomes :
       /\ region' = RegionAfterCfg(o1, o2, FALSE, bar_addr)
       /\ pc' = IF "MEM" \in CfgRead(o1, "cmd") THEN "mmio" ELSE "fail"
  /\ UNCHANGED <<dev, locals, bar_pre, mmio_region>>

(* pcie_enable_device: read COMMAND back with restore_memory = true, so   *)
(* that region 1 maps 0x9c0100000 to bar_phys (unless bar_phys is 0),    *)
(* and fail unless Memory Space Enable reads set.                        *)
EnVerify ==
  /\ pc = "en_verify"
  /\ \E o1, o2 \in Outcomes :
       /\ region' = RegionAfterCfg(o1, o2, TRUE, bar_addr)
       /\ pc' = IF "MEM" \in CfgRead(o1, "cmd") THEN "mmio" ELSE "fail"
  /\ UNCHANGED <<dev, locals, bar_pre, mmio_region>>

(* test_dw_pcie_atu step 4: read32(0x9c0100000), which reaches the NIC    *)
(* only through region 1; rtl8125_init's accesses (step 5, PcieTest) go   *)
(* through the same, unchanged region.                                   *)
MmioAccess ==
  /\ pc = "mmio"
  /\ mmio_region' = region
  /\ pc' = "done"
  /\ UNCHANGED <<region, dev, locals, bar_pre>>

Next ==
  \/ ScanReadVendor \/ ScanReadClass
  \/ BarReadOrig \/ BarWriteOnes \/ BarReadSize \/ BarRestore \/ BarReadUpper
  \/ EnReadCmd \/ EnWriteCmd \/ EnVerify
  \/ MmioAccess

(* The program is sequential and runs to its end: no fairness beyond     *)
(* what the terminal states need (none; they are checked as invariants). *)
Spec == Init /\ [][Next]_vars

-----------------------------------------------------------------------------

(* Every variable holds a value of its type. *)
TypeOK ==
  /\ region \in Region
  /\ dev \in Device
  /\ pc \in PcValues
  /\ bar_orig \in BarRegs \cup {Undef}
  /\ bar_val \in BarReads \cup {Undef}
  /\ bar_addr \in BarAddrs \cup {Undef}
  /\ cmd_reg \in (SUBSET CmdBits) \cup {Undef}
  /\ bar_pre \in BarRegs
  /\ mmio_region \in Region \cup {Undef}

BarProbed == {"bar_upper", "en_read", "en_write", "en_verify", "mmio", "done", "fail"}

(* pcie_get_bar_info leaves BAR2 holding the value it held before the    *)
(* sizing probe, whatever happens to the config accesses it makes.       *)
BarRestored == pc \in BarProbed => dev.bar2 = bar_pre

(* When test_dw_pcie_atu makes its MMIO accesses at 0x9c0100000 (after   *)
(* pcie_enable_device returned success), region 1 is an enabled memory   *)
(* window onto the device's BAR.                                         *)
MmioThroughBarWindow ==
  pc = "done" => mmio_region = [type |-> "mem", target |-> "bar", en |-> TRUE]

(* pcie_enable_device returns success only when the device's Command     *)
(* register has Memory Space Enable set.                                 *)
EnabledMeansMemSpace == pc \in {"mmio", "done"} => "MEM" \in dev.cmd

=============================================================================
