--------------------------- MODULE PcieEnumProofs ---------------------------
(***************************************************************************)
(* Proofs about steps 1-4 of test_dw_pcie_atu (PcieEnum): typing for any  *)
(* ATU, and, for an ATU that always confirms within its 5 polls, the BAR   *)
(* probe's restore and the window the MMIO accesses go through.            *)
(***************************************************************************)
EXTENDS PcieEnum, TLAPS

AfterOrig == {"bar_ones", "bar_val", "bar_restore", "bar_upper"}
AfterUpper == {"en_read", "en_write", "en_verify", "mmio", "done", "fail"}

(* The address pcie_get_bar_info returns for a BAR that held b before the *)
(* probe, when every config access succeeded.                             *)
AddrOf(b) == IF b = "assigned" THEN "bar" ELSE "zero"

(* The typing invariant: TypeOK, plus what the reads that fill the locals *)
(* need to return values of their type: BAR2 still holds its firmware     *)
(* value when bar_orig is read (so it cannot read back the size mask),    *)
(* cmd_reg has been read when the Command write uses it, and bar_addr    *)
(* holds an address once pcie_get_bar_info has returned.                  *)
TInv ==
  /\ TypeOK
  /\ bar_pre \in {IF a THEN "assigned" ELSE "unassigned" : a \in BarAssigned}
  /\ pc \in {"scan_vid", "scan_class", "bar_orig"} => dev.bar2 = bar_pre
  /\ pc \in AfterOrig => bar_orig \in BarRegs
  /\ pc = "en_write" => cmd_reg \in SUBSET CmdBits
  /\ pc \in AfterUpper => bar_addr \in BarAddrs

-----------------------------------------------------------------------------
(* Lemmas about the ATU operators. *)

LEMMA SetupAtuType ==
  ASSUME NEW type \in {"mem", "cfg"}, NEW t \in Targets, NEW o
  PROVE  SetupAtu(type, t, o) \in Region
BY DEF SetupAtu, Region

LEMMA RegionAfterCfgType ==
  ASSUME NEW o1, NEW o2, NEW r \in BOOLEAN, NEW b \in Targets
  PROVE  RegionAfterCfg(o1, o2, r, b) \in Region
BY SetupAtuType DEF RegionAfterCfg, Targets

(* A write of BAR2 or of the Command register changes that field only. *)
LEMMA SetBar2 ==
  ASSUME dev \in Device, NEW v \in BarRegs
  PROVE  LET d == [dev EXCEPT !.bar2 = v]
         IN  /\ d \in Device
             /\ d.bar2 = v /\ d.present = dev.present /\ d.cmd = dev.cmd
<1> DEFINE d == [dev EXCEPT !.bar2 = v]
<1>1. d.bar2 = v /\ d.present = dev.present /\ d.cmd = dev.cmd
  BY Zenon DEF Device
<1>2. d \in Device
  BY Zenon DEF Device
<1>3. QED
  BY <1>1, <1>2

LEMMA SetCmd ==
  ASSUME dev \in Device, NEW c \in SUBSET CmdBits
  PROVE  LET d == [dev EXCEPT !.cmd = c]
         IN  /\ d \in Device
             /\ d.cmd = c /\ d.present = dev.present /\ d.bar2 = dev.bar2
<1> DEFINE d == [dev EXCEPT !.cmd = c]
<1>1. d.cmd = c /\ d.present = dev.present /\ d.bar2 = dev.bar2
  BY Zenon DEF Device
<1>2. d \in Device
  BY Zenon DEF Device
<1>3. QED
  BY <1>1, <1>2

(* What a config read of BAR2 returns once the window is mapped. *)
LEMMA DevReadBar ==
  DevRead("bar2") = IF ~dev.present THEN "ones"
                    ELSE IF dev.bar2 = "ones" THEN "mask" ELSE dev.bar2
BY DEF DevRead

LEMMA DevReadCmd ==
  DevRead("cmd") = IF ~dev.present THEN CmdBits ELSE dev.cmd
BY DEF DevRead

LEMMA LowAddrValue ==
  LowAddr = IF bar_orig = "assigned" THEN "bar"
            ELSE IF bar_orig = "unassigned" THEN "zero" ELSE "garbage"
BY Zenon DEF LowAddr

LEMMA CfgReadCmd ==
  ASSUME dev \in Device, NEW o1
  PROVE  CfgRead(o1, "cmd") \in SUBSET CmdBits
BY DevReadCmd DEF CfgRead, Device

LEMMA CfgReadBar ==
  ASSUME dev \in Device, NEW o1
  PROVE  CfgRead(o1, "bar2") \in BarReads
BY DevReadBar DEF CfgRead, Device, BarReads, BarRegs

-----------------------------------------------------------------------------
(* Typing. *)

LEMMA TInvInit == Init => TInv
<1> SUFFICES ASSUME Init PROVE TInv
  OBVIOUS
<1>1. PICK p \in BOOLEAN, c \in SUBSET CmdBits, a \in BarAssigned :
        dev = [present |-> p, cmd |-> c, bar2 |-> IF a THEN "assigned" ELSE "unassigned"]
  BY Zenon DEF Init
<1>2. dev \in Device /\ bar_pre = dev.bar2
  BY <1>1 DEF Init, Device, BarRegs
<1>3. bar_pre \in {IF x THEN "assigned" ELSE "unassigned" : x \in BarAssigned}
  BY <1>1, <1>2
<1>4. bar_pre \in BarRegs
  BY <1>2 DEF Device
<1>5. TypeOK
  BY <1>2, <1>4 DEF Init, TypeOK, PcValues
<1>6. QED
  BY <1>2, <1>3, <1>5 DEF Init, TInv, AfterOrig, AfterUpper

LEMMA BarPreValues ==
  ASSUME bar_pre \in {IF a THEN "assigned" ELSE "unassigned" : a \in BarAssigned}
  PROVE  bar_pre \in {"assigned", "unassigned"}
BY BarAssignedAssumption

(* Every config access made without restore leaves region 1 typed. *)
LEMMA NoRestoreType ==
  ASSUME NEW o1, NoRestore(o1)
  PROVE  region' \in Region
BY RegionAfterCfgType DEF NoRestore, Targets

LEMMA TInvStep == TInv /\ [Next]_vars => TInv'
<1> SUFFICES ASSUME TInv, [Next]_vars PROVE TInv'
  OBVIOUS
<1> USE DEF TInv, TypeOK, AfterOrig, AfterUpper, PcValues, locals
<1>1. CASE ScanReadVendor
  BY <1>1, NoRestoreType DEF ScanReadVendor
<1>2. CASE ScanReadClass
  BY <1>2, NoRestoreType DEF ScanReadClass
<1>3. CASE BarReadOrig
  <2>1. PICK o1 : NoRestore(o1) /\ bar_orig' = CfgRead(o1, "bar2")
    BY <1>3, Zenon DEF BarReadOrig
  <2>2. dev.bar2 \in {"assigned", "unassigned"}
    BY <1>3, BarPreValues DEF BarReadOrig
  <2>3. bar_orig' \in BarRegs
    BY <2>1, <2>2, DevReadBar DEF CfgRead, BarRegs
  <2>4. QED
    BY <1>3, <2>1, <2>3, NoRestoreType DEF BarReadOrig, BarRegs
<1>4. CASE BarWriteOnes
  <2>1. dev' \in Device
    BY <1>4, SetBar2 DEF BarWriteOnes, WriteBar, BarRegs
  <2>2. QED
    BY <1>4, <2>1, NoRestoreType DEF BarWriteOnes
<1>5. CASE BarReadSize
  BY <1>5, NoRestoreType, CfgReadBar DEF BarReadSize
<1>6. CASE BarRestore
  <2>1. dev' \in Device
    BY <1>6, SetBar2 DEF BarRestore, WriteBar
  <2>2. QED
    BY <1>6, <2>1, NoRestoreType DEF BarRestore, BarAddrs
<1>7. CASE BarReadUpper
  BY <1>7, NoRestoreType, LowAddrValue DEF BarReadUpper, BarAddrs
<1>8. CASE EnReadCmd
  BY <1>8, NoRestoreType, CfgReadCmd DEF EnReadCmd
<1>9. CASE EnWriteCmd
  <2>1. (cmd_reg \cup {"IO", "MEM", "MASTER"}) \ {"INTDIS"} \in SUBSET CmdBits
    BY <1>9 DEF EnWriteCmd, CmdBits
  <2>2. dev' \in Device
    BY <1>9, <2>1, SetCmd DEF EnWriteCmd
  <2>3. QED
    BY <1>9, <2>2, NoRestoreType DEF EnWriteCmd
<1>10. CASE EnVerify
  <2>1. bar_addr \in Targets
    BY <1>10 DEF EnVerify, BarAddrs, Targets
  <2>2. region' \in Region
    BY <1>10, <2>1, RegionAfterCfgType DEF EnVerify
  <2>3. QED
    BY <1>10, <2>2 DEF EnVerify
<1>11. CASE MmioAccess
  BY <1>11 DEF MmioAccess
<1>12. CASE UNCHANGED vars
  BY <1>12 DEF vars
<1>13. QED
  BY <1>1, <1>2, <1>3, <1>4, <1>5, <1>6, <1>7, <1>8, <1>9, <1>10, <1>11,
     <1>12 DEF Next

(* Whatever the ATU does and whether firmware assigned BAR2, every        *)
(* variable of steps 1-4 keeps its type: in particular bar_orig is never  *)
(* the size mask, and region 1 always has one of the code's targets.      *)
THEOREM EnumTypeCorrect == Spec => []TypeOK
<1>1. TInv => TypeOK
  BY DEF TInv
<1>2. QED
  BY TInvInit, TInvStep, <1>1, PTL DEF Spec


-----------------------------------------------------------------------------
(* An ATU that always confirms within its 5 polls. *)

(* The inductive invariant: what steps 1-4 have established at each call *)
(* site when every dw_pcie_setup_atu call succeeds.  A device that got    *)
(* past the Vendor ID check is present; BAR2 keeps its firmware value     *)
(* until the all-ones write and gets it back by the restore; bar_orig is  *)
(* that value and bar_val the size mask; bar_addr is the address the BAR  *)
(* held; the verifying read maps region 1 onto it; the Command register   *)
(* has Memory Space Enable once the enable has been checked.              *)
EnumInv ==
  /\ TInv
  /\ pc \notin {"scan_vid", "nodev"} => dev.present
  /\ pc = "bar_ones" => dev.bar2 = bar_pre
  /\ pc \in AfterOrig => bar_orig = bar_pre
  /\ pc = "bar_val" => dev.bar2 = "ones"
  /\ pc = "bar_restore" => bar_val = "mask"
  /\ pc \in BarProbed => dev.bar2 = bar_pre
  /\ pc \in AfterUpper => bar_addr = AddrOf(bar_pre)
  /\ pc = "mmio" => region = RegionAfterCfg("ok", "ok", TRUE, bar_addr)
  /\ pc = "done" => mmio_region = RegionAfterCfg("ok", "ok", TRUE, bar_addr)
  /\ pc \in {"mmio", "done"} => "MEM" \in dev.cmd

LEMMA OutcomesOk == ~AtuMayFail => Outcomes = {"ok"}
BY DEF Outcomes

LEMMA EnumInvInit == Init => EnumInv
BY TInvInit DEF Init, EnumInv, AfterOrig, AfterUpper, BarProbed


LEMMA EnumInvStep ==
  ASSUME ~AtuMayFail
  PROVE  EnumInv /\ [Next]_vars => EnumInv'
<1> SUFFICES ASSUME EnumInv, [Next]_vars PROVE EnumInv'
  OBVIOUS
<1>0. TInv' /\ Outcomes = {"ok"} /\ dev \in Device
  BY TInvStep, OutcomesOk DEF EnumInv, TInv, TypeOK
<1> USE DEF EnumInv, AfterOrig, AfterUpper, BarProbed, locals
<1>1. CASE ScanReadVendor
  <2>1. pc' = "scan_class" => dev.present
    BY <1>0, <1>1, DevReadCmd DEF ScanReadVendor, CfgRead, CfgOk, DevRead
  <2>2. QED
    BY <1>0, <1>1, <2>1 DEF ScanReadVendor
<1>2. CASE ScanReadClass
  BY <1>0, <1>2 DEF ScanReadClass, TInv
<1>3. CASE BarReadOrig
  <2>1. bar_orig' = DevRead("bar2")
    BY <1>0, <1>3 DEF BarReadOrig, CfgRead, CfgOk
  <2>2. bar_pre \in {"assigned", "unassigned"}
    BY BarPreValues DEF TInv
  <2>3. bar_orig' = bar_pre
    BY <1>3, <2>1, <2>2, DevReadBar DEF BarReadOrig, TInv
  <2>4. QED
    BY <1>0, <1>3, <2>3 DEF BarReadOrig, TInv
<1>4. CASE BarWriteOnes
  <2>1. dev' = [dev EXCEPT !.bar2 = "ones"]
    BY <1>0, <1>4 DEF BarWriteOnes, WriteBar, CfgOk
  <2>2. dev'.bar2 = "ones" /\ dev'.present = dev.present
    BY <1>0, <2>1, SetBar2 DEF BarRegs
  <2>3. QED
    BY <1>0, <1>4, <2>2 DEF BarWriteOnes
<1>5. CASE BarReadSize
  <2>1. bar_val' = DevRead("bar2")
    BY <1>0, <1>5 DEF BarReadSize, CfgRead, CfgOk
  <2>2. bar_val' = "mask"
    BY <1>5, <2>1, DevReadBar DEF BarReadSize
  <2>3. QED
    BY <1>0, <1>5, <2>2 DEF BarReadSize
<1>6. CASE BarRestore
  <2>1. dev' = [dev EXCEPT !.bar2 = bar_orig]
    BY <1>0, <1>6 DEF BarRestore, WriteBar, CfgOk
  <2>2. bar_orig \in BarRegs /\ bar_orig = bar_pre
    BY <1>6 DEF BarRestore, TInv
  <2>3. dev'.bar2 = bar_pre /\ dev'.present = dev.present
    BY <1>0, <2>1, <2>2, SetBar2
  <2>4. bar_pre \in {"assigned", "unassigned"}
    BY BarPreValues DEF TInv
  <2>5. pc' = "bar_upper"
    BY <1>6, <2>2, <2>4 DEF BarRestore
  <2>6. QED
    BY <1>0, <1>6, <2>3, <2>5 DEF BarRestore
<1>7. CASE BarReadUpper
  <2>1. bar_addr' = LowAddr
    BY <1>0, <1>7 DEF BarReadUpper, CfgOk
  <2>2. bar_orig = bar_pre /\ bar_pre \in {"assigned", "unassigned"}
    BY <1>7, BarPreValues DEF BarReadUpper, TInv
  <2>3. bar_addr' = AddrOf(bar_pre)
    BY <2>1, <2>2, LowAddrValue DEF AddrOf
  <2>4. QED
    BY <1>0, <1>7, <2>3 DEF BarReadUpper
<1>8. CASE EnReadCmd
  BY <1>0, <1>8 DEF EnReadCmd
<1>9. CASE EnWriteCmd
  <2>1. dev' = [dev EXCEPT !.cmd = (cmd_reg \cup {"IO", "MEM", "MASTER"}) \ {"INTDIS"}]
    BY <1>0, <1>9 DEF EnWriteCmd, CfgOk
  <2>2. cmd_reg \in SUBSET CmdBits
    BY <1>9 DEF EnWriteCmd, TInv
  <2>3. (cmd_reg \cup {"IO", "MEM", "MASTER"}) \ {"INTDIS"} \in SUBSET CmdBits
    BY <2>2 DEF CmdBits
  <2>4. dev'.bar2 = dev.bar2 /\ dev'.present = dev.present
    BY <1>0, <2>1, <2>3, SetCmd
  <2>5. QED
    BY <1>0, <1>9, <2>4 DEF EnWriteCmd
<1>10. CASE EnVerify
  <2>1. region' = RegionAfterCfg("ok", "ok", TRUE, bar_addr)
    BY <1>0, <1>10 DEF EnVerify
  <2>2. pc' = "mmio" => "MEM" \in dev.cmd
    BY <1>0, <1>10, DevReadCmd DEF EnVerify, CfgRead, CfgOk
  <2>3. QED
    BY <1>0, <1>10, <2>1, <2>2 DEF EnVerify
<1>11. CASE MmioAccess
  BY <1>0, <1>11 DEF MmioAccess
<1>12. CASE UNCHANGED vars
  BY <1>0, <1>12 DEF vars
<1>13. QED
  BY <1>1, <1>2, <1>3, <1>4, <1>5, <1>6, <1>7, <1>8, <1>9, <1>10, <1>11,
     <1>12 DEF Next


LEMMA EnumInvHolds ==
  ASSUME ~AtuMayFail
  PROVE  Spec => []EnumInv
BY EnumInvInit, EnumInvStep, PTL DEF Spec

(* When every ATU setup confirms, pcie_get_bar_info leaves BAR2 holding   *)
(* its pre-probe value from the restore on (finding F6 needs a failure). *)
THEOREM BarProbeRestores ==
  ASSUME ~AtuMayFail
  PROVE  Spec => []BarRestored
<1>1. EnumInv => BarRestored
  BY DEF EnumInv, BarRestored
<1>2. QED
  BY EnumInvHolds, <1>1, PTL

(* When every ATU setup confirms and firmware assigned BAR2, the MMIO     *)
(* accesses of test_dw_pcie_atu go through region 1 mapped as an enabled  *)
(* memory window onto the BAR (findings F7 and the bar_phys == 0 case     *)
(* need a failure or an unassigned BAR).                                  *)
THEOREM MmioThroughBar ==
  ASSUME ~AtuMayFail, BarAssigned = {TRUE}
  PROVE  Spec => []MmioThroughBarWindow
<1>1. EnumInv => MmioThroughBarWindow
  <2> SUFFICES ASSUME EnumInv, pc = "done"
               PROVE  mmio_region = [type |-> "mem", target |-> "bar", en |-> TRUE]
    BY DEF MmioThroughBarWindow
  <2>1. bar_pre = "assigned"
    BY DEF EnumInv, TInv
  <2>2. bar_addr = "bar"
    BY <2>1 DEF EnumInv, AfterUpper, AddrOf
  <2>3. QED
    BY <2>2 DEF EnumInv, RegionAfterCfg, CfgOk, SetupAtu
<1>2. QED
  BY EnumInvHolds, <1>1, PTL

(* When every ATU setup confirms, pcie_enable_device succeeds only if the *)
(* device's Command register has Memory Space Enable (finding F8 needs a  *)
(* skipped write and a failed read).                                      *)
THEOREM EnableMeansMem ==
  ASSUME ~AtuMayFail
  PROVE  Spec => []EnabledMeansMemSpace
<1>1. EnumInv => EnabledMeansMemSpace
  BY DEF EnumInv, EnabledMeansMemSpace
<1>2. QED
  BY EnumInvHolds, <1>1, PTL

=============================================================================
