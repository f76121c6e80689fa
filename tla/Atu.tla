-------------------------------- MODULE Atu --------------------------------
(***************************************************************************)
(* The ATU window manager and the configuration-space accessor of         *)
(* src/pcie_test_impl.c: dw_pcie_setup_atu, pcie_config_read32 and        *)
(* pcie_config_write32, as operators over the state of ATU region 1 (the  *)
(* swing region) and the device's configuration space.                    *)
(*                                                                         *)
(* The program is single-threaded and nothing observes the region between *)
(* the register writes of one dw_pcie_setup_atu call, so a call is one    *)
(* step whose result is its outcome: "ok" (the enable bit read back set   *)
(* within the 5 polls) or a timeout, after which the region holds the new *)
(* attributes and an enable state nobody confirmed ("timeout_on",         *)
(* "timeout_off").  Addresses are the few the code uses: the config       *)
(* window (0xf3000000 -> bus 0) and the memory window (0x9c0100000 ->     *)
(* bar_phys), where bar_phys is the device's BAR ("bar"), 0 ("zero") or a *)
(* value built from the all-ones read sentinel ("garbage").               *)
(***************************************************************************)

CONSTANT AtuMayFail   \* whether the hardware can miss the 5-poll budget

ASSUME AtuMayFailAssumption == AtuMayFail \in BOOLEAN

Targets == {"bus0", "bar", "zero", "garbage"}
Region == [type: {"mem", "cfg"}, target: Targets, en: BOOLEAN]

(* The possible outcomes of one dw_pcie_setup_atu call. *)
Outcomes == IF AtuMayFail THEN {"ok", "timeout_on", "timeout_off"} ELSE {"ok"}

(* Region 1 after dw_pcie_setup_atu(type, target) with outcome o: every  *)
(* register is rewritten whatever the outcome; only the enable state is  *)
(* left to the hardware on a timeout.                                     *)
SetupAtu(type, target, o) == [type |-> type, target |-> target, en |-> o # "timeout_off"]

(* pcie_config_read32 / write32: map region 1 as the config window        *)
(* (outcome o1), access the device only if that returned 0, then, when   *)
(* restore_memory is set and bar_phys is not 0, map it back as the memory *)
(* window (outcome o2, whose failure is only logged).                     *)
CfgOk(o1) == o1 = "ok"
RegionAfterCfg(o1, o2, restore, barphys) ==
  IF CfgOk(o1) /\ restore /\ barphys # "zero"
    THEN SetupAtu("mem", barphys, o2)
    ELSE SetupAtu("cfg", "bus0", o1)

=============================================================================
