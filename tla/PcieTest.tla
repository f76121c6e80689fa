------------------------------ MODULE PcieTest ------------------------------
(***************************************************************************)
(* test_dw_pcie_atu up to step 5: the enumeration of PcieEnum followed by  *)
(* rtl8125_init (NicInit) once pcie_enable_device has succeeded and the   *)
(* test read at 0x9c0100000 was made.  The two parts share no variable:   *)
(* the program is sequential, and the init's register accesses go through *)
(* region 1, which nothing reprograms after pcie_enable_device            *)
(* (PcieEnum's MmioThroughBarWindow says where it then points).           *)
(***************************************************************************)
EXTENDS PcieEnum, NicInit

tvars == <<vars, ivars>>

TestInit == Init /\ NicIdle

(* Step 5: ret = rtl8125_init(rtl_mmio_virt). *)
CallInit ==
  /\ pc = "done"
  /\ InitCall
  /\ UNCHANGED vars

(* The CPU's steps: one program counter at a time. *)
Program ==
  \/ Next /\ UNCHANGED ivars
  \/ CallInit
  \/ InitProgram /\ UNCHANGED vars

TestNext == Program \/ (InitHardware /\ UNCHANGED vars)

(* The test runs on a CPU of its own, so its steps are weakly fair; the   *)
(* NIC's reset and the cache are not: the reset need never complete.      *)
TestSpec == TestInit /\ [][TestNext]_tvars /\ WF_tvars(Program)

=============================================================================
