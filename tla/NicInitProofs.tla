---------------------------- MODULE NicInitProofs ----------------------------
(***************************************************************************)
(* Proofs about rtl8125_init (NicInit), for every ring size, line size and *)
(* reset-poll budget.                                                      *)
(***************************************************************************)
EXTENDS NicInit, TLAPS

AfterUnlock == {"unlock", "rings", "clean", "regs", "enable", "lock", "ok"}
AfterClean == {"clean", "regs", "enable", "lock", "ok"}
AfterRegs == {"regs", "enable", "lock", "ok"}
AfterEnable == {"enable", "lock", "ok"}

(* The inductive invariant: where rtl8125_init is tells what it has       *)
(* established.  Past the wait loop the reset has completed (so nothing   *)
(* wipes the registers any more); from the clean on the cache holds the   *)
(* init values; while cleaning, lines that are not dirty agree with them  *)
(* in memory; from the register writes on memory holds them; from the     *)
(* enable on the base registers are set; and the engines run only before  *)
(* the call (left running by firmware) or once enabled.                   *)
NicInv ==
  /\ NicTypeOK
  /\ ipc \in AfterUnlock => ~chip.rst
  /\ ipc \in AfterClean => \A d \in Descs : icache[d] = "init"
  /\ ipc = "clean" => \A d \in Descs : iline[ILineOf(d)] # "D" => imem[d] = "init"
  /\ ipc \in AfterRegs => \A d \in Descs : imem[d] = "init"
  /\ ipc \in AfterEnable => chip.txbase /\ chip.rxbase
  /\ chip.en => ipc \in {"idle", "start", "lock", "ok"}

LEMMA LineOfType == \A d \in Descs : ILineOf(d) \in ILines
BY DEF ILines

LEMMA InvInit == NicIdle => NicInv
<1> SUFFICES ASSUME NicIdle PROVE NicInv
  OBVIOUS
<1>1. NicTypeOK
  BY ResetPollsAssumption DEF NicIdle, NicTypeOK, IpcValues, Chip, DescVals
<1>2. ~chip.en \/ ipc = "idle"
  BY DEF NicIdle
<1>3. QED
  BY <1>1, <1>2 DEF NicIdle, NicInv, AfterUnlock, AfterClean, AfterRegs,
     AfterEnable

LEMMA InvStep == NicInv /\ [NicNext]_ivars => NicInv'
<1> SUFFICES ASSUME NicInv, [NicNext]_ivars PROVE NicInv'
  OBVIOUS
<1> USE DEF NicInv, AfterUnlock, AfterClean, AfterRegs, AfterEnable
<1>1. CASE InitCall
  BY <1>1 DEF InitCall, NicTypeOK, IpcValues
<1>2. CASE InitReset
  <2>1. chip' \in Chip /\ ~chip'.en
    BY <1>2 DEF InitReset, NicTypeOK, Chip
  <2>2. NicTypeOK'
    BY <1>2, <2>1, ResetPollsAssumption DEF InitReset, NicTypeOK, IpcValues
  <2>3. QED
    BY <1>2, <2>1, <2>2 DEF InitReset
<1>3. CASE InitResetPoll
  BY <1>3, ResetPollsAssumption DEF InitResetPoll, NicTypeOK, IpcValues
<1>4. CASE InitResetTimeout
  BY <1>4 DEF InitResetTimeout, NicTypeOK, IpcValues
<1>5. CASE InitUnlock
  BY <1>5 DEF InitUnlock, NicTypeOK, IpcValues, Chip
<1>6. CASE InitRings
  <2>1. NicTypeOK'
    BY <1>6 DEF InitRings, NicTypeOK, IpcValues, DescVals
  <2>2. \A d \in Descs : iline'[ILineOf(d)] = "D"
    BY <1>6, LineOfType DEF InitRings
  <2>3. QED
    BY <1>6, <2>1, <2>2 DEF InitRings
<1>7. CASE InitClean
  <2>1. NicTypeOK'
    BY <1>7, LineOfType DEF InitClean, CleanRings, NicTypeOK, IpcValues
  <2>2. \A d \in Descs : imem'[d] = "init"
    <3> SUFFICES ASSUME NEW d \in Descs PROVE imem'[d] = "init"
      OBVIOUS
    <3>1. ILineOf(d) \in ILines /\ ILineOf(d)[1] \in {"tx", "rx"}
      BY LineOfType DEF Descs, ILineOf
    <3>2. QED
      BY <1>7, <3>1 DEF InitClean, CleanRings
  <2>3. QED
    BY <1>7, <2>1, <2>2 DEF InitClean
<1>8. CASE InitRegs
  BY <1>8 DEF InitRegs, NicTypeOK, IpcValues, Chip
<1>9. CASE InitEnable
  BY <1>9 DEF InitEnable, NicTypeOK, IpcValues, Chip
<1>10. CASE InitLock
  BY <1>10 DEF InitLock, NicTypeOK, IpcValues, Chip
<1>11. CASE NicResetDone
  BY <1>11 DEF NicResetDone, ChipDefaults, NicTypeOK, Chip
<1>12. ASSUME NEW l \in ILines, IEvict(l) PROVE NicInv'
  <2>1. NicTypeOK'
    BY <1>12 DEF IEvict, NicTypeOK
  <2>2. \A d \in Descs : imem'[d] = imem[d] \/ imem'[d] = icache[d]
    BY <1>12 DEF IEvict
  <2>3. ipc = "clean" => \A d \in Descs : iline'[ILineOf(d)] # "D" => imem'[d] = "init"
    BY <1>12, LineOfType DEF IEvict, NicTypeOK
  <2>4. QED
    BY <1>12, <2>1, <2>2, <2>3 DEF IEvict
<1>13. CASE UNCHANGED ivars
  BY <1>13 DEF ivars, NicTypeOK
<1>14. QED
  BY <1>1, <1>2, <1>3, <1>4, <1>5, <1>6, <1>7, <1>8, <1>9, <1>10, <1>11,
     <1>12, <1>13
  DEF NicNext, NicStep, InitProgram, InitHardware

LEMMA InvImpliesRunsOnRings == NicInv => NicRunsOnRings
BY DEF NicInv, NicRunsOnRings, AfterRegs, AfterEnable

(* Whatever the ring sizes, the line size and the poll budget, once        *)
(* rtl8125_init has reset the chip its DMA engines only run on the rings   *)
(* it initialised and cleaned to memory, with the base registers set.      *)
THEOREM RingsReadyAtEnable == NicSpec => []NicRunsOnRings
BY InvInit, InvStep, InvImpliesRunsOnRings, PTL DEF NicSpec

(* rtl8125_init's state stays well typed; in particular the reset wait     *)
(* never counts past its bound.                                            *)
THEOREM NicTypeCorrect == NicSpec => []NicTypeOK
BY InvInit, InvStep, PTL DEF NicSpec, NicInv

=============================================================================
