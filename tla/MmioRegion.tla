------------------------------ MODULE MmioRegion ------------------------------
(***************************************************************************)
(* The memory-mapped file mmio_region.bin: six 32-bit registers that the   *)
(* host process and the bridge process both map, and that either of them   *)
(* may load or store at any time.  Nothing locks it and no register has an *)
(* atomic update: CTRL |= bit and ACK &= ~bit are a load and a later       *)
(* store, each an action of its own in MmioDriver and MmioBridge.          *)
(*                                                                         *)
(* A flag register is the set of its flags.  Bits no one defines stay 0.   *)
(***************************************************************************)
EXTENDS TaskWords

VARIABLES
  CTRL,      \* requests: push_req (bit 0), pop_req (bit 1)
  DATA_IN,   \* the word to push
  ACK,       \* answers
  STATUS,    \* the queue's flags, as the bridge last saw them
  DATA_OUT,  \* the word answered to a pop
  TB_DONE    \* the host asks the bridge to exit

regionVars == <<CTRL, DATA_IN, ACK, STATUS, DATA_OUT, TB_DONE>>

Requests == {"push", "pop"}
Answers == {"PUSH_OK", "PUSH_REFUSED", "POP_OK", "POP_REFUSED"}

OkBit(op) == IF op = "push" THEN "PUSH_OK" ELSE "POP_OK"
RefusedBit(op) == IF op = "push" THEN "PUSH_REFUSED" ELSE "POP_REFUSED"

\* What the bridge's memset leaves before the host opens the file.
RegionInit ==
  /\ CTRL = {}
  /\ DATA_IN = ZERO
  /\ ACK = {}
  /\ STATUS = {}
  /\ DATA_OUT = ZERO
  /\ TB_DONE = FALSE

RegionTypeOK ==
  /\ CTRL \subseteq Requests
  /\ DATA_IN \in Data
  /\ ACK \subseteq Answers
  /\ STATUS \subseteq {"FULL", "VALID"}
  /\ DATA_OUT \in Data
  /\ TB_DONE \in BOOLEAN

===============================================================================
