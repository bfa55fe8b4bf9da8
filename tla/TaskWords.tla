------------------------------- MODULE TaskWords -------------------------------
(***************************************************************************)
(* A task is a 32-bit word everywhere in the project (WIDTH = 32 in        *)
(* hb_task_queue_core.sv, uint32_t in C and C++).  Nothing computes with a *)
(* word; it is only stored, moved and compared.                            *)
(***************************************************************************)
CONSTANTS
  Data,      \* the words
  ZERO       \* the all-zero word: what cleared memory and registers hold

ASSUME WordAssumption == ZERO \in Data

===============================================================================
