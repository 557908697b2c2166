-------------------------------- MODULE Plic ---------------------------------
(***************************************************************************)
(* The PLIC (src/src/plic.c): registers that a driver writes and reads back *)
(* and that nothing else changes, so that no interrupt is ever claimed.     *)
(* Offsets are from the base of the window and those of the code.           *)
(***************************************************************************)
EXTENDS Integers

CONSTANT PlicOffsets     \* offsets the guest of an instance uses

ASSUME PlicOffsetsAssumption == PlicOffsets \subseteq Nat

SOURCE_PRIORITY == 0
PENDING == 4096
ENABLE == 8192
THRESHOLD_AND_CLAIM == 2097152

\* Mutant: the second context is kept with a count from one.
ContextRegister_counted(o) ==
    CASE o = 4 -> <<"threshold", 0>>
      [] o = 8 -> <<"claim", 0>>
      [] o = 4096 -> <<"threshold", 2>>
      [] o = 4100 -> <<"claim", 2>>
      [] OTHER -> <<"none", 0>>

\* Mutant: threshold and claim of a context are one register.
ContextRegister_shared(o) ==
    CASE o = 4 -> <<"threshold", 0>>
      [] o = 8 -> <<"claim", 0>>
      [] o = 4096 -> <<"claim", 1>>
      [] o = 4100 -> <<"claim", 1>>
      [] OTHER -> <<"none", 0>>

\* The registers of context 0 stand one word further than those of context 1.
ContextRegister(o) ==
    CASE o = 4 -> <<"threshold", 0>>
      [] o = 8 -> <<"claim", 0>>
      [] o = 4096 -> <<"threshold", 1>>
      [] o = 4100 -> <<"claim", 1>>
      [] OTHER -> <<"none", 0>>

\* Which element of which array an offset selects.
Register(o) ==
    IF o \in SOURCE_PRIORITY..(SOURCE_PRIORITY + 4095) THEN <<"priorities", o \div 4>>
    ELSE IF o \in PENDING..(PENDING + 127) THEN <<"pending", (o - PENDING) \div 4>>
    ELSE IF o \in ENABLE..(ENABLE + 255) THEN <<"enabled", (o - ENABLE) \div 4>>
    ELSE IF o >= THRESHOLD_AND_CLAIM THEN ContextRegister(o - THRESHOLD_AND_CLAIM)
    ELSE <<"none", 0>>

ArraySize == [priorities |-> 1024, pending |-> 32, enabled |-> 64,
              threshold |-> 2, claim |-> 2, none |-> 1]

VARIABLE regs

PlicRegisters == {Register(o) : o \in PlicOffsets}

plic_read_handler(o) == IF Register(o)[1] = "none" THEN 0 ELSE regs[Register(o)]

plic_write_handler(o, data) ==
    regs' = IF Register(o)[1] = "none" THEN regs ELSE [regs EXCEPT ![Register(o)] = data]

PlicTypeOK ==
    /\ regs \in [PlicRegisters -> Nat]
    /\ \A r \in PlicRegisters : r[2] \in 0..(ArraySize[r[1]] - 1)
==============================================================================
