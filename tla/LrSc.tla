-------------------------------- MODULE LrSc ---------------------------------
(***************************************************************************)
(* The load-reserved, store-conditional and AMO instructions (the ATOMICS   *)
(* case of rv32_exec_instr, src/src/rv32.c), used by the tasks of a guest   *)
(* to increment one word.  The emulated hart has one reservation, the       *)
(* virtual address lr_addr.  Tasks are preempted between any two            *)
(* instructions; what the guest's kernel executes on a switch is a constant. *)
(***************************************************************************)
EXTENDS Naturals

CONSTANTS
    Tasks,
    Word,        \* the address the tasks increment
    Scratch,     \* an address of the kernel's own
    OnSwitch,    \* "sc": the kernel executes SC on Scratch at each switch;
                 \* "lr_sc": LR and then SC on Scratch
    MaxDone      \* bound: increments of a behaviour

ASSUME AddressAssumption == Word # Scratch /\ Word # 0 /\ Scratch # 0
ASSUME OnSwitchAssumption == OnSwitch \in {"sc", "lr_sc"}
ASSUME MaxDoneAssumption == MaxDone \in Nat

VARIABLES
    mem,       \* the value of Word
    lr_addr,   \* the reservation; 0 at reset and after a successful SC
    cur,       \* the task that runs
    at,        \* at[t]: the next instruction of the task's increment
    val,       \* val[t]: the register the task's LR loaded
    done       \* increments the tasks have completed

lrvars == <<mem, lr_addr, cur, at, val, done>>

TypeOK ==
    /\ mem \in 0..MaxDone
    /\ lr_addr \in {0, Word, Scratch}
    /\ cur \in Tasks
    /\ at \in [Tasks -> {"start", "sc"}]
    /\ val \in [Tasks -> 0..MaxDone]
    /\ done \in 0..MaxDone

-----------------------------------------------------------------------------
LR(t) ==
    /\ cur = t /\ at[t] = "start" /\ done < MaxDone
    /\ val' = [val EXCEPT ![t] = mem]
    /\ lr_addr' = Word
    /\ at' = [at EXCEPT ![t] = "sc"]
    /\ UNCHANGED <<mem, cur, done>>

\* Mutant: the reservation is not tested.
SC_always(t) ==
    /\ cur = t /\ at[t] = "sc" /\ done < MaxDone
    /\ at' = [at EXCEPT ![t] = "start"]
    /\ mem' = val[t] + 1 /\ lr_addr' = 0 /\ done' = done + 1
    /\ UNCHANGED <<cur, val>>

\* The store happens when lr_addr is the address, whoever reserved it and
\* whatever was stored since.  A success drops the reservation, a failure
\* does not; the task starts over.
SC(t) ==
    /\ cur = t /\ at[t] = "sc" /\ done < MaxDone
    /\ at' = [at EXCEPT ![t] = "start"]
    /\ IF lr_addr = Word
       THEN mem' = val[t] + 1 /\ lr_addr' = 0 /\ done' = done + 1
       ELSE UNCHANGED <<mem, lr_addr, done>>
    /\ UNCHANGED <<cur, val>>

\* Mutant: the instruction is executed again after its store.
AMOADD_twice(t) ==
    /\ cur = t /\ at[t] = "start" /\ done < MaxDone
    /\ mem' = mem + 2
    /\ done' = done + 1
    /\ UNCHANGED <<lr_addr, cur, at, val>>

\* AMOADD reads and writes in one instruction and ignores the reservation.
AMOADD(t) ==
    /\ cur = t /\ at[t] = "start" /\ done < MaxDone
    /\ mem' = mem + 1
    /\ done' = done + 1
    /\ UNCHANGED <<lr_addr, cur, at, val>>

\* Mutant: the switch keeps the reservation.
SwitchTo_reserved(t) == t # cur /\ cur' = t /\ UNCHANGED <<mem, lr_addr, at, val, done>>

\* An access that faults leaves the reservation and the memory as they were.
SwitchTo(t) ==
    /\ t # cur
    /\ cur' = t
    /\ lr_addr' = IF OnSwitch = "lr_sc" \/ lr_addr = Scratch THEN 0 ELSE lr_addr
    /\ UNCHANGED <<mem, at, val, done>>

Init ==
    /\ mem = 0 /\ lr_addr = 0 /\ done = 0
    /\ cur \in Tasks
    /\ at = [t \in Tasks |-> "start"]
    /\ val = [t \in Tasks |-> 0]

Next == \E t \in Tasks : LR(t) \/ SC(t) \/ AMOADD(t) \/ SwitchTo(t)

Spec == Init /\ [][Next]_lrvars

-----------------------------------------------------------------------------
\* Increments made of LR and SC, and those made of AMOs, are atomic: none is
\* lost, however the tasks are interleaved.  The code keeps it only for a
\* kernel that leaves no reservation behind when it switches tasks, which
\* takes an LR and SC of its own: an SC that fails leaves the old one.
NoLostUpdate == mem = done

\* Why it holds: a success uses the value of an LR that nothing came after.
ReservationIsFresh ==
    \A t \in Tasks : cur = t /\ at[t] = "sc" /\ lr_addr = Word => val[t] = mem

==============================================================================
