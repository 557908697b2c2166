# A TLA+ verification of yariscv

yariscv is an emulator of a 32-bit RISC-V machine (`rv32imac`, sv32, CLINT, a
LiteX-like UART, a stub of a PLIC) in about 3000 lines of C that boots Linux. It
has no tests. This directory holds TLA+ modules that model it from the first
line of `main` to the instruction set, TLC configurations that check them on
small instances, and theorems with proofs that TLAPS checks for every value of
the constants.

Source paths below are relative to the repository: `src/rv32.c` is
`src/src/rv32.c` of the tree this project was written against.

## 1. The system

### Parts, their state and their operations

| Part | State | Operations |
|---|---|---|
| Hart (`src/rv32.c`, `src/rv32_p.h`) | 32 registers, `pc`, `prv`, `mstatus` in separate fields, `mie`, `mip`, `mideleg`, `medeleg`, trap vectors, causes and return addresses, `satp`, `lr_addr`, `instr_cnt` | `rv32_run`, `rv32_exec_instr` (RV32IMAC, CSR and privileged instructions), `raise_exception`, `handle_mret`, `handle_sret`, `rv32_raise_interrupts`, `rv32_set_mip`, `rv32_reset_mip` |
| CLINT (`src/clint.c`) | `mtimecmp`, a word `msip` that is never written; the clock is the hart's `instr_cnt` | memory-mapped read and write, `clint_check_time` |
| MMU (`src/mmu.c`, `src/mmu_template.h`) | none of its own: it reads the hart's privilege context and `satp`, and page tables in RAM, and writes their A and D bits | `translate_address`, `translate_sv32`, typed reads and writes, `mmu_exec_u32` |
| TLB (`src/tlb.c`) | one entry per virtual page: a physical page and the marks WR and RE | `tlb_get`, `tlb_put`, `tlb_flush` |
| Memory map (`src/memmap.c`) | at most ten windows, each RAM or a pair of handlers | `memmap_append`, `memmap_get` |
| Console (`src/console.c`) | ring buffer `buffer`/`start`/`len`, `esc_state`, the terminal's settings `old_tty` | `console_init`, `console_read`, `console_get_char`, `console_is_empty`, `exit_callback` |
| UART (`src/uart.c`) | none | register reads and writes in front of the console |
| PLIC (`src/plic.c`) | arrays the guest reads and writes | memory-mapped read and write; no interrupt ("whole file is a stub", l. 10) |
| Loader (`src/loader.c`) | none | copies an image into RAM at start-up |
| Main loop (`src/yariscvemu.c`, `main.c`) | `running`, the three file names | `parse_arguments`, `yariscvemu_init`, `yariscvemu_run` |
| Logger (`src/logger.c`) | a file | diagnostics |

### How they interact

There is one thread. `yariscvemu_run` repeats four calls: `rv32_run(50000)`,
`console_read`, `clint_check_time`, `rv32_raise_interrupts`. Inside a batch an
instruction may call the MMU, which may call the TLB, walk page tables and
dispatch to a device handler, and the CLINT's handler writes the hart's `mip`
while the hart executes the very instruction that stores to it. So the actors
whose interleaving matters are the *guest* (firmware, kernel and tasks, which
choose every instruction), the *host's user* (who types), and the four calls of
the loop.

Shared state: `mip` (guest CSR writes, CLINT handler, clock check, poll);
`mstatus` (CSR writes, traps and returns of two levels, the MMU); page tables (the
guest's stores and the walk's A and D updates); the ring buffer (host and guest);
`lr_addr` (all tasks of the guest).

### What is hard

* The privilege state is changed by a dozen instructions, traps and returns and
  is right only as a whole: no path may raise the privilege but a trap, no path
  may leave MPRV set below M, none may make `pc` odd (nothing checks it later).
* An interrupt is decided twice, by the poll and by `raise_exception`.
* The comparator is written in two halves and compared through a signed number,
  and only between two batches.
* The TLB keeps a translation without watching the tables, and a hit repeats
  none of the checks of a walk.
* The reservation of LR/SC is an address and nothing else.
* The ring buffer has neither a test for full nor a first-in, first-out read.
* Nothing checks an address against the host's memory: the window of an access's
  first byte, the page it lies in, and one comparison of sizes must do.
* Start-up puts three images into one RAM and can fail at each of them, after the
  terminal has been made raw.
* The decoder puts immediates of some twenty formats together bit by bit, and
  some fifty places write a register; the AMOs read, then write, and either can
  fault.

`PROJECT.json` lists the hazards one by one, each at its line.

## 2. Modules

| Module | Models | State and actions |
|---|---|---|
| `Hart` | the privileged half of `rv32.c` | One variable for each privileged register; registers the code uses bit by bit are the sets of their 1 bits. One action for each kind of instruction that reaches them (`Mret`, `Sret`, `Wfi`, `Ecall`, `CsrBits`, `CsrAddr`, `CsrCause`, the jumps, `Advance` for all others), for a fault (`FetchFault`, `ExecFault`), for a store to the CLINT and for the two calls between batches that change the hart |
| `TrapReturn` | `Hart` with two history variables | remembers what the last trap of each level interrupted |
| `Words`, `Alu` | words as numbers below `WordMod`, made of four bytes of `ByteBits` bits; the operations of OP, OP-IMM and the M extension | operators only |
| `Encoding` | the macros of `rv32_p.h` and `rv32.c` that take an instruction apart | operators only; an instruction is two half words, so that the full width of the encoding is kept at any width of the data |
| `Exec` | `rv32_exec_instr` and `rv32_exec_compressed_instr` but for SYSTEM | registers, `pc`, memory, the reservation, the last trap, whether the host's process lives. One action for each opcode, as the code's `switch` has them; what the MMU answers to each address is a constant |
| `Isa` | nothing: the abstract specification of `Exec` | what the ISA manual says of each instruction, by name, with no encoding |
| `Assembler` | nothing: the reference encoder | the manual's tables of formats, which share with `Encoding` only the sum of a list of numbers; `Encodable`, the operands that the fields can hold, and `Encoded`, which `MCExec` checks of its program |
| `Clint` | `clint.c` | comparator, clock and the two lines; one action for each register that can be stored to, `clint_check_time`, and `OtherInstr` for everything the hart does meanwhile |
| `ClintStores` | `Clint` with a history | the halves the guest last stored |
| `Machine` | `yariscvemu_run` and `rv32_run` | EXTENDS `Hart`, INSTANCE `Clint` on two bits of its `mip`; `phase` is the call of the loop under way, `left` the rest of the batch. A store to the device is one step of both components |
| `Receiver` | nothing: the abstract specification of the receive side | a counter and the latest character |
| `Console` | `console.c` and the read handler of `uart.c` | the ring, the escape, the process's life; one action for each way a call of `console_read` ends and for each kind of register read |
| `ConsoleHistory` | `Console` with a history | what was typed, what passed the escape, what the guest got |
| `Mmu` | `mmu.c` and `tlb.c` | page tables as a function of (page, index), the TLB as a function of the page, the privilege context as a record; a walk is a pure operator, an access applies its A/D update and fills the TLB. `stale` is the guest's debt of a flush, `switched` says that the context changed since the TLB was filled |
| `LrSc` | LR, SC and AMOADD, a guest of several tasks | each task's position in its increment, the word, the reservation |
| `Memmap` | `memmap.c` | the table of windows; `memmap_append` with its limit, `memmap_get` with the entry it looks at too many |
| `Memory` | `mmu_template.h`, `mmu_exec_u32` | EXTENDS `Memmap`: an access of 1, 2 or 4 bytes, translated once, to a window of RAM or a device; `ram` is the memory byte by byte, `overruns` the ways in which the emulator left the host memory it owns |
| `Plic` | `plic.c` | the registers by the addresses at which the stub keeps them |
| `Board` | `main.c`, `yariscvemu_init`, `loader.c`, the terminal, the ends of the process | EXTENDS `Memory` and `Plic`: `stage` is where start-up is; one action for each call of it, with a failure wherever the code has one, then the guest's accesses, the PLIC's driver, `Ctrl-A x` and signals |
| `HartProofs`, `ExecProofs`, `ClintProofs`, `LrScProofs`, `MachineProofs`, `MmuProofs`, `ConsoleProofs`, `BoardProofs` | theorems and proofs | |
| `MC*` | values of the constants for TLC | |

Four specifications are abstract statements of others. `Machine` is shown to
implement both `Hart!Spec` and `Clint!Spec` (properties `HartSpec`, `ClintSpec`,
proved in `MachineProofs`), so what is proved of those two for every guest holds
of the machine with the loop's order of calls. `Console` is shown to implement
`Receiver` (`ReceiverSpec`, proved in `ConsoleProofs`), which says in two lines
what the ring amounts to. And each step of `Exec` is shown to be the step `Isa`
gives for the instruction that `Assembler` encoded (`ImplementsIsa`), but for
the instructions and operands named in `Deviates`.

How the modules fit together: `Hart` has the effect of an instruction on the
privileged state and leaves its operands open; `Exec` has its effect on
registers and memory and leaves the mode of a trap open; both leave open what
the MMU answers, which is `Mmu`'s and, byte by byte, `Memory`'s subject. Where one
relies on another the reliance is a named assumption and the property that
discharges it: `ContextsAssumption` of `Mmu` is `MprvOnlyInMachineMode` of `Hart`.

### Abstractions and assumptions

* General registers and memory are the choice of an operand (`Hart`) or of a
  page-table entry (`Mmu`): the guest may do anything, so nothing it computes
  needs to be kept.
* A guest may write the reserved value 2 to MPP, and `mret` then puts the hart in
  a privilege no part of the code defines; `TypeOK` therefore has `prv \in 0..3`,
  and `NoEnabledInterruptIgnored` excepts that mode because the poll's `default`
  takes nothing in it. The instances write only defined values; the theorems
  about `Hart` cover every value.
* `Exec` has words of 8 bits in its instance (`ByteBits` = 2) while instructions
  keep their 32: an immediate is cut to the word after it was decoded at its full
  width (`ImmShift` moves the upper immediates), and `ImmediatesSurvive` compares
  it before the cut. One instruction per behaviour (`MaxInstr` = 1) from every
  start is enough, because every property of the run speaks of a single step.
* `Memory` puts bytes in the order of the address: host and guest are both little
  endian, and the code stores words by a cast of the host's pointer. What lies
  behind the host's memory is any byte of `Garbage`.
* `Board` has a device refuse what is no word access, as all three handlers do,
  and words at some addresses, as the CLINT does where it has no register; reads
  and writes are refused apart (`RefusedReads`, `RefusedWrites`), because its clock
  can be read and not written. Its table has the code's five windows, so the limit
  of `memmap_append` and the entry `memmap_get` looks at too many are modelled and
  never met.
  The PLIC is used by a driver written to the PLIC's manual, for two contexts,
  which completes only what it claimed.
* `Clint` assumes that firmware does not set MTIP itself by a write of `mip`
  (which the code would accept), and that fewer than 2^63 instructions are executed.
* `Mmu` takes from the hart that MPRV is set in M only (`ContextsAssumption`).
  That is `MprvOnlyInMachineMode`, which is proved of `Hart` (theorem `MprvSafe`).
* The entry of the last virtual page lies behind the TLB's table. In the build it
  is memory at the end of the same allocated pages, so `Mmu` lets it keep what is
  put there. All properties that hold are stated for the other pages.
* `LrSc` needs a discipline of the guest's kernel, given as the constant
  `OnSwitch`.
* The host's terminal is external: a read gives nothing or any character. The
  process ends when `exit` is called.

## 3. What is checked

| Run | Shows | Bounds and why they are enough |
|---|---|---|
| `hart` | privilege is gained only by a trap, at the vector of the mode entered; MPRV is set in M only; nothing makes a program counter odd; a handler that writes none of its saved context is invisible to what it interrupted, at both levels | 4 addresses, two of them even, so that a return to a wrong place shows, and odd operands; the timer, calls and a load fault that may be delegated nest in both orders (463 000 states) |
| `clint` | a pending interrupt has a reason; the comparator holds what the guest meant after a store of the high half | half words of 2 bits, all 16 deadlines against all 8 times |
| `machine` | the loop refines the hart and the CLINT; the poll passes over no enabled interrupt, and takes each into the right mode; software below M changes no machine-level state; every passed deadline raises MTIP; an enabled timer interrupt reaches the firmware unless a poll finds a supervisor interrupt ready | two interrupts, one delegable: with the two enables and three privileges this is every case of the poll; batches of one instruction give the most interleavings; a comparator of two bits has deadlines on both sides of the clock (955 000 states) |
| `console` | the ring implements a counter and a latch; the escape depends on the characters alone; no read invents or skips a count | a ring of 2 and 5 characters: it overflows twice; all 4^5 inputs in every split |
| `mmu` | the TLB agrees with the tables while the guest owes no flush; a write that hits was recorded in D; a read that hits was recorded in A; a hit is what a walk would give while the context lasts | one bit for each half of a page number: two levels, superpages, a page no memory answers, roots that are their own children; contexts of U, of S with SUM, of M with MPRV and MXR (1.8 million states) |
| `lr_sc` | no increment is lost | three tasks, four increments, preemption between any two instructions |
| `exec` | every RV32IMAC instruction outside SYSTEM does what the ISA says, but for `Deviates`; a trap leaves nothing half done; immediates survive; register 0 stays 0 | every opcode and compressed form, reserved words of each table, each single bit of each immediate; operands at 13 corners of both signs; two program counters, one about to wrap; RAM, read-only pages, a device that refuses writes, unmapped and unanswered addresses, accesses that run from one into the next (348 000 states) |
| `board` | the emulator leaves its host memory only in the two ways named; the bytes of an access on its first page are right; the guest starts on whole images only; the terminal is given back; a driver never finds anything to claim | pages of 4 bytes, so that accesses cross them; two windows of RAM and devices next to each other and a gap; images that are absent, empty, fit, exactly fit, overlap or are too long; two accesses under four tables (697 000 states) |

Four runs expect a violation; each is a place where the code and a sentence of the
repository disagree, listed under "findings":

* `clint_any_order`: the store of the low half clears the high half (the mask
  `~0xffffffff` is a 32-bit zero), so high-then-low loses the high half.
* `console_order`: with two characters waiting, the guest reads the newer one
  twice and the older one never.
* `mmu_last_page`: `SIZE` is one short of 2^20, so the last page's translation
  survives a flush.
* `lr_sc_dangling`: a failing SC leaves the reservation, so the usual dummy SC of a
  kernel's task switch does not drop it and an update is lost.

### Other places where the code departs from what a reader would expect

Each is visible as an exception in a property that holds, or in the model:

* `Deviates` (`Exec`): `divu` and `remu` divide as if signed when an operand has
  its top bit set (and either of the least number by -1 is left to the host, which
  may end the process, `alive`; `div` and `rem` test for it); LR reports a store's
  fault; AMOXOR reports a refused write as a page fault whatever refused it; atomics
  on an address that is not aligned are carried out; so are loads and stores that
  run from bytes that answer into bytes that do not (only the first byte is
  translated; `Isa` asks of every byte); FENCE.TSO and fences with reserved fields
  trap. In these cases `ImplementsIsa` says nothing of the step; `TypeOK`,
  `ZeroStaysZero` and `TrapsArePrecise` still do.
* C.SRAI with bit 5 of its shift amount set, which RV32 reserves, is carried out as
  a shift by nothing (C.SRLI and C.SLLI trap).
* SC to address 0 succeeds without an LR, because 0 is also the value that stands
  for no reservation (`AddressAssumption` of `LrSc` leaves address 0 out).
* `PendingHasReason` has a second disjunct because a deadline 2^63 or more ahead
  fires at once; `DeadlineNoticed` starts strictly after the deadline because the
  comparison is `delay < 0`.
* `TimerReachesFirmware` has an exception because supervisor interrupts are tested
  before machine ones: a poll that finds one ready (`PollPrefersSupervisor`).
* `ReadHitsAreAccessed` says "readable or executable", and `HitsAgreeWithWalk`
  "a load or a fetch", because the two share one mark of the TLB: a fetch after a
  load is not checked for X. `HitsAgreeWithWalk` ends with the first change of
  context: traps, returns and writes of mstatus flush nothing, so that a page
  filled by S with SUM answers U.
* `HostMemorySafe` names two ways out of the host's memory: an access that runs
  over the end of its page at the end of a window of RAM (a fetch always reads
  four bytes), and an image longer than the room behind its offset, whose size
  is compared with the whole window; `fread` may leave the block with such an image
  even if it then comes up short and start-up fails.
* `NeverRunsHalfLoaded` excepts bytes covered by a later image: nothing keeps a
  large firmware and the initrd apart. It also speaks only of the bytes that lie in
  the window; the rest of a too long image is what `HostMemorySafe` names.
* `TerminalGivenBack` speaks of exits: a signal leaves the terminal raw.
* The PLIC keeps threshold and claim of context 0 one word off (`Claim`,
  `Register`), which is harmless because nothing is ever claimed.
* In U the counters `cycle` and `instret` are gated by `scounteren` alone, and
  `time` by nothing; the manual asks for `mcounteren` too (not modelled).

### Fairness

Only `machine` assumes any: weak fairness of the loop as a whole
(`LoopRuns`). The program is one thread that never blocks (`console_read` reads
with `O_NONBLOCK`), so as long as the process lives it takes steps. Nothing is
assumed about the guest: which instruction it executes, and that it ever enables an
interrupt or leaves an interrupt handler, is its own choice. The instruction count
saturates at `TimeCap` instead of a state constraint, so that behaviours are
infinite and the liveness properties are checked on all of them. Deadlock is not
checked where the process may have ended (`Machine`, `Console`, `Board`) or the
bound on instructions is reached (`Exec`).

## 4. What is proved

For every value of the constants that meets the named assumptions of the modules.
The assumptions that matter: an even number of addresses (`Hart`) and of values of
a half word (`Clint`); distinct LR/SC addresses other than 0 (`LrSc`); MPRV in M
only (`Mmu`, discharged by `MprvSafe`); an even page size, windows of RAM made of
whole pages and a table with room for one more window than there are (`Board`; all
true of the code's `#define`s).

| Theorem | Argument |
|---|---|
| `TypeCorrect`: `Spec => []TypeOK` of `Hart` | one lemma for each kind of step; the arithmetic is that every new address is a remainder modulo `AddrMod` |
| `MprvSafe`: `[]MprvOnlyInMachineMode` | inductive with the type invariant (`MprvInv`): MPRV is writable only through `mstatus`, hence in M; every return below M clears it. The step that needs an argument is a trap from M, which stays in M because `raise_exception` delegates only from S and U |
| `PcAlwaysAligned`: `[]PcAligned` | not inductive alone: `pc` is loaded from a vector, so `AlignedInv` adds that the bases of `mtvec` and `stvec` are even. The arithmetic is in `ModKeepsParity`: parity survives the reduction modulo an even `AddrMod` |
| `GateCorrect`: `InterruptGate` | the poll's four cases of privilege against the two of the delegation; `GateStep` needs that `mideleg` holds only supervisor interrupts |
| `NoneIgnored`: `[]NoEnabledInterruptIgnored` | the poll's four sets, one for each privilege and delegation, against the architecture's one sentence; needs `TypeCorrect` for the privilege and `SomeIsChosen`: the chain of tests leaves none of the six interrupts out |
| `RisesOnlyAtVector`: `PrivilegeRisesOnlyAtVector` | one step for each kind of action: a return never raises the privilege because `mret` and `sret` are illegal below the mode whose stack they pop, and the stack of S holds only S or U |
| `LowModesAreConfined`: `LowModesKeepMachineState` | the CSR guard is the heart of it: every machine-level CSR is illegal below M. The writes through `sstatus`, `sie` and `sip` keep every bit outside their masks (`CsrBits`), and MPRV is out of their reach by `MprvInv` |
| `MachineHandlerInvisible`, `SupervisorHandlerInvisible`: `HSpec => MachineTrapTransparent`, `SupervisorTrapTransparent` | `OwedInv`, with `MprvInv`: while nothing but a return of its own or a write of its own stack or program counter has touched them, what a return would give now (`AfterMret`, `AfterSret`) is what the last trap interrupted. For M this holds only while the hart is in M: an `sret` of the handler leaves M without it. `StepChanges` is the case split: privilege moves only by a trap or a return, and a trap into M keeps what S is owed |
| `LoopImplementsHart`: `MSpec => HartSpec` | every action of the loop is an action of the hart or leaves it alone (`StepIsHart`); the theorems about `Hart` are so theorems about the emulator, for every size of a batch |
| `LoopImplementsClint`: `MtipIsTheClints => (MSpec => ClintSpec)` | what the hart's instructions do to the two lines must be allowed by `Clint`'s `OtherInstr`: `CsrKeepsMtip` shows that a read-modify-write of `mip` sets MTIP only if the operand has it, which `MtipIsTheClints` excludes |
| `MachineTyped`: `MSpec => []MTypeOK` | `HartSpec` gives the hart's part; the rest is the comparator and the batch counter, which `Iteration` decreases only above 0 |
| `DeadlineStored`: `[]DeadlineAsWritten` | with the ranges of the two halves it is inductive (`StoresInv`); `HalfWord` has the arithmetic: the remainder of the comparator is the low half, which a store of the high half keeps |
| `ClintTypeCorrect`, `PendingJustified` | `ClintInv`; `ExpiredMeans` relates the signed difference, a remainder, to the comparison of the two numbers |
| `IncrementsAreKept`, `SuccessIsFresh` | `LrScInv`: what the running task loaded is the word's value while its reservation stands, and no other task's reservation is ever present. Holds for any set of tasks when the switch ends with a successful SC |
| `LrScTyped`: `[]TypeOK` of `LrSc` | holds under both kernels, so it cannot use `LrScInv`; `BehindInv` says instead that no copy is ahead of the increments done |
| `RegisterZero`: `[]ZeroStaysZero` | both from one fact, `Disciplined`, proved for each way an instruction ends and then for every entry of the decoder: it writes through a test of its destination, or to a register that cannot be 0, whatever the operands and the memory are |
| `PreciseTraps`: `TrapsArePrecise` | the other half of `Disciplined`: an exit that traps leaves everything else; the AMOs need the case that the read succeeded and the write did not |
| `Typed`: `Spec => []TypeOK` of `Exec` | every instruction that can be decoded, at every width of a byte, leaves words in the registers, `pc`, the reservation and bytes in memory. What is hard is `And`, which recurses over both words: `Recursion` shows, by induction on the larger of the two, that the equation defines it, `AndBounds` that it is at most either of them, whence the bounds of `Or` and `Xor`. `Sums` bounds the loads and the gathered immediates, `Powers` (2^n as the number of subsets of n elements) gives the powers of two the laws the provers lack |
| `ImmediatesKept`: a program that is `Encoded` keeps `ImmediatesSurvive` | the run tries single bits and a mix of them; the theorem has every immediate and every register. One lemma for each format cuts the immediate m into the parts the manual gives the fields (m = sum of parts + 2^n d, with d = 0 or -1 its sign), adds the fields up to half words (`FieldSums`), and finds each part again in the piece a macro reads (`Pieces`, `LowPiece`: what the macro shifts in from the other half word is masked out); `sext` then gives d back. The hypothesis is that each instruction of the program is what `Assemble` makes of operands that fit, or one the manual reserves; without it there is no immediate to compare with |
| `ConsoleTyped`, `ReceiverRefined` | the place of the next character, `(start + len) % BUFSIZE`, does not move under a read; `Around` has the arithmetic of the remainder. So a read's `latest` is the abstract one's, and a write's replaces it, for every size and however far the ring has overflowed |
| `NoneInvented`: `HSpec => []NothingInvented` | `ReadInv`: what the guest got is what passed the escape, in order, as far as the ring kept it, and while the ring holds anything, the latch of the receive register is the last character accepted |
| `EscapeFilters`: `HSpec => []EscapeIsAFilter` | `EscapeInv` relates the code's one bit of state to the whole of what was typed: it is the parity of the run of Ctrl-A that the input ends with (`Agrees`), which is what decides whether the next character passes |
| `MmuTyped`; `Coherent`, `DirtyBeforeWrite`, `AccessedBeforeRead`, `HitsAreWalks` | one invariant, `IInv`: while no flush is owed, each cached page has a leaf that agrees with it and passes the checks its marks stand for (`Good`). The walk's own store of A and D is the hard step: it changes an entry that other pages, and the tables themselves, may share (`Alike`: entries that differ in A and D only give the same walks, and marks are only added to) |
| `BoardTyped`, `HostMemory`, `FirstPage` | `MemInv`: the table is empty or the five windows of start-up, and those of RAM are whole pages. A page whose first byte a window answers then lies in the window (`PageBelow`), so an access that stays in its page stays in the host's block (`RamHit`). A part of an image leaves the block only if the whole does (`ShorterInBlock`) |
| `NoInterruptClaimed`: `[]NothingToClaim` | `ClaimInv`: the register a claim reads is 0 since `calloc`; `ClaimRegisters` shows that no other address of the manual maps to it |
| `ImagesWhole`: `[]NeverRunsHalfLoaded` | `LoadInv` says after each image which ones are in place; `LoadPlaces`: an image disturbs an earlier one only where it covers it, and its window lies in RAM (`Found`, from `MemInv`) |
| `TerminalRestored`: `[]TerminalGivenBack` | `TtyInv`: from the moment the terminal is raw, `exit_callback` is registered |

`MachineProofs` builds on `HartProofs`; each of the others stands on the
component's module alone. `HartProofs`, `ClintProofs` and `ConsoleProofs` also
extend the module that adds the histories their properties speak of (`TrapReturn`,
`ClintStores`, `ConsoleHistory`).

Only model-checked:

* `DeadlineNoticed`, `TimerReachesFirmware`: liveness under fairness is out of the
  prover's reach.
* `ImplementsIsa` of `Exec`, beyond the immediates, register 0, types and traps.

Induction: the theorems of the library that take a predicate as a parameter are out
of the provers' reach; `ExecProofs` derives the form it uses, about a set that
contains 0 and is closed under successor, from the well-foundedness of the natural
numbers (`Least`, `Induction`).

Nothing in a module with a theorem is a RECURSIVE operator.

## 5. What is not modelled, and why

* The logger: it writes diagnostics to a file that nothing reads.
* The text of the command line: `Board` has its two outcomes, help and a choice of
  three files.
* The UART's transmit side: one `putc` per store and a `fflush` per read of
  TXFULL, no state of the emulator's own.
* CSRs that are plain storage (xscratch, xtval, the counter enables, misa, mhartid),
  those that read as zero (PMP) and the FS, XS and SD fields of mstatus: nothing
  else reads them. A read or write of one of them is `Advance` of `Hart`, or
  `ExecFault` where it is refused.
* A write of `mip` by firmware that sets MTIP: `clint_check_time` then takes the
  deadline for noticed. `Hart` allows it; `Clint`'s environment does not
  (`MtipIsTheClints`).
* The names the log prints for instructions.

What further work could add, in order: a guest that
writes MTIP in `Clint`'s environment; a composition of `Exec` with `Mmu`, in
which one instruction's fetch, read and write meet the page tables they change.

## 6. Running

In this directory: `tlc -config MCExec.cfg MCExec.tla` and likewise for the other
configurations (`PROJECT.json` pairs them with their modules), and
`tlapm HartProofs.tla` and likewise for the other modules of proofs. Every
configuration finishes within about three minutes on two workers.
