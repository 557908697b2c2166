-------------------------------- MODULE Board --------------------------------
(***************************************************************************)
(* The machine around the hart: start-up (main.c and yariscvemu_init),     *)
(* the images it loads (loader.c), the table of windows it builds, the     *)
(* guest's accesses to them, a driver of the PLIC, and the ways in which   *)
(* the process ends (console.c).                                           *)
(***************************************************************************)
EXTENDS Memory, Plic

CONSTANTS
    RAM_BASE, RAM_SIZE, LOWMEM_BASE, LOWMEM_SIZE,
    UART_BASE, UART_SIZE, PLIC_BASE, PLIC_WINDOW, CLINT_BASE, CLINT_WINDOW,
    DTB_OFFSET, FW_OFFSET, INITRD_OFFSET,
    Files,         \* sizes the three files may have; -1 if there is no such file
    PlicValues     \* values the PLIC's driver writes

Images == <<"dtb", "fw", "initrd">>
Offset == [dtb |-> DTB_OFFSET, fw |-> FW_OFFSET, initrd |-> INITRD_OFFSET]
\* A byte of each image, other than zero and the bytes of stores.
Content == [dtb |-> 5, fw |-> 6, initrd |-> 7]

\* Windows are made of whole pages, and the table has room for one more than
\* there are (MAX_ENTRY is 10 in the code).
ASSUME WindowsAssumption ==
    /\ MAX_ENTRY > 5
    /\ {RAM_BASE, RAM_SIZE, LOWMEM_BASE, LOWMEM_SIZE, UART_BASE, UART_SIZE, PLIC_BASE,
        PLIC_WINDOW, CLINT_BASE, CLINT_WINDOW, DTB_OFFSET, FW_OFFSET, INITRD_OFFSET} \subseteq Nat
    /\ \A s \in {RAM_BASE, RAM_SIZE, LOWMEM_BASE, LOWMEM_SIZE} : (s % PageSize) = 0

ASSUME FilesAssumption ==
    /\ Files \subseteq [{"dtb", "fw", "initrd"} -> Nat \cup {-1}]
    /\ {5, 6, 7} \subseteq Byte
ASSUME PlicValuesAssumption == PlicValues \subseteq Nat

VARIABLES
    stage,         \* where main is
    files,         \* the sizes of the files of this start
    tty,           \* whose settings the terminal has: the user's or raw
    atexit,        \* exit_callback is registered
    claimed        \* history: what the PLIC's driver claimed last

Stages == {"parse_arguments", "console_init", "memmap_init", "dtb", "fw", "initrd",
           "running", "exited", "killed"}

boardvars == <<map, ram, overruns, access, count, entries, regs,
               stage, files, tty, atexit, claimed>>

RamAddresses ==
    (RAM_BASE..(RAM_BASE + RAM_SIZE - 1)) \cup (LOWMEM_BASE..(LOWMEM_BASE + LOWMEM_SIZE - 1))

Init ==
    /\ map \in Maps
    /\ ram = [a \in RamAddresses |-> 0]     \* calloc
    /\ overruns = {} /\ access = NoAccess /\ count = 0
    /\ entries = <<>>
    /\ regs = [r \in PlicRegisters |-> 0]
    /\ stage = "parse_arguments" /\ files \in Files
    /\ tty = "user" /\ atexit = FALSE
    /\ claimed = 0

-----------------------------------------------------------------------------
(* Start-up *)

\* exit and a return from main run what was registered.
Exit == stage' = "exited" /\ tty' = (IF atexit THEN "user" ELSE tty)

parse_arguments ==
    /\ stage = "parse_arguments"
    /\ \/ Exit                                      \* -h
       \/ stage' = "console_init" /\ UNCHANGED tty
    /\ UNCHANGED <<map, ram, overruns, access, count, entries, regs, files, atexit, claimed>>

\* Mutant: exit_callback is not registered.
console_init_forgets ==
    /\ stage = "console_init"
    /\ tty' = "raw" /\ atexit' = FALSE
    /\ stage' = "memmap_init"
    /\ UNCHANGED <<map, ram, overruns, access, count, entries, regs, files, claimed>>

console_init ==
    /\ stage = "console_init"
    /\ tty' = "raw" /\ atexit' = TRUE
    /\ stage' = "memmap_init"
    /\ UNCHANGED <<map, ram, overruns, access, count, entries, regs, files, claimed>>

\* memmap_init, the two windows of RAM, uart_init, plic_init and clint_init.
Windows ==
    LET ram0 == memmap_append(<<>>, Window("RAM", RAM_BASE, RAM_SIZE))
        ram1 == memmap_append(ram0, Window("RAM", LOWMEM_BASE, LOWMEM_SIZE))
        uart == memmap_append(ram1, Window("DEVICE", UART_BASE, UART_SIZE))
        plic == memmap_append(uart, Window("DEVICE", PLIC_BASE, PLIC_WINDOW))
    IN  memmap_append(plic, Window("DEVICE", CLINT_BASE, CLINT_WINDOW))

memmap_init ==
    /\ stage = "memmap_init"
    /\ entries' = Windows
    /\ stage' = "dtb"
    /\ UNCHANGED <<map, ram, overruns, access, count, regs, files, tty, atexit, claimed>>

NextStage == [dtb |-> "fw", fw |-> "initrd", initrd |-> "running"]

\* The checks of loader_load before it reads.
Rejected(i, image) ==
    \/ ~IsRam(i)
    \/ files[image] <= 0                   \* no file, or an empty one
    \/ files[image] > entries[i].size

\* fread fills what it could read of the file.  The size was compared with the
\* window's, not with the room behind the offset: the rest of a longer image
\* goes behind the host's block.
Filled(i, image, n) ==
    /\ ram' = [a \in DOMAIN ram |->
                 IF a \in Block(i) /\ a - Offset[image] \in Bytes(n) THEN Content[image]
                 ELSE ram[a]]
    /\ overruns' = IF InBlock(i, Offset[image], n) THEN overruns ELSE overruns \cup {"image"}

\* Mutant: the count that fread returns is not looked at.
LoadFails_ignored(image) ==
    LET i == memmap_get(Offset[image])
    IN  IF Rejected(i, image)
        THEN Exit /\ UNCHANGED <<ram, overruns>>
        ELSE /\ \E n \in 0..(files[image] - 1) : Filled(i, image, n)
             /\ stage' = NextStage[image] /\ UNCHANGED tty

\* main returns 1: a check fails, or fread reads less than the whole file.
LoadFails(image) ==
    LET i == memmap_get(Offset[image])
    IN  IF Rejected(i, image)
        THEN Exit /\ UNCHANGED <<ram, overruns>>
        ELSE /\ \E n \in 0..(files[image] - 1) : Filled(i, image, n)
             /\ Exit

LoadSucceeds(image) ==
    LET i == memmap_get(Offset[image])
    IN  /\ ~Rejected(i, image)
        /\ Filled(i, image, files[image])
        /\ stage' = NextStage[image]
        /\ UNCHANGED tty

loader_load(image) ==
    /\ stage = image
    /\ LoadFails(image) \/ LoadSucceeds(image)
    /\ UNCHANGED <<map, access, count, entries, regs, files, atexit, claimed>>

-----------------------------------------------------------------------------
(* Running *)

Running == stage = "running" /\ UNCHANGED <<entries, files, atexit>>

Guest == Running /\ GuestAccess /\ UNCHANGED <<stage, tty, regs, claimed>>

\* A driver written to the PLIC's manual: for context c the threshold is the
\* first word of page c, and claim and complete the second one.
Claim(c) == THRESHOLD_AND_CLAIM + 4096 * c + 4
Contexts == {c \in 0..1 : Claim(c) \in PlicOffsets}

\* It configures sources and contexts ...
DriverWrites ==
    /\ Running /\ count < MaxAccesses /\ count' = count + 1 /\ access' = NoAccess
    /\ \E o \in PlicOffsets \ {Claim(c) : c \in Contexts}, data \in PlicValues :
         plic_write_handler(o, data)
    /\ UNCHANGED <<map, ram, overruns, stage, tty, claimed>>

\* ... and claims when an interrupt comes in.  It completes what it claimed.
DriverClaims ==
    /\ Running
    /\ \E c \in Contexts : claimed' = plic_read_handler(Claim(c))
    /\ UNCHANGED <<map, ram, overruns, access, count, stage, tty, regs>>

\* Ctrl-A x, read by console_read.
UserExits ==
    /\ Running /\ Exit
    /\ UNCHANGED <<map, ram, overruns, access, count, regs, claimed>>

\* A signal ends the process and runs nothing: the host's division trap, an
\* access behind its memory, or the user's kill.
HostSignal ==
    /\ Running /\ stage' = "killed"
    /\ UNCHANGED <<map, ram, overruns, access, count, regs, claimed, tty>>

Next ==
    \/ parse_arguments \/ console_init \/ memmap_init
    \/ \E k \in DOMAIN Images : loader_load(Images[k])
    \/ Guest \/ DriverWrites \/ DriverClaims \/ UserExits \/ HostSignal

Spec == Init /\ [][Next]_boardvars

-----------------------------------------------------------------------------
(* Properties *)

\* The table never outgrows its allocation, every index the PLIC computes lies
\* in the array it is for, and main is always at one of its calls.
TypeOK ==
    /\ MemoryTypeOK /\ PlicTypeOK
    /\ Len(entries) <= MAX_ENTRY
    /\ overruns \subseteq {"table", "access", "image"}
    /\ stage \in Stages /\ files \in Files
    /\ tty \in {"user", "raw"} /\ atexit \in BOOLEAN

\* The code never checks an address against the host memory it owns; the
\* window of the first byte, the page and the check of an image's size must do.
\* They do but in two cases: an access that leaves its page, at the end of a
\* window of RAM, and an image longer than the room behind its address.
HostMemorySafe ==
    [][overruns' # overruns =>
         \/ Accessed /\ ~WithinPage(access'.v, access'.n)
         \/ \E image \in {"dtb", "fw", "initrd"} :
              stage = image
                /\ ~InBlock(memmap_get(Offset[image]), Offset[image], files[image])]_boardvars

\* Every byte of image j that lies in the window of its address is in its
\* place, but for what images up to the n-th cover, which are loaded after it.
InPlace(j, n) ==
    LET image == Images[j]
        i == memmap_get(Offset[image])
        covered(at) == \E m \in (j + 1)..n : at - Offset[Images[m]] \in Bytes(files[Images[m]])
    IN  /\ IsRam(i)
        /\ \A at \in Block(i) :
             at - Offset[image] \in Bytes(files[image]) /\ ~covered(at) => ram[at] = Content[image]

\* The guest starts only on three whole images: each lies in a window of RAM,
\* but for what is covered by one that is loaded after it (nothing keeps a
\* large firmware and the initrd apart) and for what lies behind the window,
\* which is the subject of HostMemorySafe.
NeverRunsHalfLoaded == stage = "running" /\ count = 0 => \A j \in 1..3 : InPlace(j, 3)

\* Whatever way start-up fails and whenever the user leaves, the terminal has
\* the user's settings again: only a signal leaves it raw.
TerminalGivenBack == stage = "exited" => tty = "user"

\* A driver that completes only what it claimed always finds nothing to claim,
\* whatever it wrote to priorities, enables and thresholds, although the stub
\* keeps the registers of context 0 one word off.
NothingToClaim == claimed = 0
==============================================================================
