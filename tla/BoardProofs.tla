------------------------------ MODULE BoardProofs ----------------------------
(***************************************************************************)
(* Start-up, memory accesses and the PLIC's driver, for every layout of    *)
(* page-aligned windows, every size of the images and every page table.    *)
(***************************************************************************)
EXTENDS Board, SequenceTheorems, TLAPS

-----------------------------------------------------------------------------
(* The terminal *)

TtyInv ==
    /\ tty \in {"user", "raw"}
    /\ tty = "raw" => atexit
    /\ stage = "exited" => tty = "user"

LEMMA ExitGivesBack ==
    ASSUME TtyInv, Exit
    PROVE  stage' = "exited" /\ tty' = "user"
BY DEF TtyInv, Exit

LEMMA RunningTty ==
    ASSUME TtyInv, Guest \/ DriverWrites \/ DriverClaims \/ UserExits \/ HostSignal
    PROVE  TtyInv'
<1>1. CASE Guest
    BY <1>1 DEF Guest, Running, TtyInv
<1>2. CASE DriverWrites
    BY <1>2 DEF DriverWrites, Running, TtyInv
<1>3. CASE DriverClaims
    BY <1>3 DEF DriverClaims, Running, TtyInv
<1>4. CASE UserExits
    BY <1>4, ExitGivesBack DEF UserExits, TtyInv
<1>5. CASE HostSignal
    BY <1>5 DEF HostSignal, Running, TtyInv
<1> QED BY <1>1, <1>2, <1>3, <1>4, <1>5

LEMMA LoadTty ==
    ASSUME TtyInv, NEW k \in DOMAIN Images, loader_load(Images[k])
    PROVE  TtyInv'
<1> DEFINE image == Images[k]
<1>1. stage = image /\ UNCHANGED atexit
    BY DEF loader_load
<1>2. CASE LoadFails(image)
    <2>1. Exit
        BY <1>2 DEF LoadFails
    <2> QED BY <2>1, ExitGivesBack DEF TtyInv
<1>3. CASE LoadSucceeds(image)
    <2>1. stage' = NextStage[image] /\ UNCHANGED tty
        BY <1>3 DEF LoadSucceeds
    <2>2. NextStage[image] # "exited"
        BY DEF Images, NextStage
    <2> QED BY <1>1, <2>1, <2>2 DEF TtyInv
<1> QED BY <1>2, <1>3 DEF loader_load

LEMMA TtyStep == TtyInv /\ [Next]_boardvars => TtyInv'
<1> SUFFICES ASSUME TtyInv, [Next]_boardvars
             PROVE  TtyInv'
    OBVIOUS
<1>1. CASE UNCHANGED boardvars
    BY <1>1 DEF boardvars, TtyInv
<1>2. CASE parse_arguments
    BY <1>2, ExitGivesBack DEF parse_arguments, TtyInv
<1>3. CASE console_init
    BY <1>3 DEF console_init, TtyInv
<1>4. CASE memmap_init
    BY <1>4 DEF memmap_init, TtyInv
<1> QED BY <1>1, <1>2, <1>3, <1>4, LoadTty, RunningTty DEF Next

\* Whatever start-up fails at, and when the user leaves, the process ends with
\* the user's terminal settings (console_init registers exit_callback before
\* anything can fail).
THEOREM TerminalRestored == Spec => []TerminalGivenBack
<1>1. Init => TtyInv
    BY DEF Init, TtyInv
<1>2. TtyInv => TerminalGivenBack
    BY DEF TtyInv, TerminalGivenBack
<1> QED BY <1>1, <1>2, TtyStep, PTL DEF Spec

-----------------------------------------------------------------------------
(* The PLIC *)

\* The registers that the driver takes for claim registers, at the offsets the
\* stub keeps others at, are only read.
ClaimInv ==
    /\ claimed = 0
    /\ \A c \in Contexts : regs[Register(Claim(c))] = 0

LEMMA ClaimRegisters ==
    ASSUME NEW o \in Nat, NEW c \in 0..1, o # Claim(c)
    PROVE  Register(o) # Register(Claim(c))
<1>1. c = 0 \/ c = 1
    OBVIOUS
<1>2. Register(Claim(0)) = <<"threshold", 0>>
    BY DEF Register, Claim, ContextRegister, SOURCE_PRIORITY, PENDING, ENABLE, THRESHOLD_AND_CLAIM
<1>3. Register(Claim(1)) = <<"claim", 1>>
    BY DEF Register, Claim, ContextRegister, SOURCE_PRIORITY, PENDING, ENABLE, THRESHOLD_AND_CLAIM
<1>4. o # Claim(0) => Register(o) # <<"threshold", 0>>
    BY DEF Register, Claim, ContextRegister, SOURCE_PRIORITY, PENDING, ENABLE, THRESHOLD_AND_CLAIM
<1>5. o # Claim(1) => Register(o) # <<"claim", 1>>
    BY DEF Register, Claim, ContextRegister, SOURCE_PRIORITY, PENDING, ENABLE, THRESHOLD_AND_CLAIM
<1> QED BY <1>1, <1>2, <1>3, <1>4, <1>5

LEMMA ClaimStep == ClaimInv /\ [Next]_boardvars => ClaimInv'
<1> SUFFICES ASSUME ClaimInv, [Next]_boardvars
             PROVE  ClaimInv'
    OBVIOUS
<1>1. CASE UNCHANGED <<regs, claimed>>
    BY <1>1 DEF ClaimInv
<1>2. CASE DriverWrites
    <2>1. PICK o \in PlicOffsets \ {Claim(c) : c \in Contexts}, data \in PlicValues :
            plic_write_handler(o, data)
        BY <1>2 DEF DriverWrites
    <2>2. \A c \in Contexts : Register(o) # Register(Claim(c))
        BY ClaimRegisters, PlicOffsetsAssumption DEF Contexts
    <2>3. \A c \in Contexts : regs'[Register(Claim(c))] = regs[Register(Claim(c))]
        BY <2>1, <2>2 DEF plic_write_handler
    <2>4. claimed' = claimed
        BY <1>2 DEF DriverWrites
    <2> QED BY <2>3, <2>4 DEF ClaimInv
<1>3. CASE DriverClaims
    <2>1. PICK c \in Contexts : claimed' = plic_read_handler(Claim(c))
        BY <1>3 DEF DriverClaims
    <2>2. claimed' = 0
        BY <2>1 DEF plic_read_handler, ClaimInv
    <2>3. regs' = regs
        BY <1>3 DEF DriverClaims
    <2> QED BY <2>2, <2>3 DEF ClaimInv
<1>4. ASSUME NEW k \in DOMAIN Images, loader_load(Images[k])
      PROVE  UNCHANGED <<regs, claimed>>
    BY <1>4 DEF loader_load
<1>5. CASE Guest \/ UserExits \/ HostSignal
    BY <1>1, <1>5 DEF Guest, UserExits, HostSignal
<1>6. CASE parse_arguments \/ console_init \/ memmap_init \/ UNCHANGED boardvars
    BY <1>1, <1>6 DEF parse_arguments, console_init, memmap_init, boardvars
<1> QED BY <1>1, <1>2, <1>3, <1>4, <1>5, <1>6 DEF Next

\* A driver that completes only what it claimed never claims anything
\* (plic_read_handler): no offset it writes to selects a register that it
\* later reads as a claim, for every set of offsets and values.
THEOREM NoInterruptClaimed == Spec => []NothingToClaim
<1>1. Init => ClaimInv
    <2> SUFFICES ASSUME Init
                 PROVE  ClaimInv
        OBVIOUS
    <2>1. \A c \in Contexts : Register(Claim(c)) \in PlicRegisters
        BY DEF Contexts, PlicRegisters
    <2> QED BY <2>1 DEF Init, ClaimInv
<1>2. ClaimInv => NothingToClaim
    BY DEF ClaimInv, NothingToClaim
<1> QED BY <1>1, <1>2, ClaimStep, PTL DEF Spec

-----------------------------------------------------------------------------
(* The table of windows *)

\* A window of RAM ends with a page, and its block is the board's memory.
GoodWindow ==
    {e \in [type : {"RAM", "DEVICE"}, start : Nat, size : Nat] :
       e.type = "RAM" =>
         /\ (e.start + e.size) % PageSize = 0
         /\ e.start..(e.start + e.size - 1) \subseteq RamAddresses}

\* The table keeps a free entry, where a lookup that finds nothing stops.
MemInv ==
    /\ entries \in Seq(GoodWindow) /\ Len(entries) <= 5
    /\ DOMAIN ram = RamAddresses
    /\ map \in Maps
    /\ count \in Nat

LEMMA WholePages ==
    ASSUME NEW P \in Nat \ {0}, NEW a \in Nat, NEW b \in Nat, a % P = 0, b % P = 0
    PROVE  (a + b) % P = 0
<1>1. a = P * (a \div P) /\ b = P * (b \div P)
    OBVIOUS
<1>2. a + b = P * ((a \div P) + (b \div P))
    BY <1>1
<1>3. \A m \in Nat : (P * m) % P = 0
    OBVIOUS
<1> QED BY <1>2, <1>3

Table(t, n) == t \in Seq(GoodWindow) /\ Len(t) = n

LEMMA AppendGood ==
    \A t : \A e \in GoodWindow, n \in 0..4 : Table(t, n) => Table(memmap_append(t, e), n + 1)
<1> SUFFICES ASSUME NEW t, NEW e \in GoodWindow, NEW n \in 0..4, Table(t, n)
             PROVE  Table(memmap_append(t, e), n + 1)
    OBVIOUS
<1>1. memmap_append(t, e) = Append(t, e)
    BY WindowsAssumption, MaxEntryAssumption DEF memmap_append, Table
<1>2. Append(t, e) \in Seq(GoodWindow) /\ Len(Append(t, e)) = n + 1
    BY AppendProperties DEF Table
<1> QED BY <1>1, <1>2 DEF Table

LEMMA WindowsGood == Table(Windows, 5)
<1> DEFINE main == Window("RAM", RAM_BASE, RAM_SIZE)
           low == Window("RAM", LOWMEM_BASE, LOWMEM_SIZE)
           device(start, size) == Window("DEVICE", start, size)
           t1 == memmap_append(<<>>, main)
           t2 == memmap_append(t1, low)
           t3 == memmap_append(t2, device(UART_BASE, UART_SIZE))
           t4 == memmap_append(t3, device(PLIC_BASE, PLIC_WINDOW))
           t5 == memmap_append(t4, device(CLINT_BASE, CLINT_WINDOW))
<1>1. main \in GoodWindow /\ low \in GoodWindow
    BY WindowsAssumption, PageSizeAssumption, WholePages DEF Window, GoodWindow, RamAddresses
<1>2. /\ device(UART_BASE, UART_SIZE) \in GoodWindow
      /\ device(PLIC_BASE, PLIC_WINDOW) \in GoodWindow
      /\ device(CLINT_BASE, CLINT_WINDOW) \in GoodWindow
    BY WindowsAssumption DEF Window, GoodWindow
<1>3. Windows = t5
    BY DEF Windows
<1>4. Table(<<>>, 0)
    BY EmptySeq DEF Table
<1> HIDE DEF main, low, device
<1>5. Table(t1, 1)
    BY <1>1, <1>4, AppendGood
<1> HIDE DEF t1
<1>6. Table(t2, 2)
    BY <1>1, <1>5, AppendGood
<1> HIDE DEF t2
<1>7. Table(t3, 3)
    BY <1>2, <1>6, AppendGood
<1> HIDE DEF t3
<1>8. Table(t4, 4)
    BY <1>2, <1>7, AppendGood
<1> HIDE DEF t4
<1>9. Table(t5, 5)
    BY <1>2, <1>8, AppendGood
<1> QED BY <1>3, <1>9

\* What memmap_get returns.
LEMMA Found ==
    ASSUME MemInv, NEW p, memmap_get(p) # NULL
    PROVE  /\ memmap_get(p) \in DOMAIN entries
           /\ Answers(memmap_get(p), p)
           /\ entries[memmap_get(p)] \in GoodWindow
<1>1. DOMAIN entries \subseteq 1..5 /\ \A i \in DOMAIN entries : entries[i] \in GoodWindow
    BY DEF MemInv
<1>2. \E i \in DOMAIN entries : Answers(i, p)
    BY DEF memmap_get
<1>3. \E i \in DOMAIN entries : Answers(i, p) /\ \A j \in 1..(i - 1) : ~Answers(j, p)
    <2>1. entries \in Seq(GoodWindow) /\ Len(entries) <= 5
        BY DEF MemInv
    <2>2. DOMAIN entries = 1..Len(entries) /\ Len(entries) \in Nat
        BY <2>1, LenProperties
    <2>3. CASE Answers(1, p) /\ 1 \in DOMAIN entries
        BY <2>3
    <2>4. CASE ~Answers(1, p) /\ Answers(2, p) /\ 2 \in DOMAIN entries
        BY <2>4
    <2>5. CASE ~Answers(1, p) /\ ~Answers(2, p) /\ Answers(3, p) /\ 3 \in DOMAIN entries
        BY <2>5
    <2>6. CASE /\ ~Answers(1, p) /\ ~Answers(2, p) /\ ~Answers(3, p)
               /\ Answers(4, p) /\ 4 \in DOMAIN entries
        BY <2>6
    <2>7. CASE /\ ~Answers(1, p) /\ ~Answers(2, p) /\ ~Answers(3, p) /\ ~Answers(4, p)
               /\ Answers(5, p) /\ 5 \in DOMAIN entries
        BY <2>7
    <2> QED BY <1>2, <2>1, <2>2, <2>3, <2>4, <2>5, <2>6, <2>7
<1>4. memmap_get(p) = CHOOSE i \in DOMAIN entries :
                        Answers(i, p) /\ \A j \in 1..(i - 1) : ~Answers(j, p)
    BY <1>2 DEF memmap_get
<1> QED BY <1>1, <1>3, <1>4

-----------------------------------------------------------------------------
(* One access *)

LEMMA PageArith ==
    ASSUME NEW P \in Nat \ {0}, NEW v \in Nat, NEW k \in Nat
    PROVE  /\ v = P * (v \div P) + (v % P) /\ v % P \in 0..(P - 1) /\ v \div P \in Nat
           /\ (v + k) \div P = v \div P => (v + k) % P = (v % P) + k /\ (v % P) + k < P
<1>1. \A n \in Nat : n = P * (n \div P) + (n % P) /\ n % P \in 0..(P - 1) /\ n \div P \in Nat
    OBVIOUS
<1>2. v + k \in Nat
    OBVIOUS
<1> QED BY <1>1, <1>2

\* A page that begins below the end of a whole number of pages ends there too.
LEMMA PageBelow ==
    ASSUME NEW P \in Nat \ {0}, NEW q \in Nat, NEW r \in Nat, NEW end \in Nat,
           r < P, end % P = 0, P * q < end
    PROVE  P * q + r < end
<1>1. PICK m \in Nat : end = P * m
    <2>1. end = P * (end \div P) /\ end \div P \in Nat
        OBVIOUS
    <2> QED BY <2>1
<1>2. \A a, b \in Nat : a <= b => P * a <= P * b
    OBVIOUS
<1>3. q + 1 <= m
    BY <1>1, <1>2
<1>4. P * (q + 1) <= end
    BY <1>1, <1>2, <1>3
<1> QED BY <1>4

LEMMA VirtualPage ==
    ASSUME NEW v \in Virtual
    PROVE  v \in Nat /\ v \div PageSize \in VirtualPages
<1>1. PICK vp \in VirtualPages, k \in 0..(PageSize - 1) : v = vp * PageSize + k
    BY DEF Virtual
<1>2. PageSize \in Nat \ {0} /\ vp \in Nat
    BY PageSizeAssumption, MapsAssumption
<1>3. \A P \in Nat \ {0}, a \in Nat : \A r \in 0..(P - 1) : (a * P + r) \div P = a
    OBVIOUS
<1> QED BY <1>1, <1>2, <1>3

\* Bytes on the page of an access's first byte lie together in its window.
LEMMA RamHit ==
    ASSUME MemInv, NEW v \in Virtual, Mapped(v), IsRam(memmap_get(Translated(v))),
           NEW k \in Nat, SamePage(v, v + k)
    PROVE  /\ Translated(v) \in Nat
           /\ Translated(v + k) = Translated(v) + k
           /\ Translated(v) + k \in Block(memmap_get(Translated(v)))
           /\ Translated(v) + k \in DOMAIN ram
<1> DEFINE P == PageSize
           q == map[v \div PageSize]
           w == entries[memmap_get(Translated(v))]
<1>1. P \in Nat \ {0} /\ v \in Nat /\ v \div P \in VirtualPages
    BY VirtualPage, PageSizeAssumption
<1>2. q \in Nat
    BY <1>1, MapsAssumption DEF Mapped, MemInv
<1>3. (v + k) % P = (v % P) + k /\ (v % P) + k < P /\ v % P \in 0..(P - 1)
    BY <1>1, PageArith DEF SamePage
<1>4. Translated(v) = q * P + (v % P) /\ Translated(v + k) = q * P + (v % P) + k
    BY <1>1, <1>2, <1>3 DEF Translated, SamePage
<1>5. /\ w \in GoodWindow /\ w.type = "RAM"
      /\ Translated(v) >= w.start /\ Translated(v) < w.start + w.size
    BY Found DEF IsRam, Answers
<1>6. /\ w.start \in Nat /\ w.size \in Nat /\ (w.start + w.size) % P = 0
      /\ w.start..(w.start + w.size - 1) \subseteq RamAddresses
    BY <1>5 DEF GoodWindow
<1>7. q * P + ((v % P) + k) < w.start + w.size
    <2> DEFINE r == (v % P) + k
               end == w.start + w.size
    <2>1. r \in Nat /\ end \in Nat /\ r < P
        BY <1>3, <1>6
    <2>2. P * q <= q * P + (v % P) /\ P * q = q * P
        BY <1>1, <1>2, <1>3
    <2>3. P * q < end /\ end % P = 0
        BY <1>1, <1>2, <1>3, <1>4, <1>5, <1>6, <2>2
    <2>4. P \in Nat \ {0} /\ q \in Nat
        BY <1>1, <1>2
    <2> HIDE DEF P, q, r, end
    <2>5. P * q + r < end
        BY <2>1, <2>3, <2>4, PageBelow
    <2> QED BY <2>2, <2>5 DEF r, end
<1>8. Translated(v) \in Nat /\ Translated(v + k) = Translated(v) + k
    BY <1>1, <1>2, <1>3, <1>4
<1>9. Translated(v) + k \in w.start..(w.start + w.size - 1)
    BY <1>1, <1>2, <1>3, <1>4, <1>5, <1>6, <1>7
<1>10. Translated(v) + k \in Block(memmap_get(Translated(v)))
    BY <1>9 DEF Block
<1>11. Translated(v) + k \in DOMAIN ram
    BY <1>6, <1>9 DEF MemInv
<1> QED BY <1>8, <1>10, <1>11

\* The host's side of an access.
AccessSafe == overruns' # overruns => Accessed /\ ~WithinPage(access'.v, access'.n)

LEMMA Recorded ==
    ASSUME MemInv, NEW kind \in Kinds, NEW v, NEW n, NEW res, NEW data,
           Ends(kind, v, n, res, data)
    PROVE  /\ Accessed
           /\ access'.kind = kind /\ access'.v = v /\ access'.n = n
           /\ access'.res = res /\ access'.data = data
<1>1. /\ access'.kind = kind /\ access'.v = v /\ access'.n = n
      /\ access'.res = res /\ access'.data = data
    BY DEF Ends
<1>2. count' # count
    BY DEF Ends, MemInv
<1>3. access' # NoAccess
    BY <1>1 DEF NoAccess, Kinds
<1> QED BY <1>1, <1>2, <1>3 DEF Accessed

\* An access that reaches no window of RAM changes nothing.
LEMMA Unreached ==
    ASSUME MemInv, NEW kind \in Kinds, NEW v \in Virtual, NEW n,
           \/ PageFault(kind, v, n)
           \/ Mapped(v) /\ NoWindow(Translated(v), kind, v, n)
           \/ Mapped(v) /\ Device(Translated(v), kind, v, n)
    PROVE  AccessSafe /\ AccessRight
<1> DEFINE i == memmap_get(Translated(v))
<1>1. CASE PageFault(kind, v, n)
    <2>1. ~Mapped(v) /\ ram' = ram /\ overruns' = overruns
        BY <1>1 DEF PageFault, Mapped
    <2>2. access'.v = v
        BY <1>1, Recorded DEF PageFault
    <2> QED BY <2>1, <2>2 DEF AccessSafe, AccessRight
<1>2. CASE Mapped(v) /\ NoWindow(Translated(v), kind, v, n)
    <2>1. ~IsRam(i) /\ ram' = ram
        BY <1>2 DEF NoWindow, IsRam
    <2>2. overruns' = overruns
        BY <1>2, WindowsAssumption, MaxEntryAssumption DEF NoWindow, LooksBehindTable, MemInv
    <2>3. access'.v = v
        BY <1>2, Recorded DEF NoWindow
    <2> QED BY <2>1, <2>2, <2>3 DEF AccessSafe, AccessRight
<1>3. CASE Mapped(v) /\ Device(Translated(v), kind, v, n)
    <2>1. ~IsRam(i) /\ ram' = ram /\ overruns' = overruns
        BY <1>3 DEF Device, IsRam, IsDevice
    <2>2. access'.v = v
        BY <1>3, Recorded DEF Device
    <2> QED BY <2>1, <2>2 DEF AccessSafe, AccessRight
<1> QED BY <1>1, <1>2, <1>3

\* The host touches what it does not own only if the access leaves its page.
LEMMA TouchesSafe ==
    ASSUME MemInv, NEW v \in Virtual, Mapped(v), NEW n \in {1, 2, 4},
           IsRam(memmap_get(Translated(v))), Accessed, access'.v = v, access'.n = n,
           Touches(memmap_get(Translated(v)), Translated(v), n)
    PROVE  AccessSafe
<1> DEFINE i == memmap_get(Translated(v))
           p == Translated(v)
<1> SUFFICES ASSUME overruns' # overruns
             PROVE  ~WithinPage(v, n)
    BY DEF AccessSafe
<1>1. ~InBlock(i, p, n)
    BY DEF Touches
<1>2. PICK k \in Bytes(n) : p + k \notin Block(i)
    BY <1>1 DEF InBlock
<1>3. k \in Nat
    BY DEF Bytes
<1>4. ~SamePage(v, v + k)
    BY <1>2, <1>3, RamHit
<1> QED BY <1>4 DEF WithinPage

LEMMA ReadRight ==
    ASSUME MemInv, NEW kind \in {"read", "fetch"}, NEW v \in Virtual, Mapped(v),
           NEW n \in {1, 2, 4}, ReadRam(Translated(v), kind, v, n)
    PROVE  AccessSafe /\ AccessRight
<1> DEFINE i == memmap_get(Translated(v))
           p == Translated(v)
<1>1. IsRam(i) /\ Touches(i, p, n) /\ ram' = ram
    BY DEF ReadRam
<1>2. PICK g \in Garbage :
        Ends(kind, v, n, "MMU_OK", [k \in Bytes(n) |-> IF p + k \in Block(i) THEN ram[p + k] ELSE g])
    BY DEF ReadRam
<1> DEFINE data == [k \in Bytes(n) |-> IF p + k \in Block(i) THEN ram[p + k] ELSE g]
<1>3. /\ Accessed /\ access'.kind = kind /\ access'.v = v /\ access'.n = n
      /\ access'.res = "MMU_OK" /\ access'.data = data
    BY <1>2, Recorded DEF Kinds
<1>4. ASSUME NEW k \in Bytes(n), SamePage(v, v + k)
      PROVE  /\ Translated(v + k) \in DOMAIN ram
             /\ data[k] = ram[Translated(v + k)]
    <2>1. k \in Nat
        BY <1>4 DEF Bytes
    <2>2. /\ Translated(v + k) = p + k /\ p + k \in Block(i) /\ p + k \in DOMAIN ram
        BY <1>1, <1>4, <2>1, RamHit
    <2>3. data[k] = ram[p + k]
        BY <1>4, <2>2
    <2> QED BY <2>2, <2>3
<1>5. AccessSafe
    BY <1>1, <1>3, TouchesSafe
<1> HIDE DEF data
<1>6. AccessRight
    BY <1>1, <1>3, <1>4 DEF AccessRight
<1> QED BY <1>5, <1>6

LEMMA WriteRight ==
    ASSUME MemInv, NEW v \in Virtual, Mapped(v), NEW n \in {1, 2, 4}, NEW data,
           WriteRam(Translated(v), v, n, data)
    PROVE  AccessSafe /\ AccessRight
<1> DEFINE i == memmap_get(Translated(v))
           p == Translated(v)
<1>1. /\ IsRam(i) /\ Touches(i, p, n)
      /\ ram' = [a \in DOMAIN ram |->
                   IF a \in Block(i) /\ a - p \in Bytes(n) THEN data[a - p] ELSE ram[a]]
    BY DEF WriteRam
<1>2. /\ Accessed /\ access'.kind = "write" /\ access'.v = v /\ access'.n = n
      /\ access'.res = "MMU_OK" /\ access'.data = data
    BY Recorded DEF WriteRam, Kinds
<1>3. ASSUME NEW k \in Bytes(n), SamePage(v, v + k)
      PROVE  /\ Translated(v + k) \in DOMAIN ram
             /\ data[k] = ram'[Translated(v + k)]
    <2>1. k \in Nat
        BY <1>3 DEF Bytes
    <2>2. /\ p \in Nat /\ Translated(v + k) = p + k
          /\ p + k \in Block(i) /\ p + k \in DOMAIN ram
        BY <1>1, <1>3, <2>1, RamHit
    <2>3. (p + k) - p = k
        BY <2>1, <2>2
    <2>4. ram'[p + k] = data[k]
        BY <1>1, <1>3, <2>2, <2>3
    <2> QED BY <2>2, <2>4
<1>4. \A q \in DOMAIN ram : ram'[q] # ram[q] => q - p \in Bytes(n)
    BY <1>1
<1>5. AccessSafe
    BY <1>1, <1>2, TouchesSafe
<1>6. AccessRight
    BY <1>1, <1>2, <1>3, <1>4 DEF AccessRight
<1> QED BY <1>5, <1>6

LEMMA GuestRight ==
    ASSUME MemInv, GuestAccess
    PROVE  AccessSafe /\ AccessRight
<1>1. PICK v \in Virtual :
        \/ \E n \in {1, 2, 4} : mmu_read(v, n) \/ mmu_write(v, n, Data(n))
        \/ (v % 2) = 0 /\ mmu_exec(v)
    BY DEF GuestAccess
<1>2. ASSUME NEW n \in {1, 2, 4}, mmu_read(v, n)
      PROVE  AccessSafe /\ AccessRight
    BY <1>2, Unreached, ReadRight DEF mmu_read, mem_read, Kinds
<1>3. ASSUME NEW n \in {1, 2, 4}, mmu_write(v, n, Data(n))
      PROVE  AccessSafe /\ AccessRight
    BY <1>3, Unreached, WriteRight DEF mmu_write, mem_write, Kinds
<1>4. CASE mmu_exec(v)
    BY <1>4, Unreached, ReadRight DEF mmu_exec, mem_read, Kinds
<1> QED BY <1>1, <1>2, <1>3, <1>4

-----------------------------------------------------------------------------
(* Every access of every run *)

LEMMA MemInit == Init => MemInv
<1> SUFFICES ASSUME Init
             PROVE  MemInv
    OBVIOUS
<1>1. entries \in Seq(GoodWindow) /\ Len(entries) <= 5
    BY EmptySeq DEF Init
<1> QED BY <1>1 DEF Init, MemInv

\* The host's memory never grows or shrinks.
LEMMA MemGuest ==
    ASSUME GuestAccess
    PROVE  UNCHANGED map /\ DOMAIN ram' = DOMAIN ram /\ (count \in Nat => count' \in Nat)
<1>1. PICK v \in Virtual :
        \/ \E n \in {1, 2, 4} : mmu_read(v, n) \/ mmu_write(v, n, Data(n))
        \/ (v % 2) = 0 /\ mmu_exec(v)
    BY DEF GuestAccess
<1>2. ASSUME NEW kind, NEW n, NEW res, NEW data, Ends(kind, v, n, res, data)
      PROVE  UNCHANGED map /\ (count \in Nat => count' \in Nat)
    BY <1>2 DEF Ends
<1>3. ASSUME NEW kind, NEW n, PageFault(kind, v, n)
      PROVE  UNCHANGED map /\ ram' = ram /\ (count \in Nat => count' \in Nat)
    BY <1>2, <1>3 DEF PageFault
<1>4. ASSUME NEW p, NEW kind, NEW n, NoWindow(p, kind, v, n) \/ Device(p, kind, v, n) \/ ReadRam(p, kind, v, n)
      PROVE  UNCHANGED map /\ ram' = ram /\ (count \in Nat => count' \in Nat)
    BY <1>2, <1>4 DEF NoWindow, Device, ReadRam
<1>5. ASSUME NEW p, NEW n, NEW data, WriteRam(p, v, n, data)
      PROVE  UNCHANGED map /\ DOMAIN ram' = DOMAIN ram /\ (count \in Nat => count' \in Nat)
    <2>1. DOMAIN ram' = DOMAIN ram
        BY <1>5 DEF WriteRam
    <2> QED BY <1>2, <1>5, <2>1 DEF WriteRam
<1>6. CASE \E n \in {1, 2, 4} : mmu_read(v, n)
    BY <1>3, <1>4, <1>6 DEF mmu_read, mem_read
<1>7. CASE \E n \in {1, 2, 4} : mmu_write(v, n, Data(n))
    BY <1>3, <1>4, <1>5, <1>7 DEF mmu_write, mem_write
<1>8. CASE mmu_exec(v)
    BY <1>3, <1>4, <1>8 DEF mmu_exec, mem_read
<1> QED BY <1>1, <1>6, <1>7, <1>8

LEMMA MemLoad ==
    ASSUME NEW image, loader_load(image)
    PROVE  UNCHANGED <<map, count, entries>> /\ DOMAIN ram' = DOMAIN ram
<1>1. UNCHANGED <<map, count, entries>>
    BY DEF loader_load
<1>2. \A i, n : Filled(i, image, n) => DOMAIN ram' = DOMAIN ram
    BY DEF Filled
<1>3. CASE LoadFails(image)
    BY <1>1, <1>2, <1>3 DEF LoadFails
<1>4. CASE LoadSucceeds(image)
    BY <1>1, <1>2, <1>4 DEF LoadSucceeds
<1> QED BY <1>1, <1>3, <1>4 DEF loader_load

LEMMA MemStep == MemInv /\ [Next]_boardvars => MemInv'
<1> SUFFICES ASSUME MemInv, [Next]_boardvars
             PROVE  MemInv'
    OBVIOUS
<1>1. ASSUME UNCHANGED <<map, entries>>, DOMAIN ram' = DOMAIN ram, count' \in Nat
      PROVE  MemInv'
    BY <1>1 DEF MemInv
<1>2. CASE memmap_init
    <2>1. entries' \in Seq(GoodWindow) /\ Len(entries') <= 5
        BY <1>2, WindowsGood DEF memmap_init, Table
    <2> QED BY <1>2, <2>1 DEF memmap_init, MemInv
<1>3. ASSUME NEW k \in DOMAIN Images, loader_load(Images[k])
      PROVE  MemInv'
    BY <1>1, <1>3, MemLoad DEF MemInv
<1>4. CASE Guest
    BY <1>1, <1>4, MemGuest DEF Guest, Running, MemInv
<1>5. CASE DriverWrites
    BY <1>1, <1>5 DEF DriverWrites, Running, MemInv
<1>6. CASE parse_arguments \/ console_init \/ DriverClaims \/ UserExits \/ HostSignal
           \/ UNCHANGED boardvars
    BY <1>1, <1>6 DEF parse_arguments, console_init, DriverClaims, UserExits, HostSignal,
                      Running, boardvars, MemInv
<1> QED BY <1>2, <1>3, <1>4, <1>5, <1>6 DEF Next

\* Steps that are no access of the guest do not look like one.
LEMMA NoAccessStep ==
    ASSUME MemInv, Next, ~Guest
    PROVE  ~Accessed
<1>1. ASSUME UNCHANGED count
      PROVE  ~Accessed
    BY <1>1 DEF Accessed
<1>2. ASSUME NEW k \in DOMAIN Images, loader_load(Images[k])
      PROVE  ~Accessed
    BY <1>1, <1>2, MemLoad
<1>3. CASE DriverWrites
    BY <1>3 DEF DriverWrites, Accessed
<1>4. CASE parse_arguments \/ console_init \/ memmap_init \/ DriverClaims \/ UserExits \/ HostSignal
    BY <1>1, <1>4 DEF parse_arguments, console_init, memmap_init, DriverClaims, UserExits, HostSignal
<1> QED BY <1>2, <1>3, <1>4 DEF Next

\* The files are those of the start.
FilesTyped == files \in Files

LEMMA FilesKept == Spec => []FilesTyped
<1>1. Init => FilesTyped
    BY DEF Init, FilesTyped
<1>2. FilesTyped /\ [Next]_boardvars => FilesTyped'
    BY DEF FilesTyped, Next, boardvars, parse_arguments, console_init, memmap_init, loader_load,
           Guest, DriverWrites, DriverClaims, UserExits, HostSignal, Running
<1> QED BY <1>1, <1>2, PTL DEF Spec

\* What a part of an image leaves behind the block, the whole one does too.
LEMMA ShorterInBlock ==
    ASSUME NEW i, NEW p, NEW m \in Int, NEW n \in 0..(m - 1), ~InBlock(i, p, n)
    PROVE  ~InBlock(i, p, m)
<1>1. Bytes(n) \subseteq Bytes(m)
    BY DEF Bytes
<1> QED BY <1>1 DEF InBlock

\* The emulator leaves the memory it owns in the two ways that HostMemorySafe
\* names and in no other: the table of windows is never read behind its end,
\* and an access that stays in its page stays in its block (memmap.c,
\* mmu_template.h, loader.c), for every layout of page-aligned windows.
THEOREM HostMemory == Spec => HostMemorySafe
<1> DEFINE Long == \E image \in {"dtb", "fw", "initrd"} :
                     stage = image
                       /\ ~InBlock(memmap_get(Offset[image]), Offset[image], files[image])
<1>1. MemInv /\ FilesTyped /\ Next => AccessSafe \/ Long
    <2> SUFFICES ASSUME MemInv, FilesTyped, Next
                 PROVE  AccessSafe \/ Long
        OBVIOUS
    <2>1. CASE Guest
        BY <2>1, GuestRight DEF Guest
    <2>2. ASSUME NEW k \in DOMAIN Images, loader_load(Images[k])
          PROVE  AccessSafe \/ Long
        <3> DEFINE image == Images[k]
        <3>1. stage = image /\ image \in {"dtb", "fw", "initrd"}
            BY <2>2 DEF loader_load, Images
        <3>2. CASE LoadFails(image)
            <4>1. CASE overruns' = overruns
                BY <4>1 DEF AccessSafe
            <4>2. CASE overruns' # overruns
                <5>1. PICK n \in 0..(files[image] - 1) :
                        ~InBlock(memmap_get(Offset[image]), Offset[image], n)
                    BY <3>2, <4>2 DEF LoadFails, Filled
                <5>2. files[image] \in Int
                    BY <3>1, FilesAssumption DEF FilesTyped
                <5> QED BY <3>1, <5>1, <5>2, ShorterInBlock
            <4> QED BY <4>1, <4>2
        <3>3. CASE LoadSucceeds(image)
            BY <3>1, <3>3 DEF LoadSucceeds, Filled, AccessSafe
        <3> QED BY <2>2, <3>2, <3>3 DEF loader_load
    <2>3. CASE parse_arguments \/ console_init \/ memmap_init \/ DriverWrites
               \/ DriverClaims \/ UserExits \/ HostSignal
        BY <2>3 DEF parse_arguments, console_init, memmap_init, DriverWrites, DriverClaims,
                    UserExits, HostSignal, AccessSafe
    <2> QED BY <2>1, <2>2, <2>3 DEF Next
<1>2. AccessSafe \/ Long =>
        (overruns' # overruns => \/ Accessed /\ ~WithinPage(access'.v, access'.n)
                                 \/ Long)
    BY DEF AccessSafe
<1>3. MemInv /\ FilesTyped /\ [Next]_boardvars =>
        [overruns' # overruns =>
           \/ Accessed /\ ~WithinPage(access'.v, access'.n)
           \/ \E image \in {"dtb", "fw", "initrd"} :
                stage = image
                  /\ ~InBlock(memmap_get(Offset[image]), Offset[image], files[image])]_boardvars
    BY <1>1, <1>2
<1>4. Spec => []FilesTyped
    BY FilesKept
<1> QED BY <1>3, <1>4, MemInit, MemStep, PTL DEF Spec, HostMemorySafe

\* Every byte of an access that lies on the first byte's page is the byte its
\* own translation names (mem_read and mem_write of mmu_template.h), and a
\* store changes no byte that it did not reach.
THEOREM FirstPage == Spec => FirstPageBytes
<1>1. MemInv /\ [Next]_boardvars => [AccessRight]_<<memvars, entries>>
    <2> SUFFICES ASSUME MemInv, [Next]_boardvars
                 PROVE  [AccessRight]_<<memvars, entries>>
        OBVIOUS
    <2>1. CASE UNCHANGED boardvars
        BY <2>1 DEF boardvars, memvars
    <2>2. CASE Guest
        BY <2>2, GuestRight DEF Guest
    <2>3. CASE Next /\ ~Guest
        BY <2>3, NoAccessStep DEF AccessRight
    <2> QED BY <2>1, <2>2, <2>3
<1> QED BY <1>1, MemInit, MemStep, PTL DEF Spec, FirstPageBytes, AccessRight

-----------------------------------------------------------------------------
(* Types *)

LEMMA Offsets ==
    ASSUME NEW o \in Nat
    PROVE  /\ o \in 0..4095 <=> o \in SOURCE_PRIORITY..(SOURCE_PRIORITY + 4095)
           /\ o \in 4096..4223 <=> o \in PENDING..(PENDING + 127)
           /\ o \in 8192..8447 <=> o \in ENABLE..(ENABLE + 255)
<1>1. SOURCE_PRIORITY = 0 /\ PENDING = 4096 /\ ENABLE = 8192
    BY DEF SOURCE_PRIORITY, PENDING, ENABLE
<1> QED BY <1>1

\* The branches of Register, one by one.
LEMMA Branches ==
    ASSUME NEW o \in Nat
    PROVE  \/ o \in 0..4095 /\ Register(o) = <<"priorities", o \div 4>>
           \/ o \in 4096..4223 /\ Register(o) = <<"pending", (o - PENDING) \div 4>>
           \/ o \in 8192..8447 /\ Register(o) = <<"enabled", (o - ENABLE) \div 4>>
           \/ Register(o) = ContextRegister(o - THRESHOLD_AND_CLAIM)
           \/ Register(o) = <<"none", 0>>
<1> DEFINE range(a, n) == a..(a + n)
<1>1. /\ o \in 0..4095 <=> o \in range(SOURCE_PRIORITY, 4095)
      /\ o \in 4096..4223 <=> o \in range(PENDING, 127)
      /\ o \in 8192..8447 <=> o \in range(ENABLE, 255)
    BY Offsets
<1>2. Register(o) =
        IF o \in range(SOURCE_PRIORITY, 4095) THEN <<"priorities", o \div 4>>
        ELSE IF o \in range(PENDING, 127) THEN <<"pending", (o - PENDING) \div 4>>
        ELSE IF o \in range(ENABLE, 255) THEN <<"enabled", (o - ENABLE) \div 4>>
        ELSE IF o >= THRESHOLD_AND_CLAIM THEN ContextRegister(o - THRESHOLD_AND_CLAIM)
        ELSE <<"none", 0>>
    BY DEF Register
<1> HIDE DEF range
<1> QED BY <1>1, <1>2

LEMMA PlicIndex ==
    ASSUME NEW o \in Nat
    PROVE  Register(o)[2] \in 0..(ArraySize[Register(o)[1]] - 1)
<1>1. CASE o \in 0..4095 /\ Register(o) = <<"priorities", o \div 4>>
    BY <1>1 DEF ArraySize
<1>2. CASE o \in 4096..4223 /\ Register(o) = <<"pending", (o - PENDING) \div 4>>
    BY <1>2 DEF ArraySize, PENDING
<1>3. CASE o \in 8192..8447 /\ Register(o) = <<"enabled", (o - ENABLE) \div 4>>
    BY <1>3 DEF ArraySize, ENABLE
<1>4. CASE Register(o) = ContextRegister(o - THRESHOLD_AND_CLAIM)
    <2>1. \A c : ContextRegister(c) \in {<<"threshold", 0>>, <<"claim", 0>>, <<"threshold", 1>>,
                                         <<"claim", 1>>, <<"none", 0>>}
        BY DEF ContextRegister
    <2> QED BY <1>4, <2>1 DEF ArraySize
<1>5. CASE Register(o) = <<"none", 0>>
    BY <1>5 DEF ArraySize
<1> QED BY <1>1, <1>2, <1>3, <1>4, <1>5, Branches

BoardInv == MemInv /\ TypeOK

LEMMA PlicTyped ==
    ASSUME PlicTypeOK, DriverWrites
    PROVE  PlicTypeOK'
<1>1. PICK o \in PlicOffsets, data \in PlicValues : plic_write_handler(o, data)
    BY DEF DriverWrites
<1>2. Register(o) \in PlicRegisters /\ data \in Nat
    BY PlicValuesAssumption DEF PlicRegisters
<1>3. regs' \in [PlicRegisters -> Nat]
    BY <1>1, <1>2 DEF plic_write_handler, PlicTypeOK
<1> QED BY <1>3 DEF PlicTypeOK

\* The access of a step, and the bytes behind the windows of RAM.
Typed(kind, v, n) ==
    /\ access'.kind = kind /\ access'.v = v /\ access'.n = n
    /\ access'.res \in {"MMU_OK", "MMU_ACCESS_FAULT", "MMU_PAGE_FAULT"}
    /\ ram' \in [DOMAIN ram -> Byte]
    /\ overruns' \subseteq {"table", "access", "image"}

LEMMA AccessTyped ==
    ASSUME BoardInv, NEW kind \in Kinds, NEW v \in Virtual, NEW n,
           \/ PageFault(kind, v, n)
           \/ NoWindow(Translated(v), kind, v, n)
           \/ Device(Translated(v), kind, v, n)
           \/ ReadRam(Translated(v), kind, v, n)
    PROVE  Typed(kind, v, n)
<1>1. ram \in [DOMAIN ram -> Byte] /\ overruns \subseteq {"table", "access", "image"} /\ MemInv
    BY DEF BoardInv, TypeOK, MemoryTypeOK
<1>2. CASE PageFault(kind, v, n)
    BY <1>1, <1>2, Recorded DEF PageFault, Typed
<1>3. CASE NoWindow(Translated(v), kind, v, n)
    BY <1>1, <1>3, Recorded DEF NoWindow, Typed
<1>4. CASE Device(Translated(v), kind, v, n)
    BY <1>1, <1>4, Recorded DEF Device, Typed
<1>5. CASE ReadRam(Translated(v), kind, v, n)
    <2>1. ram' = ram /\ overruns' \subseteq {"table", "access", "image"}
        BY <1>1, <1>5 DEF ReadRam, Touches
    <2>2. PICK data : Ends(kind, v, n, "MMU_OK", data)
        BY <1>5 DEF ReadRam
    <2> QED BY <1>1, <2>1, <2>2, Recorded DEF Typed
<1> QED BY <1>2, <1>3, <1>4, <1>5

LEMMA StoreTyped ==
    ASSUME BoardInv, NEW v \in Virtual, NEW n \in {1, 2, 4},
           WriteRam(Translated(v), v, n, Data(n))
    PROVE  Typed("write", v, n)
<1> DEFINE i == memmap_get(Translated(v))
           p == Translated(v)
<1>1. ram \in [DOMAIN ram -> Byte] /\ overruns \subseteq {"table", "access", "image"} /\ MemInv
    BY DEF BoardInv, TypeOK, MemoryTypeOK
<1>2. \A k \in Bytes(n) : Data(n)[k] \in Byte
    BY BytesAssumption DEF Data, Bytes
<1>3. ram' = [a \in DOMAIN ram |->
                IF a \in Block(i) /\ a - p \in Bytes(n) THEN Data(n)[a - p] ELSE ram[a]]
    BY DEF WriteRam
<1>4. ram' \in [DOMAIN ram -> Byte]
    BY <1>1, <1>2, <1>3
<1>5. overruns' \subseteq {"table", "access", "image"}
    BY <1>1 DEF WriteRam, Touches
<1>6. /\ access'.kind = "write" /\ access'.v = v /\ access'.n = n /\ access'.res = "MMU_OK"
    BY <1>1, Recorded DEF WriteRam, Kinds
<1> QED BY <1>4, <1>5, <1>6 DEF Typed

LEMMA GuestTyped ==
    ASSUME BoardInv, GuestAccess
    PROVE  \E kind \in Kinds, v \in Virtual, n \in {1, 2, 4} : Typed(kind, v, n)
<1>1. PICK v \in Virtual :
        \/ \E n \in {1, 2, 4} : mmu_read(v, n) \/ mmu_write(v, n, Data(n))
        \/ (v % 2) = 0 /\ mmu_exec(v)
    BY DEF GuestAccess
<1>2. ASSUME NEW n \in {1, 2, 4}, mmu_read(v, n)
      PROVE  Typed("read", v, n)
    BY <1>2, AccessTyped DEF mmu_read, mem_read, Kinds
<1>3. ASSUME NEW n \in {1, 2, 4}, mmu_write(v, n, Data(n))
      PROVE  Typed("write", v, n)
    BY <1>3, AccessTyped, StoreTyped DEF mmu_write, mem_write, Kinds
<1>4. ASSUME mmu_exec(v)
      PROVE  Typed("fetch", v, 4)
    BY <1>4, AccessTyped DEF mmu_exec, mem_read, Kinds
<1> QED BY <1>1, <1>2, <1>3, <1>4 DEF Kinds

LEMMA ImageTyped ==
    ASSUME BoardInv, NEW k \in DOMAIN Images, loader_load(Images[k])
    PROVE  TypeOK'
<1> DEFINE image == Images[k]
<1>1. image \in {"dtb", "fw", "initrd"} /\ Content[image] \in Byte
    BY FilesAssumption DEF Images, Content
<1>2. ASSUME NEW i, NEW n, Filled(i, image, n)
      PROVE  ram' \in [DOMAIN ram -> Byte] /\ overruns' \subseteq {"table", "access", "image"}
    BY <1>1, <1>2 DEF Filled, BoardInv, TypeOK, MemoryTypeOK
<1>3. Exit => tty' \in {"user", "raw"} /\ stage' \in Stages
    BY DEF Exit, Stages, BoardInv, TypeOK
<1>4. /\ ram' \in [DOMAIN ram -> Byte] /\ DOMAIN ram' = DOMAIN ram
      /\ overruns' \subseteq {"table", "access", "image"}
      /\ tty' \in {"user", "raw"} /\ stage' \in Stages
    <2>1. CASE LoadFails(image)
        BY <1>2, <1>3, <2>1 DEF LoadFails, BoardInv, TypeOK, MemoryTypeOK
    <2>2. CASE LoadSucceeds(image)
        <3>1. ram' \in [DOMAIN ram -> Byte] /\ overruns' \subseteq {"table", "access", "image"}
            BY <1>2, <2>2 DEF LoadSucceeds
        <3>2. NextStage[image] \in Stages
            BY <1>1 DEF NextStage, Stages
        <3> QED BY <2>2, <3>1, <3>2 DEF LoadSucceeds, BoardInv, TypeOK
    <2> QED BY <2>1, <2>2 DEF loader_load
<1>5. UNCHANGED <<map, access, count, entries, regs, files, atexit, claimed>>
    BY DEF loader_load
<1> QED BY <1>4, <1>5 DEF BoardInv, TypeOK, MemoryTypeOK, PlicTypeOK

\* The table is one of those of start-up and every variable has its type, at
\* every step of start-up and of the guest.
LEMMA BoardInvariant == Spec => []BoardInv
<1>1. Init => TypeOK
    <2> SUFFICES ASSUME Init
                 PROVE  TypeOK
        OBVIOUS
    <2>1. 0 \in Byte /\ 0 \in 0..MaxAccesses /\ 0 <= MAX_ENTRY
        BY BytesAssumption, MaxAccessesAssumption, MaxEntryAssumption
    <2>2. MemoryTypeOK
        BY <2>1 DEF Init, MemoryTypeOK
    <2>3. \A r \in PlicRegisters : r[2] \in 0..(ArraySize[r[1]] - 1)
        BY PlicIndex, PlicOffsetsAssumption DEF PlicRegisters
    <2>4. PlicTypeOK
        BY <2>3 DEF Init, PlicTypeOK
    <2>5. Len(entries) = 0
        BY EmptySeq DEF Init
    <2> QED BY <2>1, <2>2, <2>4, <2>5 DEF Init, TypeOK, Stages
<1>2. BoardInv /\ [Next]_boardvars => TypeOK'
    <2> SUFFICES ASSUME BoardInv, [Next]_boardvars
                 PROVE  TypeOK'
        OBVIOUS
    <2>1. CASE Guest
        <3>1. PICK kind \in Kinds, v \in Virtual, n \in {1, 2, 4} : Typed(kind, v, n)
            BY <2>1, GuestTyped DEF Guest
        <3>2. DOMAIN ram' = DOMAIN ram /\ map' = map
            BY <2>1, MemGuest DEF Guest
        <3>3. count' \in 0..MaxAccesses
            <4>1. count \in 0..MaxAccesses /\ count < MaxAccesses /\ MaxAccesses \in Nat
                BY <2>1, MaxAccessesAssumption
                DEF Guest, GuestAccess, BoardInv, TypeOK, MemoryTypeOK
            <4>2. count' = count + 1
                BY <2>1 DEF Guest, GuestAccess, mmu_read, mmu_write, mmu_exec, mem_read, mem_write,
                            PageFault, NoWindow, Device, ReadRam, WriteRam, Ends
            <4> QED BY <4>1, <4>2
        <3> QED BY <2>1, <3>1, <3>2, <3>3
                DEF Typed, Guest, Running, BoardInv, TypeOK, MemoryTypeOK, PlicTypeOK
    <2>2. ASSUME NEW k \in DOMAIN Images, loader_load(Images[k])
          PROVE  TypeOK'
        BY <2>2, ImageTyped
    <2>3. CASE DriverWrites
        <3>1. PlicTypeOK'
            BY <2>3, PlicTyped DEF BoardInv, TypeOK
        <3>2. count' \in 0..MaxAccesses
            BY <2>3, MaxAccessesAssumption DEF DriverWrites, BoardInv, TypeOK, MemoryTypeOK
        <3> QED BY <2>3, <3>1, <3>2 DEF DriverWrites, Running, BoardInv, TypeOK, MemoryTypeOK
    <2>4. CASE memmap_init
        <3>1. Len(entries') <= MAX_ENTRY
            BY <2>4, WindowsGood, WindowsAssumption, MaxEntryAssumption DEF memmap_init, Table
        <3> QED BY <2>4, <3>1 DEF memmap_init, Stages, BoardInv, TypeOK, MemoryTypeOK, PlicTypeOK
    <2>5. CASE parse_arguments \/ console_init \/ DriverClaims \/ UserExits \/ HostSignal
               \/ UNCHANGED boardvars
        BY <2>5 DEF parse_arguments, console_init, DriverClaims, UserExits, HostSignal, Running,
                    Exit, boardvars, Stages, BoardInv, TypeOK, MemoryTypeOK, PlicTypeOK
    <2> QED BY <2>1, <2>2, <2>3, <2>4, <2>5 DEF Next
<1>3. Init => BoardInv
    BY <1>1, MemInit DEF BoardInv
<1>4. BoardInv /\ [Next]_boardvars => BoardInv'
    BY <1>2, MemStep DEF BoardInv
<1> QED BY <1>3, <1>4, PTL DEF Spec

\* The table of windows never outgrows its allocation, no offset of the PLIC
\* selects an element outside the array it is for, memory holds bytes, and main
\* is at one of its calls, with files of one of the sizes given, whatever the
\* windows and the accesses.
THEOREM BoardTyped == Spec => []TypeOK
<1>1. BoardInv => TypeOK
    BY DEF BoardInv
<1> QED BY <1>1, BoardInvariant, PTL

-----------------------------------------------------------------------------
(* The images *)

\* What is loaded when the loader goes on to the next image; once the guest
\* runs, it may write what it likes.
LoadInv ==
    /\ stage = "fw" => InPlace(1, 1)
    /\ stage = "initrd" => \A j \in 1..2 : InPlace(j, 2)
    /\ stage = "running" /\ count = 0 => \A j \in 1..3 : InPlace(j, 3)

\* Image n goes to its own place, and disturbs an earlier one only where it
\* covers it.
LEMMA LoadPlaces ==
    ASSUME BoardInv, NEW n \in 1..3, loader_load(Images[n]), LoadSucceeds(Images[n]),
           \A j \in 1..(n - 1) : InPlace(j, n - 1)
    PROVE  \A j \in 1..n : InPlace(j, n)'
<1> DEFINE At(j) == memmap_get(Offset[Images[j]])
           Covers(m, at) == at - Offset[Images[m]] \in Bytes(files[Images[m]])
<1>1. UNCHANGED <<entries, files>> /\ Filled(At(n), Images[n], files[Images[n]]) /\ IsRam(At(n))
    BY DEF loader_load, LoadSucceeds, Rejected
<1>2. \A i : Block(i)' = Block(i) /\ IsRam(i)' = IsRam(i)
    BY <1>1 DEF Block, IsRam
<1>3. \A j \in 1..3 : At(j)' = At(j)
    BY <1>1 DEF memmap_get, Answers
<1>4. ASSUME NEW j \in 1..3, IsRam(At(j))
      PROVE  Block(At(j)) \subseteq DOMAIN ram
    BY <1>4, Found DEF IsRam, Block, GoodWindow, BoardInv, MemInv
<1>5. ASSUME NEW at \in DOMAIN ram
      PROVE  ram'[at] = IF at \in Block(At(n)) /\ Covers(n, at) THEN Content[Images[n]] ELSE ram[at]
    BY <1>1, <1>5 DEF Filled
<1>6. ASSUME NEW j \in 1..(n - 1)
      PROVE  InPlace(j, n)'
    <2>1. IsRam(At(j))
        BY <1>6 DEF InPlace
    <2>2. ASSUME NEW at \in Block(At(j)), Covers(j, at), \A m \in (j + 1)..n : ~Covers(m, at)
          PROVE  ram'[at] = Content[Images[j]]
        <3>1. ~Covers(n, at)
            BY <2>2, <1>6
        <3>2. \A m \in (j + 1)..(n - 1) : ~Covers(m, at)
            BY <2>2, <1>6
        <3>3. ram[at] = Content[Images[j]]
            BY <2>2, <3>2, <1>6 DEF InPlace
        <3>4. at \in DOMAIN ram
            BY <2>1, <2>2, <1>4, <1>6
        <3> QED BY <3>1, <3>3, <3>4, <1>5
    <2> QED BY <1>1, <1>2, <1>3, <1>6, <2>1, <2>2 DEF InPlace
<1>7. InPlace(n, n)'
    <2>1. ASSUME NEW at \in Block(At(n)), Covers(n, at)
          PROVE  ram'[at] = Content[Images[n]]
        BY <2>1, <1>1, <1>4, <1>5
    <2> QED BY <1>1, <1>2, <1>3, <2>1 DEF InPlace
<1> QED BY <1>6, <1>7

LEMMA LoadImages ==
    ASSUME BoardInv, LoadInv, NEW n \in DOMAIN Images, loader_load(Images[n])
    PROVE  LoadInv'
<1>1. n \in 1..3 /\ stage = Images[n]
    BY DEF Images, loader_load
<1>2. CASE LoadFails(Images[n])
    <2>1. stage' = "exited"
        BY <1>2 DEF LoadFails, Exit
    <2> QED BY <2>1 DEF LoadInv
<1>3. CASE LoadSucceeds(Images[n])
    <2>1. stage' = NextStage[Images[n]]
        BY <1>3 DEF LoadSucceeds
    <2>2. \A j \in 1..(n - 1) : InPlace(j, n - 1)
        BY <1>1 DEF LoadInv, Images
    <2>3. \A j \in 1..n : InPlace(j, n)'
        BY <1>1, <1>3, <2>2, LoadPlaces
    <2>4. CASE n = 1
        BY <2>1, <2>3, <2>4 DEF LoadInv, Images, NextStage
    <2>5. CASE n = 2
        BY <2>1, <2>3, <2>5 DEF LoadInv, Images, NextStage
    <2>6. CASE n = 3
        BY <2>1, <2>3, <2>6 DEF LoadInv, Images, NextStage
    <2> QED BY <1>1, <2>4, <2>5, <2>6
<1> QED BY <1>2, <1>3 DEF loader_load

LEMMA LoadStep == BoardInv /\ LoadInv /\ [Next]_boardvars => LoadInv'
<1> SUFFICES ASSUME BoardInv, LoadInv, [Next]_boardvars
             PROVE  LoadInv'
    OBVIOUS
<1>1. ASSUME UNCHANGED <<ram, entries, files, stage, count>>
      PROVE  LoadInv'
    <2>1. \A j, n : InPlace(j, n)' = InPlace(j, n)
        BY <1>1 DEF InPlace, memmap_get, Answers, Block, IsRam
    <2> QED BY <1>1, <2>1 DEF LoadInv
<1>2. ASSUME stage' \notin {"fw", "initrd", "running"}
      PROVE  LoadInv'
    BY <1>2 DEF LoadInv
<1>3. ASSUME stage' = "running", count' = count + 1
      PROVE  LoadInv'
    BY <1>3 DEF LoadInv, BoardInv, MemInv
<1>4. CASE Guest
    BY <1>3, <1>4 DEF Guest, Running, GuestAccess, mmu_read, mmu_write, mmu_exec, mem_read,
        mem_write, PageFault, NoWindow, Device, ReadRam, WriteRam, Ends
<1>5. CASE DriverWrites
    BY <1>3, <1>5 DEF DriverWrites, Running
<1>6. CASE DriverClaims \/ UNCHANGED boardvars
    BY <1>1, <1>6 DEF DriverClaims, Running, boardvars
<1>7. CASE parse_arguments \/ console_init \/ memmap_init \/ UserExits \/ HostSignal
    BY <1>2, <1>7 DEF parse_arguments, console_init, memmap_init, UserExits, HostSignal, Exit
<1> QED BY <1>4, <1>5, <1>6, <1>7, LoadImages DEF Next

\* Whatever the sizes of the three files, their addresses and the windows, and
\* wherever fread stops early, the guest starts only when all three images are
\* in RAM, but for bytes a later image covers and bytes behind the window:
\* loader_load compares what it read with what the file holds, and main gives
\* up at the first image that fails.
THEOREM ImagesWhole == Spec => []NeverRunsHalfLoaded
<1>1. Init => LoadInv
    BY DEF Init, LoadInv
<1>2. LoadInv => NeverRunsHalfLoaded
    BY DEF LoadInv, NeverRunsHalfLoaded
<1>3. Spec => []BoardInv
    BY BoardInvariant
<1> QED BY <1>1, <1>2, <1>3, LoadStep, PTL DEF Spec
==============================================================================
