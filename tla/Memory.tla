------------------------------- MODULE Memory --------------------------------
(***************************************************************************)
(* Accesses of the guest to memory: translation of the first byte, lookup  *)
(* of its window, and the host's access of n bytes behind it               *)
(* (mmu_template.h, mmu_exec_u32 of mmu.c).  How an address is translated  *)
(* is the subject of Mmu, what a device does with an access that of Clint,  *)
(* Console and Plic.  Host and guest are both little endian, so data is     *)
(* the sequence of its bytes.                                              *)
(***************************************************************************)
EXTENDS Memmap

CONSTANTS
    PageSize,
    VirtualPages,
    Byte,
    Maps,          \* page tables, as functions from virtual to physical pages
    NotMapped,
    RefusedReads,  \* addresses a device has no register to read at, and
    RefusedWrites, \* to write at
    Garbage,       \* what a read behind the host's memory may find
    MaxAccesses    \* bound

ASSUME PageSizeAssumption == PageSize \in Nat \ {0, 1} /\ (PageSize % 2) = 0
ASSUME MapsAssumption ==
    VirtualPages \subseteq Nat /\ Maps \subseteq [VirtualPages -> Nat \cup {NotMapped}]
ASSUME BytesAssumption == Garbage \subseteq Byte /\ 0..4 \subseteq Byte
ASSUME MaxAccessesAssumption == MaxAccesses \in Nat

VARIABLES
    map,           \* the page table in use
    ram,           \* the bytes behind RAM windows, by physical address
    overruns,      \* ways in which the emulator left the host memory it owns
    access,        \* history: the last access
    count          \* number of accesses

memvars == <<map, ram, overruns, access, count>>

Kinds == {"read", "write", "fetch"}
NoAccess == [kind |-> "none"]

Virtual == {v * PageSize + k : v \in VirtualPages, k \in 0..(PageSize - 1)}
Bytes(n) == 0..(n - 1)

Translated(v) == map[v \div PageSize] * PageSize + (v % PageSize)

Ends(kind, v, n, res, data) ==
    /\ access' = [kind |-> kind, v |-> v, n |-> n, res |-> res, data |-> data]
    /\ count' = count + 1
    /\ UNCHANGED map

Block(i) == entries[i].start..(entries[i].start + entries[i].size - 1)
InBlock(i, p, n) == \A k \in Bytes(n) : p + k \in Block(i)
IsRam(i) == i # NULL /\ entries[i].type = "RAM"
IsDevice(i) == i # NULL /\ entries[i].type = "DEVICE"

\* A lookup that finds no window.
NoWindow(p, kind, v, n) ==
    /\ memmap_get(p) = NULL
    /\ Ends(kind, v, n, "MMU_ACCESS_FAULT", <<>>)
    /\ overruns' = IF LooksBehindTable(p) THEN overruns \cup {"table"} ELSE overruns
    /\ UNCHANGED ram

\* A device takes words only, and only at its registers: the CLINT's clock can
\* be read and not written.
Refused(p, kind, n) ==
    n # 4 \/ p \in (IF kind = "write" THEN RefusedWrites ELSE RefusedReads)
Device(p, kind, v, n) ==
    /\ IsDevice(memmap_get(p))
    /\ Ends(kind, v, n, IF Refused(p, kind, n) THEN "MMU_ACCESS_FAULT" ELSE "MMU_OK", <<>>)
    /\ UNCHANGED <<ram, overruns>>

\* What an access of the host to n bytes behind window i leaves behind.
Touches(i, p, n) ==
    overruns' = IF InBlock(i, p, n) THEN overruns ELSE overruns \cup {"access"}

ReadRam(p, kind, v, n) ==
    LET i == memmap_get(p)
    IN  /\ IsRam(i)
        /\ \E g \in Garbage :
             Ends(kind, v, n, "MMU_OK",
                  [k \in Bytes(n) |-> IF p + k \in Block(i) THEN ram[p + k] ELSE g])
        /\ Touches(i, p, n)
        /\ UNCHANGED ram

\* Mutant: a store of any size writes a word.
WriteRam_word(p, v, n, data) ==
    LET i == memmap_get(p)
    IN  /\ IsRam(i)
        /\ ram' = [a \in DOMAIN ram |->
                     IF a \in Block(i) /\ a - p \in Bytes(4)
                     THEN IF a - p \in Bytes(n) THEN data[a - p] ELSE 0
                     ELSE ram[a]]
        /\ Touches(i, p, 4)
        /\ Ends("write", v, n, "MMU_OK", data)

WriteRam(p, v, n, data) ==
    LET i == memmap_get(p)
    IN  /\ IsRam(i)
        /\ ram' = [a \in DOMAIN ram |->
                     IF a \in Block(i) /\ a - p \in Bytes(n) THEN data[a - p] ELSE ram[a]]
        /\ Touches(i, p, n)
        /\ Ends("write", v, n, "MMU_OK", data)

mem_read(p, kind, v, n) == NoWindow(p, kind, v, n) \/ Device(p, kind, v, n) \/ ReadRam(p, kind, v, n)
mem_write(p, v, n, data) ==
    NoWindow(p, "write", v, n) \/ Device(p, "write", v, n) \/ WriteRam(p, v, n, data)

PageFault(kind, v, n) ==
    /\ map[v \div PageSize] = NotMapped
    /\ Ends(kind, v, n, "MMU_PAGE_FAULT", <<>>)
    /\ UNCHANGED <<ram, overruns>>

Mapped(v) == map[v \div PageSize] # NotMapped

mmu_read(v, n) ==
    \/ PageFault("read", v, n)
    \/ Mapped(v) /\ mem_read(Translated(v), "read", v, n)
mmu_write(v, n, data) ==
    \/ PageFault("write", v, n)
    \/ Mapped(v) /\ mem_write(Translated(v), v, n, data)
\* A fetch reads four bytes at an even address, whatever the instruction's length.
mmu_exec(v) ==
    \/ PageFault("fetch", v, 4)
    \/ Mapped(v) /\ mem_read(Translated(v), "fetch", v, 4)

\* The bytes of a store, told apart by their place.
Data(n) == [k \in Bytes(n) |-> k + 1]

GuestAccess ==
    /\ count < MaxAccesses
    /\ \E v \in Virtual :
         \/ \E n \in {1, 2, 4} : mmu_read(v, n) \/ mmu_write(v, n, Data(n))
         \/ (v % 2) = 0 /\ mmu_exec(v)

MemoryTypeOK ==
    /\ map \in Maps
    /\ ram \in [DOMAIN ram -> Byte]
    /\ count \in 0..MaxAccesses
    /\ access = NoAccess
         \/ /\ access.kind \in Kinds /\ access.v \in Virtual /\ access.n \in {1, 2, 4}
            /\ access.res \in {"MMU_OK", "MMU_ACCESS_FAULT", "MMU_PAGE_FAULT"}

-----------------------------------------------------------------------------
(* Properties of an access *)

Accessed == count' # count /\ access' # NoAccess

SamePage(v, w) == v \div PageSize = w \div PageSize
WithinPage(v, n) == \A k \in Bytes(n) : SamePage(v, v + k)

\* What an access of either kind returns and leaves behind.
AccessRight ==
    Accessed =>
      LET a == access'
          onFirst == {k \in Bytes(a.n) : SamePage(a.v, a.v + k)}
      IN  IF Mapped(a.v) /\ IsRam(memmap_get(Translated(a.v)))
          THEN /\ a.res = "MMU_OK"
               /\ \A k \in onFirst :
                    /\ Translated(a.v + k) \in DOMAIN ram
                    /\ a.data[k] = (IF a.kind = "write" THEN ram' ELSE ram)[Translated(a.v + k)]
               /\ \A q \in DOMAIN ram :
                    ram'[q] # ram[q] =>
                      a.kind = "write" /\ q - Translated(a.v) \in Bytes(a.n)
          ELSE ram' = ram

\* Only the first byte of an access is translated.  All the same, every byte
\* that lies on the first one's page is the byte its own translation names:
\* loads and fetches return it, stores replace it, and stores replace no byte
\* that the access did not reach.  So accesses that stay in a page are what
\* the manual says, and a compressed instruction in the last two bytes of a
\* page is fetched right although the fetch goes on behind the page.
FirstPageBytes == [][AccessRight]_<<memvars, entries>>
==============================================================================
