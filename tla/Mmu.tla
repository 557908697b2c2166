--------------------------------- MODULE Mmu ---------------------------------
(***************************************************************************)
(* Address translation: the sv32 walk (src/src/mmu.c) behind the TLB        *)
(* (src/src/tlb.c), while the guest edits its page tables, switches modes  *)
(* and flushes.  The code that keeps the TLB right is the guest's: this     *)
(* module records in stale whether the guest owes a flush.                 *)
(*                                                                         *)
(* A page number has two parts below PnMod (1024 in the code).  A page-table *)
(* entry is its flags and the page number it holds; the flags the walk does *)
(* not read are left out.                                                  *)
(***************************************************************************)
EXTENDS Integers

CONSTANTS
    PnMod,       \* values of one part of a page number
    RamPages,    \* physical page numbers that memory answers
    Ptes,        \* page-table entries the guest may store
    Slots,       \* where: pairs <<page, index>>
    Roots,       \* page numbers the guest may put in satp
    Contexts     \* privilege contexts, see Context

PRV_U == 0
PRV_S == 1
PRV_M == 3

Accesses == {"READ", "WRITE", "EXECUTE"}
Pn == 0..(PnMod - 1)
Ppn == 0..(PnMod * PnMod - 1)
Vpn == Ppn
LastVpn == PnMod * PnMod - 1
Pte == [flags : SUBSET {"V", "R", "W", "X", "U", "A", "D"}, ppn : Ppn]
Context == [prv : {PRV_U, PRV_S, PRV_M}, mprv : BOOLEAN, mpp : 0..3,
            sum : BOOLEAN, mxr : BOOLEAN]

ResetContext ==
    [prv |-> PRV_M, mprv |-> FALSE, mpp |-> 0, sum |-> FALSE, mxr |-> FALSE]

ASSUME PnModAssumption == PnMod \in Nat \ {0, 1}
ASSUME MemoryAssumption ==
    RamPages \subseteq Ppn /\ Ptes \subseteq Pte /\ Roots \subseteq Ppn
        /\ Slots \subseteq RamPages \X Pn
\* The invariant MprvOnlyInMachineMode of the hart.
ASSUME ContextsAssumption ==
    /\ Contexts \subseteq Context
    /\ \A c \in Contexts : c.mprv => c.prv = PRV_M

VARIABLES
    ctx,      \* privilege, MPRV, MPP, SUM and MXR
    sv32,     \* bit 31 of satp
    root,     \* the page number in satp
    pt,       \* memory, read as page tables: <<page, index>> -> Pte
    tlb,      \* page number -> [phys, access], access a subset of {"WR", "RE"}
    stale,    \* the guest changed a valid entry and has not flushed since
    switched  \* the context changed while translations were cached

mmuvars == <<ctx, sv32, root, pt, tlb, stale, switched>>

TypeOK ==
    /\ ctx \in Contexts \cup {ResetContext}
    /\ sv32 \in BOOLEAN /\ root \in Ppn
    /\ pt \in [RamPages \X Pn -> Pte]
    /\ tlb \in [Vpn -> [phys : Ppn, access : SUBSET {"WR", "RE"}]]
    /\ stale \in BOOLEAN /\ switched \in BOOLEAN

-----------------------------------------------------------------------------
(* The walk *)

\* translate_address: MPRV redirects data accesses to the previous privilege.
Priv(acc) == IF ctx.mprv /\ acc # "EXECUTE" THEN ctx.mpp ELSE ctx.prv

Malformed(p) == "V" \notin p.flags \/ ("R" \notin p.flags /\ "W" \in p.flags)
IsLeaf(p) == "R" \in p.flags \/ "X" \in p.flags

\* The checks a leaf must pass, in the code's order; all end in a page fault.
Allowed(p, acc, priv, level) ==
    /\ ~("W" \in p.flags /\ "R" \notin p.flags)
    /\ IF priv = PRV_S \/ (ctx.mprv /\ ctx.mpp = PRV_S)
       THEN "U" \in p.flags => ctx.sum
       ELSE "U" \in p.flags
    /\ CASE acc = "READ"    -> "R" \in p.flags \/ (ctx.mxr /\ "X" \in p.flags)
         [] acc = "WRITE"   -> "W" \in p.flags
         [] acc = "EXECUTE" -> "X" \in p.flags
    /\ level > 0 => p.ppn % PnMod = 0

\* Mutant: a superpage's number is not cut to its upper part.
Physical_uncut(p, vpn, level) ==
    IF level > 0 THEN p.ppn * PnMod + (vpn % PnMod) ELSE p.ppn

Physical(p, vpn, level) ==
    IF level > 0 THEN (p.ppn \div PnMod) * PnMod + (vpn % PnMod) ELSE p.ppn

Fault(kind) == [res |-> kind]
AtLeaf(slot, acc, vpn, priv, level) ==
    IF Allowed(pt[slot], acc, priv, level)
    THEN [res |-> "MMU_OK", slot |-> slot, phys |-> Physical(pt[slot], vpn, level)]
    ELSE Fault("MMU_PAGE_FAULT")

\* translate_sv32, the two turns of its loop.  The result names the leaf.
Walk(vpn, acc, priv) ==
    LET slot1 == <<root, vpn \div PnMod>>
        slot0 == <<pt[slot1].ppn, vpn % PnMod>>
    IN  IF root \notin RamPages THEN Fault("MMU_ACCESS_FAULT")
        ELSE IF Malformed(pt[slot1]) THEN Fault("MMU_PAGE_FAULT")
        ELSE IF IsLeaf(pt[slot1]) THEN AtLeaf(slot1, acc, vpn, priv, 1)
        ELSE IF pt[slot1].ppn \notin RamPages THEN Fault("MMU_ACCESS_FAULT")
        ELSE IF Malformed(pt[slot0]) \/ ~IsLeaf(pt[slot0]) THEN Fault("MMU_PAGE_FAULT")
        ELSE AtLeaf(slot0, acc, vpn, priv, 0)

\* Mutant: only writes are recorded.
Touched_writes(p, acc) ==
    IF acc = "WRITE" THEN [p EXCEPT !.flags = @ \cup {"A", "D"}] ELSE p

\* The walk sets A, and D for a write, in the leaf it used.
Touched(p, acc) ==
    [p EXCEPT !.flags = @ \cup {"A"} \cup (IF acc = "WRITE" THEN {"D"} ELSE {})]

-----------------------------------------------------------------------------
(* The TLB *)

Needs(acc) == IF acc = "WRITE" THEN "WR" ELSE "RE"

Cached(vpn) == tlb[vpn].access # {}
Hit(vpn, acc) == Needs(acc) \in tlb[vpn].access

\* Mutant: any fill allows every access.
tlb_put_both(vpn, phys, acc) ==
    tlb' = [tlb EXCEPT ![vpn] = [phys |-> phys, access |-> {"WR", "RE"}]]

\* tlb_put keeps the access bits the entry had.
tlb_put(vpn, phys, acc) ==
    tlb' = [tlb EXCEPT ![vpn] = [phys |-> phys, access |-> @.access \cup {Needs(acc)}]]

\* The table has one entry less than there are virtual pages, and the flush
\* clears the table: the last page uses memory behind it, which in the build
\* is the unused end of the allocated pages and keeps what is put there.
tlb_flush ==
    /\ tlb' = [v \in Vpn |-> IF v = LastVpn THEN tlb[v]
                             ELSE [phys |-> 0, access |-> {}]]
    /\ stale' = FALSE /\ switched' = FALSE

-----------------------------------------------------------------------------
(* Actions *)

\* translate_address on behalf of a load, a store or a fetch.
Access(vpn, acc) ==
    /\ sv32 /\ Priv(acc) # PRV_M
    /\ ~Hit(vpn, acc)
    /\ LET w == Walk(vpn, acc, Priv(acc))
       IN  /\ w.res = "MMU_OK"
           /\ pt' = [pt EXCEPT ![w.slot] = Touched(@, acc)]
           /\ tlb_put(vpn, w.phys, acc)
    /\ UNCHANGED <<ctx, sv32, root, stale, switched>>

\* A guest store into memory that a walk may read as a page table.  Giving a
\* value to an entry that was not valid owes no flush.
StorePte(slot, p) ==
    /\ pt' = [pt EXCEPT ![slot] = p]
    /\ stale' = (stale \/ (p # pt[slot] /\ "V" \in pt[slot].flags))
    /\ UNCHANGED <<ctx, sv32, root, tlb, switched>>

\* Mutant: satp changes without a flush.
WriteSatp_unflushed(on, r) ==
    sv32' = on /\ root' = r /\ UNCHANGED <<ctx, pt, tlb, stale, switched>>

\* csr_write of satp flushes, whatever changed.
WriteSatp(on, r) ==
    /\ sv32' = on /\ root' = r
    /\ tlb_flush
    /\ UNCHANGED <<ctx, pt>>

SfenceVma == tlb_flush /\ UNCHANGED <<ctx, sv32, root, pt>>

\* Traps, returns and writes of mstatus.
SwitchContext(c) ==
    /\ ctx' = c
    /\ switched' = (switched \/ (c # ctx /\ \E vpn \in Vpn \ {LastVpn} : Cached(vpn)))
    /\ UNCHANGED <<sv32, root, pt, tlb, stale>>

-----------------------------------------------------------------------------
Init ==
    /\ ctx = ResetContext
    /\ sv32 = FALSE /\ root = 0
    /\ pt = [slot \in RamPages \X Pn |-> [flags |-> {}, ppn |-> 0]]
    /\ tlb = [v \in Vpn |-> [phys |-> 0, access |-> {}]]
    /\ stale = FALSE /\ switched = FALSE

Next ==
    \/ \E vpn \in Vpn, acc \in Accesses : Access(vpn, acc)
    \/ \E slot \in Slots, p \in Ptes : StorePte(slot, p)
    \/ \E on \in BOOLEAN, r \in Roots : WriteSatp(on, r)
    \/ SfenceVma
    \/ \E c \in Contexts : SwitchContext(c)

Spec == Init /\ [][Next]_mmuvars

-----------------------------------------------------------------------------
(* Properties *)

\* The leaf that maps a page now, whoever asks: the slot, or none.
LeafSlot(vpn) ==
    LET slot1 == <<root, vpn \div PnMod>>
        slot0 == <<pt[slot1].ppn, vpn % PnMod>>
    IN  IF root \notin RamPages \/ Malformed(pt[slot1]) THEN {}
        ELSE IF IsLeaf(pt[slot1]) THEN {slot1}
        ELSE IF pt[slot1].ppn \notin RamPages \/ Malformed(pt[slot0]) \/ ~IsLeaf(pt[slot0])
        THEN {} ELSE {slot0}

\* A cached translation is the one the tables give, as long as the guest
\* flushes after it changes a valid entry; filling an invalid entry needs no
\* flush, the walk's own writes of A and D need none, and a change of satp
\* needs none, because the code flushes there.
MappingCoherent ==
    ~stale => \A vpn \in Vpn \ {LastVpn} : Cached(vpn) =>
        \E slot \in LeafSlot(vpn) :
            tlb[vpn].phys = Physical(pt[slot], vpn,
                                     IF slot = <<root, vpn \div PnMod>> /\ IsLeaf(pt[slot])
                                     THEN 1 ELSE 0)

\* A write that hits does not walk, so the hit must imply that the page is
\* writable and that its D bit is set already: no write goes unrecorded.
WriteHitsAreDirty ==
    ~stale => \A vpn \in Vpn \ {LastVpn} : "WR" \in tlb[vpn].access =>
        \E slot \in LeafSlot(vpn) : {"R", "W", "A", "D"} \subseteq pt[slot].flags

\* The same for reads and fetches: recorded as accessed, and readable or
\* executable, though not which of the two.
ReadHitsAreAccessed ==
    ~stale => \A vpn \in Vpn \ {LastVpn} : "RE" \in tlb[vpn].access =>
        \E slot \in LeafSlot(vpn) :
            "A" \in pt[slot].flags /\ pt[slot].flags \cap {"R", "X"} # {}

\* A hit repeats none of the checks of the walk.  It needs none as long as the
\* guest owes no flush and keeps its privilege, SUM and MXR while translations
\* are cached: then a hit gives what the walk would give now.  But loads and
\* fetches share one mark, so that one of the two vouches for the other.
\* (After a change of context nothing of the kind holds: the code does not
\* flush on traps, returns and writes of mstatus.)
Vouches(vpn, acc, phys) ==
    /\ Priv(acc) # PRV_M
    /\ LET w == Walk(vpn, acc, Priv(acc)) IN w.res = "MMU_OK" /\ w.phys = phys
HitsAgreeWithWalk ==
    ~stale /\ ~switched /\ sv32 =>
      \A vpn \in Vpn \ {LastVpn} :
        /\ "WR" \in tlb[vpn].access => Vouches(vpn, "WRITE", tlb[vpn].phys)
        /\ "RE" \in tlb[vpn].access =>
             \E acc \in {"READ", "EXECUTE"} : Vouches(vpn, acc, tlb[vpn].phys)

\* Contradicted by the code: the same for every page.
EveryPageCoherent ==
    ~stale => \A vpn \in Vpn : Cached(vpn) => LeafSlot(vpn) # {}

==============================================================================
