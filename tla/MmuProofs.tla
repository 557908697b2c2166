------------------------------ MODULE MmuProofs ------------------------------
(***************************************************************************)
(* The TLB against the page tables, for page numbers of any size, every    *)
(* memory, every set of entries the guest may store and every set of       *)
(* contexts it may switch to.                                              *)
(***************************************************************************)
EXTENDS Mmu, TLAPS

-----------------------------------------------------------------------------
(* Page numbers *)

LEMMA Parts ==
    ASSUME NEW M \in Nat \ {0}, NEW v \in 0..(M * M - 1)
    PROVE  v \div M \in 0..(M - 1) /\ v % M \in 0..(M - 1)
<1>1. v = M * (v \div M) + (v % M) /\ v % M \in 0..(M - 1) /\ v \div M \in Int
    OBVIOUS
<1>2. \A d \in Int : d >= M => M * d >= M * M
    OBVIOUS
<1>3. \A d \in Int : d <= -1 => M * d <= -M
    OBVIOUS
<1> QED BY <1>1, <1>2, <1>3

LEMMA Whole ==
    ASSUME NEW M \in Nat \ {0}, NEW a \in 0..(M - 1), NEW b \in 0..(M - 1)
    PROVE  a * M + b \in 0..(M * M - 1)
<1>1. a * M <= (M - 1) * M
    OBVIOUS
<1>2. (M - 1) * M = M * M - M
    OBVIOUS
<1>3. a * M >= 0 /\ a * M \in Int
    OBVIOUS
<1> QED BY <1>1, <1>2, <1>3

LEMMA PnParts ==
    ASSUME NEW v \in Vpn
    PROVE  v \div PnMod \in Pn /\ v % PnMod \in Pn
BY Parts, PnModAssumption DEF Vpn, Ppn, Pn

LEMMA PhysicalTyped ==
    ASSUME NEW p \in Pte, NEW vpn \in Vpn, NEW level
    PROVE  Physical(p, vpn, level) \in Ppn
<1>1. p.ppn \in Vpn
    BY DEF Pte, Vpn
<1>2. p.ppn \div PnMod \in Pn /\ vpn % PnMod \in Pn
    BY <1>1, PnParts
<1>3. (p.ppn \div PnMod) * PnMod + (vpn % PnMod) \in Ppn
    <2> DEFINE a == p.ppn \div PnMod
               b == vpn % PnMod
    <2>1. a \in 0..(PnMod - 1) /\ b \in 0..(PnMod - 1)
        BY <1>2 DEF Pn
    <2> HIDE DEF a, b
    <2>2. a * PnMod + b \in 0..(PnMod * PnMod - 1)
        BY <2>1, Whole, PnModAssumption
    <2> QED BY <2>2 DEF a, b, Ppn
<1> QED BY <1>1, <1>3 DEF Physical, Vpn

-----------------------------------------------------------------------------
(* The walk and the leaf it ends at *)

Level(vpn, slot) == IF slot = <<root, vpn \div PnMod>> /\ IsLeaf(pt[slot]) THEN 1 ELSE 0

LEMMA LeafUnique ==
    ASSUME NEW vpn, NEW a \in LeafSlot(vpn), NEW b \in LeafSlot(vpn)
    PROVE  a = b
BY DEF LeafSlot

LEMMA LeafTyped ==
    ASSUME TypeOK, NEW vpn \in Vpn, NEW slot \in LeafSlot(vpn)
    PROVE  /\ slot \in RamPages \X Pn
           /\ <<root, vpn \div PnMod>> \in RamPages \X Pn
           /\ "V" \in pt[slot].flags /\ "V" \in pt[<<root, vpn \div PnMod>>].flags
           /\ IsLeaf(pt[slot])
<1>1. vpn \div PnMod \in Pn /\ vpn % PnMod \in Pn
    BY PnParts
<1> QED BY <1>1 DEF LeafSlot, Malformed

\* A walk that succeeds ends at the page's leaf, which allows the access.
LEMMA WalkLeaf ==
    ASSUME NEW vpn, NEW acc, NEW priv, Walk(vpn, acc, priv).res = "MMU_OK"
    PROVE  LET w == Walk(vpn, acc, priv)
           IN  /\ w.slot \in LeafSlot(vpn)
               /\ w.phys = Physical(pt[w.slot], vpn, Level(vpn, w.slot))
               /\ Allowed(pt[w.slot], acc, priv, Level(vpn, w.slot))
<1> DEFINE slot1 == <<root, vpn \div PnMod>>
           slot0 == <<pt[slot1].ppn, vpn % PnMod>>
           w == Walk(vpn, acc, priv)
<1>1. ASSUME NEW slot, NEW level, w = AtLeaf(slot, acc, vpn, priv, level)
      PROVE  /\ w.slot = slot /\ w.phys = Physical(pt[slot], vpn, level)
             /\ Allowed(pt[slot], acc, priv, level)
    <2>1. Allowed(pt[slot], acc, priv, level)
        BY <1>1 DEF AtLeaf, Fault
    <2>2. w = [res |-> "MMU_OK", slot |-> slot, phys |-> Physical(pt[slot], vpn, level)]
        BY <1>1, <2>1 DEF AtLeaf
    <2> QED BY <2>1, <2>2
<1>2. CASE root \in RamPages /\ ~Malformed(pt[slot1]) /\ IsLeaf(pt[slot1])
    <2>1. w = AtLeaf(slot1, acc, vpn, priv, 1)
        BY <1>2 DEF Walk
    <2>2. slot1 \in LeafSlot(vpn) /\ Level(vpn, slot1) = 1
        BY <1>2 DEF LeafSlot, Level
    <2> QED BY <1>1, <2>1, <2>2
<1>3. CASE /\ root \in RamPages /\ ~Malformed(pt[slot1]) /\ ~IsLeaf(pt[slot1])
           /\ pt[slot1].ppn \in RamPages /\ ~Malformed(pt[slot0]) /\ IsLeaf(pt[slot0])
    <2>1. w = AtLeaf(slot0, acc, vpn, priv, 0)
        BY <1>3 DEF Walk
    <2>2. slot0 # slot1
        BY <1>3
    <2>3. slot0 \in LeafSlot(vpn) /\ Level(vpn, slot0) = 0
        BY <1>3, <2>2 DEF LeafSlot, Level
    <2> QED BY <1>1, <2>1, <2>3
<1>4. CASE \/ root \notin RamPages \/ Malformed(pt[slot1])
           \/ /\ ~IsLeaf(pt[slot1])
              /\ \/ pt[slot1].ppn \notin RamPages
                 \/ Malformed(pt[slot0]) \/ ~IsLeaf(pt[slot0])
    <2>1. w = Fault("MMU_ACCESS_FAULT") \/ w = Fault("MMU_PAGE_FAULT")
        BY <1>4 DEF Walk
    <2> QED BY <2>1 DEF Fault
<1> QED BY <1>2, <1>3, <1>4

\* The other way: the leaf decides how the walk ends.
LEMMA LeafWalk ==
    ASSUME NEW vpn, NEW acc, NEW priv, NEW slot \in LeafSlot(vpn),
           Allowed(pt[slot], acc, priv, Level(vpn, slot))
    PROVE  /\ Walk(vpn, acc, priv).res = "MMU_OK"
           /\ Walk(vpn, acc, priv).phys = Physical(pt[slot], vpn, Level(vpn, slot))
<1> DEFINE slot1 == <<root, vpn \div PnMod>>
           slot0 == <<pt[slot1].ppn, vpn % PnMod>>
           w == Walk(vpn, acc, priv)
<1>1. CASE root \in RamPages /\ ~Malformed(pt[slot1]) /\ IsLeaf(pt[slot1])
    <2>1. slot = slot1 /\ Level(vpn, slot) = 1
        BY <1>1 DEF LeafSlot, Level
    <2>2. w = AtLeaf(slot1, acc, vpn, priv, 1)
        BY <1>1 DEF Walk
    <2> QED BY <2>1, <2>2 DEF AtLeaf
<1>2. CASE /\ root \in RamPages /\ ~Malformed(pt[slot1]) /\ ~IsLeaf(pt[slot1])
           /\ pt[slot1].ppn \in RamPages /\ ~Malformed(pt[slot0]) /\ IsLeaf(pt[slot0])
    <2>1. slot = slot0 /\ slot0 # slot1
        BY <1>2 DEF LeafSlot
    <2>2. Level(vpn, slot) = 0
        BY <2>1 DEF Level
    <2>3. w = AtLeaf(slot0, acc, vpn, priv, 0)
        BY <1>2 DEF Walk
    <2> QED BY <2>1, <2>2, <2>3 DEF AtLeaf
<1> QED BY <1>1, <1>2 DEF LeafSlot

-----------------------------------------------------------------------------
(* The invariant *)

\* What is cached of a page agrees with the page's leaf.
Agrees(vpn, slot) ==
    /\ tlb[vpn].phys = Physical(pt[slot], vpn, Level(vpn, slot))
    /\ "WR" \in tlb[vpn].access => {"R", "W", "A", "D"} \subseteq pt[slot].flags
    /\ "RE" \in tlb[vpn].access =>
         "A" \in pt[slot].flags /\ pt[slot].flags \cap {"R", "X"} # {}

Allows(vpn, slot, acc) ==
    Priv(acc) # PRV_M /\ Allowed(pt[slot], acc, Priv(acc), Level(vpn, slot))

\* ... and, as long as the context has not changed, with the walk's checks.
Checked(vpn, slot) ==
    ~switched /\ sv32 =>
      /\ "WR" \in tlb[vpn].access => Allows(vpn, slot, "WRITE")
      /\ "RE" \in tlb[vpn].access => Allows(vpn, slot, "READ") \/ Allows(vpn, slot, "EXECUTE")

Good(vpn) == Cached(vpn) => \E slot \in LeafSlot(vpn) : Agrees(vpn, slot) /\ Checked(vpn, slot)

IInv == TypeOK /\ (~stale => \A vpn \in Vpn \ {LastVpn} : Good(vpn))

\* A page-table entry that differs in A and D only.
Alike(slot) ==
    /\ pt'[slot].ppn = pt[slot].ppn
    /\ \A f \in {"V", "R", "W", "X", "U"} : f \in pt'[slot].flags <=> f \in pt[slot].flags

LEMMA AlikeViews ==
    ASSUME NEW slot, Alike(slot)
    PROVE  /\ Malformed(pt'[slot]) = Malformed(pt[slot])
           /\ IsLeaf(pt'[slot]) = IsLeaf(pt[slot])
           /\ \A vpn, level : Physical(pt'[slot], vpn, level) = Physical(pt[slot], vpn, level)
BY DEF Alike, Malformed, IsLeaf, Physical

LEMMA AlikeAllowed ==
    ASSUME NEW slot, Alike(slot), ctx' = ctx, NEW acc \in Accesses, NEW priv, NEW level,
           Allowed(pt[slot], acc, priv, level)
    PROVE  Allowed(pt[slot], acc, priv, level)'
<1>1. \A f \in {"V", "R", "W", "X", "U"} : f \in pt'[slot].flags <=> f \in pt[slot].flags
    BY DEF Alike
<1>2. pt'[slot].ppn = pt[slot].ppn
    BY DEF Alike
<1>3. ~("W" \in pt'[slot].flags /\ "R" \notin pt'[slot].flags)
    BY <1>1 DEF Allowed
<1>4. IF priv = PRV_S \/ (ctx.mprv /\ ctx.mpp = PRV_S)
      THEN "U" \in pt'[slot].flags => ctx.sum
      ELSE "U" \in pt'[slot].flags
    BY <1>1 DEF Allowed
<1>5. (CASE acc = "READ"    -> "R" \in pt'[slot].flags \/ (ctx.mxr /\ "X" \in pt'[slot].flags)
         [] acc = "WRITE"   -> "W" \in pt'[slot].flags
         [] acc = "EXECUTE" -> "X" \in pt'[slot].flags)
    <2>1. CASE acc = "READ"
        BY <1>1, <2>1 DEF Allowed
    <2>2. CASE acc = "WRITE"
        BY <1>1, <2>2 DEF Allowed
    <2>3. CASE acc = "EXECUTE"
        BY <1>1, <2>3 DEF Allowed
    <2> QED BY <2>1, <2>2, <2>3 DEF Accesses
<1>6. level > 0 => pt'[slot].ppn % PnMod = 0
    BY <1>2 DEF Allowed
<1> QED BY <1>3, <1>4, <1>5, <1>6 DEF Allowed

\* A page keeps its leaf when the entries on the way to it stay alike.
LEMMA LeafKept ==
    ASSUME NEW vpn, NEW slot \in LeafSlot(vpn), root' = root,
           Alike(<<root, vpn \div PnMod>>), Alike(slot)
    PROVE  slot \in LeafSlot(vpn)' /\ Level(vpn, slot)' = Level(vpn, slot)
<1> DEFINE slot1 == <<root, vpn \div PnMod>>
           slot0 == <<pt[slot1].ppn, vpn % PnMod>>
<1>1. /\ Malformed(pt'[slot1]) = Malformed(pt[slot1]) /\ IsLeaf(pt'[slot1]) = IsLeaf(pt[slot1])
      /\ Malformed(pt'[slot]) = Malformed(pt[slot]) /\ IsLeaf(pt'[slot]) = IsLeaf(pt[slot])
      /\ pt'[slot1].ppn = pt[slot1].ppn
    BY AlikeViews DEF Alike
<1>2. Level(vpn, slot)' = Level(vpn, slot)
    BY <1>1 DEF Level
<1>3. CASE IsLeaf(pt[slot1])
    <2>1. slot = slot1 /\ root \in RamPages /\ ~Malformed(pt[slot1])
        BY <1>3 DEF LeafSlot
    <2> QED BY <1>1, <1>2, <1>3, <2>1 DEF LeafSlot
<1>4. CASE ~IsLeaf(pt[slot1])
    <2>1. /\ slot = slot0 /\ root \in RamPages /\ ~Malformed(pt[slot1])
          /\ pt[slot1].ppn \in RamPages /\ ~Malformed(pt[slot]) /\ IsLeaf(pt[slot])
        BY <1>4 DEF LeafSlot
    <2> QED BY <1>1, <1>2, <1>4, <2>1 DEF LeafSlot
<1> QED BY <1>3, <1>4

LEMMA AllowsKept ==
    ASSUME NEW vpn, NEW slot, NEW acc \in Accesses, ctx' = ctx, Alike(slot),
           Level(vpn, slot)' = Level(vpn, slot), Allows(vpn, slot, acc)
    PROVE  Allows(vpn, slot, acc)'
<1>1. Priv(acc)' = Priv(acc)
    BY DEF Priv
<1> DEFINE priv == Priv(acc)
           level == Level(vpn, slot)
<1>2. priv # PRV_M /\ Allowed(pt[slot], acc, priv, level)
    BY DEF Allows
<1>3. \A p, l : Allowed(pt[slot], acc, p, l) => Allowed(pt[slot], acc, p, l)'
    BY AlikeAllowed
<1>4. Allowed(pt[slot], acc, priv, level)'
    BY <1>1, <1>2, <1>3
<1> QED BY <1>1, <1>2, <1>4 DEF Allows

\* A page whose entry in the TLB does not change stays good.
LEMMA GoodKept ==
    ASSUME NEW vpn, Good(vpn), tlb'[vpn] = tlb[vpn], root' = root,
           ctx' = ctx, sv32' = sv32, switched' = switched,
           \A slot \in LeafSlot(vpn) :
             /\ Alike(<<root, vpn \div PnMod>>) /\ Alike(slot)
             /\ pt[slot].flags \subseteq pt'[slot].flags
    PROVE  Good(vpn)'
<1> SUFFICES ASSUME Cached(vpn)
             PROVE  (\E slot \in LeafSlot(vpn) : Agrees(vpn, slot) /\ Checked(vpn, slot))'
    BY DEF Good, Cached
<1>1. PICK slot \in LeafSlot(vpn) : Agrees(vpn, slot) /\ Checked(vpn, slot)
    BY DEF Good
<1>2. slot \in LeafSlot(vpn)' /\ Level(vpn, slot)' = Level(vpn, slot)
    BY LeafKept
<1>3. Agrees(vpn, slot)'
    <2>1. Physical(pt'[slot], vpn, Level(vpn, slot)) = Physical(pt[slot], vpn, Level(vpn, slot))
        BY AlikeViews
    <2>2. pt[slot].flags \subseteq pt'[slot].flags
        OBVIOUS
    <2> QED BY <1>1, <1>2, <2>1, <2>2 DEF Agrees
<1>4. Checked(vpn, slot)'
    <2>1. \A acc \in Accesses : Allows(vpn, slot, acc) => Allows(vpn, slot, acc)'
        BY <1>2, AllowsKept
    <2>2. {"READ", "WRITE", "EXECUTE"} = Accesses
        BY DEF Accesses
    <2> QED BY <1>1, <2>1, <2>2 DEF Checked
<1> QED BY <1>2, <1>3, <1>4

-----------------------------------------------------------------------------
(* The steps *)

LEMMA FlushGood ==
    ASSUME TypeOK, tlb_flush
    PROVE  \A vpn \in Vpn \ {LastVpn} : Good(vpn)'
BY DEF tlb_flush, Good, Cached

LEMMA FlushTyped ==
    ASSUME TypeOK, tlb_flush
    PROVE  /\ tlb' \in [Vpn -> [phys : Ppn, access : SUBSET {"WR", "RE"}]]
           /\ stale' \in BOOLEAN /\ switched' \in BOOLEAN
<1>1. 0 \in Ppn
    BY PnModAssumption DEF Ppn
<1> QED BY <1>1 DEF tlb_flush, TypeOK

LEMMA StoreStep ==
    ASSUME IInv, NEW slot \in Slots, NEW p \in Ptes, StorePte(slot, p)
    PROVE  IInv'
<1>1. TypeOK'
    <2>1. slot \in RamPages \X Pn /\ p \in Pte
        BY MemoryAssumption
    <2> QED BY <2>1 DEF StorePte, IInv, TypeOK
<1>2. ASSUME ~stale', NEW vpn \in Vpn \ {LastVpn}
      PROVE  Good(vpn)'
    <2>1. ~stale /\ (p = pt[slot] \/ "V" \notin pt[slot].flags)
        BY <1>2 DEF StorePte
    <2>2. Good(vpn) /\ TypeOK
        BY <2>1 DEF IInv
    <2>3. ASSUME NEW s \in RamPages \X Pn, "V" \in pt[s].flags
          PROVE  pt'[s] = pt[s]
        BY <2>1, <2>2, <2>3 DEF StorePte, TypeOK
    <2>4. ASSUME NEW s \in LeafSlot(vpn)
          PROVE  pt'[s] = pt[s] /\ pt'[<<root, vpn \div PnMod>>] = pt[<<root, vpn \div PnMod>>]
        BY <2>2, <2>3, LeafTyped
    <2>5. ASSUME NEW s \in LeafSlot(vpn)
          PROVE  /\ Alike(<<root, vpn \div PnMod>>) /\ Alike(s)
                 /\ pt[s].flags \subseteq pt'[s].flags
        BY <2>4 DEF Alike
    <2>6. /\ tlb' = tlb /\ root' = root /\ ctx' = ctx /\ sv32' = sv32 /\ switched' = switched
        BY DEF StorePte
    <2> QED BY <2>2, <2>5, <2>6, GoodKept
<1> QED BY <1>1, <1>2 DEF IInv

LEMMA SwitchStep ==
    ASSUME IInv, NEW c \in Contexts, SwitchContext(c)
    PROVE  IInv'
<1>1. TypeOK'
    BY DEF SwitchContext, IInv, TypeOK
<1>2. ASSUME ~stale', NEW vpn \in Vpn \ {LastVpn}
      PROVE  Good(vpn)'
    <2>1. /\ ~stale /\ tlb' = tlb /\ root' = root /\ pt' = pt /\ sv32' = sv32
          /\ ctx' = c /\ switched' = (switched \/ (c # ctx /\ \E v \in Vpn \ {LastVpn} : Cached(v)))
        BY <1>2 DEF SwitchContext
    <2>2. Good(vpn)
        BY <2>1 DEF IInv
    <2>3. CASE ~Cached(vpn)
        BY <2>1, <2>3 DEF Good, Cached
    <2>4. CASE Cached(vpn)
        <3>1. PICK slot \in LeafSlot(vpn) : Agrees(vpn, slot) /\ Checked(vpn, slot)
            BY <2>2, <2>4 DEF Good
        <3>2. slot \in LeafSlot(vpn)' /\ Agrees(vpn, slot)'
            BY <2>1, <3>1 DEF LeafSlot, Agrees, Level
        <3>3. CASE switched'
            BY <3>2, <3>3 DEF Good, Checked
        <3>4. CASE ~switched'
            <4>1. ctx' = ctx /\ ~switched
                BY <2>1, <2>4, <3>4
            <4>2. Checked(vpn, slot)'
                BY <2>1, <3>1, <4>1 DEF Checked, Allows, Allowed, Priv, Level
            <4> QED BY <3>2, <4>2 DEF Good
        <3> QED BY <3>3, <3>4
    <2> QED BY <2>3, <2>4
<1> QED BY <1>1, <1>2 DEF IInv

-----------------------------------------------------------------------------
(* A walk that fills the TLB *)

LEMMA AccessPt ==
    ASSUME TypeOK, NEW vpn \in Vpn, NEW acc \in Accesses, Access(vpn, acc)
    PROVE  LET w == Walk(vpn, acc, Priv(acc))
           IN  /\ w.slot \in RamPages \X Pn /\ w.slot \in LeafSlot(vpn)
               /\ w.phys = Physical(pt[w.slot], vpn, Level(vpn, w.slot))
               /\ Allows(vpn, w.slot, acc)
               /\ w.phys \in Ppn
               /\ pt' \in [RamPages \X Pn -> Pte]
               /\ "A" \in pt'[w.slot].flags
               /\ acc = "WRITE" => "D" \in pt'[w.slot].flags
               /\ \A s \in RamPages \X Pn : Alike(s) /\ pt[s].flags \subseteq pt'[s].flags
<1> DEFINE w == Walk(vpn, acc, Priv(acc))
           slot == w.slot
<1>1. /\ w.res = "MMU_OK" /\ Priv(acc) # PRV_M
      /\ pt' = [pt EXCEPT ![w.slot] = Touched(pt[w.slot], acc)]
    BY DEF Access
<1>2. /\ slot \in LeafSlot(vpn)
      /\ w.phys = Physical(pt[slot], vpn, Level(vpn, slot))
      /\ Allowed(pt[slot], acc, Priv(acc), Level(vpn, slot))
    BY <1>1, WalkLeaf
<1>3. slot \in RamPages \X Pn
    BY <1>2, LeafTyped
<1>4. pt[slot] \in Pte
    BY <1>3 DEF TypeOK
<1>5. w.phys \in Ppn
    BY <1>2, <1>4, PhysicalTyped
<1> DEFINE new == pt[slot].flags \cup {"A"} \cup (IF acc = "WRITE" THEN {"D"} ELSE {})
<1>6. Touched(pt[slot], acc) = [pt[slot] EXCEPT !.flags = new]
    BY DEF Touched
<1>7. new \subseteq {"V", "R", "W", "X", "U", "A", "D"}
    BY <1>4 DEF Pte
<1>8. /\ Touched(pt[slot], acc) \in Pte
      /\ Touched(pt[slot], acc).ppn = pt[slot].ppn /\ Touched(pt[slot], acc).flags = new
    BY <1>4, <1>6, <1>7 DEF Pte
<1> HIDE DEF slot
<1>9. pt' = [pt EXCEPT ![slot] = Touched(pt[slot], acc)]
    BY <1>1 DEF slot
<1>10. pt' \in [RamPages \X Pn -> Pte]
    BY <1>3, <1>8, <1>9 DEF TypeOK
<1>11. pt'[slot].ppn = pt[slot].ppn /\ pt'[slot].flags = new
    BY <1>3, <1>8, <1>9 DEF TypeOK
<1>12. ASSUME NEW s \in RamPages \X Pn
       PROVE  Alike(s) /\ pt[s].flags \subseteq pt'[s].flags
    <2>1. CASE s = slot
        BY <1>11, <2>1 DEF Alike
    <2>2. CASE s # slot
        <3>1. pt'[s] = pt[s]
            BY <1>9, <2>2, <1>12 DEF TypeOK
        <3> QED BY <3>1 DEF Alike
    <2> QED BY <2>1, <2>2
<1>13. "A" \in pt'[slot].flags /\ (acc = "WRITE" => "D" \in pt'[slot].flags)
    BY <1>11
<1> QED BY <1>1, <1>2, <1>3, <1>5, <1>10, <1>12, <1>13 DEF slot, Allows

LEMMA AccessStep ==
    ASSUME IInv, NEW vpn \in Vpn, NEW acc \in Accesses, Access(vpn, acc)
    PROVE  IInv'
<1>1. TypeOK
    BY DEF IInv
<1>2. PICK w : w = Walk(vpn, acc, Priv(acc))
    OBVIOUS
<1>3. /\ tlb_put(vpn, w.phys, acc) /\ UNCHANGED <<ctx, sv32, root, stale, switched>>
    BY <1>2 DEF Access
<1>4. /\ w.slot \in RamPages \X Pn /\ w.slot \in LeafSlot(vpn)
      /\ w.phys = Physical(pt[w.slot], vpn, Level(vpn, w.slot))
      /\ Allows(vpn, w.slot, acc)
      /\ w.phys \in Ppn
      /\ pt' \in [RamPages \X Pn -> Pte]
      /\ "A" \in pt'[w.slot].flags
      /\ acc = "WRITE" => "D" \in pt'[w.slot].flags
      /\ \A s \in RamPages \X Pn : Alike(s) /\ pt[s].flags \subseteq pt'[s].flags
    BY <1>1, <1>2, AccessPt
<1>5. Needs(acc) \in {"WR", "RE"} /\ (Needs(acc) = "WR" <=> acc = "WRITE")
    BY DEF Needs
<1>6. /\ tlb'[vpn].phys = w.phys
      /\ tlb'[vpn].access = tlb[vpn].access \cup {Needs(acc)}
      /\ \A v \in Vpn \ {vpn} : tlb'[v] = tlb[v]
      /\ tlb' \in [Vpn -> [phys : Ppn, access : SUBSET {"WR", "RE"}]]
    <2> DEFINE e == [phys |-> w.phys, access |-> tlb[vpn].access \cup {Needs(acc)}]
    <2>1. tlb' = [tlb EXCEPT ![vpn] = e]
        BY <1>3 DEF tlb_put
    <2>2. tlb \in [Vpn -> [phys : Ppn, access : SUBSET {"WR", "RE"}]]
        BY <1>1 DEF TypeOK
    <2>3. e \in [phys : Ppn, access : SUBSET {"WR", "RE"}]
        BY <1>4, <1>5, <2>2
    <2>4. e.phys = w.phys /\ e.access = tlb[vpn].access \cup {Needs(acc)}
        OBVIOUS
    <2> HIDE DEF e
    <2> QED BY <2>1, <2>2, <2>3, <2>4
<1>7. TypeOK'
    BY <1>1, <1>3, <1>4, <1>6 DEF TypeOK
<1>8. ASSUME ~stale, NEW v \in Vpn \ {LastVpn}, v # vpn
      PROVE  Good(v)'
    <2>1. Good(v)
        BY <1>8 DEF IInv
    <2>2. \A s \in LeafSlot(v) : s \in RamPages \X Pn /\ <<root, v \div PnMod>> \in RamPages \X Pn
        BY <1>1, LeafTyped
    <2>3. \A s \in LeafSlot(v) : /\ Alike(<<root, v \div PnMod>>) /\ Alike(s)
                                 /\ pt[s].flags \subseteq pt'[s].flags
        BY <1>4, <2>2
    <2>4. tlb'[v] = tlb[v]
        BY <1>6, <1>8
    <2> QED BY <1>3, <2>1, <2>3, <2>4, GoodKept
<1>9. ASSUME ~stale, vpn # LastVpn
      PROVE  Good(vpn)'
    <2> DEFINE s == w.slot
    <2>1. <<root, vpn \div PnMod>> \in RamPages \X Pn /\ IsLeaf(pt[s]) /\ s \in LeafSlot(vpn)
        BY <1>1, <1>4, LeafTyped
    <2>2. /\ Alike(<<root, vpn \div PnMod>>) /\ Alike(s) /\ pt[s].flags \subseteq pt'[s].flags
        BY <1>4, <2>1
    <2>3. s \in LeafSlot(vpn)' /\ Level(vpn, s)' = Level(vpn, s)
        BY <1>3, <2>1, <2>2, LeafKept
    <2>4. ASSUME Cached(vpn)
          PROVE  Agrees(vpn, s) /\ Checked(vpn, s)
        BY <1>9, <2>1, <2>4, LeafUnique DEF IInv, Good
    <2>5. /\ tlb[vpn].access \subseteq {"WR", "RE"}
          /\ \A m \in tlb[vpn].access : Cached(vpn)
        BY <1>1 DEF TypeOK, Cached
    <2>6. pt[s].flags \cap {"R", "X"} # {}
        BY <2>1 DEF IsLeaf
    <2>7. acc = "WRITE" => {"R", "W"} \subseteq pt[s].flags
        BY <1>4 DEF Allows, Allowed
    <2>8. Agrees(vpn, s)'
        <3>1. tlb'[vpn].phys = Physical(pt'[s], vpn, Level(vpn, s)')
            <4>1. Physical(pt'[s], vpn, Level(vpn, s)) = Physical(pt[s], vpn, Level(vpn, s))
                BY <2>2, AlikeViews
            <4> QED BY <1>4, <1>6, <2>3, <4>1
        <3>2. "WR" \in tlb'[vpn].access => {"R", "W", "A", "D"} \subseteq pt'[s].flags
            BY <1>4, <1>5, <1>6, <2>2, <2>4, <2>5, <2>7 DEF Agrees
        <3>3. "A" \in pt'[s].flags /\ pt'[s].flags \cap {"R", "X"} # {}
            BY <1>4, <2>2, <2>6
        <3> QED BY <3>1, <3>2, <3>3 DEF Agrees
    <2>9. Checked(vpn, s)'
        <3>1. ctx' = ctx /\ sv32' = sv32 /\ switched' = switched
            BY <1>3
        <3>2. \A a \in Accesses : Allows(vpn, s, a) => Allows(vpn, s, a)'
            BY <2>2, <2>3, <3>1, AllowsKept
        <3>3. {"READ", "WRITE", "EXECUTE"} = Accesses
            BY DEF Accesses
        <3>4. Allows(vpn, s, acc)'
            BY <1>4, <3>2
        <3>5. "WR" \in tlb[vpn].access => Checked(vpn, s)
            BY <2>4, <2>5
        <3>6. "RE" \in tlb[vpn].access => Checked(vpn, s)
            BY <2>4, <2>5
        <3>7. ASSUME ~switched, sv32, "WR" \in tlb'[vpn].access
              PROVE  Allows(vpn, s, "WRITE")'
            BY <1>5, <1>6, <3>2, <3>3, <3>4, <3>5, <3>7 DEF Checked
        <3>8. ASSUME ~switched, sv32, "RE" \in tlb'[vpn].access
              PROVE  Allows(vpn, s, "READ")' \/ Allows(vpn, s, "EXECUTE")'
            BY <1>5, <1>6, <3>2, <3>3, <3>4, <3>6, <3>8 DEF Checked
        <3> QED BY <3>1, <3>7, <3>8 DEF Checked
    <2> QED BY <2>3, <2>8, <2>9 DEF Good
<1>10. stale' = stale
    BY <1>3
<1> QED BY <1>7, <1>8, <1>9, <1>10 DEF IInv

LEMMA IInvInit == Init => IInv
<1> SUFFICES ASSUME Init
             PROVE  IInv
    OBVIOUS
<1>1. 0 \in Ppn
    BY PnModAssumption DEF Ppn
<1>2. TypeOK
    <2>1. [flags |-> {}, ppn |-> 0] \in Pte /\ [phys |-> 0, access |-> {}] \in [phys : Ppn, access : SUBSET {"WR", "RE"}]
        BY <1>1 DEF Pte
    <2> QED BY <1>1, <2>1 DEF Init, TypeOK
<1>3. \A vpn \in Vpn : Good(vpn)
    BY DEF Init, Good, Cached
<1> QED BY <1>2, <1>3 DEF IInv

LEMMA IInvStep == IInv /\ [Next]_mmuvars => IInv'
<1> SUFFICES ASSUME IInv, [Next]_mmuvars
             PROVE  IInv'
    OBVIOUS
<1>1. CASE UNCHANGED mmuvars
    <2>1. TypeOK' = TypeOK /\ stale' = stale
        BY <1>1 DEF mmuvars, TypeOK
    <2>2. \A vpn : Good(vpn)' = Good(vpn)
        BY <1>1 DEF mmuvars, Good, Cached, LeafSlot, Agrees, Checked, Allows, Allowed, Priv, Level
    <2> QED BY <2>1, <2>2 DEF IInv
<1>2. CASE \E vpn \in Vpn, acc \in Accesses : Access(vpn, acc)
    BY <1>2, AccessStep
<1>3. CASE \E slot \in Slots, p \in Ptes : StorePte(slot, p)
    BY <1>3, StoreStep
<1>4. CASE \E on \in BOOLEAN, r \in Roots : WriteSatp(on, r)
    <2>1. PICK on \in BOOLEAN, r \in Roots : WriteSatp(on, r)
        BY <1>4
    <2>2. TypeOK
        BY DEF IInv
    <2>3. TypeOK'
        BY <2>1, <2>2, FlushTyped, MemoryAssumption DEF WriteSatp, TypeOK
    <2> QED BY <2>1, <2>2, <2>3, FlushGood DEF WriteSatp, IInv
<1>5. CASE SfenceVma
    <2>1. TypeOK
        BY DEF IInv
    <2>2. TypeOK'
        BY <1>5, <2>1, FlushTyped DEF SfenceVma, TypeOK
    <2> QED BY <1>5, <2>1, <2>2, FlushGood DEF SfenceVma, IInv
<1>6. CASE \E c \in Contexts : SwitchContext(c)
    BY <1>6, SwitchStep
<1> QED BY <1>1, <1>2, <1>3, <1>4, <1>5, <1>6 DEF Next

-----------------------------------------------------------------------------
(* The theorems *)

LEMMA MmuInvariant == Spec => []IInv
BY IInvInit, IInvStep, PTL DEF Spec

\* Page numbers stay page numbers and the table has an entry for each: what a
\* walk computes fits the page-table entry it reads (translate_sv32, tlb_put).
THEOREM MmuTyped == Spec => []TypeOK
<1>1. IInv => TypeOK
    BY DEF IInv
<1> QED BY <1>1, MmuInvariant, PTL

\* A guest that flushes after it changes a valid entry never sees a cached
\* translation that its tables do not give (tlb_put, tlb_flush and the flush
\* in csr_write), the last page apart.
THEOREM Coherent == Spec => []MappingCoherent
<1>1. IInv => MappingCoherent
    <2> SUFFICES ASSUME IInv, ~stale, NEW vpn \in Vpn \ {LastVpn}, Cached(vpn)
                 PROVE  \E slot \in LeafSlot(vpn) :
                          tlb[vpn].phys = Physical(pt[slot], vpn, Level(vpn, slot))
        BY DEF MappingCoherent, Level
    <2> QED BY DEF IInv, Good, Agrees
<1> QED BY <1>1, MmuInvariant, PTL

\* No write goes to a page whose D bit is clear, hits included: a read's fill
\* does not vouch for writes (tlb_put keeps the marks apart).
THEOREM DirtyBeforeWrite == Spec => []WriteHitsAreDirty
<1>1. IInv => WriteHitsAreDirty
    <2> SUFFICES ASSUME IInv, ~stale, NEW vpn \in Vpn \ {LastVpn}, "WR" \in tlb[vpn].access
                 PROVE  \E slot \in LeafSlot(vpn) : {"R", "W", "A", "D"} \subseteq pt[slot].flags
        BY DEF WriteHitsAreDirty
    <2>1. Cached(vpn)
        BY DEF Cached
    <2> QED BY <2>1 DEF IInv, Good, Agrees
<1> QED BY <1>1, MmuInvariant, PTL

\* The same for reads and fetches and the A bit.
THEOREM AccessedBeforeRead == Spec => []ReadHitsAreAccessed
<1>1. IInv => ReadHitsAreAccessed
    <2> SUFFICES ASSUME IInv, ~stale, NEW vpn \in Vpn \ {LastVpn}, "RE" \in tlb[vpn].access
                 PROVE  \E slot \in LeafSlot(vpn) :
                          "A" \in pt[slot].flags /\ pt[slot].flags \cap {"R", "X"} # {}
        BY DEF ReadHitsAreAccessed
    <2>1. Cached(vpn)
        BY DEF Cached
    <2> QED BY <2>1 DEF IInv, Good, Agrees
<1> QED BY <1>1, MmuInvariant, PTL

\* Until the context changes, a hit gives what the walk would give now, its
\* permission checks included (the test of the TLB in mmu_template.h against
\* translate_sv32).
THEOREM HitsAreWalks == Spec => []HitsAgreeWithWalk
<1>1. IInv => HitsAgreeWithWalk
    <2> SUFFICES ASSUME IInv, ~stale, ~switched, sv32, NEW vpn \in Vpn \ {LastVpn}
                 PROVE  /\ "WR" \in tlb[vpn].access => Vouches(vpn, "WRITE", tlb[vpn].phys)
                        /\ "RE" \in tlb[vpn].access =>
                             \E acc \in {"READ", "EXECUTE"} : Vouches(vpn, acc, tlb[vpn].phys)
        BY DEF HitsAgreeWithWalk
    <2>1. ASSUME NEW slot \in LeafSlot(vpn), Agrees(vpn, slot), NEW acc, Allows(vpn, slot, acc)
          PROVE  Vouches(vpn, acc, tlb[vpn].phys)
        BY <2>1, LeafWalk DEF Vouches, Allows, Agrees
    <2>2. CASE tlb[vpn].access = {}
        BY <2>2
    <2>3. CASE Cached(vpn)
        <3>1. PICK slot \in LeafSlot(vpn) : Agrees(vpn, slot) /\ Checked(vpn, slot)
            BY <2>3 DEF IInv, Good
        <3> QED BY <2>1, <3>1 DEF Checked
    <2> QED BY <2>2, <2>3 DEF Cached
<1> QED BY <1>1, MmuInvariant, PTL
==============================================================================
