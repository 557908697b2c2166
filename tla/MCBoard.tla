------------------------------- MODULE MCBoard -------------------------------
(* Instance of Board for TLC: pages of four bytes; a window of RAM of two      *)
(* pages at 8 and one of one page at 0, an UART that ends inside a page,   *)
(* a CLINT with registers to write at 28 and 31 and to read at all but 30.     *)
EXTENDS Board

CONSTANT None

\* Virtual pages onto the last page of RAM, its first, low memory, the
\* devices, nothing, and in no order.
MCMaps == {<<3, 2, 0, None>>, <<2, 3, 4, 8>>, <<0, 4, 6, 5>>, <<7, 3, 6, 1>>}

MCFiles ==
    {[dtb |-> d, fw |-> f, initrd |-> i] :
        d \in {-1, 0, 2, 3, 4, 5}, f \in {-1, 0, 4, 6, 9}, i \in {-1, 0, 1, 4, 8, 9}}

\* Priority of source 1, pending, the enables of two contexts, and the words
\* of both contexts with their neighbours.
MCPlicOffsets ==
    {4, 4096, 8192, 8192 + 128} \cup {THRESHOLD_AND_CLAIM + o : o \in {0, 4, 8, 4096, 4100}}
==============================================================================
