------------------------------- MODULE Memmap --------------------------------
(***************************************************************************)
(* The table of physical windows (src/src/memmap.c): a window is where it  *)
(* starts, its size, and whether host memory or a device stands behind it.  *)
(***************************************************************************)
EXTENDS Integers, Sequences

CONSTANT MAX_ENTRY

ASSUME MaxEntryAssumption == MAX_ENTRY \in Nat \ {0}

VARIABLE entries     \* the windows in use; their number is position of the code

Window(type, start, size) == [type |-> type, start |-> start, size |-> size]

\* A window that finds no room is dropped without a word.
memmap_append(table, e) == IF Len(table) + 1 > MAX_ENTRY THEN table ELSE Append(table, e)

\* Mutant: the address behind the last one of a window is taken for its own.
Answers_inclusive(i, address) ==
    address >= entries[i].start /\ address <= entries[i].start + entries[i].size
Answers(i, address) ==
    address >= entries[i].start /\ address < entries[i].start + entries[i].size

NULL == 0

\* The first window that holds the address.
memmap_get(address) ==
    IF \E i \in DOMAIN entries : Answers(i, address)
    THEN CHOOSE i \in DOMAIN entries :
             Answers(i, address) /\ \A j \in 1..(i - 1) : ~Answers(j, address)
    ELSE NULL

\* A lookup that finds nothing also looks at the entry behind the last one.  It
\* is NULL while the table has room; behind a full table it is host memory.
LooksBehindTable(address) == memmap_get(address) = NULL /\ Len(entries) = MAX_ENTRY
==============================================================================
