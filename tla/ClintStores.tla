----------------------------- MODULE ClintStores -----------------------------
(***************************************************************************)
(* Clint with a history of the guest's stores to the comparator, to compare *)
(* the deadline the device keeps with the one the guest meant.             *)
(***************************************************************************)
EXTENDS Clint

VARIABLES
    low, high,   \* what the guest last stored in each half
    last         \* the half it stored last

HInit == Init /\ low = 0 /\ high = 0 /\ last = "high"

HNext ==
    \/ \E d \in Data :
        \/ WriteMtimecmpLow(d) /\ low' = d /\ last' = "low" /\ UNCHANGED high
        \/ WriteMtimecmpHigh(d) /\ high' = d /\ last' = "high" /\ UNCHANGED low
        \/ WriteMsip(d) /\ UNCHANGED <<low, high, last>>
    \/ (OtherInstr \/ clint_check_time) /\ UNCHANGED <<low, high, last>>

HSpec == HInit /\ [][HNext]_<<cvars, low, high, last>>

\* Whatever the order and number of half-word stores, the low half of the
\* comparator is the guest's, and after a store of the high half the deadline
\* is the double word the guest meant.  (A store of the low half clears the
\* high one, so the second clause cannot be asked of it.)
DeadlineAsWritten ==
    /\ mtimecmp % HalfMod = low
    /\ last = "high" => mtimecmp = low + high * HalfMod

\* Contradicted by the code: the halves may be stored in either order.
DeadlineAnyOrder == mtimecmp = low + high * HalfMod

=============================================================================
