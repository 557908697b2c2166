------------------------------ MODULE Receiver -------------------------------
(***************************************************************************)
(* What the receive side of the UART amounts to, seen from the guest: a    *)
(* counter of the characters typed and not yet read, and one latch.  A read *)
(* returns the latest character typed, however many are waiting.           *)
(***************************************************************************)
EXTENDS Naturals

CONSTANTS Chars, Filler, Nul

VARIABLES count, latest, reply

Type(c) == count' = count + 1 /\ latest' = c /\ UNCHANGED reply

ReadData ==
    /\ IF count = 0
       THEN reply' = Filler /\ UNCHANGED count
       ELSE reply' = latest /\ count' = count - 1
    /\ UNCHANGED latest

ReadEmpty == reply' = (IF count = 0 THEN "empty" ELSE "ready") /\ UNCHANGED <<count, latest>>

\* Accesses that are refused, or that answer nothing of the receiver.
ReadOther == \E v \in {"zero", "fault"} : reply' = v /\ UNCHANGED <<count, latest>>

Init == count = 0 /\ latest \in Chars \cup {Nul} /\ reply = "zero"

Next == (\E c \in Chars : Type(c)) \/ ReadData \/ ReadEmpty \/ ReadOther

Spec == Init /\ [][Next]_<<count, latest, reply>>
==============================================================================
