--------------------------- MODULE ConsoleHistory ----------------------------
(***************************************************************************)
(* Console with the history of what the host typed, what passed the escape *)
(* and what the guest has read.                                            *)
(***************************************************************************)
EXTENDS Console, SequencesExt

CONSTANT MaxTyped   \* bound on the characters typed in a behaviour

VARIABLES
    typed,      \* every character the host has read
    accepted,   \* the characters that entered the buffer
    got         \* the characters the guest has read

allvars == <<convars, typed, accepted, got>>

HInit == Init /\ typed = <<>> /\ accepted = <<>> /\ got = <<>>

Types(chars) ==
    /\ Len(typed) + Len(chars) <= MaxTyped
    /\ typed' = typed \o chars
    /\ accepted' = IF len' > len THEN Append(accepted, Last(chars)) ELSE accepted
    /\ UNCHANGED got

HNext ==
    \/ \E ch \in Chars :
        \/ console_read(ch) /\ Types(<<ch>>)
        \/ console_read_again(ch) /\ Types(<<CtrlA, ch>>)
    \/ /\ ReadRXTX
       /\ got' = IF len > 0 THEN Append(got, reply') ELSE got
       /\ UNCHANGED <<typed, accepted>>
    \/ (ReadRXEMPTY \/ ReadOther \/ WrongSize) /\ UNCHANGED <<typed, accepted, got>>

HSpec == HInit /\ [][HNext]_allvars

-----------------------------------------------------------------------------
(* The escape as a function of the whole input: position i of s is a        *)
(* command or an escaped character when the Ctrl-A before it is not itself  *)
(* escaped, that is, when an odd number of Ctrl-A end the part before it.   *)

RunBefore(s, i) ==
    LET starts == {j \in 1..i : \A k \in j..(i - 1) : s[k] = CtrlA}
    IN  i - (CHOOSE j \in starts : \A k \in starts : j <= k)

IsEscaped(s, i) == RunBefore(s, i) % 2 = 1

Passes(s, i) == IF IsEscaped(s, i) THEN s[i] \notin {X, H} ELSE s[i] # CtrlA

Passing(s) == {i \in DOMAIN s : Passes(s, i)}

\* out holds the characters of s that pass, each at the place that the number
\* of those up to it gives.
IsFiltered(out, s) ==
    /\ Len(out) = Cardinality(Passing(s))
    /\ \A i \in Passing(s) : out[Cardinality({j \in Passing(s) : j <= i})] = s[i]

\* What reaches the guest's side of the escape depends on the characters
\* alone, never on how they were spread over the calls of console_read; the
\* process ends exactly at an escaped x.
EscapeIsAFilter ==
    /\ IsFiltered(accepted, typed)
    /\ running <=> \A i \in DOMAIN typed : ~(IsEscaped(typed, i) /\ typed[i] = X)

\* The guest reads one character for each one accepted, and each read returns
\* a character that was accepted by then.
NothingInvented ==
    /\ Len(got) + len = Len(accepted)
    /\ \A i \in DOMAIN got : \E j \in DOMAIN accepted : j >= i /\ accepted[j] = got[i]

\* Contradicted by the code: the guest reads what was typed, in order.
InputInOrder == IsPrefix(got, accepted)

==============================================================================
