------------------------------- MODULE Console -------------------------------
(***************************************************************************)
(* The console (src/src/console.c) and the UART in front of it             *)
(* (src/src/uart.c): characters typed on the host pass the Ctrl-A escape   *)
(* and enter a ring buffer in console_read, which the main loop calls       *)
(* between two batches; the guest reads them through the UART's registers. *)
(*                                                                         *)
(* The host's terminal is external: a read finds nothing or any character. *)
(***************************************************************************)
EXTENDS Integers

CONSTANTS
    BUFSIZE,    \* size of the ring buffer (256 in the code)
    Plain,      \* characters without a meaning to the escape
    CtrlA, X, H, \* the escape character, and its two commands
    Nul,        \* what the zeroed buffer holds
    Filler,     \* what an empty receiver returns: -1 cut to 8 bits
    MaxLen      \* bound: the host types nothing more when len is MaxLen

Chars == Plain \cup {CtrlA, X, H}

ASSUME BufsizeAssumption == BUFSIZE \in Nat \ {0}
ASSUME MaxLenAssumption == MaxLen \in Nat
ASSUME FillerAssumption == Filler \notin Chars

VARIABLES
    buffer, start, len,   \* the ring, its read position and its fill
    esc_state,            \* the last character read was an unanswered Ctrl-A
    running,              \* FALSE once Ctrl-A x has ended the process
    reply                 \* what the last register read returned to the guest

ring == <<buffer, start, len>>
convars == <<buffer, start, len, esc_state, running, reply>>

TypeOK ==
    /\ buffer \in [0..(BUFSIZE - 1) -> Chars \cup {Nul}]
    /\ start \in 0..(BUFSIZE - 1)
    /\ len \in 0..MaxLen
    /\ esc_state \in BOOLEAN /\ running \in BOOLEAN
    /\ reply \in Chars \cup {Nul, Filler, "zero", "fault", "empty", "ready"}

-----------------------------------------------------------------------------
INDEX(i) == (start + i) % BUFSIZE

\* Mutant: the character is stored one place too far.
write_to_buffer_off(ch) ==
    /\ buffer' = [buffer EXCEPT ![INDEX(len + 1)] = ch]
    /\ len' = len + 1
    /\ UNCHANGED start

\* There is no test against BUFSIZE: len grows past it and old characters are
\* overwritten.
write_to_buffer(ch) ==
    /\ buffer' = [buffer EXCEPT ![INDEX(len)] = ch]
    /\ len' = len + 1
    /\ UNCHANGED start

\* Mutant: a second Ctrl-A starts the escape again.
Escaped_again(ch) ==
    /\ esc_state' = (ch = CtrlA)
    /\ running' = (ch # X)
    /\ IF ch \in {X, H, CtrlA} THEN UNCHANGED ring ELSE write_to_buffer(ch)

\* The character after a Ctrl-A: a command, or one that is passed on.
Escaped(ch) ==
    /\ esc_state' = FALSE
    /\ running' = (ch # X)
    /\ IF ch \in {X, H} THEN UNCHANGED ring ELSE write_to_buffer(ch)

\* A call of console_read that finds ch as its first character.  After a
\* Ctrl-A the call reads again, and may find nothing.
console_read(ch) ==
    /\ running /\ len < MaxLen
    /\ \/ esc_state /\ Escaped(ch)
       \/ /\ ~esc_state /\ ch # CtrlA
          /\ write_to_buffer(ch)
          /\ UNCHANGED <<esc_state, running>>
       \/ /\ ~esc_state /\ ch = CtrlA
          /\ esc_state' = TRUE
          /\ UNCHANGED <<ring, running>>
    /\ UNCHANGED reply

\* The second turn of the loop: Ctrl-A and its successor in one call.
console_read_again(ch) ==
    /\ running /\ len < MaxLen
    /\ ~esc_state
    /\ Escaped(ch)
    /\ UNCHANGED reply

-----------------------------------------------------------------------------
(* The UART's read handler.  Only accesses of four bytes are answered. *)

\* Mutant: an empty buffer is read like any other.
console_get_char_unchecked ==
    /\ reply' = buffer[INDEX(len - 1)]
    /\ start' = (start + 1) % BUFSIZE
    /\ len' = len - 1
    /\ UNCHANGED buffer

\* console_get_char takes the character at len - 1, the newest, and moves the
\* start, as if it had taken the oldest.
console_get_char ==
    IF len # 0
    THEN /\ reply' = buffer[INDEX(len - 1)]
         /\ start' = (start + 1) % BUFSIZE
         /\ len' = len - 1
         /\ UNCHANGED buffer
    ELSE reply' = Filler /\ UNCHANGED ring

Guest == running /\ UNCHANGED <<esc_state, running>>

ReadRXTX == Guest /\ console_get_char

ReadRXEMPTY == Guest /\ reply' = (IF len = 0 THEN "empty" ELSE "ready") /\ UNCHANGED ring

ReadOther == Guest /\ reply' = "zero" /\ UNCHANGED ring

WrongSize == Guest /\ reply' = "fault" /\ UNCHANGED ring

-----------------------------------------------------------------------------
Init ==
    /\ buffer = [i \in 0..(BUFSIZE - 1) |-> Nul]
    /\ start = 0 /\ len = 0
    /\ esc_state = FALSE /\ running = TRUE
    /\ reply = "zero"

Next ==
    \/ \E ch \in Chars : console_read(ch) \/ console_read_again(ch)
    \/ ReadRXTX
    \/ ReadRXEMPTY
    \/ ReadOther
    \/ WrongSize

Spec == Init /\ [][Next]_convars

-----------------------------------------------------------------------------
(* Properties *)

\* The ring buffer is no queue: whatever its size and however far it has
\* overflowed, the guest sees a counter and the latest character.  A read
\* moves start and len by one in opposite directions, so the next free place
\* start + len stays where it is, and every read looks just below it.
R == INSTANCE Receiver WITH
        count <- len,
        latest <- buffer[(start + len - 1) % BUFSIZE]
ReceiverSpec == R!Spec

==============================================================================
