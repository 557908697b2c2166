---------------------------- MODULE ConsoleProofs ----------------------------
(***************************************************************************)
(* The receive side of the console, for every size of the ring buffer,     *)
(* every set of characters and any number of characters typed ahead.       *)
(***************************************************************************)
EXTENDS ConsoleHistory, SequenceTheorems, FiniteSetTheorems, TLAPS

\* Places of the ring are counted modulo its size, before its start too.
LEMMA Around ==
    ASSUME NEW B \in Nat \ {0}, NEW i \in Int
    PROVE  i % B \in 0..(B - 1) /\ (i + B) % B = i % B
<1>1. i % B \in 0..(B - 1) /\ i = B * (i \div B) + (i % B) /\ i \div B \in Int
    OBVIOUS
<1>2. \A d \in Int, r \in 0..(B - 1) : (B * d + r) % B = r
    OBVIOUS
<1>3. i + B = B * ((i \div B) + 1) + (i % B)
    BY <1>1
<1> QED BY <1>1, <1>2, <1>3

\* A read moves the start up and the fill down: the next free place stays.
LEMMA SamePlace ==
    ASSUME NEW B \in Nat \ {0}, NEW s \in 0..(B - 1), NEW n \in Nat
    PROVE  (((s + 1) % B) + (n - 1) - 1) % B = (s + n - 1) % B
<1>1. CASE s + 1 < B
    <2>1. (s + 1) % B = s + 1
        BY <1>1
    <2> QED BY <2>1
<1>2. CASE s + 1 = B
    <2>1. (s + 1) % B = 0
        BY <1>2
    <2> DEFINE before == s + n - 1
               after == ((s + 1) % B) + (n - 1) - 1
    <2>2. after \in Int /\ before = after + B
        BY <1>2, <2>1
    <2> HIDE DEF before, after
    <2>3. after % B = before % B
        BY <2>2, Around
    <2> QED BY <2>3 DEF before, after
<1> QED BY <1>1, <1>2

-----------------------------------------------------------------------------
(* Types *)

LEMMA Place ==
    ASSUME TypeOK, NEW i \in Int
    PROVE  INDEX(i) \in 0..(BUFSIZE - 1)
<1>1. start + i \in Int
    BY DEF TypeOK
<1> QED BY <1>1, Around, BufsizeAssumption DEF INDEX

LEMMA WriteTyped ==
    ASSUME TypeOK, NEW ch \in Chars, len < MaxLen, write_to_buffer(ch)
    PROVE  /\ buffer' \in [0..(BUFSIZE - 1) -> Chars \cup {Nul}]
           /\ start' = start /\ len' = len + 1 /\ len' \in 0..MaxLen
<1>1. len \in Nat /\ MaxLen \in Nat
    BY MaxLenAssumption DEF TypeOK
<1>2. INDEX(len) \in 0..(BUFSIZE - 1)
    BY <1>1, Place
<1> QED BY <1>1, <1>2 DEF write_to_buffer, TypeOK

LEMMA EscapedTyped ==
    ASSUME TypeOK, NEW ch \in Chars, len < MaxLen, Escaped(ch), reply' = reply
    PROVE  TypeOK'
<1>1. esc_state' \in BOOLEAN /\ running' \in BOOLEAN
    BY DEF Escaped
<1>2. CASE ch \in {X, H}
    BY <1>1, <1>2 DEF Escaped, TypeOK, ring
<1>3. CASE ch \notin {X, H}
    <2>1. write_to_buffer(ch)
        BY <1>3 DEF Escaped
    <2> QED BY <1>1, <2>1, WriteTyped DEF TypeOK
<1> QED BY <1>2, <1>3

LEMMA CharTyped ==
    ASSUME TypeOK, ReadRXTX
    PROVE  TypeOK'
<1>1. esc_state' = esc_state /\ running' = running /\ console_get_char
    BY DEF ReadRXTX, Guest
<1>2. CASE len = 0
    BY <1>1, <1>2 DEF console_get_char, TypeOK, ring
<1>3. CASE len # 0
    <2>1. len \in Nat /\ len - 1 \in 0..MaxLen
        BY <1>3, MaxLenAssumption DEF TypeOK
    <2>2. INDEX(len - 1) \in 0..(BUFSIZE - 1)
        BY <2>1, Place
    <2>3. (start + 1) % BUFSIZE \in 0..(BUFSIZE - 1)
        BY Around, BufsizeAssumption DEF TypeOK
    <2>4. reply' \in Chars \cup {Nul}
        BY <1>1, <1>3, <2>2 DEF console_get_char, TypeOK
    <2>5. buffer' = buffer /\ start' = (start + 1) % BUFSIZE /\ len' = len - 1
        BY <1>1, <1>3 DEF console_get_char
    <2> QED BY <1>1, <2>1, <2>3, <2>4, <2>5 DEF TypeOK
<1> QED BY <1>2, <1>3

\* The ring buffer is only indexed inside itself, and len never becomes
\* negative: an empty buffer answers the filler (write_to_buffer,
\* console_get_char), for every size of the ring.
THEOREM ConsoleTyped == Spec => []TypeOK
<1>1. Init => TypeOK
    <2>1. 0 \in 0..(BUFSIZE - 1) /\ 0 \in 0..MaxLen
        BY BufsizeAssumption, MaxLenAssumption
    <2>2. [i \in 0..(BUFSIZE - 1) |-> Nul] \in [0..(BUFSIZE - 1) -> Chars \cup {Nul}]
        OBVIOUS
    <2> QED BY <2>1, <2>2 DEF Init, TypeOK
<1>2. TypeOK /\ [Next]_convars => TypeOK'
    <2> SUFFICES ASSUME TypeOK, [Next]_convars
                 PROVE  TypeOK'
        OBVIOUS
    <2>1. ASSUME NEW ch \in Chars, console_read(ch)
          PROVE  TypeOK'
        <3>1. len < MaxLen /\ reply' = reply
            BY <2>1 DEF console_read
        <3>2. CASE esc_state /\ Escaped(ch)
            BY <3>1, <3>2, EscapedTyped
        <3>3. CASE write_to_buffer(ch) /\ UNCHANGED <<esc_state, running>>
            BY <3>1, <3>3, WriteTyped DEF TypeOK
        <3>4. CASE esc_state' = TRUE /\ UNCHANGED <<ring, running>>
            BY <3>1, <3>4 DEF TypeOK, ring
        <3> QED BY <2>1, <3>2, <3>3, <3>4 DEF console_read
    <2>2. ASSUME NEW ch \in Chars, console_read_again(ch)
          PROVE  TypeOK'
        BY <2>2, EscapedTyped DEF console_read_again
    <2>3. CASE ReadRXTX
        BY <2>3, CharTyped
    <2>4. CASE ReadRXEMPTY \/ ReadOther \/ WrongSize
        BY <2>4 DEF ReadRXEMPTY, ReadOther, WrongSize, Guest, ring, TypeOK
    <2>5. CASE UNCHANGED convars
        BY <2>5 DEF convars, TypeOK
    <2> QED BY <2>1, <2>2, <2>3, <2>4, <2>5 DEF Next
<1> QED BY <1>1, <1>2, PTL DEF Spec

-----------------------------------------------------------------------------
(* The refinement *)

latest == buffer[(start + len - 1) % BUFSIZE]

LEMMA WriteTypes ==
    ASSUME TypeOK, NEW ch \in Chars, write_to_buffer(ch)
    PROVE  len' = len + 1 /\ latest' = ch
<1>1. len \in Nat /\ start \in Nat
    BY DEF TypeOK
<1>2. INDEX(len) \in 0..(BUFSIZE - 1)
    BY <1>1, Place
<1>3. buffer'[INDEX(len)] = ch
    BY <1>2 DEF write_to_buffer, TypeOK
<1>4. start' = start /\ len' = len + 1
    BY DEF write_to_buffer
<1>5. start' + len' - 1 = start + len
    BY <1>1, <1>4
<1> QED BY <1>3, <1>4, <1>5 DEF INDEX, latest

LEMMA EscapedTypes ==
    ASSUME TypeOK, NEW ch \in Chars, Escaped(ch), reply' = reply
    PROVE  R!Type(ch) \/ UNCHANGED <<len, latest, reply>>
<1>1. CASE UNCHANGED ring
    BY <1>1 DEF ring, latest
<1>2. CASE write_to_buffer(ch)
    BY <1>2, WriteTypes DEF R!Type, latest
<1> QED BY <1>1, <1>2 DEF Escaped

LEMMA CharReads ==
    ASSUME TypeOK, console_get_char
    PROVE  R!ReadData
<1>1. CASE len = 0
    BY <1>1 DEF console_get_char, ring, R!ReadData
<1>2. CASE len # 0
    <2>1. len \in Nat /\ start \in 0..(BUFSIZE - 1) /\ BUFSIZE \in Nat \ {0}
        BY BufsizeAssumption DEF TypeOK
    <2>2. /\ reply' = buffer[INDEX(len - 1)] /\ buffer' = buffer
          /\ start' = (start + 1) % BUFSIZE /\ len' = len - 1
        BY <1>2 DEF console_get_char
    <2>3. start + (len - 1) = start + len - 1
        BY <2>1
    <2>4. reply' = latest
        BY <2>2, <2>3 DEF INDEX, latest
    <2>5. (start' + len' - 1) % BUFSIZE = (start + len - 1) % BUFSIZE
        BY <2>1, <2>2, SamePlace
    <2>6. latest' = latest
        BY <2>2, <2>5 DEF latest
    <2> QED BY <1>2, <2>2, <2>4, <2>6 DEF R!ReadData, latest
<1> QED BY <1>1, <1>2

\* Whatever the size of the ring and however far it overflows, the guest sees
\* one latch and a counter of the characters typed ahead (write_to_buffer and
\* console_get_char move start and len against each other).
THEOREM ReceiverRefined == Spec => ReceiverSpec
<1>1. Init => R!Init
    <2> SUFFICES ASSUME Init
                 PROVE  R!Init
        OBVIOUS
    <2>1. (0 + 0 - 1) % BUFSIZE \in 0..(BUFSIZE - 1)
        BY Around, BufsizeAssumption
    <2>2. latest = Nul
        BY <2>1 DEF Init, latest
    <2> QED BY <2>2 DEF Init, R!Init, latest
<1>2. TypeOK /\ [Next]_convars => [R!Next]_<<len, latest, reply>>
    <2> SUFFICES ASSUME TypeOK, [Next]_convars
                 PROVE  R!Next \/ UNCHANGED <<len, latest, reply>>
        OBVIOUS
    <2>1. ASSUME NEW ch \in Chars, console_read(ch)
          PROVE  R!Type(ch) \/ UNCHANGED <<len, latest, reply>>
        <3>1. reply' = reply
            BY <2>1 DEF console_read
        <3>2. CASE Escaped(ch)
            BY <3>1, <3>2, EscapedTypes
        <3>3. CASE write_to_buffer(ch)
            BY <3>1, <3>3, WriteTypes DEF R!Type, latest
        <3>4. CASE UNCHANGED ring
            BY <3>1, <3>4 DEF ring, latest
        <3> QED BY <2>1, <3>2, <3>3, <3>4 DEF console_read
    <2>2. ASSUME NEW ch \in Chars, console_read_again(ch)
          PROVE  R!Type(ch) \/ UNCHANGED <<len, latest, reply>>
        BY <2>2, EscapedTypes DEF console_read_again
    <2>3. CASE ReadRXTX
        BY <2>3, CharReads DEF ReadRXTX, R!Next
    <2>4. CASE ReadRXEMPTY
        BY <2>4 DEF ReadRXEMPTY, ring, R!Next, R!ReadEmpty, latest
    <2>5. CASE ReadOther \/ WrongSize
        BY <2>5 DEF ReadOther, WrongSize, ring, R!Next, R!ReadOther, latest
    <2>6. CASE UNCHANGED convars
        BY <2>6 DEF convars, latest
    <2> QED BY <2>1, <2>2, <2>3, <2>4, <2>5, <2>6 DEF Next, R!Next
<1> QED BY <1>1, <1>2, ConsoleTyped, PTL DEF Spec, ReceiverSpec, R!Spec, latest

-----------------------------------------------------------------------------
(* The history: every step of it is a step of the console *)

LEMMA HistoryImplements == HSpec => Spec
<1>1. HInit => Init
    BY DEF HInit
<1>2. [HNext]_allvars => [Next]_convars
    BY DEF HNext, allvars, Next
<1> QED BY <1>1, <1>2, PTL DEF HSpec, Spec

\* The histories are sequences of characters.
HistoriesTyped == typed \in Seq(Chars) /\ accepted \in Seq(Chars) /\ got \in Seq(Chars)

\* What the guest read is accounted for; the latch is the character that was
\* accepted last.
ReadInv ==
    /\ HistoriesTyped
    /\ len > 0 => latest = accepted[Len(accepted)]
    /\ NothingInvented

\* Whatever a call of console_read does, it accepts one character or none, and
\* the one it accepts is the last it has read.
LEMMA CallAccepts ==
    ASSUME TypeOK, NEW ch \in Chars, console_read(ch) \/ console_read_again(ch)
    PROVE  \/ write_to_buffer(ch)
           \/ UNCHANGED ring
BY DEF console_read, console_read_again, Escaped

LEMMA TypesKeeps ==
    ASSUME TypeOK, ReadInv, NEW ch \in Chars, NEW chars \in Seq(Chars),
           chars # <<>>, Last(chars) = ch,
           console_read(ch) \/ console_read_again(ch), Types(chars)
    PROVE  ReadInv'
<1>1. typed' \in Seq(Chars) /\ got' = got
    BY ConcatProperties DEF Types, ReadInv, HistoriesTyped
<1>2. len \in Nat /\ Len(accepted) \in Nat /\ Len(got) \in Nat
    BY LenProperties DEF TypeOK, ReadInv, HistoriesTyped
<1>3. CASE write_to_buffer(ch)
    <2>1. len' = len + 1 /\ latest' = ch
        BY <1>3, WriteTypes
    <2>2. accepted' = Append(accepted, ch)
        BY <1>2, <2>1 DEF Types
    <2>3. /\ accepted' \in Seq(Chars) /\ Len(accepted') = Len(accepted) + 1
          /\ \A i \in 1..Len(accepted) : accepted'[i] = accepted[i]
          /\ accepted'[Len(accepted) + 1] = ch
        BY <2>2, AppendProperties DEF ReadInv, HistoriesTyped
    <2>4. DOMAIN accepted = 1..Len(accepted) /\ DOMAIN accepted' = 1..(Len(accepted) + 1)
        BY <2>3, LenProperties DEF ReadInv, HistoriesTyped
    <2>5. ASSUME NEW i \in DOMAIN got
          PROVE  \E j \in DOMAIN accepted' : j >= i /\ accepted'[j] = got[i]
        <3>1. PICK j \in DOMAIN accepted : j >= i /\ accepted[j] = got[i]
            BY DEF ReadInv, NothingInvented
        <3> QED BY <1>2, <2>3, <2>4, <3>1
    <2>6. NothingInvented'
        BY <1>1, <1>2, <2>1, <2>3, <2>5 DEF ReadInv, NothingInvented
    <2> QED BY <1>1, <2>1, <2>3, <2>6 DEF ReadInv, HistoriesTyped
<1>4. CASE UNCHANGED ring
    <2>1. len' = len /\ latest' = latest
        BY <1>4 DEF ring, latest
    <2>2. accepted' = accepted
        BY <1>2, <2>1 DEF Types
    <2> QED BY <1>1, <2>1, <2>2 DEF ReadInv, HistoriesTyped, NothingInvented
<1> QED BY <1>3, <1>4, CallAccepts

LEMMA ReadKeeps ==
    ASSUME TypeOK, ReadInv, ReadRXTX,
           got' = IF len > 0 THEN Append(got, reply') ELSE got,
           UNCHANGED <<typed, accepted>>
    PROVE  ReadInv'
<1>1. R!ReadData
    BY CharReads DEF ReadRXTX
<1>2. len \in Nat /\ Len(accepted) \in Nat /\ Len(got) \in Nat
    BY LenProperties DEF TypeOK, ReadInv, HistoriesTyped
<1>3. latest' = latest
    BY <1>1 DEF R!ReadData, latest
<1>4. CASE len = 0
    <2>1. len' = len
        BY <1>1, <1>4 DEF R!ReadData
    <2> QED BY <1>3, <1>4, <2>1 DEF ReadInv, HistoriesTyped, NothingInvented
<1>5. CASE len > 0
    <2>1. reply' = latest /\ len' = len - 1
        BY <1>1, <1>5 DEF R!ReadData, latest
    <2>2. /\ Len(accepted) >= Len(got) + 1 /\ DOMAIN accepted = 1..Len(accepted)
          /\ Len(accepted) \in DOMAIN accepted
          /\ latest = accepted[Len(accepted)]
        BY <1>2, <1>5, LenProperties DEF ReadInv, HistoriesTyped, NothingInvented
    <2>3. latest \in Chars
        BY <2>2, ElementOfSeq DEF ReadInv, HistoriesTyped
    <2>4. got' = Append(got, latest)
        BY <1>5, <2>1
    <2>5. /\ got' \in Seq(Chars) /\ Len(got') = Len(got) + 1
          /\ \A i \in 1..Len(got) : got'[i] = got[i]
          /\ got'[Len(got) + 1] = latest
        BY <2>3, <2>4, AppendProperties DEF ReadInv, HistoriesTyped
    <2>6. DOMAIN got = 1..Len(got) /\ DOMAIN got' = 1..(Len(got) + 1)
        BY <2>5, LenProperties DEF ReadInv, HistoriesTyped
    <2>7. ASSUME NEW i \in DOMAIN got'
          PROVE  \E j \in DOMAIN accepted : j >= i /\ accepted[j] = got'[i]
        <3>1. CASE i \in DOMAIN got
            BY <2>5, <2>6, <3>1 DEF ReadInv, NothingInvented
        <3>2. CASE i = Len(got) + 1
            BY <2>2, <2>5, <3>2
        <3> QED BY <1>2, <2>6, <3>1, <3>2
    <2>8. NothingInvented'
        BY <1>2, <2>1, <2>5, <2>7 DEF ReadInv, NothingInvented
    <2> QED BY <1>3, <1>5, <2>1, <2>5, <2>8 DEF ReadInv, HistoriesTyped
<1> QED BY <1>2, <1>4, <1>5

LEMMA OneChar ==
    ASSUME NEW ch \in Chars
    PROVE  /\ <<ch>> \in Seq(Chars) /\ <<ch>> # <<>> /\ Last(<<ch>>) = ch
           /\ <<CtrlA, ch>> \in Seq(Chars) /\ <<CtrlA, ch>> # <<>> /\ Last(<<CtrlA, ch>>) = ch
BY DEF Last, Chars

LEMMA ReadStep == TypeOK /\ ReadInv /\ [HNext]_allvars => ReadInv'
<1> SUFFICES ASSUME TypeOK, ReadInv, [HNext]_allvars
             PROVE  ReadInv'
    OBVIOUS
<1>1. ASSUME NEW ch \in Chars,
             \/ console_read(ch) /\ Types(<<ch>>)
             \/ console_read_again(ch) /\ Types(<<CtrlA, ch>>)
      PROVE  ReadInv'
    BY <1>1, OneChar, TypesKeeps
<1>2. CASE /\ ReadRXTX
           /\ got' = IF len > 0 THEN Append(got, reply') ELSE got
           /\ UNCHANGED <<typed, accepted>>
    BY <1>2, ReadKeeps
<1>3. CASE UNCHANGED ring /\ UNCHANGED <<typed, accepted, got>>
    BY <1>3 DEF ring, latest, ReadInv, HistoriesTyped, NothingInvented
<1>4. (ReadRXEMPTY \/ ReadOther \/ WrongSize) => UNCHANGED ring
    BY DEF ReadRXEMPTY, ReadOther, WrongSize
<1>5. UNCHANGED allvars => UNCHANGED ring /\ UNCHANGED <<typed, accepted, got>>
    BY DEF allvars, convars, ring
<1> QED BY <1>1, <1>2, <1>3, <1>4, <1>5 DEF HNext

\* Though the guest reads one latch, it reads one character for each that was
\* accepted, and none before it was typed: whatever the ring's size, the input
\* and the moments at which the guest reads.
THEOREM NoneInvented == HSpec => []NothingInvented
<1>1. HInit => ReadInv
    <2> SUFFICES ASSUME HInit
                 PROVE  ReadInv
        OBVIOUS
    <2>1. /\ typed \in Seq(Chars) /\ accepted \in Seq(Chars) /\ got \in Seq(Chars)
          /\ Len(got) = 0 /\ Len(accepted) = 0 /\ DOMAIN got = {} /\ len = 0
        BY EmptySeq DEF HInit, Init
    <2> QED BY <2>1 DEF ReadInv, HistoriesTyped, NothingInvented
<1>2. ReadInv => NothingInvented
    BY DEF ReadInv
<1> QED BY <1>1, <1>2, ReadStep, HistoryImplements, ConsoleTyped, PTL DEF HSpec

-----------------------------------------------------------------------------
(* The escape.  What it does to the character at i depends on the run of    *)
(* Ctrl-A that ends just before i; the run grows or starts anew with each   *)
(* character, as the state of the code changes.                             *)

\* The run that ends before i starts at j.
RunStarts(s, i, j) ==
    /\ j \in 1..i
    /\ \A k \in j..(i - 1) : s[k] = CtrlA
    /\ j = 1 \/ s[j - 1] # CtrlA

LEMMA RunLength ==
    ASSUME NEW s, NEW i \in Nat \ {0}, NEW j, RunStarts(s, i, j)
    PROVE  RunBefore(s, i) = i - j
<1> DEFINE starts == {h \in 1..i : \A k \in h..(i - 1) : s[k] = CtrlA}
           first == CHOOSE h \in starts : \A k \in starts : h <= k
<1>1. j \in starts
    BY DEF RunStarts
<1>2. ASSUME NEW h \in starts
      PROVE  j <= h
    <2> SUFFICES ASSUME h < j
                 PROVE  FALSE
        BY DEF RunStarts
    <2>1. j - 1 \in h..(i - 1) /\ j # 1
        BY DEF RunStarts
    <2> QED BY <2>1 DEF RunStarts
<1>3. first \in starts /\ \A k \in starts : first <= k
    BY <1>1, <1>2
<1>4. first = j
    BY <1>1, <1>2, <1>3 DEF RunStarts
<1> QED BY <1>4 DEF RunBefore

LEMMA RunGrows ==
    ASSUME NEW s \in Seq(Chars), NEW e \in Chars, NEW j, RunStarts(s, Len(s) + 1, j)
    PROVE  RunStarts(Append(s, e), Len(s) + 2, IF e = CtrlA THEN j ELSE Len(s) + 2)
<1> DEFINE t == Append(s, e)
<1>1. /\ Len(s) \in Nat /\ \A i \in 1..Len(s) : t[i] = s[i]
      /\ t[Len(s) + 1] = e
    BY AppendProperties, LenProperties
<1> HIDE DEF t
<1>2. j \in 1..(Len(s) + 1) /\ (j = 1 \/ s[j - 1] # CtrlA)
    BY DEF RunStarts
<1>3. CASE e = CtrlA
    <2>1. \A k \in j..(Len(s) + 1) : t[k] = CtrlA
        BY <1>1, <1>2, <1>3 DEF RunStarts
    <2>2. j = 1 \/ t[j - 1] # CtrlA
        BY <1>1, <1>2
    <2> QED BY <1>1, <1>2, <1>3, <2>1, <2>2 DEF RunStarts, t
<1>4. CASE e # CtrlA
    BY <1>1, <1>4 DEF RunStarts, t
<1> QED BY <1>3, <1>4

\* What comes later does not change what passed.
LEMMA PastKept ==
    ASSUME NEW s \in Seq(Chars), NEW e \in Chars, NEW i \in 1..Len(s)
    PROVE  /\ IsEscaped(Append(s, e), i) = IsEscaped(s, i)
           /\ Passes(Append(s, e), i) = Passes(s, i)
<1> DEFINE t == Append(s, e)
<1>1. Len(s) \in Nat /\ \A k \in 1..Len(s) : t[k] = s[k]
    BY AppendProperties, LenProperties
<1> HIDE DEF t
<1>2. {h \in 1..i : \A k \in h..(i - 1) : t[k] = CtrlA}
        = {h \in 1..i : \A k \in h..(i - 1) : s[k] = CtrlA}
    BY <1>1
<1>3. RunBefore(t, i) = RunBefore(s, i)
    BY <1>2 DEF RunBefore
<1> QED BY <1>1, <1>3 DEF IsEscaped, Passes, t

LEMMA NextEscaped ==
    ASSUME NEW s \in Seq(Chars), NEW e \in Chars
    PROVE  IsEscaped(Append(s, e), Len(s) + 1) = IsEscaped(s, Len(s) + 1)
<1> DEFINE t == Append(s, e)
<1>1. Len(s) \in Nat /\ \A k \in 1..Len(s) : t[k] = s[k]
    BY AppendProperties, LenProperties
<1> HIDE DEF t
<1> DEFINE n == Len(s) + 1
<1>2. \A k \in Nat : k <= n - 1 => k <= Len(s)
    BY <1>1
<1>3. {h \in 1..n : \A k \in h..(n - 1) : t[k] = CtrlA}
        = {h \in 1..n : \A k \in h..(n - 1) : s[k] = CtrlA}
    BY <1>1, <1>2
<1> HIDE DEF n
<1>4. RunBefore(t, n) = RunBefore(s, n)
    BY <1>3 DEF RunBefore
<1> QED BY <1>4 DEF IsEscaped, t, n

\* The sequence with one character more, or not, according to whether it passes.
LEMMA FilterGrows ==
    ASSUME NEW s \in Seq(Chars), NEW e \in Chars, NEW out \in Seq(Chars), IsFiltered(out, s)
    PROVE  IsFiltered(IF Passes(Append(s, e), Len(s) + 1) THEN Append(out, e) ELSE out,
                      Append(s, e))
<1> DEFINE n == Len(s) + 1
           t == Append(s, e)
           Upto(r, i) == {j \in Passing(r) : j <= i}
<1>1. /\ Len(s) \in Nat /\ DOMAIN s = 1..Len(s) /\ DOMAIN t = 1..n
      /\ t[n] = e /\ \A i \in 1..Len(s) : t[i] = s[i]
    <2>1. t \in Seq(Chars) /\ Len(t) = n
        BY AppendProperties
    <2> QED BY <2>1, AppendProperties, LenProperties
<1>2. Passing(s) \in SUBSET (1..Len(s)) /\ IsFiniteSet(Passing(s))
    <2>1. Passing(s) \in SUBSET (1..Len(s))
        BY <1>1 DEF Passing
    <2>2. IsFiniteSet(1..Len(s))
        BY <1>1, FS_Interval
    <2> QED BY <2>1, <2>2, FS_Subset
<1>3. \A i \in 1..Len(s) : Passes(t, i) = Passes(s, i)
    BY PastKept
<1>4. \A i \in Passing(s) : t[i] = s[i] /\ Upto(s, i) \in SUBSET Passing(s)
                              /\ i \in Upto(s, i)
    BY <1>1, <1>2
<1>5. ASSUME NEW i \in Passing(s)
      PROVE  Cardinality(Upto(s, i)) \in 1..Len(out)
    <2>1. IsFiniteSet(Upto(s, i)) /\ Cardinality(Upto(s, i)) <= Cardinality(Passing(s))
        BY <1>2, <1>4, FS_Subset
    <2>2. Cardinality(Upto(s, i)) \in Nat /\ Upto(s, i) # {}
        BY <1>4, <2>1, FS_CardinalityType
    <2>3. Cardinality(Upto(s, i)) # 0
        BY <2>1, <2>2, FS_EmptySet
    <2> QED BY <2>1, <2>2, <2>3, LenProperties DEF IsFiltered
<1>6. Len(out) = Cardinality(Passing(s)) /\ Len(out) \in Nat
      /\ \A i \in Passing(s) : out[Cardinality(Upto(s, i))] = s[i]
    BY LenProperties DEF IsFiltered
<1>7. CASE ~Passes(t, n)
    <2>1. Passing(t) = Passing(s)
        BY <1>1, <1>3, <1>7 DEF Passing
    <2>2. \A i : Upto(t, i) = Upto(s, i)
        BY <2>1
    <2> QED BY <1>4, <1>6, <1>7, <2>1, <2>2 DEF IsFiltered
<1>8. CASE Passes(t, n)
    <2> DEFINE more == Append(out, e)
    <2>1. Passing(t) = Passing(s) \cup {n}
        BY <1>1, <1>3, <1>8 DEF Passing
    <2>2. n \notin Passing(s)
        BY <1>1, <1>2
    <2>3. /\ Len(more) = Len(out) + 1 /\ more[Len(out) + 1] = e
          /\ \A i \in 1..Len(out) : more[i] = out[i]
        BY AppendProperties
    <2>4. Cardinality(Passing(t)) = Len(out) + 1
        <3>1. Cardinality(Passing(s) \cup {n}) = Cardinality(Passing(s)) + 1
            BY <1>2, <2>2, FS_AddElement
        <3> QED BY <1>6, <2>1, <3>1
    <2>5. ASSUME NEW i \in Passing(s)
          PROVE  more[Cardinality(Upto(t, i))] = t[i]
        <3>1. Upto(t, i) = Upto(s, i)
            BY <1>1, <1>2, <2>1
        <3> QED BY <1>4, <1>5, <1>6, <2>3, <3>1
    <2>6. more[Cardinality(Upto(t, n))] = t[n]
        <3>1. Upto(t, n) = Passing(t)
            BY <1>1, <1>2, <2>1
        <3> QED BY <1>1, <2>3, <2>4, <3>1
    <2>7. Len(more) = Cardinality(Passing(t))
        BY <2>3, <2>4
    <2> HIDE DEF more
    <2>8. IsFiltered(more, t)
        BY <2>1, <2>5, <2>6, <2>7 DEF IsFiltered
    <2> QED BY <1>8, <2>8 DEF more
<1> QED BY <1>7, <1>8

ExitFree(s) == \A i \in DOMAIN s : ~(IsEscaped(s, i) /\ s[i] = X)

\* The state of the escape after the input s, and what has passed it.
Agrees(s, out, esc) ==
    /\ s \in Seq(Chars) /\ out \in Seq(Chars) /\ esc \in BOOLEAN
    /\ IsFiltered(out, s)
    /\ \E j : RunStarts(s, Len(s) + 1, j)
    /\ esc <=> IsEscaped(s, Len(s) + 1)

\* One character more: what the code's two states do is what the runs say.
LEMMA OneMore ==
    ASSUME NEW s, NEW out, NEW esc, Agrees(s, out, esc), NEW e \in Chars,
           NEW pass \in BOOLEAN, pass <=> IF esc THEN e \notin {X, H} ELSE e # CtrlA,
           NEW more, more = IF pass THEN Append(out, e) ELSE out,
           NEW next \in BOOLEAN, next <=> ~esc /\ e = CtrlA
    PROVE  /\ Agrees(Append(s, e), more, next)
           /\ ExitFree(Append(s, e)) <=> ExitFree(s) /\ ~(esc /\ e = X)
<1> DEFINE n == Len(s) + 1
           t == Append(s, e)
<1>1. /\ s \in Seq(Chars) /\ out \in Seq(Chars) /\ esc \in BOOLEAN /\ IsFiltered(out, s)
      /\ esc <=> IsEscaped(s, n)
    BY DEF Agrees
<1>2. PICK j : RunStarts(s, n, j)
    BY DEF Agrees
<1>3. /\ Len(s) \in Nat /\ DOMAIN s = 1..Len(s) /\ t \in Seq(Chars) /\ Len(t) = n
      /\ DOMAIN t = 1..n /\ t[n] = e /\ \A i \in 1..Len(s) : t[i] = s[i]
    BY <1>1, AppendProperties, LenProperties
<1>4. IsEscaped(t, n) <=> esc
    BY <1>1, NextEscaped
<1>5. Passes(t, n) <=> pass
    BY <1>3, <1>4 DEF Passes
<1>6. more \in Seq(Chars)
    BY <1>1, AppendProperties
<1>7. IsFiltered(more, t)
    BY <1>1, <1>5, FilterGrows
<1>8. RunStarts(t, n + 1, IF e = CtrlA THEN j ELSE n + 1)
    <2>1. n + 1 = Len(s) + 2
        BY <1>3
    <2> QED BY <1>1, <1>2, <2>1, RunGrows
<1>9. next <=> IsEscaped(t, n + 1)
    <2>1. RunBefore(s, n) = n - j /\ j \in 1..n
        BY <1>2, <1>3, RunLength DEF RunStarts
    <2>2. esc <=> (n - j) % 2 = 1
        BY <1>1, <2>1 DEF IsEscaped
    <2>3. RunBefore(t, n + 1) = IF e = CtrlA THEN n + 1 - j ELSE 0
        <3> DEFINE h == IF e = CtrlA THEN j ELSE n + 1
        <3>1. PICK i \in Nat \ {0} : i = n + 1
            BY <1>3
        <3>2. RunStarts(t, i, h)
            BY <1>8, <3>1
        <3> HIDE DEF h, n, t
        <3>3. RunBefore(t, i) = i - h
            BY <3>1, <3>2, RunLength
        <3>4. n \in Nat /\ j \in Nat
            BY <1>3, <2>1 DEF n
        <3> QED BY <3>1, <3>3, <3>4 DEF h
    <2>4. n \in Nat /\ j \in Nat
        BY <1>3, <2>1
    <2>5. (n + 1 - j) % 2 = 1 <=> (n - j) % 2 # 1
        BY <2>4
    <2> QED BY <2>2, <2>3, <2>5 DEF IsEscaped
<1>10. ExitFree(t) <=> ExitFree(s) /\ ~(esc /\ e = X)
    <2>1. \A i \in 1..Len(s) : IsEscaped(t, i) = IsEscaped(s, i)
        BY <1>1, PastKept
    <2> QED BY <1>3, <1>4, <2>1 DEF ExitFree
<1>11. Agrees(t, more, next)
    BY <1>3, <1>6, <1>7, <1>8, <1>9 DEF Agrees
<1> QED BY <1>10, <1>11

EscapeInv ==
    /\ Agrees(typed, accepted, esc_state)
    /\ running <=> ExitFree(typed)

\* The second character of an escape: read in the same call or a later one.
LEMMA EscapedFilters ==
    ASSUME TypeOK, NEW s, NEW out, Agrees(s, out, TRUE), ExitFree(s), NEW ch \in Chars,
           Escaped(ch), typed' = Append(s, ch),
           accepted' = IF len' > len THEN Append(out, ch) ELSE out
    PROVE  EscapeInv'
<1>1. len' > len <=> ch \notin {X, H}
    BY WriteTypes DEF Escaped, ring, TypeOK
<1>2. esc_state' = FALSE /\ (running' <=> ch # X)
    BY DEF Escaped
<1>3. Agrees(Append(s, ch), accepted', FALSE) /\ (ExitFree(Append(s, ch)) <=> ch # X)
    <2>1. CASE ch \in {X, H}
        <3>1. accepted' = IF FALSE THEN Append(out, ch) ELSE out
            BY <1>1, <2>1
        <3> QED BY <2>1, <3>1, OneMore
    <2>2. CASE ch \notin {X, H}
        <3>1. accepted' = IF TRUE THEN Append(out, ch) ELSE out
            BY <1>1, <2>2
        <3> QED BY <2>2, <3>1, OneMore
    <2> QED BY <2>1, <2>2
<1> QED BY <1>2, <1>3 DEF EscapeInv

\* Outside an escape.
LEMMA PlainFilters ==
    ASSUME NEW s, NEW out, Agrees(s, out, FALSE), ExitFree(s), NEW ch \in Chars
    PROVE  /\ ExitFree(Append(s, ch))
           /\ ch # CtrlA => Agrees(Append(s, ch), Append(out, ch), FALSE)
           /\ ch = CtrlA => Agrees(Append(s, ch), out, TRUE)
<1>1. CASE ch = CtrlA
    <2>1. out = IF FALSE THEN Append(out, ch) ELSE out
        OBVIOUS
    <2> QED BY <1>1, <2>1, OneMore
<1>2. CASE ch # CtrlA
    <2>1. Append(out, ch) = IF TRUE THEN Append(out, ch) ELSE out
        OBVIOUS
    <2> QED BY <1>2, <2>1, OneMore
<1> QED BY <1>1, <1>2

LEMMA EscapeStep == TypeOK /\ EscapeInv /\ [HNext]_allvars => EscapeInv'
<1> SUFFICES ASSUME TypeOK, EscapeInv, [HNext]_allvars
             PROVE  EscapeInv'
    OBVIOUS
<1>1. typed \in Seq(Chars) /\ accepted \in Seq(Chars) /\ esc_state \in BOOLEAN
    BY DEF EscapeInv, Agrees
<1>2. ASSUME NEW ch \in Chars, console_read(ch), Types(<<ch>>)
      PROVE  EscapeInv'
    <2>1. typed' = Append(typed, ch)
        BY <1>1, <1>2, AppendIsConcat DEF Types
    <2>2. accepted' = IF len' > len THEN Append(accepted, ch) ELSE accepted
        BY <1>2, OneChar DEF Types
    <2>3. /\ running /\ ExitFree(typed)
          /\ esc_state => Agrees(typed, accepted, TRUE)
          /\ ~esc_state => Agrees(typed, accepted, FALSE)
        <3>1. esc_state = TRUE \/ esc_state = FALSE
            BY <1>1
        <3> QED BY <1>2, <3>1 DEF console_read, EscapeInv
    <2>4. CASE esc_state /\ Escaped(ch)
        BY <2>1, <2>2, <2>3, <2>4, EscapedFilters
    <2>5. CASE ~esc_state /\ ch # CtrlA /\ write_to_buffer(ch) /\ UNCHANGED <<esc_state, running>>
        <3>1. len' > len
            BY <2>5, WriteTypes DEF TypeOK
        <3>2. /\ Agrees(Append(typed, ch), Append(accepted, ch), FALSE)
              /\ ExitFree(Append(typed, ch))
            BY <2>3, <2>5, PlainFilters
        <3>3. esc_state' = FALSE /\ running' = running /\ accepted' = Append(accepted, ch)
            BY <1>1, <2>2, <2>5, <3>1
        <3> QED BY <2>1, <2>3, <3>2, <3>3 DEF EscapeInv
    <2>6. CASE ~esc_state /\ ch = CtrlA /\ esc_state' = TRUE /\ UNCHANGED <<ring, running>>
        <3>1. ~(len' > len)
            BY <2>6 DEF ring, TypeOK
        <3>2. Agrees(Append(typed, ch), accepted, TRUE) /\ ExitFree(Append(typed, ch))
            BY <2>3, <2>6, PlainFilters
        <3> QED BY <2>1, <2>2, <2>3, <2>6, <3>1, <3>2 DEF EscapeInv
    <2> QED BY <1>2, <2>4, <2>5, <2>6 DEF console_read
<1>3. ASSUME NEW ch \in Chars, console_read_again(ch), Types(<<CtrlA, ch>>)
      PROVE  EscapeInv'
    <2> DEFINE s == Append(typed, CtrlA)
    <2>1. /\ running /\ ~esc_state /\ Escaped(ch) /\ ExitFree(typed) /\ CtrlA \in Chars
          /\ Agrees(typed, accepted, FALSE)
        <3>1. esc_state = FALSE
            BY <1>1, <1>3 DEF console_read_again
        <3> QED BY <1>3, <3>1 DEF console_read_again, EscapeInv, Chars
    <2>2. Agrees(s, accepted, TRUE) /\ ExitFree(s)
        BY <2>1, PlainFilters
    <2>3. typed' = Append(s, ch)
        BY <1>1, <1>3, <2>1 DEF Types
    <2>4. accepted' = IF len' > len THEN Append(accepted, ch) ELSE accepted
        BY <1>3, OneChar DEF Types
    <2> HIDE DEF s
    <2> QED BY <2>1, <2>2, <2>3, <2>4, EscapedFilters
<1>4. ASSUME UNCHANGED <<esc_state, running, typed, accepted>>
      PROVE  EscapeInv'
    BY <1>4 DEF EscapeInv
<1>5. ReadRXTX \/ ReadRXEMPTY \/ ReadOther \/ WrongSize => UNCHANGED <<esc_state, running>>
    BY DEF ReadRXTX, ReadRXEMPTY, ReadOther, WrongSize, Guest
<1>6. UNCHANGED allvars => UNCHANGED <<esc_state, running, typed, accepted>>
    BY DEF allvars, convars
<1> QED BY <1>2, <1>3, <1>4, <1>5, <1>6 DEF HNext

\* What passes the escape, and when the process ends, is a function of the
\* whole input, of any length: the state that console_read keeps from one
\* character to the next, and from call to call, never loses count.
THEOREM EscapeFilters == HSpec => []EscapeIsAFilter
<1>1. HInit => EscapeInv
    <2> SUFFICES ASSUME HInit
                 PROVE  EscapeInv
        OBVIOUS
    <2>1. /\ typed \in Seq(Chars) /\ accepted \in Seq(Chars)
          /\ Len(typed) = 0 /\ Len(accepted) = 0 /\ DOMAIN typed = {}
          /\ esc_state = FALSE /\ running = TRUE
        BY EmptySeq DEF HInit, Init
    <2>2. Passing(typed) = {}
        BY <2>1 DEF Passing
    <2>3. IsFiltered(accepted, typed)
        BY <2>1, <2>2, FS_EmptySet DEF IsFiltered
    <2>4. RunStarts(typed, 1, 1)
        BY DEF RunStarts
    <2>5. RunBefore(typed, 1) = 0
        BY <2>4, RunLength
    <2>6. ~IsEscaped(typed, 1)
        BY <2>5 DEF IsEscaped
    <2>7. Len(typed) + 1 = 1 /\ ExitFree(typed)
        BY <2>1 DEF ExitFree
    <2>8. Agrees(typed, accepted, FALSE)
        BY <2>1, <2>3, <2>4, <2>6, <2>7 DEF Agrees
    <2> QED BY <2>1, <2>7, <2>8 DEF EscapeInv
<1>2. EscapeInv => EscapeIsAFilter
    BY DEF EscapeInv, Agrees, ExitFree, EscapeIsAFilter
<1> QED BY <1>1, <1>2, EscapeStep, HistoryImplements, ConsoleTyped, PTL DEF HSpec
==============================================================================
