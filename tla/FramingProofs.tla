---------------------------- MODULE FramingProofs ----------------------------
(***************************************************************************)
(* That what was written without mixture is read as it was written, and    *)
(* nothing past the buffer: for every number of writers, every set of      *)
(* texts, every size of the buffer, and however the bytes arrive.          *)
(***************************************************************************)
EXTENDS Framing, SequenceTheorems, TLAPS

Byte == 0..255

Types ==
    /\ sending \in [Writer -> Text \cup {Nothing}]
    /\ tape \in Seq(Byte) /\ order \in Seq(Text) /\ closed \in BOOLEAN
    /\ arrived \in Nat /\ taken \in Nat
    /\ rpc \in {"length", "text", "over"}
    /\ length \in Int /\ buffer \in Seq(Byte) /\ got \in Seq(Seq(Byte))
    /\ intact \in Nat /\ mixed \in BOOLEAN /\ split \in BOOLEAN
    /\ fault \in {"none", "overflow"}
    /\ taken <= arrived /\ arrived <= Len(tape)
    /\ rpc = "text" => Len(buffer) < length

\* Message i begins on the tape behind place p: its length does, its text does.
LengthAt(p, i) == \A j \in 1..4 : tape[p + j] = Bytes(Len(order[i]) + 1)[j]
TextAt(p, i) == \A j \in 1..(Len(order[i]) + 1) :
                   tape[p + 4 + j] = Terminated(order[i])[j]

\* The messages written before two were mixed lie on the tape one behind the
\* other: the i-th one ends at ends[i].
Laid(ends) ==
    /\ intact <= Len(order)
    /\ ends \in [0..intact -> Nat] /\ ends[0] = 0
    /\ \A i \in 1..intact : /\ ends[i] = ends[i - 1] + Len(order[i]) + 5
                            /\ ends[i] <= Len(tape)
                            /\ LengthAt(ends[i - 1], i) /\ TextAt(ends[i - 1], i)

\* Behind them, as long as none are mixed, is nothing, or the length of the one
\* message that is being written.
Writing(ends) ==
    ~mixed => \/ /\ \A w \in Writer : sending[w] = Nothing
                 /\ Len(order) = intact /\ Len(tape) = ends[intact]
              \/ /\ \E w \in Writer : /\ sending[w] = order[intact + 1]
                                      /\ \A v \in Writer \ {w} : sending[v] = Nothing
                 /\ Len(order) = intact + 1 /\ Len(tape) = ends[intact] + 4
                 /\ LengthAt(ends[intact], intact + 1)

\* The reader is still among them, or would be with the next one.
Among == Len(got) < intact \/ (Len(got) = intact /\ ~mixed)

\* Then it has taken whole messages, or whole ones, a length, and as much of the
\* text as is in the buffer.
Reading(ends) ==
    /\ \A i \in 1..Len(got) : i <= intact => got[i] = Terminated(order[i])
    /\ Len(got) > intact => mixed
    /\ rpc = "over" => Len(got) >= intact /\ (mixed \/ closed)
    /\ Among /\ rpc = "length" => taken = ends[Len(got)]
    /\ Among /\ rpc = "text" =>
          LET next == Len(got) + 1
          IN  /\ next <= Len(order) /\ length = Len(order[next]) + 1
              /\ taken = ends[Len(got)] + 4 + Len(buffer)
              /\ \A j \in 1..Len(buffer) : buffer[j] = Terminated(order[next])[j]

\* What is on the tape, and in the order, stays.
Extended == /\ Len(tape) <= Len(tape')
            /\ \A j \in 1..Len(tape) : tape'[j] = tape[j]
            /\ Len(order) <= Len(order')
            /\ \A i \in 1..Len(order) : order'[i] = order[i]

\* The inductive invariant.
Inv == /\ Types
       /\ \E ends : Laid(ends) /\ Writing(ends) /\ (~split => Reading(ends))
       /\ NeverPastTheBuffer

-----------------------------------------------------------------------------
(* The operators.                                                             *)

\* A number that fits an int is the sum of its four bytes.
LEMMA FourBytes ==
    ASSUME NEW n \in Nat, n <= 2147483647
    PROVE  /\ n % 256 \in Byte /\ (n \div 256) % 256 \in Byte /\ (n \div 65536) % 256 \in Byte
           /\ n \div 16777216 \in 0..127
           /\ (n % 256) + 256 * ((n \div 256) % 256) + 65536 * ((n \div 65536) % 256)
              + 16777216 * (n \div 16777216) = n
<1>1. n \div 65536 = (n \div 256) \div 256 /\ n \div 16777216 = (n \div 65536) \div 256
  BY SMT
<1>2. n % 256 \in Byte /\ (n \div 256) % 256 \in Byte /\ (n \div 65536) % 256 \in Byte
  BY SMT DEF Byte
<1>3. n \div 16777216 \in 0..127
  BY SMT
<1>4. \A m \in Nat : m = (m % 256) + 256 * (m \div 256) /\ m \div 256 \in Nat
  BY SMT
<1> DEFINE q1 == n \div 256  q2 == n \div 65536  q3 == n \div 16777216
<1>5. /\ n = (n % 256) + 256 * q1 /\ q1 = (q1 % 256) + 256 * q2 /\ q2 = (q2 % 256) + 256 * q3
      /\ q1 \in Nat /\ q2 \in Nat /\ q3 \in Nat
  BY <1>1, <1>4, SMT
<1> HIDE DEF q1, q2, q3
<1>6. n % 256 \in Nat /\ q1 % 256 \in Nat /\ q2 % 256 \in Nat
  BY <1>5, SMT
<1>7. (n % 256) + 256 * (q1 % 256) + 65536 * (q2 % 256) + 16777216 * q3 = n
  BY <1>5, <1>6, SMT
<1> QED BY <1>2, <1>3, <1>7, SMT DEF q1, q2, q3

\* The places of a sequence of four.
LEMMA Quad ==
    ASSUME NEW S, NEW a \in S, NEW b \in S, NEW c \in S, NEW d \in S
    PROVE  /\ <<a, b, c, d>> \in Seq(S) /\ Len(<<a, b, c, d>>) = 4
           /\ <<a, b, c, d>>[1] = a /\ <<a, b, c, d>>[2] = b
           /\ <<a, b, c, d>>[3] = c /\ <<a, b, c, d>>[4] = d
BY SMT

\* A length is sent in four bytes ...
LEMMA BytesAreFour ==
    ASSUME NEW n \in Nat, n <= 2147483647
    PROVE  Bytes(n) \in Seq(Byte) /\ Len(Bytes(n)) = 4
<1> DEFINE a == n % 256  b == (n \div 256) % 256
           c == (n \div 65536) % 256  d == n \div 16777216
<1>1. a \in Byte /\ b \in Byte /\ c \in Byte /\ d \in Byte
  BY FourBytes, SMT DEF Byte
<1>2. Bytes(n) = <<a, b, c, d>>
  BY SMT DEF Bytes
<1> HIDE DEF a, b, c, d
<1> QED BY <1>1, <1>2, Quad, SMT

\* ... and four bytes that are those of a length are read as this length.
LEMMA NumberOfBytes ==
    ASSUME NEW n \in Nat, n <= 2147483647, NEW s \in Seq(Byte), Len(s) = 4,
           \A j \in 1..4 : s[j] = Bytes(n)[j]
    PROVE  Number(s) = n
<1> DEFINE a == n % 256  b == (n \div 256) % 256
           c == (n \div 65536) % 256  d == n \div 16777216
<1>1. /\ a \in Byte /\ b \in Byte /\ c \in Byte /\ d \in 0..127
      /\ a + 256 * b + 65536 * c + 16777216 * d = n
  BY FourBytes, SMT DEF Byte
<1>2. Bytes(n) = <<a, b, c, d>>
  BY SMT DEF Bytes
<1> HIDE DEF a, b, c, d
<1>3. s[1] = a /\ s[2] = b /\ s[3] = c /\ s[4] = d
  BY <1>1, <1>2, Quad, SMT DEF Byte
<1>4. ByteAt(s, 1) = a /\ ByteAt(s, 2) = b /\ ByteAt(s, 3) = c /\ ByteAt(s, 4) = d
  BY <1>3, SMT DEF ByteAt
<1> QED BY <1>1, <1>4, SMT DEF Number

\* What is read for a length is a number, however few bytes it is read from.
LEMMA NumberIsInt ==
    ASSUME NEW s \in Seq(Byte)
    PROVE  Number(s) \in Int
<1>1. Len(s) \in Nat /\ s \in [1..Len(s) -> Byte]
  BY LenProperties
<1> \A x \in Byte : x \in Int
  BY SMT DEF Byte
<1>2. \A i \in Nat : i >= 1 => ByteAt(s, i) \in Int
  BY <1>1, SMT DEF ByteAt
<1>3. /\ ByteAt(s, 1) \in Int /\ ByteAt(s, 2) \in Int
      /\ ByteAt(s, 3) \in Int /\ ByteAt(s, 4) \in Int
  BY <1>2, SMT
<1> QED BY <1>3, SMT DEF Number

\* A text and its zero are fewer bytes than the buffer has, and at least two.
LEMMA TextFits ==
    ASSUME NEW t \in Text
    PROVE  /\ t \in Seq(Byte) /\ t # Nothing /\ Len(t) \in Nat /\ Len(t) > 0
           /\ Terminated(t) \in Seq(Byte) /\ Len(Terminated(t)) = Len(t) + 1
           /\ Len(t) + 1 < MAX_BUFFER_SIZE /\ Len(t) + 1 <= 2147483647
           /\ MAX_BUFFER_SIZE \in Nat
<1>1. t \in Seq(1..127) /\ t # <<>> /\ 1..127 \subseteq Byte
  BY TextAssumption, SMT DEF Byte
<1>2. t \in Seq(Byte)
  BY <1>1, SeqMonotonic
<1>3. Len(t) \in Nat /\ Len(t) > 0
  <2>1. Len(t) \in Nat \ {0}
    BY <1>1, EmptySeq
  <2> QED BY <2>1, SMT
<1>4. Zero \in Byte
  BY SMT DEF Zero, Byte
<1>5. Terminated(t) \in Seq(Byte) /\ Len(Terminated(t)) = Len(t) + 1
  BY <1>2, <1>4, AppendProperties, SMT DEF Terminated
<1>6. /\ Len(t) + 1 < MAX_BUFFER_SIZE /\ Len(t) + 1 <= 2147483647
      /\ MAX_BUFFER_SIZE \in Nat
  BY <1>3, RoomAssumption, SMT
<1> QED BY <1>1, <1>2, <1>3, <1>5, <1>6, SMT DEF Nothing

\* What a read returns of the tape.
LEMMA Piece ==
    ASSUME Types, NEW n \in Nat, taken + n <= arrived
    PROVE  LET piece == SubSeq(tape, taken + 1, taken + n)
           IN  /\ piece \in Seq(Byte) /\ Len(piece) = n
               /\ \A j \in 1..n : piece[j] = tape[taken + j]
<1>1. /\ tape \in Seq(Byte) /\ taken \in Nat /\ arrived \in Nat /\ arrived <= Len(tape)
      /\ Len(tape) \in Nat
  BY LenProperties, SMT DEF Types
<1>2. \A i \in (taken + 1)..(taken + n) : tape[i] \in Byte
  BY <1>1, ElementOfSeq, SMT
<1> DEFINE piece == SubSeq(tape, taken + 1, taken + n)
<1>3. /\ piece \in Seq(Byte)
      /\ Len(piece) = IF taken + 1 <= taken + n THEN taken + n - (taken + 1) + 1 ELSE 0
      /\ \A i \in 1..(taken + n - (taken + 1) + 1) : piece[i] = tape[taken + 1 + i - 1]
  BY <1>1, <1>2, SubSeqProperties, SMT
<1>4. Len(piece) = n /\ \A j \in 1..n : piece[j] = tape[taken + j]
  BY <1>1, <1>3, SMT
<1> QED BY <1>3, <1>4

-----------------------------------------------------------------------------
(* What is on the tape stays where it is.                                     *)

LEMMA Lengths ==
    ASSUME Types
    PROVE  /\ Len(tape) \in Nat /\ Len(order) \in Nat /\ Len(buffer) \in Nat /\ Len(got) \in Nat
           /\ \A i \in 1..Len(order) : order[i] \in Text /\ Len(order[i]) \in Nat
<1>1. tape \in Seq(Byte) /\ order \in Seq(Text) /\ buffer \in Seq(Byte) /\ got \in Seq(Seq(Byte))
  BY DEF Types
<1>2. \A i \in 1..Len(order) : order[i] \in Text
  BY <1>1, ElementOfSeq
<1>3. \A i \in 1..Len(order) : Len(order[i]) \in Nat
  BY <1>2, TextFits
<1> QED BY <1>1, <1>2, <1>3, LenProperties

\* sendData writes the length behind what there is ...
LEMMA LengthWritten ==
    ASSUME Types, NEW w \in Writer, NEW t \in Text, WriteLength(w, t)
    PROVE  /\ Types' /\ Extended
           /\ Len(tape') = Len(tape) + 4 /\ Len(order') = Len(order) + 1
           /\ order'[Len(order) + 1] = t
           /\ \A j \in 1..4 : tape'[Len(tape) + j] = Bytes(Len(t) + 1)[j]
<1> DEFINE b == Bytes(Len(t) + 1)
<1>1. b \in Seq(Byte) /\ Len(b) = 4
  BY TextFits, BytesAreFour, SMT
<1>2. tape' = tape \o b /\ order' = Append(order, t)
  BY DEF WriteLength
<1> HIDE DEF b
<1>3. tape \in Seq(Byte) /\ order \in Seq(Text) /\ Len(tape) \in Nat /\ Len(order) \in Nat
  BY Lengths DEF Types
<1>4. /\ tape' \in Seq(Byte) /\ Len(tape') = Len(tape) + Len(b)
      /\ \A i \in 1..(Len(tape) + Len(b)) :
            tape'[i] = IF i <= Len(tape) THEN tape[i] ELSE b[i - Len(tape)]
  BY <1>1, <1>2, <1>3, ConcatProperties
<1>5. /\ order' \in Seq(Text) /\ Len(order') = Len(order) + 1
      /\ \A i \in 1..Len(order) : order'[i] = order[i]
      /\ order'[Len(order) + 1] = t
  BY <1>2, <1>3, AppendProperties
<1>6. \A j \in 1..Len(tape) : tape'[j] = tape[j]
  BY <1>1, <1>3, <1>4, SMT
<1>7. \A j \in 1..4 : tape'[Len(tape) + j] = b[j]
  <2> SUFFICES ASSUME NEW j \in 1..4 PROVE tape'[Len(tape) + j] = b[j]
    OBVIOUS
  <2>1. /\ Len(tape) + j \in 1..(Len(tape) + Len(b)) /\ ~(Len(tape) + j <= Len(tape))
        /\ Len(tape) + j - Len(tape) = j
    BY <1>1, <1>3, SMT
  <2> QED BY <2>1, <1>4
<1>8. Types'
  <2>1. sending' \in [Writer -> Text \cup {Nothing}] /\ mixed' \in BOOLEAN
    BY DEF Types, WriteLength
  <2>2. arrived' <= Len(tape')
    BY <1>1, <1>3, <1>4, SMT DEF Types, WriteLength
  <2> QED BY <1>4, <1>5, <2>1, <2>2 DEF Types, WriteLength, readVars
<1>9. Extended
  BY <1>1, <1>3, <1>4, <1>5, <1>6, SMT DEF Extended
<1> QED BY <1>1, <1>4, <1>5, <1>7, <1>8, <1>9 DEF b

\* ... and the text behind what there is by then.
LEMMA TextWritten ==
    ASSUME Types, NEW w \in Writer, WriteText(w)
    PROVE  /\ Types' /\ Extended /\ sending[w] \in Text
           /\ Len(tape') = Len(tape) + Len(sending[w]) + 1
           /\ \A j \in 1..(Len(sending[w]) + 1) :
                 tape'[Len(tape) + j] = Terminated(sending[w])[j]
<1> DEFINE t == sending[w]  b == Terminated(t)
<1>1. t \in Text
  BY DEF WriteText, Types
<1>2. b \in Seq(Byte) /\ Len(b) = Len(t) + 1 /\ Len(t) \in Nat
  BY <1>1, TextFits
<1>3. tape' = tape \o b /\ order' = order
  BY DEF WriteText
<1> HIDE DEF b, t
<1>4. tape \in Seq(Byte) /\ Len(tape) \in Nat /\ Len(order) \in Nat
  BY Lengths DEF Types
<1>5. /\ tape' \in Seq(Byte) /\ Len(tape') = Len(tape) + Len(b)
      /\ \A i \in 1..(Len(tape) + Len(b)) :
            tape'[i] = IF i <= Len(tape) THEN tape[i] ELSE b[i - Len(tape)]
  BY <1>2, <1>3, <1>4, ConcatProperties
<1>6. \A j \in 1..Len(tape) : tape'[j] = tape[j]
  BY <1>2, <1>4, <1>5, SMT
<1>7. \A j \in 1..(Len(t) + 1) : tape'[Len(tape) + j] = b[j]
  <2> SUFFICES ASSUME NEW j \in 1..(Len(t) + 1) PROVE tape'[Len(tape) + j] = b[j]
    OBVIOUS
  <2>1. /\ Len(tape) + j \in 1..(Len(tape) + Len(b)) /\ ~(Len(tape) + j <= Len(tape))
        /\ Len(tape) + j - Len(tape) = j
    BY <1>2, <1>4, SMT
  <2> QED BY <2>1, <1>5
<1>8. Types'
  <2>1. sending' \in [Writer -> Text \cup {Nothing}]
    BY DEF Types, WriteText
  <2>2. arrived' <= Len(tape')
    BY <1>2, <1>4, <1>5, SMT DEF Types, WriteText
  <2>3. intact' \in Nat
    BY SMT DEF Types, WriteText
  <2> QED BY <1>3, <1>5, <2>1, <2>2, <2>3 DEF Types, WriteText, readVars
<1>9. Extended
  BY <1>2, <1>3, <1>4, <1>5, <1>6, SMT DEF Extended
<1> QED BY <1>1, <1>2, <1>4, <1>5, <1>7, <1>8, <1>9, SMT DEF b, t

\* A message that is on the tape stays there ...
LEMMA MessageStays ==
    ASSUME Types, Extended, NEW p \in Nat, NEW i \in 1..Len(order)
    PROVE  /\ LengthAt(p, i) /\ p + 4 <= Len(tape) => LengthAt(p, i)'
           /\ TextAt(p, i) /\ p + Len(order[i]) + 5 <= Len(tape) => TextAt(p, i)'
<1>1. order'[i] = order[i] /\ Len(order[i]) \in Nat /\ Len(tape) \in Nat
  BY Lengths DEF Extended
<1>2. ASSUME LengthAt(p, i), p + 4 <= Len(tape)
      PROVE  \A j \in 1..4 : tape'[p + j] = Bytes(Len(order'[i]) + 1)[j]
  <2> SUFFICES ASSUME NEW j \in 1..4 PROVE tape'[p + j] = Bytes(Len(order'[i]) + 1)[j]
    OBVIOUS
  <2>1. p + j \in 1..Len(tape)
    BY <1>1, <1>2, SMT
  <2>2. tape'[p + j] = tape[p + j]
    BY <2>1 DEF Extended
  <2>3. tape[p + j] = Bytes(Len(order[i]) + 1)[j]
    BY <1>2 DEF LengthAt
  <2> QED BY <2>2, <2>3, <1>1
<1>3. ASSUME TextAt(p, i), p + Len(order[i]) + 5 <= Len(tape)
      PROVE  \A j \in 1..(Len(order'[i]) + 1) : tape'[p + 4 + j] = Terminated(order'[i])[j]
  <2> SUFFICES ASSUME NEW j \in 1..(Len(order[i]) + 1)
               PROVE  tape'[p + 4 + j] = Terminated(order[i])[j]
    BY <1>1
  <2>1. p + 4 + j \in 1..Len(tape)
    BY <1>1, <1>3, SMT
  <2>2. tape'[p + 4 + j] = tape[p + 4 + j]
    BY <2>1 DEF Extended
  <2> QED BY <2>2, <1>3 DEF TextAt
<1> QED BY <1>2, <1>3 DEF LengthAt, TextAt

\* ... and so do all of them.
LEMMA LaidStays ==
    ASSUME Types, Extended, NEW ends, Laid(ends), intact' = intact
    PROVE  Laid(ends)'
<1>1. intact \in Nat /\ Len(tape) \in Nat /\ Len(order) \in Nat /\ Len(tape') \in Int /\ Len(order') \in Int
  BY Lengths, SMT DEF Types, Extended
<1>2. ASSUME NEW i \in 1..intact
      PROVE  /\ ends[i] = ends[i - 1] + Len(order'[i]) + 5 /\ ends[i] <= Len(tape')
             /\ LengthAt(ends[i - 1], i)' /\ TextAt(ends[i - 1], i)'
  <2>1. i - 1 \in 0..intact /\ i \in 0..intact /\ i \in 1..Len(order)
    BY <1>1, SMT DEF Laid
  <2>2. ends[i - 1] \in Nat /\ ends[i] \in Nat
    BY <2>1 DEF Laid
  <2>3. order'[i] = order[i] /\ Len(order[i]) \in Nat
    BY <2>1, Lengths DEF Extended
  <2>4. /\ ends[i] = ends[i - 1] + Len(order[i]) + 5 /\ ends[i] <= Len(tape)
        /\ LengthAt(ends[i - 1], i) /\ TextAt(ends[i - 1], i)
    BY DEF Laid
  <2>5. ends[i - 1] + 4 <= Len(tape) /\ ends[i - 1] + Len(order[i]) + 5 <= Len(tape)
    BY <2>2, <2>3, <2>4, <1>1, SMT
  <2>6. LengthAt(ends[i - 1], i)' /\ TextAt(ends[i - 1], i)'
    <3>1. PICK p \in Nat : p = ends[i - 1]
      BY <2>2
    <3> QED BY <3>1, <2>1, <2>4, <2>5, MessageStays
  <2>7. ends[i] <= Len(tape')
    BY <2>2, <2>4, <1>1, SMT DEF Extended
  <2> QED BY <2>3, <2>4, <2>6, <2>7
<1>3. intact' <= Len(order')
  BY <1>1, SMT DEF Laid, Extended
<1> QED BY <1>2, <1>3 DEF Laid

\* What the reader has read stays what it is when something is written.
LEMMA ReadingStays ==
    ASSUME Types, Extended, NEW ends, Laid(ends), Reading(ends),
           intact' = intact, mixed => mixed', closed => closed', UNCHANGED readVars
    PROVE  Reading(ends)'
<1>1. \A i \in 1..intact : i \in 1..Len(order)
  BY Lengths, SMT DEF Types, Laid
<1>2. \A i \in 1..Len(got) : i <= intact => got[i] = Terminated(order'[i])
  <2> SUFFICES ASSUME NEW i \in 1..Len(got), i <= intact PROVE got[i] = Terminated(order'[i])
    OBVIOUS
  <2>1. i \in 1..intact
    BY Lengths, SMT DEF Types
  <2>2. order'[i] = order[i]
    BY <1>1, <2>1 DEF Extended
  <2> QED BY <2>2 DEF Reading
<1>3. got' = got /\ rpc' = rpc /\ taken' = taken /\ length' = length /\ buffer' = buffer
  BY DEF readVars
<1>4. Among' => Among
  BY <1>3 DEF Among
<1>5. ASSUME Among, rpc = "text"
      PROVE  LET next == Len(got) + 1
             IN  /\ next <= Len(order') /\ length = Len(order'[next]) + 1
                 /\ taken = ends[Len(got)] + 4 + Len(buffer)
                 /\ \A j \in 1..Len(buffer) : buffer[j] = Terminated(order'[next])[j]
  <2> DEFINE next == Len(got) + 1
  <2>1. /\ next <= Len(order) /\ length = Len(order[next]) + 1
        /\ taken = ends[Len(got)] + 4 + Len(buffer)
        /\ \A j \in 1..Len(buffer) : buffer[j] = Terminated(order[next])[j]
    BY <1>5 DEF Reading
  <2>2. next \in 1..Len(order)
    BY <2>1, Lengths, SMT
  <2>3. order'[next] = order[next]
    BY <2>2 DEF Extended
  <2>4. next <= Len(order')
    BY <2>1, <2>2, Lengths, SMT DEF Extended
  <2> QED BY <2>1, <2>3, <2>4
<1>6. (\A i \in 1..Len(got') : i <= intact' => got'[i] = Terminated(order'[i]))
  BY <1>2, <1>3
<1>7. Len(got') > intact' => mixed'
  BY <1>3 DEF Reading
<1>8. rpc' = "over" => Len(got') >= intact' /\ (mixed' \/ closed')
  BY <1>3 DEF Reading
<1>9. Among' /\ rpc' = "length" => taken' = ends[Len(got')]
  BY <1>3, <1>4 DEF Reading
<1> QED BY <1>3, <1>4, <1>5, <1>6, <1>7, <1>8, <1>9 DEF Reading

LEMMA InitInv == Init => Inv
<1> SUFFICES ASSUME Init PROVE Inv
  OBVIOUS
<1> DEFINE ends == [i \in 0..0 |-> 0]
<1>1. Len(tape) = 0 /\ Len(order) = 0 /\ Len(got) = 0 /\ Len(buffer) = 0
  BY EmptySeq DEF Init
<1>2. Types
  <2>1. tape \in Seq(Byte) /\ order \in Seq(Text) /\ buffer \in Seq(Byte) /\ got \in Seq(Seq(Byte))
    BY EmptySeq DEF Init
  <2>2. sending \in [Writer -> Text \cup {Nothing}]
    BY DEF Init
  <2>3. taken <= arrived /\ arrived <= Len(tape) /\ arrived \in Nat /\ taken \in Nat
        /\ length \in Int /\ intact \in Nat
    BY <1>1, SMT DEF Init
  <2> QED BY <2>1, <2>2, <2>3 DEF Types, Init
<1>3. 0..0 = {0} /\ 1..0 = {}
  BY SMT
<1>4. ends \in [0..0 -> Nat] /\ ends[0] = 0
  BY SMT
<1> HIDE DEF ends
<1>5. Laid(ends)
  BY <1>1, <1>3, <1>4, SMT DEF Laid, Init
<1>6. Writing(ends)
  BY <1>1, <1>4 DEF Writing, Init
<1>7. Reading(ends)
  BY <1>1, <1>3, <1>4, SMT DEF Reading, Init
<1> QED BY <1>2, <1>5, <1>6, <1>7 DEF Inv, NeverPastTheBuffer, Init

LEMMA WriteLengthInv ==
    ASSUME Inv, NEW w \in Writer, NEW t \in Text, WriteLength(w, t)
    PROVE  Inv'
<1> PICK ends : Laid(ends) /\ Writing(ends) /\ (~split => Reading(ends))
  BY DEF Inv
<1> Types
  BY DEF Inv
<1>1. /\ Types' /\ Extended
      /\ Len(tape') = Len(tape) + 4 /\ Len(order') = Len(order) + 1
      /\ order'[Len(order) + 1] = t
      /\ \A j \in 1..4 : tape'[Len(tape) + j] = Bytes(Len(t) + 1)[j]
  BY LengthWritten
<1>2. intact' = intact /\ (mixed => mixed') /\ closed' = closed /\ UNCHANGED readVars
  BY DEF WriteLength
<1>3. Laid(ends)'
  BY <1>1, <1>2, LaidStays
<1>4. ~split' => Reading(ends)'
  BY <1>1, <1>2, ReadingStays DEF readVars
<1>5. ASSUME ~mixed' PROVE Writing(ends)'
  <2>1. ~mixed /\ \A v \in Writer : sending[v] = Nothing
    BY <1>5 DEF WriteLength
  <2>2. order[intact + 1] # Nothing \/ Len(order) # intact + 1
    <3>1. CASE Len(order) = intact + 1
      <4>1. intact + 1 \in 1..Len(order)
        BY <3>1, SMT DEF Types
      <4> QED BY <4>1, Lengths, TextFits
    <3> QED BY <3>1
  <2>3. Len(order) = intact /\ Len(tape) = ends[intact]
    BY <2>1, <2>2 DEF Writing
  <2>4. sending'[w] = t /\ \A v \in Writer \ {w} : sending'[v] = Nothing
    BY <2>1 DEF WriteLength, Types
  <2>5. LengthAt(ends[intact], intact + 1)'
    BY <1>1, <1>2, <2>3 DEF LengthAt
  <2> QED BY <1>1, <1>2, <2>3, <2>4, <2>5 DEF Writing
<1>6. Writing(ends)'
  BY <1>5 DEF Writing
<1>7. NeverPastTheBuffer'
  BY <1>2 DEF Inv, NeverPastTheBuffer, readVars
<1> QED BY <1>1, <1>3, <1>4, <1>6, <1>7 DEF Inv

\* A text that ends a message on its own lays this message behind the others.
LEMMA WriteTextLays ==
    ASSUME Types, NEW ends, Laid(ends), Writing(ends), ~mixed,
           NEW w \in Writer, WriteText(w)
    PROVE  /\ intact + 1 = Len(order) /\ intact' = intact + 1 /\ order' = order
           /\ \E more : /\ Laid(more)' /\ Writing(more)'
                        /\ \A i \in 0..intact : more[i] = ends[i]
<1>1. sending[w] # Nothing
  BY DEF WriteText
<1>2. /\ sending[w] = order[intact + 1] /\ \A v \in Writer \ {w} : sending[v] = Nothing
      /\ Len(order) = intact + 1 /\ Len(tape) = ends[intact] + 4
      /\ LengthAt(ends[intact], intact + 1)
  BY <1>1 DEF Writing
<1>3. /\ Types' /\ Extended /\ sending[w] \in Text
      /\ Len(tape') = Len(tape) + Len(sending[w]) + 1
      /\ \A j \in 1..(Len(sending[w]) + 1) :
            tape'[Len(tape) + j] = Terminated(sending[w])[j]
  BY TextWritten
<1>4. order' = order /\ intact' = intact + 1 /\ mixed' = mixed
  BY DEF WriteText
<1>5. intact \in Nat /\ ends[intact] \in Nat /\ Len(order[intact + 1]) \in Nat /\ Len(tape) \in Nat
  <2>1. intact \in Nat /\ intact \in 0..intact
    BY SMT DEF Types
  <2>2. ends[intact] \in Nat
    BY <2>1 DEF Laid
  <2> QED BY <1>2, <1>3, <2>1, <2>2, TextFits, Lengths
<1> PICK n \in Nat, p \in Nat : n = intact /\ p = ends[intact]
  BY <1>5
<1>6. PICK last \in Nat : last = p + Len(order[n + 1]) + 5 /\ last = Len(tape')
  BY <1>2, <1>3, <1>5, SMT
<1>7. PICK more : /\ more \in [0..(n + 1) -> Nat] /\ more[0] = 0 /\ more[n + 1] = last
                  /\ \A i \in 0..n : more[i] = ends[i]
  <2> DEFINE more == [i \in 0..(n + 1) |-> IF i = n + 1 THEN last ELSE ends[i]]
  <2>1. \A i \in 0..(n + 1) : i = n + 1 \/ i \in 0..n
    BY SMT
  <2>2. \A i \in 0..n : i \in 0..(n + 1) /\ i # n + 1
    BY SMT
  <2>3. n + 1 \in 0..(n + 1) /\ 0 \in 0..n
    BY SMT
  <2>4. ends[0] = 0 /\ \A i \in 0..n : ends[i] \in Nat
    BY DEF Laid
  <2>5. /\ more \in [0..(n + 1) -> Nat] /\ more[0] = 0 /\ more[n + 1] = last
        /\ \A i \in 0..n : more[i] = ends[i]
    BY <2>1, <2>2, <2>3, <2>4
  <2> QED BY <2>5
<1>8. n + 1 \in 1..Len(order) /\ p + 4 <= Len(tape)
  BY <1>2, <1>5, SMT
<1>9. LengthAt(p, n + 1)' /\ TextAt(p, n + 1)'
  <2>1. LengthAt(p, n + 1)'
    BY <1>2, <1>3, <1>8, MessageStays
  <2>2. \A j \in 1..(Len(order[n + 1]) + 1) :
           tape'[p + 4 + j] = Terminated(order[n + 1])[j]
    BY <1>2, <1>3
  <2> QED BY <2>1, <2>2, <1>4 DEF TextAt
<1>10. ASSUME NEW i \in 1..(n + 1)
       PROVE  /\ more[i] = more[i - 1] + Len(order'[i]) + 5 /\ more[i] <= Len(tape')
              /\ LengthAt(more[i - 1], i)' /\ TextAt(more[i - 1], i)'
  <2>1. CASE i = n + 1
    <3>1. i - 1 = n /\ n \in 0..n
      BY <2>1, SMT
    <3>2. more[i - 1] = p /\ more[i] = last
      BY <3>1, <2>1, <1>7
    <3>3. last <= Len(tape')
      BY <1>6, SMT
    <3> QED BY <3>2, <3>3, <2>1, <1>4, <1>6, <1>9
  <2>2. CASE i # n + 1
    <3>1. i \in 1..n /\ i - 1 \in 0..n /\ i \in 0..n /\ i \in 1..Len(order)
      BY <2>2, <1>8, <1>2, SMT
    <3>2. more[i - 1] = ends[i - 1] /\ more[i] = ends[i]
      BY <3>1, <1>7
    <3>3. ends[i - 1] \in Nat /\ ends[i] \in Nat /\ Len(order[i]) \in Nat
      BY <3>1, Lengths DEF Laid
    <3>4. /\ ends[i] = ends[i - 1] + Len(order[i]) + 5 /\ ends[i] <= Len(tape)
          /\ LengthAt(ends[i - 1], i) /\ TextAt(ends[i - 1], i)
      BY <3>1 DEF Laid
    <3>5. ends[i - 1] + 4 <= Len(tape) /\ ends[i - 1] + Len(order[i]) + 5 <= Len(tape)
      BY <3>3, <3>4, <1>5, SMT
    <3>6. LengthAt(ends[i - 1], i)' /\ TextAt(ends[i - 1], i)'
      BY <3>1, <3>3, <3>4, <3>5, <1>3, MessageStays
    <3>7. ends[i] <= Len(tape')
      BY <3>3, <3>4, <1>5, <1>3, SMT DEF Extended
    <3> QED BY <3>2, <3>4, <3>6, <3>7, <1>4
  <2> QED BY <2>1, <2>2
<1>11. Laid(more)'
  <2>1. n + 1 <= Len(order')
    BY <1>2, <1>4, SMT
  <2> QED BY <1>4, <1>7, <1>10, <2>1 DEF Laid
<1>12. Writing(more)'
  <2>1. \A v \in Writer : sending'[v] = Nothing
    BY <1>2 DEF WriteText, Types
  <2>2. Len(order') = intact' /\ Len(tape') = more[n + 1]
    BY <1>2, <1>4, <1>6, <1>7
  <2> QED BY <2>1, <2>2, <1>4 DEF Writing
<1> QED BY <1>2, <1>4, <1>7, <1>11, <1>12

LEMMA WriteTextInv ==
    ASSUME Inv, NEW w \in Writer, WriteText(w)
    PROVE  Inv'
<1> PICK ends : Laid(ends) /\ Writing(ends) /\ (~split => Reading(ends))
  BY DEF Inv
<1> Types
  BY DEF Inv
<1>1. Types' /\ Extended
  BY TextWritten
<1>2. UNCHANGED <<closed, order, mixed, readVars>> /\ ~closed
  BY DEF WriteText
<1>3. NeverPastTheBuffer'
  BY <1>2 DEF Inv, NeverPastTheBuffer, readVars
<1>4. CASE mixed
  <2>1. intact' = intact
    BY <1>4 DEF WriteText
  <2>2. Laid(ends)'
    BY <1>1, <2>1, LaidStays
  <2>3. ~split' => Reading(ends)'
    BY <1>1, <1>2, <2>1, ReadingStays DEF readVars
  <2>4. Writing(ends)'
    BY <1>2, <1>4 DEF Writing
  <2> QED BY <1>1, <1>3, <2>2, <2>3, <2>4 DEF Inv
<1>5. CASE ~mixed
  <2>1. intact + 1 = Len(order) /\ intact' = intact + 1 /\ order' = order
    BY <1>5, WriteTextLays
  <2>2. PICK more : /\ Laid(more)' /\ Writing(more)'
                    /\ \A i \in 0..intact : more[i] = ends[i]
    BY <1>5, WriteTextLays
  <2>3. ASSUME ~split' PROVE Reading(more)'
    <3>1. Reading(ends)
      BY <2>3, <1>2 DEF readVars
    <3>2. Len(got) \in Nat /\ intact \in Nat /\ ~(Len(got) > intact)
      BY <3>1, <1>5, Lengths DEF Reading, Types
    <3>3. Among /\ Len(got) \in 0..intact /\ rpc # "over" /\ Len(got) <= intact
      BY <3>1, <3>2, <1>2, <1>5, SMT DEF Among, Reading
    <3>4. \A i \in 1..Len(got) : i <= intact
      BY <3>2, SMT
    <3>5. Len(got) < intact' /\ ~(Len(got) > intact')
      BY <3>2, <2>1, SMT
    <3>6. got' = got /\ rpc' = rpc /\ taken' = taken /\ length' = length /\ buffer' = buffer
      BY <1>2 DEF readVars
    <3>7. more[Len(got)] = ends[Len(got)]
      BY <3>3, <2>2
    <3> QED BY <3>1, <3>3, <3>4, <3>5, <3>6, <3>7, <2>1 DEF Reading
  <2> QED BY <1>1, <1>3, <2>2, <2>3 DEF Inv
<1> QED BY <1>4, <1>5

\* When the connection is closed, or more bytes arrive, what is on the tape and
\* what the reader has stay what they are.
LEMMA CloseArriveInv ==
    ASSUME Inv, Close \/ Arrive
    PROVE  Inv'
<1> PICK ends : Laid(ends) /\ Writing(ends) /\ (~split => Reading(ends))
  BY DEF Inv
<1> Types
  BY DEF Inv
<1>1. UNCHANGED <<sending, tape, order, intact, mixed, readVars>> /\ (closed => closed')
  BY DEF Close, Arrive, writeVars
<1>2. Types'
  <2>1. CASE Close
    BY <2>1, <1>1 DEF Types, Close, readVars
  <2>2. CASE Arrive
    <3>1. PICK n \in (arrived + 1)..Len(tape) : arrived' = n
      BY <2>2 DEF Arrive
    <3>2. arrived' \in Nat /\ taken <= arrived' /\ arrived' <= Len(tape)
      BY <3>1, Lengths, SMT DEF Types
    <3> QED BY <2>2, <1>1, <3>2 DEF Types, Arrive, readVars, writeVars
  <2> QED BY <2>1, <2>2
<1>3. Extended
  BY <1>1, Lengths, SMT DEF Extended
<1>4. Laid(ends)'
  BY <1>1, <1>3, LaidStays
<1>5. Writing(ends)'
  BY <1>1 DEF Writing, LengthAt
<1>6. ~split' => Reading(ends)'
  BY <1>1, <1>3, ReadingStays DEF readVars
<1>7. NeverPastTheBuffer'
  BY <1>1 DEF Inv, NeverPastTheBuffer, readVars
<1> QED BY <1>2, <1>4, <1>5, <1>6, <1>7 DEF Inv

\* What lies on the tape stays what it is when the reader takes a step.
LEMMA WritersRest ==
    ASSUME Types, NEW ends, Laid(ends), Writing(ends), UNCHANGED writeVars
    PROVE  Laid(ends)' /\ Writing(ends)'
<1>1. UNCHANGED <<sending, tape, order, intact, mixed>>
  BY DEF writeVars
<1>2. Extended
  BY <1>1, Lengths, SMT DEF Extended
<1> QED BY <1>1, <1>2, LaidStays DEF Writing, LengthAt

\* A reader that stands behind whole messages finds the length of the next one.
LEMMA NextLength ==
    ASSUME Types, NEW ends, Laid(ends), Writing(ends), Reading(ends),
           Among, rpc = "length", taken < arrived
    PROVE  /\ Len(got) + 1 \in 1..Len(order)
           /\ LengthAt(taken, Len(got) + 1)
<1>1. /\ Len(got) \in Nat /\ intact \in Nat /\ Len(tape) \in Nat /\ Len(order) \in Nat
      /\ taken \in Nat /\ arrived \in Nat /\ arrived <= Len(tape) /\ intact <= Len(order)
  BY Lengths DEF Types, Laid
<1>2. taken = ends[Len(got)]
  BY DEF Reading
<1>3. CASE Len(got) < intact
  <2>1. Len(got) + 1 \in 1..intact /\ Len(got) + 1 - 1 = Len(got) /\ Len(got) + 1 \in 1..Len(order)
    BY <1>1, <1>3, SMT
  <2> QED BY <2>1, <1>2 DEF Laid
<1>4. CASE Len(got) = intact /\ ~mixed
  <2>1. Len(tape) # ends[intact]
    BY <1>1, <1>2, <1>4, SMT
  <2>2. Len(order) = intact + 1 /\ LengthAt(ends[intact], intact + 1)
    BY <2>1, <1>4 DEF Writing
  <2>3. Len(got) + 1 \in 1..Len(order)
    BY <2>2, <1>1, <1>4, SMT
  <2> QED BY <2>2, <2>3, <1>2, <1>4
<1> QED BY <1>3, <1>4 DEF Among

LEMMA ReadLengthInv ==
    ASSUME Inv, ReadLength
    PROVE  Inv'
<1> PICK ends : Laid(ends) /\ Writing(ends) /\ (~split => Reading(ends))
  BY DEF Inv
<1> Types
  BY DEF Inv
<1>1. /\ UNCHANGED writeVars /\ UNCHANGED <<got, fault, arrived>>
      /\ rpc = "length" /\ fault = "none"
      /\ length' = Number(Next4) /\ taken' = taken + Len(Next4) /\ buffer' = <<>>
      /\ split' = (split \/ Len(Next4) < 4)
      /\ rpc' = IF length' > 0 THEN "text" ELSE "over"
  BY DEF ReadLength
<1>2. taken \in Nat /\ arrived \in Nat /\ Len(tape) \in Nat /\ arrived <= Len(tape) /\ taken < arrived
  BY Lengths, SMT DEF Types, ReadLength, Waiting
<1>3. PICK n \in Nat : n = Least(4, Waiting) /\ n <= 4 /\ taken + n <= arrived
  <2>1. CASE 4 <= arrived - taken
    <3>1. Least(4, Waiting) = 4 /\ taken + 4 <= arrived
      BY <2>1, <1>2, SMT DEF Least, Waiting
    <3> QED BY <3>1, SMT
  <2>2. CASE ~(4 <= arrived - taken)
    <3>1. Least(4, Waiting) = arrived - taken
      BY <2>2 DEF Least, Waiting
    <3>2. arrived - taken \in Nat /\ arrived - taken <= 4 /\ taken + (arrived - taken) <= arrived
      BY <2>2, <1>2, SMT
    <3> QED BY <3>1, <3>2
  <2> QED BY <2>1, <2>2
<1>4. /\ Next4 \in Seq(Byte) /\ Len(Next4) = n
      /\ \A j \in 1..n : Next4[j] = tape[taken + j]
  BY <1>3, Piece DEF Next4
<1>5. Len(buffer') = 0 /\ buffer' \in Seq(Byte)
  BY <1>1, EmptySeq
<1>6. Types'
  <2>1. length' \in Int
    BY <1>1, <1>4, NumberIsInt
  <2>2. taken' \in Nat /\ taken' <= arrived' /\ arrived' <= Len(tape') /\ UNCHANGED tape
    BY <1>1, <1>2, <1>3, <1>4, SMT DEF writeVars
  <2>3. rpc' \in {"length", "text", "over"} /\ split' \in BOOLEAN
    BY <1>1 DEF Types
  <2> QED BY <1>1, <1>5, <2>1, <2>2, <2>3 DEF Types, writeVars
<1>7. Laid(ends)' /\ Writing(ends)'
  BY <1>1, WritersRest
<1>8. ASSUME ~split' PROVE Reading(ends)'
  <2>1. Reading(ends) /\ n = 4
    <3>1. ~split /\ ~(n < 4)
      BY <1>1, <1>4, <1>8
    <3> QED BY <3>1, <1>3, SMT
  <2>2. UNCHANGED <<got, order, intact, mixed>>
    BY <1>1 DEF writeVars
  <2>3. CASE Among
    <3> DEFINE next == Len(got) + 1
    <3>1. next \in 1..Len(order) /\ LengthAt(taken, next)
      BY <2>1, <2>3, <1>1, <1>2, NextLength
    <3>2. order[next] \in Text /\ Len(order[next]) \in Nat /\ next <= Len(order)
      BY <3>1, Lengths, SMT
    <3> HIDE DEF next
    <3>3. length' = Len(order[next]) + 1
      <4>1. \A j \in 1..4 : Next4[j] = Bytes(Len(order[next]) + 1)[j]
        BY <3>1, <1>4, <2>1 DEF LengthAt
      <4>2. Len(order[next]) + 1 \in Nat /\ Len(order[next]) + 1 <= 2147483647
        BY <3>2, TextFits, SMT
      <4> QED BY <4>1, <4>2, <1>1, <1>4, <2>1, NumberOfBytes
    <3>4. rpc' = "text" /\ 0 < length'
      BY <3>2, <3>3, <1>1, SMT
    <3>5. taken' = ends[Len(got)] + 4 + 0
      <4>1. taken = ends[Len(got)] /\ taken' = taken + 4
        BY <1>1, <1>4, <2>1, <2>3 DEF Reading
      <4> QED BY <4>1, <1>2, SMT
    <3>6. \A j \in 1..0 : buffer'[j] = Terminated(order[next])[j]
      BY SMT
    <3> QED BY <1>5, <2>1, <2>2, <3>2, <3>3, <3>4, <3>5, <3>6 DEF Reading, next
  <2>4. CASE ~Among
    <3>1. Len(got) \in Nat /\ intact \in Nat
      BY Lengths DEF Types
    <3>2. Len(got) >= intact /\ mixed
      BY <2>1, <2>4, <3>1, SMT DEF Among, Reading
    <3>3. ~Among'
      BY <2>2, <2>4 DEF Among
    <3>4. rpc' # "length"
      BY <1>1
    <3> QED BY <2>1, <2>2, <3>2, <3>3, <3>4 DEF Reading
  <2> QED BY <2>3, <2>4
<1>9. NeverPastTheBuffer'
  BY <1>1 DEF NeverPastTheBuffer
<1> QED BY <1>6, <1>7, <1>8, <1>9 DEF Inv

LEMMA ReadEndInv ==
    ASSUME Inv, ReadEnd
    PROVE  Inv'
<1> PICK ends : Laid(ends) /\ Writing(ends) /\ (~split => Reading(ends))
  BY DEF Inv
<1> Types
  BY DEF Inv
<1>1. /\ UNCHANGED writeVars /\ UNCHANGED <<taken, length, buffer, got, split, fault, arrived>>
      /\ rpc \in {"length", "text"} /\ closed /\ taken = Len(tape) /\ rpc' = "over"
  BY DEF ReadEnd
<1>2. UNCHANGED <<tape, order, intact, mixed, closed>>
  BY <1>1 DEF writeVars
<1>3. Types'
  BY <1>1 DEF Types, writeVars
<1>4. Laid(ends)' /\ Writing(ends)'
  BY <1>1, WritersRest
<1>5. ASSUME ~split' PROVE Reading(ends)'
  <2>1. Reading(ends)
    BY <1>1, <1>5
  <2>2. Len(got) \in Nat /\ intact \in Nat /\ Len(tape) \in Nat /\ Len(buffer) \in Nat
    BY Lengths DEF Types
  <2>3. ~(Len(got) < intact)
    <3> SUFFICES ASSUME Len(got) < intact PROVE FALSE
      OBVIOUS
    <3> DEFINE next == Len(got) + 1
    <3>1. next \in 1..intact /\ next - 1 = Len(got) /\ next \in 1..Len(order) /\ next \in 0..intact
          /\ Len(got) \in 0..intact
      BY <2>2, Lengths, SMT DEF Laid
    <3>2. Among /\ ends[next] \in Nat /\ ends[Len(got)] \in Nat /\ Len(order[next]) \in Nat
      BY <3>1, Lengths DEF Among, Laid
    <3>3. ends[next] = ends[Len(got)] + Len(order[next]) + 5 /\ ends[next] <= Len(tape)
      BY <3>1 DEF Laid
    <3>4. CASE rpc = "length"
      <4>1. taken = ends[Len(got)]
        BY <2>1, <3>2, <3>4 DEF Reading
      <4> HIDE DEF next
      <4> QED BY <4>1, <3>2, <3>3, <1>1, <2>2, SMT
    <3>5. CASE rpc = "text"
      <4>1. /\ length = Len(order[next]) + 1
            /\ taken = ends[Len(got)] + 4 + Len(buffer) /\ Len(buffer) < length
        BY <2>1, <3>2, <3>5 DEF Reading, Types
      <4> HIDE DEF next
      <4> QED BY <4>1, <3>2, <3>3, <1>1, <2>2, SMT
    <3> QED BY <3>4, <3>5, <1>1
  <2>4. Len(got) >= intact
    BY <2>2, <2>3, SMT
  <2> QED BY <1>1, <1>2, <2>1, <2>4 DEF Reading
<1>6. NeverPastTheBuffer'
  BY <1>1, <1>2 DEF Inv, NeverPastTheBuffer
<1> QED BY <1>3, <1>4, <1>5, <1>6 DEF Inv

\* A reader that is in a text finds more of this text, and no more than it.
LEMMA NextPiece ==
    ASSUME Types, NEW ends, Laid(ends), Writing(ends), Reading(ends),
           Among, rpc = "text", taken < arrived
    PROVE  /\ Len(got) + 1 \in 1..intact /\ TextAt(ends[Len(got)], Len(got) + 1)
           /\ ends[Len(got) + 1] = ends[Len(got)] + length + 4
<1>1. /\ Len(got) \in Nat /\ intact \in Nat /\ Len(tape) \in Nat /\ Len(buffer) \in Nat
      /\ taken \in Nat /\ arrived \in Nat /\ arrived <= Len(tape) /\ intact <= Len(order)
  BY Lengths DEF Types, Laid
<1>2. Len(got) <= intact
  BY <1>1, SMT DEF Among
<1>3. Len(got) \in 0..intact
  BY <1>1, <1>2, SMT
<1>4. ends[Len(got)] \in Nat
  BY <1>3 DEF Laid
<1>5. /\ taken = ends[Len(got)] + 4 + Len(buffer) /\ length = Len(order[Len(got) + 1]) + 1
  BY DEF Reading
<1>6. Len(got) # intact
  <2> SUFFICES ASSUME Len(got) = intact PROVE FALSE
    OBVIOUS
  <2>1. ~mixed
    BY <1>1, SMT DEF Among
  <2>2. Len(tape) = ends[intact] \/ Len(tape) = ends[intact] + 4
    BY <2>1 DEF Writing
  <2> QED BY <2>2, <1>1, <1>4, <1>5, SMT
<1>7. Len(got) + 1 \in 1..intact /\ Len(got) + 1 - 1 = Len(got) /\ Len(got) + 1 \in 1..Len(order)
  BY <1>1, <1>2, <1>6, SMT
<1>8. /\ ends[Len(got) + 1] = ends[Len(got)] + Len(order[Len(got) + 1]) + 5
      /\ TextAt(ends[Len(got)], Len(got) + 1)
  BY <1>7 DEF Laid
<1>9. Len(order[Len(got) + 1]) \in Nat
  BY <1>7, Lengths
<1>10. ends[Len(got) + 1] = ends[Len(got)] + length + 4
  <2> DEFINE l == Len(order[Len(got) + 1])  e == ends[Len(got)]
  <2>1. l \in Nat /\ e \in Nat /\ length = l + 1 /\ ends[Len(got) + 1] = e + l + 5
    BY <1>4, <1>5, <1>8, <1>9
  <2> HIDE DEF l, e
  <2>2. ends[Len(got) + 1] = e + length + 4
    BY <2>1, SMT
  <2> QED BY <2>2 DEF e
<1> QED BY <1>7, <1>8, <1>10

LEMMA ReadTextInv ==
    ASSUME Inv, ReadText
    PROVE  Inv'
<1> PICK ends : Laid(ends) /\ Writing(ends) /\ (~split => Reading(ends))
  BY DEF Inv
<1> Types
  BY DEF Inv
<1> DEFINE m == Least(length - Len(buffer), Waiting)
           piece == SubSeq(tape, taken + 1, taken + m)
           all == buffer \o piece
<1>1. /\ UNCHANGED writeVars /\ UNCHANGED <<length, split, arrived>>
      /\ rpc = "text" /\ fault = "none" /\ Waiting > 0
      /\ taken' = taken + m
      /\ buffer' = IF Len(all) = length THEN <<>> ELSE all
      /\ got' = IF Len(all) = length THEN Append(got, all) ELSE got
      /\ rpc' = IF Len(all) = length THEN "length" ELSE "text"
      /\ fault' = IF \/ Len(all) > MAX_BUFFER_SIZE
                     \/ Len(all) = length /\ Len(all) = MAX_BUFFER_SIZE
                  THEN "overflow" ELSE fault
  BY DEF ReadText
<1>2. /\ taken \in Nat /\ arrived \in Nat /\ Len(tape) \in Nat /\ Len(got) \in Nat
      /\ arrived <= Len(tape) /\ taken < arrived
      /\ length \in Int /\ Len(buffer) \in Nat /\ Len(buffer) < length
  BY <1>1, Lengths, SMT DEF Types, Waiting
<1>3. m \in Nat /\ taken + m <= arrived /\ Len(buffer) + m <= length
  <2>1. CASE length - Len(buffer) <= arrived - taken
    BY <2>1, <1>2, SMT DEF Least, Waiting
  <2>2. CASE ~(length - Len(buffer) <= arrived - taken)
    BY <2>2, <1>2, SMT DEF Least, Waiting
  <2> QED BY <2>1, <2>2
<1> HIDE DEF m
<1>4. /\ piece \in Seq(Byte) /\ Len(piece) = m
      /\ \A j \in 1..m : piece[j] = tape[taken + j]
  BY <1>3, Piece
<1> HIDE DEF piece
<1>5. /\ all \in Seq(Byte) /\ Len(all) = Len(buffer) + m
      /\ \A j \in 1..(Len(buffer) + m) :
            all[j] = IF j <= Len(buffer) THEN buffer[j] ELSE piece[j - Len(buffer)]
  <2>1. buffer \in Seq(Byte)
    BY DEF Types
  <2> QED BY <2>1, <1>4, ConcatProperties
<1> HIDE DEF all
<1>6. Len(all) = length => /\ Len(got') = Len(got) + 1
                           /\ \A i \in 1..Len(got) : got'[i] = got[i]
                           /\ got'[Len(got) + 1] = all
  <2>1. got \in Seq(Seq(Byte))
    BY DEF Types
  <2> QED BY <2>1, <1>1, <1>5, AppendProperties
<1>7. Types'
  <2>1. buffer' \in Seq(Byte) /\ got' \in Seq(Seq(Byte))
    <3>1. <<>> \in Seq(Byte) /\ got \in Seq(Seq(Byte))
      BY EmptySeq DEF Types
    <3> QED BY <3>1, <1>1, <1>5, AppendProperties
  <2>2. taken' \in Nat /\ taken' <= arrived' /\ arrived' <= Len(tape') /\ UNCHANGED tape
    BY <1>1, <1>2, <1>3, SMT DEF writeVars
  <2>3. rpc' = "text" => Len(buffer') < length'
    <3>1. Len(all) <= length
      BY <1>3, <1>5, SMT
    <3>2. Len(all) \in Nat
      BY <1>5, <1>2, <1>3, SMT
    <3>3. rpc' = "text" => Len(all) # length /\ buffer' = all
      BY <1>1
    <3> QED BY <3>1, <3>2, <3>3, <1>1, <1>2, SMT
  <2> QED BY <1>1, <2>1, <2>2, <2>3 DEF Types, writeVars
<1>8. Laid(ends)' /\ Writing(ends)'
  BY <1>1, WritersRest
<1>9. UNCHANGED <<tape, order, intact, mixed, closed>>
  BY <1>1 DEF writeVars
<1>10. ASSUME ~split, Among
       PROVE  LET next == Len(got) + 1
              IN  /\ next \in 1..intact /\ next \in 1..Len(order)
                  /\ length = Len(order[next]) + 1 /\ ends[next] = ends[Len(got)] + length + 4
                  /\ ends[Len(got)] \in Nat /\ taken = ends[Len(got)] + 4 + Len(buffer)
                  /\ \A j \in 1..Len(all) : all[j] = Terminated(order[next])[j]
  <2> DEFINE next == Len(got) + 1
  <2>1. /\ next \in 1..intact /\ TextAt(ends[Len(got)], next)
        /\ ends[next] = ends[Len(got)] + length + 4
    BY <1>1, <1>2, <1>10, NextPiece
  <2>2. /\ length = Len(order[next]) + 1 /\ taken = ends[Len(got)] + 4 + Len(buffer)
        /\ \A j \in 1..Len(buffer) : buffer[j] = Terminated(order[next])[j]
    BY <1>1, <1>10 DEF Reading
  <2>3. next \in 1..Len(order) /\ Len(got) \in 0..intact
    BY <2>1, <1>2, Lengths, SMT DEF Laid, Types
  <2>4. ends[Len(got)] \in Nat
    BY <2>3 DEF Laid
  <2>5. ASSUME NEW j \in 1..Len(all) PROVE all[j] = Terminated(order[next])[j]
    <3>1. CASE j <= Len(buffer)
      <4>1. j \in 1..Len(buffer) /\ j \in 1..(Len(buffer) + m)
        BY <3>1, <1>2, <1>5, SMT
      <4> QED BY <4>1, <3>1, <1>5, <2>2
    <3>2. CASE ~(j <= Len(buffer))
      <4>1. /\ j \in 1..(Len(buffer) + m) /\ j - Len(buffer) \in 1..m
            /\ taken + (j - Len(buffer)) = ends[Len(got)] + 4 + j
            /\ j \in 1..(Len(order[next]) + 1)
        <5> DEFINE e == ends[Len(got)]  l == Len(order[next])
        <5>1. e \in Nat /\ taken = e + 4 + Len(buffer) /\ length = l + 1
          BY <2>2, <2>4
        <5> HIDE DEF e, l
        <5>2. /\ j \in 1..(Len(buffer) + m) /\ j - Len(buffer) \in 1..m
              /\ taken + (j - Len(buffer)) = e + 4 + j /\ j \in 1..length
          BY <5>1, <3>2, <1>2, <1>3, <1>5, SMT
        <5> QED BY <5>1, <5>2 DEF e, l
      <4>2. all[j] = tape[taken + (j - Len(buffer))]
        BY <4>1, <3>2, <1>4, <1>5
      <4> QED BY <4>1, <4>2, <2>1 DEF TextAt
    <3> QED BY <3>1, <3>2
  <2> QED BY <2>1, <2>2, <2>3, <2>4, <2>5
<1>11. ASSUME ~split' PROVE Reading(ends)'
  <2>1. Reading(ends) /\ ~split
    BY <1>1, <1>11
  <2>2. intact \in Nat /\ Len(got') \in Nat /\ Len(got) <= Len(got')
    <3>1. Len(got') = Len(got) \/ Len(got') = Len(got) + 1
      BY <1>1, <1>6
    <3> QED BY <3>1, <1>2, SMT DEF Types
  <2>3. CASE ~Among
    <3>1. Len(got) >= intact /\ mixed
      BY <2>1, <2>2, <2>3, <1>2, SMT DEF Among, Reading
    <3>2. ~Among' /\ rpc' # "over"
      BY <3>1, <2>2, <1>1, <1>2, <1>9, SMT DEF Among
    <3>3. \A i \in 1..Len(got') : i <= intact => got'[i] = Terminated(order[i])
      <4> SUFFICES ASSUME NEW i \in 1..Len(got'), i <= intact PROVE got'[i] = Terminated(order[i])
        OBVIOUS
      <4>1. i \in 1..Len(got)
        BY <3>1, <2>2, <1>2, SMT
      <4>2. got'[i] = got[i]
        BY <4>1, <1>1, <1>6
      <4> QED BY <4>1, <4>2, <2>1 DEF Reading
    <3> QED BY <3>1, <3>2, <3>3, <1>9 DEF Reading
  <2>4. CASE Among
    <3> DEFINE next == Len(got) + 1
    <3>1. /\ next \in 1..intact /\ next \in 1..Len(order)
          /\ length = Len(order[next]) + 1 /\ ends[next] = ends[Len(got)] + length + 4
          /\ ends[Len(got)] \in Nat /\ taken = ends[Len(got)] + 4 + Len(buffer)
          /\ \A j \in 1..Len(all) : all[j] = Terminated(order[next])[j]
      BY <2>1, <2>4, <1>10
    <3>2. taken' = ends[Len(got)] + 4 + Len(all)
      BY <3>1, <1>1, <1>2, <1>3, <1>5, SMT
    <3>3. CASE Len(all) = length
      <4>1. all = Terminated(order[next])
        <5>1. Terminated(order[next]) \in Seq(Byte) /\ Len(Terminated(order[next])) = length
          BY <3>1, Lengths, TextFits
        <5> QED BY <5>1, <3>1, <3>3, <1>5, SeqEqual
      <4>2. Len(got') = next /\ got'[next] = all /\ \A i \in 1..Len(got) : got'[i] = got[i]
        BY <3>3, <1>6
      <4>3. \A i \in 1..Len(got') : i <= intact => got'[i] = Terminated(order[i])
        <5> SUFFICES ASSUME NEW i \in 1..next, i <= intact PROVE got'[i] = Terminated(order[i])
          BY <4>2
        <5>1. i = next \/ i \in 1..Len(got)
          BY <1>2, SMT
        <5> QED BY <5>1, <4>1, <4>2, <2>1 DEF Reading
      <4>4. ~(Len(got') > intact')
        <5>1. next <= intact /\ next \in Int /\ intact \in Int
          BY <3>1, <2>2, <1>2, SMT
        <5> HIDE DEF next
        <5> QED BY <5>1, <4>2, <1>9, SMT
      <4>5. taken' = ends[Len(got')]
        <5> DEFINE e == ends[Len(got)]
        <5>1. e \in Nat /\ ends[next] = e + length + 4 /\ taken' = e + 4 + length
          BY <3>1, <3>2, <3>3
        <5> HIDE DEF e
        <5>2. taken' = ends[next]
          BY <5>1, <1>2, SMT
        <5> QED BY <5>2, <4>2
      <4>6. rpc' = "length"
        BY <3>3, <1>1
      <4> QED BY <4>3, <4>4, <4>5, <4>6, <1>9 DEF Reading
    <3>4. CASE Len(all) # length
      <4>1. got' = got /\ buffer' = all /\ rpc' = "text" /\ length' = length
        BY <3>4, <1>1
      <4>2. next <= Len(order)
        BY <3>1, Lengths, SMT
      <4> QED BY <4>1, <4>2, <3>1, <3>2, <2>1, <1>9 DEF Reading
    <3> QED BY <3>3, <3>4
  <2> QED BY <2>3, <2>4
<1>12. NeverPastTheBuffer'
  <2> SUFFICES ASSUME fault' = "overflow", ~mixed, ~split PROVE FALSE
    BY <1>1, <1>9 DEF NeverPastTheBuffer
  <2>1. Reading(ends)
    OBVIOUS
  <2>2. Among
    <3>1. ~(Len(got) > intact) /\ intact \in Nat
      BY <2>1 DEF Reading, Types
    <3> QED BY <3>1, <1>2, SMT DEF Among
  <2>3. PICK t \in Text : length = Len(t) + 1
    BY <2>2, <1>10, Lengths
  <2>4. length < MAX_BUFFER_SIZE /\ MAX_BUFFER_SIZE \in Nat
    BY <2>3, TextFits
  <2>5. Len(all) \in Nat /\ Len(all) <= length
    BY <1>2, <1>3, <1>5, SMT
  <2>6. ~(Len(all) > MAX_BUFFER_SIZE) /\ Len(all) # MAX_BUFFER_SIZE
    BY <1>2, <2>4, <2>5, SMT
  <2> QED BY <2>6, <1>1
<1> QED BY <1>7, <1>8, <1>11, <1>12 DEF Inv

-----------------------------------------------------------------------------
(* The theorems.                                                              *)

LEMMA StepInv ==
    ASSUME Inv, [Next]_vars
    PROVE  Inv'
<1>1. ASSUME NEW w \in Writer, WriteText(w) \/ \E t \in Text : WriteLength(w, t) PROVE Inv'
  BY <1>1, WriteTextInv, WriteLengthInv
<1>2. CASE Close \/ Arrive
  BY <1>2, CloseArriveInv
<1>3. CASE Reader
  BY <1>3, ReadLengthInv, ReadEndInv, ReadTextInv DEF Reader
<1>4. CASE UNCHANGED vars
  <2> PICK ends : Laid(ends) /\ Writing(ends) /\ (~split => Reading(ends))
    BY DEF Inv
  <2>1. Types /\ UNCHANGED writeVars /\ UNCHANGED <<readVars, arrived>>
    BY <1>4 DEF Inv, vars
  <2>2. Laid(ends)' /\ Writing(ends)' /\ Types'
    BY <2>1, WritersRest DEF Types, writeVars, readVars
  <2>3. Reading(ends) => Reading(ends)'
    BY <2>1 DEF Reading, Among, writeVars, readVars
  <2>4. NeverPastTheBuffer' /\ split' = split
    BY <2>1 DEF Inv, NeverPastTheBuffer, writeVars, readVars
  <2> QED BY <2>2, <2>3, <2>4 DEF Inv
<1> QED BY <1>1, <1>2, <1>3, <1>4 DEF Next

LEMMA InvReadAsWritten == Inv => ReadAsWritten
<1> SUFFICES ASSUME Inv, ~split, NEW i \in DOMAIN got, i <= intact
             PROVE  got[i] = Terminated(order[i])
  BY DEF ReadAsWritten
<1>1. DOMAIN got = 1..Len(got)
  BY LenProperties DEF Inv, Types
<1> QED BY <1>1 DEF Inv, Reading

\* The types of the state, and where every message lies on the tape and how far
\* the reader has come among them.
THEOREM Invariance == Spec => []Inv
<1>1. Inv /\ [Next]_vars => Inv'
  BY StepInv
<1> QED BY InitInv, <1>1, PTL DEF Spec

\* What sendData wrote before two messages were mixed, receiveData reads as it
\* was written, in order and each once, for every set of texts, any number of
\* threads that write, and however the bytes arrive.
THEOREM MessagesArriveAsWritten == Spec => []ReadAsWritten
BY Invariance, InvReadAsWritten, PTL

\* And its caller writes nothing past the end of the buffer.
THEOREM BufferHolds == Spec => []NeverPastTheBuffer
<1>1. Inv => NeverPastTheBuffer
  BY DEF Inv
<1> QED BY <1>1, Invariance, PTL
=============================================================================
