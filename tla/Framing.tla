------------------------------- MODULE Framing -------------------------------
(***************************************************************************)
(* One direction of a connection: sendData at one end, by several threads  *)
(* without a lock, and receiveData at the other.  A message is four bytes  *)
(* of length, the least significant first, and its characters with a zero  *)
(* behind them; the two are written by two calls, and what another thread  *)
(* writes may come between.  The bytes arrive in pieces of any size: read  *)
(* returns what there is, up to what it is asked for.                      *)
(***************************************************************************)
EXTENDS Integers, Sequences

CONSTANTS Writer,             \* the threads that write to the connection
          Text,               \* bound: the texts they send, as character codes
          MaxSend,            \* bound: the messages sent in all
          MAX_BUFFER_SIZE     \* the size of receiveBuffer and sendBuffer

\* No text is empty, as each begins with its command.
ASSUME TextAssumption == /\ \A t \in Text : t \in Seq(1..127) /\ t # <<>>
                         /\ MaxSend \in Nat

\* The texts leave the last place of the buffer free (WireFormat is about that),
\* and the length of a buffer is an int.
ASSUME RoomAssumption == /\ MAX_BUFFER_SIZE \in Nat /\ MAX_BUFFER_SIZE <= 2147483647
                         /\ \A t \in Text : Len(t) + 1 < MAX_BUFFER_SIZE

VARIABLES
    sending,        \* the text each writer has written the length of, or Nothing
    tape,           \* the bytes written so far
    closed,         \* the writing end is closed
    arrived, taken, \* how many of the bytes have arrived, and have been read
    rpc,            \* receiveData: "length", "text", or "over" for its caller
    length, buffer, \* its locals
    order,          \* the texts, in the order in which their lengths were written
    got,            \* what receiveData has handed to its caller
    intact,         \* how many messages were written before two were mixed
    mixed, split,   \* two were mixed; a length was read in part
    fault           \* "none", or "overflow": written past the end of the buffer

writeVars == <<sending, tape, closed, order, intact, mixed>>
readVars == <<taken, rpc, length, buffer, got, split, fault>>
vars == <<writeVars, arrived, readVars>>

Nothing == <<>>
Zero == 0
Least(a, b) == IF a <= b THEN a ELSE b

\* Slip: the length is sent with its most significant byte first.
BytesReversed(n) ==
    <<n \div 16777216, (n \div 65536) % 256, (n \div 256) % 256, n % 256>>

\* The four bytes of a length, and the number that the first of them stand for
\* when the others are zero; of a negative one only the sign matters.
Bytes(n) == <<n % 256, (n \div 256) % 256, (n \div 65536) % 256, n \div 16777216>>
ByteAt(s, i) == IF i <= Len(s) THEN s[i] ELSE 0
Number(s) == IF ByteAt(s, 4) >= 128 THEN -1
             ELSE ByteAt(s, 1) + 256 * ByteAt(s, 2) + 65536 * ByteAt(s, 3)
                  + 16777216 * ByteAt(s, 4)

\* What a text takes on the tape behind its length.
Terminated(t) == Append(t, Zero)

-----------------------------------------------------------------------------

Init == /\ sending = [w \in Writer |-> Nothing]
        /\ tape = <<>> /\ closed = FALSE /\ order = <<>>
        /\ arrived = 0 /\ taken = 0
        /\ rpc = "length" /\ length = 0 /\ buffer = <<>> /\ got = <<>>
        /\ intact = 0 /\ mixed = FALSE /\ split = FALSE /\ fault = "none"

\* sendData: first the length ...
WriteLength(w, t) ==
    /\ ~closed /\ sending[w] = Nothing /\ Len(order) < MaxSend
    /\ sending' = [sending EXCEPT ![w] = t]
    /\ tape' = tape \o Bytes(Len(t) + 1)
    /\ order' = Append(order, t)
    /\ mixed' = (mixed \/ \E v \in Writer : sending[v] # Nothing)
    /\ UNCHANGED <<closed, intact, arrived, readVars>>

\* Slip: the terminating zero is not sent.
WriteTextUnterminated(w) ==
    /\ ~closed /\ sending[w] # Nothing
    /\ tape' = tape \o sending[w]
    /\ sending' = [sending EXCEPT ![w] = Nothing]
    /\ intact' = IF mixed THEN intact ELSE intact + 1
    /\ UNCHANGED <<closed, order, mixed, arrived, readVars>>

\* ... then the text.
WriteText(w) ==
    /\ ~closed /\ sending[w] # Nothing
    /\ tape' = tape \o Terminated(sending[w])
    /\ sending' = [sending EXCEPT ![w] = Nothing]
    /\ intact' = IF mixed THEN intact ELSE intact + 1
    /\ UNCHANGED <<closed, order, mixed, arrived, readVars>>

Close == /\ ~closed /\ closed' = TRUE
         /\ UNCHANGED <<sending, tape, order, intact, mixed, arrived, readVars>>

\* The network brings some more of the bytes.
Arrive == /\ \E n \in (arrived + 1)..Len(tape) : arrived' = n
          /\ UNCHANGED <<writeVars, readVars>>

-----------------------------------------------------------------------------

Waiting == arrived - taken
Next4 == SubSeq(tape, taken + 1, taken + Least(4, Waiting))

\* receiveData reads the length, four bytes or what there is of them.  A length
\* that is not positive ends the loop of its caller.
ReadLength ==
    /\ rpc = "length" /\ fault = "none" /\ Waiting > 0
    /\ length' = Number(Next4)
    /\ taken' = taken + Len(Next4)
    /\ split' = (split \/ Len(Next4) < 4)
    /\ buffer' = <<>>
    /\ rpc' = IF length' > 0 THEN "text" ELSE "over"
    /\ UNCHANGED <<got, fault, writeVars, arrived>>

\* The end of the connection: no length, or a text that stops in the middle.
ReadEnd == /\ rpc \in {"length", "text"} /\ fault = "none"
           /\ closed /\ taken = Len(tape)
           /\ rpc' = "over"
           /\ UNCHANGED <<taken, length, buffer, got, split, fault, writeVars, arrived>>

\* Slip: what the first read returns is taken for the whole text.
ReadTextOnce ==
    /\ rpc = "text" /\ fault = "none" /\ Waiting > 0
    /\ LET n == Least(length - Len(buffer), Waiting)
           text == buffer \o SubSeq(tape, taken + 1, taken + n)
       IN  /\ taken' = taken + n
           /\ buffer' = <<>> /\ got' = Append(got, text) /\ rpc' = "length"
           /\ fault' = IF Len(text) >= MAX_BUFFER_SIZE THEN "overflow" ELSE fault
    /\ UNCHANGED <<length, split, writeVars, arrived>>

\* receiveData reads on until it has the whole text; then its caller writes a
\* zero behind it, and asks for the next one.
ReadText ==
    /\ rpc = "text" /\ fault = "none" /\ Waiting > 0
    /\ LET n == Least(length - Len(buffer), Waiting)
           text == buffer \o SubSeq(tape, taken + 1, taken + n)
           whole == Len(text) = length
       IN  /\ taken' = taken + n
           /\ buffer' = IF whole THEN <<>> ELSE text
           /\ got' = IF whole THEN Append(got, text) ELSE got
           /\ rpc' = IF whole THEN "length" ELSE "text"
           /\ fault' = IF \/ Len(text) > MAX_BUFFER_SIZE
                          \/ whole /\ Len(text) = MAX_BUFFER_SIZE
                       THEN "overflow" ELSE fault
    /\ UNCHANGED <<length, split, writeVars, arrived>>

Reader == ReadLength \/ ReadEnd \/ ReadText

Next == \/ \E w \in Writer : WriteText(w) \/ \E t \in Text : WriteLength(w, t)
        \/ Close \/ Arrive \/ Reader

Spec == Init /\ [][Next]_vars

\* The network brings what was sent, and the reader reads.
FairSpec == Spec /\ WF_vars(Arrive) /\ WF_vars(Reader)

-----------------------------------------------------------------------------

\* As long as no length is read in part, the messages written before the first
\* two are mixed are read as they were written, in order and each once, however
\* their bytes arrive and whatever follows them.
ReadAsWritten ==
    ~split => \A i \in DOMAIN got : i <= intact => got[i] = Terminated(order[i])

\* Nothing is read past what was sent, and nothing past the buffer is written,
\* unless two threads' messages were mixed or a length was read in part.
NeverPastTheBuffer == fault = "overflow" => mixed \/ split

\* The messages written before two were mixed are all read in the end.
EverythingIsRead ==
    \A n \in 1..MaxSend : intact = n ~> Len(got) >= n \/ split
=============================================================================
