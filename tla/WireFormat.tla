----------------------------- MODULE WireFormat -----------------------------
(***************************************************************************)
(* What the messages say: how a client's <IP, port> becomes text and what  *)
(* the other end reads from it.  A command is one token of a text, every   *)
(* other character is one; of a string in memory only the rest behind a    *)
(* pointer matters, so a pointer is that rest, and NULL the empty one.     *)
(*                                                                         *)
(* Requests are dealt with one at a time here, and every message reaches   *)
(* whom it is meant for: Server and DropboxSync are about that.            *)
(***************************************************************************)
EXTENDS Integers, Sequences

CONSTANTS Party,              \* the clients: [host, ip, port]: what getIpAddres makes of the
                              \* host's name, as four bytes, and the value of -p
          MAX_BUFFER_SIZE

ASSUME PartyAssumption ==
    /\ \A p \in Party : p.ip \in [1..4 -> 0..255] /\ p.port \in Nat
    /\ MAX_BUFFER_SIZE \in Nat

VARIABLES
    list,           \* the server's: [ip, port, of], `of` being who logged on so
    on, asked,      \* the clients that are logged on, that have asked
    known,          \* client: its list of the others, [ip, port]
    said,           \* the texts written by the last step
    crashed,        \* somebody dereferenced NULL
    twins           \* two clients were on that the texts do not tell apart

vars == <<list, on, asked, known, said, crashed, twins>>

-----------------------------------------------------------------------------
(* Writing.                                                                *)

Digit == <<"0", "1", "2", "3", "4", "5", "6", "7",
           "8", "9", "a", "b", "c", "d", "e", "f">>
DigitValue == [d \in {Digit[i] : i \in DOMAIN Digit} |->
                  (CHOOSE i \in DOMAIN Digit : Digit[i] = d) - 1]

\* ntohs, and htons: the two bytes of a port change places, higher ones are lost.
Swapped(n) == ((n % 256) * 256) + ((n \div 256) % 256)

\* %d.
Decimal[n \in Nat] ==
    LET last == <<Digit[(n % 10) + 1]>>
    IN  IF n < 10 THEN last ELSE Decimal[n \div 10] \o last

\* The rest of s from the first of these places on.
First(places) == CHOOSE i \in places : \A j \in places : i <= j
From(s, places) == IF places = {} THEN <<>> ELSE SubSeq(s, First(places), Len(s))

\* Slip: the bytes are printed as they are in memory.
HexUnconverted(ip) ==
    LET nibbles == [i \in 1..8 |-> LET b == ip[4 - ((i - 1) \div 2)]
                                   IN  IF i % 2 = 1 THEN b \div 16 ELSE b % 16]
    IN  From([i \in 1..8 |-> Digit[nibbles[i] + 1]],
             {i \in 1..8 : nibbles[i] # 0 \/ i = 8})

\* %x of an address in host order: no zeros in front.
Hex(ip) ==
    LET nibbles == [i \in 1..8 |-> LET b == ip[(i + 1) \div 2]
                                   IN  IF i % 2 = 1 THEN b \div 16 ELSE b % 16]
    IN  From([i \in 1..8 |-> Digit[nibbles[i] + 1]],
             {i \in 1..8 : nibbles[i] # 0 \/ i = 8})

TupleText(t) ==
    <<"<">> \o Hex(t.ip) \o <<",", " ">> \o Decimal[Swapped(t.port)] \o <<">">>

Message(command, t) == <<command, " ">> \o TupleText(t)

\* The number of tuples, and then the loop over the list.
ListText(ts) ==
    LET text[n \in 0..Len(ts)] ==
            IF n = 0 THEN <<"CLIENT_LIST", " ">> \o Decimal[Len(ts)]
            ELSE text[n - 1] \o <<" ">> \o TupleText(ts[n])
    IN  text[Len(ts)]

Letters == [USER_ON |-> 7, USER_OFF |-> 8, CLIENT_LIST |-> 11,
            LOG_ON |-> 6, LOG_OFF |-> 7, GET_CLIENTS |-> 11]
Size(text) == Len(text) - 1 + Letters[Head(text)]

-----------------------------------------------------------------------------
(* Reading.                                                                *)

Null == <<>>
Behind(s, n) == SubSeq(s, n + 1, Len(s))
StrChr(s, c) == From(s, {i \in DOMAIN s : s[i] = c})
StrStr(s, pattern) ==
    From(s, {i \in 1..(Len(s) - Len(pattern) + 1) :
                SubSeq(s, i, i + Len(pattern) - 1) = pattern})

\* extractStringBetweenPatterns.
Extract(start, end, s) ==
    LET a == StrStr(s, start)
        b == Behind(a, Len(start))
        rest == StrStr(b, end)
    IN  IF a = Null \/ rest = Null THEN Null ELSE SubSeq(b, 1, Len(b) - Len(rest))

ExtractedIp(s) == Extract(<<"<">>, <<",", " ">>, s)
ExtractedPort(s) == Extract(<<",", " ">>, <<">">>, s)

Number(digits) ==
    LET value[i \in 0..Len(digits)] ==
            IF i = 0 THEN 0 ELSE 10 * value[i - 1] + DigitValue[digits[i]]
    IN  value[Len(digits)]

\* atoi: blanks, then digits, up to the first character that is none.
AtoI(s) ==
    LET digits == From(s, {i \in DOMAIN s : s[i] # " "})
        ten == {Digit[j] : j \in 1..10}
        rest == From(digits, {i \in DOMAIN digits : digits[i] \notin ten})
    IN  Number(SubSeq(digits, 1, Len(digits) - Len(rest)))

\* strtoul and inet_ntoa: the four bytes of at most eight hexadecimal digits.
Address(s) ==
    LET nibble(i) == IF i + Len(s) > 8 THEN DigitValue[s[i + Len(s) - 8]] ELSE 0
    IN  [i \in 1..4 |-> 16 * nibble(2 * i - 1) + nibble(2 * i)]

\* The first tuple of s; without one, atoi and strtoul get NULL.
HasTuple(s) == ExtractedIp(s) # Null /\ ExtractedPort(s) # Null
TupleOf(s) == [ip |-> Address(ExtractedIp(s)), port |-> Swapped(AtoI(ExtractedPort(s)))]

\* CLIENT_LIST: the number behind the command, and where the i-th tuple begins,
\* two blanks behind the one before.
SentTuples(s) == AtoI(StrChr(s, " "))
NextTuple(s) == Behind(StrChr(Behind(StrChr(s, " "), 2), " "), 1)
TupleFrom(s, i) ==
    LET at[j \in 0..i] == IF j = 0 THEN s ELSE NextTuple(at[j - 1])
    IN  IF i = 1 THEN s ELSE at[i]

\* Slip: the loop goes on to the tuple behind the last one.
ReadableBeyond(s) ==
    HasTuple(s) /\ \A i \in 1..(SentTuples(s) + 1) : HasTuple(TupleFrom(s, i))

\* The loop finds a tuple each time, and there is the one looked for first.
Readable(s) == HasTuple(s) /\ \A i \in 1..SentTuples(s) : HasTuple(TupleFrom(s, i))

\* Slip: two clients of one host are taken for the same.
IsOwnHost(p, t) == t.ip = p.ip

\* isTheSameTupleNode with the client's own address and the port as it was given.
IsOwn(p, t) == t.ip = p.ip /\ t.port = p.port

-----------------------------------------------------------------------------

Init == /\ list = <<>> /\ on = {} /\ asked = {}
        /\ known = [p \in Party |-> {}]
        /\ said = <<>> /\ crashed = FALSE /\ twins = FALSE

\* What the texts tell of a client.
Truncated(p) == [ip |-> p.ip, port |-> p.port % 65536]

\* Slip: the addresses are compared as pointers.
SameTupleByPointer(t) == {}

\* The nodes that isTheSameTupleNode finds equal to t.
SameTuple(t) == {i \in DOMAIN list : list[i].ip = t.ip /\ list[i].port = t.port}

Unlink(i) == [j \in 1..(Len(list) - 1) |-> IF j < i THEN list[j] ELSE list[j + 1]]

\* Those who are told of t: the others on the list.
Told(t) == {list[i].of : i \in DOMAIN list \ SameTuple(t)}

LogOn(p) ==
    LET logOn == Message("LOG_ON", p)
        t == TupleOf(logOn)
        userOn == Message("USER_ON", t)
        new == SameTuple(t) = {}
    IN  /\ ~crashed /\ p \notin on
        /\ list' = IF new THEN Append(list, [ip |-> t.ip, port |-> t.port, of |-> p]) ELSE list
        /\ known' = [q \in Party |-> IF new /\ q \in Told(t) THEN known[q] \cup {TupleOf(userOn)}
                                     ELSE known[q]]
        /\ on' = on \cup {p} /\ said' = <<logOn, userOn>>
        /\ twins' = (twins \/ \E q \in on : Truncated(q) = Truncated(p))
        /\ UNCHANGED <<asked, crashed>>

\* Each client asks once, after its LOG_ON.
GetClients(p) ==
    LET text == ListText(list)
        got == {TupleOf(TupleFrom(text, i)) : i \in 1..SentTuples(text)}
    IN  /\ ~crashed /\ p \in on \ asked
        /\ asked' = asked \cup {p}
        /\ crashed' = ~Readable(text)
        /\ known' = IF crashed' THEN known
                    ELSE [known EXCEPT ![p] = @ \cup {t \in got : ~IsOwn(p, t)}]
        /\ said' = <<Message("GET_CLIENTS", p), text>>
        /\ UNCHANGED <<list, on, twins>>

\* findTupleNode's result is taken for a node.  The connection that is closed is
\* the one of whoever logged on with that tuple.
LogOff(p) ==
    LET logOff == Message("LOG_OFF", p)
        t == TupleOf(logOff)
        userOff == Message("USER_OFF", t)
        gone == {p} \cup {list[i].of : i \in SameTuple(t)}
    IN  /\ ~crashed /\ p \in on
        /\ crashed' = (SameTuple(t) = {})
        /\ list' = IF SameTuple(t) = {} THEN list ELSE Unlink(First(SameTuple(t)))
        /\ known' = [q \in Party |-> CASE q \in gone -> {}
                                       [] q \in Told(t) \ gone -> known[q] \ {TupleOf(userOff)}
                                       [] OTHER -> known[q]]
        /\ on' = on \ gone /\ asked' = asked \ gone
        /\ said' = <<logOff, userOff>>
        /\ UNCHANGED twins

Next == \E p \in Party : LogOn(p) \/ GetClients(p) \/ LogOff(p)

Spec == Init /\ [][Next]_vars

-----------------------------------------------------------------------------

Entry(i) == [ip |-> list[i].ip, port |-> list[i].port]

\* Through text and back, the server lists each client under its address and the
\* lower sixteen bits of its port.
ListedAsSent == \A i \in DOMAIN list : Entry(i) = Truncated(list[i].of)

\* Through text and back, a client that is on the list and has asked knows what
\* the server lists, but for itself; with a port above 65535 it does not
\* recognise itself and is among those it knows (clientUtils.c:240).
KnownAsListed ==
    ~crashed => \A i \in DOMAIN list :
       LET p == list[i].of
       IN  p \in asked => known[p] = {Entry(j) : j \in DOMAIN list}
                                     \ {[ip |-> p.ip, port |-> p.port]}

\* A text without the tuple that is looked for, or a list without it, takes two
\* clients at a time that the texts do not tell apart: on two hosts whose names
\* resolve to 127.0.1.1, or with ports that agree in their lower sixteen bits.
OnlyTwinsCrash == crashed => twins

\* Every text fits the buffers with a place to spare, which the zero behind what
\* receiveData has read needs (serverUtils.c:228, clientUtils.c:177).
TextsFit == \A i \in DOMAIN said : Size(said[i]) + 1 < MAX_BUFFER_SIZE
=============================================================================
