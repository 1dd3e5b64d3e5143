-------------------------------- MODULE Wire --------------------------------
(***************************************************************************)
(* The text of the meta protocol on one connection (wire.go): commands are *)
(* marshalled one behind the other, the server takes them apart, and       *)
(* readRawResponse takes its answers apart.  The two streams are sequences *)
(* of atoms: a space, the two halves of a line end, the letters of keys,   *)
(* and words, which count for one byte.  Nothing in a stream marks where a *)
(* value begins or ends but the length in the line before it, and values   *)
(* may hold any atom.                                                      *)
(***************************************************************************)
EXTENDS Integers, SequencesExt

CONSTANTS
    Requests,    \* the commands callers may execute
    MaxRequests, \* bound on how many of them
    Values,      \* the values other clients have stored
    Numerals,    \* Numerals[n + 1] is the number n in decimal, as a word
    Base64,      \* standard base64 of the keys that need it
    Faults,      \* what may be wrong with a response
    MaxWireKey,  \* 250
    MaxLine,     \* maxLineSize
    MaxItem,     \* maxItemSize; 0 is no limit
    NoKey

Sp == " "
Cr == "\r"
Lf == "\n"
Crlf == <<Cr, Lf>>

Ops == {"mg", "ms", "md", "me", "mn"}

Itoa(n) == Numerals[n + 1]

Numeric(word) == Len(word) = 1 /\ \E i \in DOMAIN Numerals : Numerals[i] = word[1]

ParseUint(word) == (CHOOSE i \in DOMAIN Numerals : Numerals[i] = word[1]) - 1

Binary(key) == \E i \in DOMAIN key : key[i] \in {Sp, Cr, Lf}

(* A command of the caller: flags are words.  Noop has none. *)
RequestAssumption ==
    /\ Requests \subseteq [op : Ops, key : Seq(STRING), flags : Seq(Seq(STRING)),
                           hasValue : BOOLEAN, value : Seq(STRING)]
    /\ \A m \in Requests :
        /\ Binary(m.key) => m.key \in DOMAIN Base64
        /\ Len(m.value) < Len(Numerals)
        /\ m.op = "mn" => m.key = <<>> /\ m.flags = <<>> /\ ~m.hasValue

(* Base64 and numerals are text without spaces and line ends.  The word a  *)
(* is what a broken response has in place of a number or a code.           *)
TextAssumption ==
    /\ Numerals \in Seq(STRING \ {Sp, Cr, Lf, "a"})
    /\ \A i, j \in DOMAIN Numerals : Numerals[i] = Numerals[j] => i = j
    /\ \A k \in DOMAIN Base64 :
        /\ k \in Seq(STRING) /\ Base64[k] \in Seq(STRING) /\ ~Binary(Base64[k])
        /\ Len(Base64[k]) = 4 * ((Len(k) + 2) \div 3)
    /\ \A k, l \in DOMAIN Base64 : Base64[k] = Base64[l] => k = l

(* A response line has less than twelve bytes beside the key. *)
LimitAssumption ==
    /\ MaxItem \in Nat /\ MaxWireKey \in Nat /\ MaxLine \in Nat
    /\ MaxWireKey + 12 <= MaxLine

ASSUME WireAssumption ==
    /\ RequestAssumption /\ TextAssumption /\ LimitAssumption
    /\ Values \subseteq Seq(STRING) /\ \A v \in Values : Len(v) < Len(Numerals)
    /\ Faults \subseteq {"none", "flag", "error", "empty", "long", "code", "size", "bare", "tail"}
    /\ NoKey \notin Seq(STRING)

VARIABLES
    wrote,      \* the commands written, as their callers meant them
    toServer,   \* the stream of commands
    served,     \* the commands as the server understood them
    answers,    \* what it answered, and what was wrong with the text
    toClient,   \* the stream of responses
    eof,        \* the connection was cut
    conn,       \* "open", or "failed": readLoop has ended
    got         \* the responses it has delivered, in the order of the requests

vars == <<wrote, toServer, served, answers, toClient, eof, conn, got>>

-----------------------------------------------------------------------------
(* Commands *)

(* Slip: the comparison leaves out the space. *)
Encoded_NoSpace(key) == \E i \in DOMAIN key : key[i] \in {Cr, Lf}

(* encodeKey: control bytes and spaces need base64. *)
Encoded(key) == Binary(key)

encodeKey(key) == IF Encoded(key) THEN Base64[key] ELSE key

badFlag(flag) == flag = <<>> \/ Binary(flag)

(* executeMeta up to the exchange: a quiet command, too large a value, and *)
(* marshal's errors.                                                       *)
Refused(m) ==
    /\ m.op # "mn"
    /\ \/ <<"q">> \in Range(m.flags)
       \/ m.hasValue /\ MaxItem > 0 /\ Len(m.value) > MaxItem
       \/ m.hasValue # (m.op = "ms")
       \/ m.key = <<>> \/ Len(encodeKey(m.key)) > MaxWireKey
       \/ m.op = "me" /\ Encoded(m.key)
       \/ \E flag \in Range(m.flags) : badFlag(flag)

(* The b flag is added once. *)
flags(m) ==
    IF Encoded(m.key) /\ <<"b">> \notin Range(m.flags) THEN Append(m.flags, <<"b">>)
    ELSE m.flags

(* The words, one space between two of them. *)
Joined(words) == Tail(FlattenSeq([i \in DOMAIN words |-> <<Sp>> \o words[i]]))

marshal(m) ==
    Joined(<< <<m.op>> >> \o (IF m.op = "mn" THEN <<>> ELSE <<encodeKey(m.key)>>)
           \o (IF m.hasValue THEN << <<Itoa(Len(m.value))>> >> ELSE <<>>) \o flags(m))
    \o Crlf \o (IF m.hasValue THEN m.value \o Crlf ELSE <<>>)

Decoded(text) ==
    IF \E k \in DOMAIN Base64 : Base64[k] = text
    THEN CHOOSE k \in DOMAIN Base64 : Base64[k] = text ELSE NoKey

(* A key sent with the caller's own b flag is base64 already, unless it    *)
(* cannot be.                                                              *)
Meant(m) ==
    [op |-> m.op, value |-> IF m.hasValue THEN m.value ELSE <<>>,
     key |-> IF <<"b">> \in Range(m.flags) /\ ~Binary(m.key) THEN Decoded(m.key) ELSE m.key]

Write(m) ==
    /\ conn = "open" /\ Len(wrote) < MaxRequests
    /\ ~Refused(m)
    /\ wrote' = Append(wrote, Meant(m))
    /\ toServer' = IF eof THEN toServer ELSE toServer \o marshal(m)
    /\ UNCHANGED <<served, answers, toClient, eof, conn, got>>

-----------------------------------------------------------------------------
(* Lines and fields *)

LfAt(b) == SelectInSeq(b, LAMBDA x : x = Lf)

After(b, n) == SubSeq(b, n + 1, Len(b))

(* asciiFields: only the space separates. *)
asciiFields(line) ==
    LET starts == {i \in DOMAIN line : line[i] # Sp /\ (i = 1 \/ line[i - 1] = Sp)}
        nth(n) == CHOOSE i \in starts : Cardinality({j \in starts : j <= i}) = n
        end(i) == CHOOSE j \in i..Len(line) :
                    /\ j = Len(line) \/ line[j + 1] = Sp
                    /\ \A n \in i..j : line[n] # Sp
    IN [n \in 1..Cardinality(starts) |-> SubSeq(line, nth(n), end(nth(n)))]

-----------------------------------------------------------------------------
(* The server (external) *)

(* What the server answers to a command: a code, a value, a key. *)
Answers(op, fl, key) ==
    LET k == IF <<"k">> \in fl THEN key ELSE NoKey
        plain(codes) == [code : codes, value : {<<>>}, key : {k}]
    IN CASE op = "mg" /\ <<"v">> \in fl ->
              [code : {"VA"}, value : Values, key : {k}]
              \cup [code : {"EN"}, value : {<<>>}, key : {NoKey}]
         [] op = "mg" /\ <<"v">> \notin fl ->
              plain({"HD"}) \cup [code : {"EN"}, value : {<<>>}, key : {NoKey}]
         [] op = "ms" -> plain({"HD", "NS"})
         [] op = "md" -> plain({"HD", "NF"})
         [] op = "me" -> [code : {"ME"}, value : {<<>>}, key : {key}]
                         \cup [code : {"EN"}, value : {<<>>}, key : {NoKey}]
         [] OTHER -> [code : {"MN"}, value : {<<>>}, key : {NoKey}]

(* The key and, behind it, the b that says it is base64; a debug line has  *)
(* the key alone.                                                          *)
KeyFlags(a) ==
    LET text == IF Binary(a.key) THEN Base64[a.key] ELSE a.key
    IN IF a.key = NoKey THEN <<>>
       ELSE IF a.code = "ME" THEN <<text>>
       ELSE << <<"k">> \o text >> \o (IF Binary(a.key) THEN << <<"b">> >> ELSE <<>>)

Fields(a, f) ==
    << <<IF f = "code" THEN "a" ELSE a.code>> >>
    \o (IF a.code # "VA" THEN <<>>
        ELSE << <<IF f = "size" THEN "a" ELSE Itoa(Len(a.value))>> >>)
    \o (IF f = "flag" THEN << <<"c", "a">> >> ELSE <<>>) \o KeyFlags(a)

Text(a, f) ==
    CASE f = "error" -> <<IF a.code = "none" THEN "ERROR" ELSE "SERVER_ERROR">> \o Crlf
      [] f = "empty" -> Crlf
      [] f = "long"  -> [i \in 1..(MaxLine + 1) |-> "a"]
      [] OTHER -> Joined(Fields(a, f)) \o (IF f = "bare" THEN <<Lf>> ELSE Crlf)
                  \o (IF a.code # "VA" THEN <<>>
                      ELSE a.value \o (IF f = "tail" THEN <<"a", Lf>> ELSE Crlf))

NoAnswer == [code |-> "none", value |-> <<>>, key |-> NoKey]

Fits(f, code) ==
    /\ f \in {"size", "tail"} => code = "VA"
    /\ f = "flag" => code # "ME"

Answer(a, f) ==
    /\ answers' = Append(answers, [code |-> a.code, value |-> a.value, key |-> a.key, fault |-> f])
    /\ toClient' = toClient \o Text(a, f)

Serve ==
    LET n    == LfAt(toServer)
        parts == asciiFields(SubSeq(toServer, 1, n - 2))
        op   == parts[1][1]
        fl   == Range(SubSeq(parts, IF op = "ms" THEN 4 ELSE 3, Len(parts)))
        key  == IF op = "mn" THEN <<>>
                ELSE IF <<"b">> \in fl THEN Decoded(parts[2]) ELSE parts[2]
        sized == op = "ms" /\ Len(parts) > 2 /\ Numeric(parts[3])
        size == IF sized THEN ParseUint(parts[3]) ELSE 0
        used == IF sized THEN n + size + 2 ELSE n
    IN
    /\ ~eof /\ n > 0 /\ Len(toServer) >= used
    /\ toServer' = After(toServer, used)
    /\ served' = Append(served, [op |-> op, key |-> key,
                                 value |-> SubSeq(toServer, n + 1, n + size)])
    /\ IF op \notin Ops \/ key = NoKey \/ (op # "mn" /\ Len(parts) < 2) \/ (op = "ms" /\ ~sized)
       THEN Answer(NoAnswer, "error")
       ELSE \E a \in Answers(op, fl, key), f \in Faults : Fits(f, a.code) /\ Answer(a, f)
    /\ UNCHANGED <<wrote, eof, conn, got>>

(* The connection breaks: the client receives some of what was sent. *)
Cut ==
    /\ ~eof
    /\ eof' = TRUE
    /\ toServer' = <<>>
    /\ \E n \in 0..Len(toClient) : toClient' = SubSeq(toClient, 1, n)
    /\ UNCHANGED <<wrote, served, answers, conn, got>>

-----------------------------------------------------------------------------
(* Responses *)

(* What a read makes of the bytes so far: "wait" blocks for more, "framed" *)
(* is an error after a whole frame, "fatal" any other error.               *)
Result(st, rest, response) == [st |-> st, rest |-> rest, response |-> response]

NoResponse == [code |-> "none", value |-> <<>>, key |-> NoKey, err |-> FALSE]

Fatal == Result("fatal", <<>>, NoResponse)

(* A read that finds too little: blocked, or at the end of the stream. *)
Short == IF eof THEN Fatal ELSE Result("wait", <<>>, NoResponse)

(* A flag with a number that is none, or an h that is neither yes nor no. *)
unreadable(word) ==
    \/ word[1] \in {"c", "t", "s", "f", "l"} /\ ~Numeric(Tail(word))
    \/ word[1] = "h" /\ Tail(word) \notin {<<"0">>, <<"1">>}

(* Flags come in any order; an unreadable one does not stop the others. *)
parseResponseFlags(r, words) ==
    LET k == {i \in DOMAIN words : words[i][1] = "k"}
        text == Tail(words[CHOOSE i \in k : \A j \in k : j <= i])
        coded == \E i \in DOMAIN words : words[i][1] = "b"
    IN [r EXCEPT !.key = IF k = {} THEN NoKey
                         ELSE IF coded /\ Decoded(text) # NoKey THEN Decoded(text) ELSE text,
                 !.err = \/ \E i \in DOMAIN words : unreadable(words[i])
                         \/ k # {} /\ coded /\ Decoded(text) = NoKey]

Framed(r, rest) == Result(IF r.err THEN "framed" ELSE "ok", rest, r)

tooLarge(size) == MaxItem > 0 /\ size > MaxItem

(* Slip: the flags of the line are looked at before the value is read. *)
readValue_FlagsFirst(b, size, words) ==
    LET r == parseResponseFlags([NoResponse EXCEPT !.code = "VA"], words)
    IN IF r.err THEN Framed(r, b)
       ELSE IF Len(b) < size + 2 THEN Short
       ELSE IF SubSeq(b, size + 1, size + 2) # Crlf THEN Fatal
       ELSE Framed([r EXCEPT !.value = SubSeq(b, 1, size)], After(b, size + 2))

(* The value of a VA response is read by its length, and its line end with *)
(* it, before the flags of the line are looked at.                         *)
readValue(b, size, words) ==
    IF Len(b) < size + 2 THEN Short
    ELSE IF SubSeq(b, size + 1, size + 2) # Crlf THEN Fatal
    ELSE Framed(parseResponseFlags([NoResponse EXCEPT !.code = "VA",
                                       !.value = SubSeq(b, 1, size)], words),
                After(b, size + 2))

readRawResponse(b) ==
    LET n     == LfAt(b)
        parts == asciiFields(SubSeq(b, 1, n - 2))
        rest  == After(b, n)
        code  == parts[1][1]
    IN CASE n = 0 -> IF Len(b) > MaxLine THEN Fatal ELSE Short
         [] n > MaxLine \/ n = 1 -> Fatal
         [] OTHER ->
              IF \/ b[n - 1] # Cr \/ parts = <<>>
                 \/ b[1] \in {"ERROR", "CLIENT_ERROR", "SERVER_ERROR"}
              THEN Fatal
              ELSE CASE code = "VA" ->
                     IF Len(parts) < 2 THEN Fatal
                     ELSE IF ~Numeric(parts[2]) THEN Fatal
                     ELSE IF tooLarge(ParseUint(parts[2])) THEN Fatal
                     ELSE readValue(rest, ParseUint(parts[2]), After(parts, 2))
                [] code = "ME" ->
                     IF Len(parts) < 2 THEN Fatal
                     ELSE Framed([NoResponse EXCEPT !.code = "ME", !.key = parts[2]], rest)
                [] code \in {"HD", "EN", "NS", "EX", "NF", "MN"} ->
                     Framed(parseResponseFlags([NoResponse EXCEPT !.code = code],
                                               After(parts, 1)), rest)
                [] OTHER -> Fatal

(* Slip: any error of a read takes the connection down. *)
survives_OkOnly(r) == r.st = "ok"

(* readLoop: an error behind a whole frame leaves the connection usable. *)
survives(r) == r.st \in {"ok", "framed"}

Read ==
    LET r == readRawResponse(toClient) IN
    /\ conn = "open" /\ r.st # "wait"
    /\ IF survives(r) /\ Len(got) < Len(wrote)
       THEN /\ got' = Append(got, r.response)
            /\ toClient' = r.rest
            /\ UNCHANGED conn
       ELSE conn' = "failed" /\ UNCHANGED <<got, toClient>>
    /\ UNCHANGED <<wrote, toServer, served, answers, eof>>

Ended == (conn = "failed" \/ Len(got) = MaxRequests) /\ UNCHANGED vars

-----------------------------------------------------------------------------

Init ==
    /\ wrote = <<>> /\ served = <<>> /\ answers = <<>> /\ got = <<>>
    /\ toServer = <<>> /\ toClient = <<>>
    /\ eof = FALSE /\ conn = "open"

Next == (\E m \in Requests : Write(m)) \/ Serve \/ Cut \/ Read \/ Ended

Spec == Init /\ [][Next]_vars

-----------------------------------------------------------------------------
(* What must hold *)

(* marshal: whatever keys and values hold, the server executes the commands *)
(* that were meant and no others, in their order.                           *)
CommandsIntact == IsPrefix(served, wrote)

(* readRawResponse: the i-th response delivered is the server's answer to   *)
(* the i-th command, value included, although values look like responses,   *)
(* flags are unreadable, frames are malformed and the stream is cut short;  *)
(* nothing is delivered from a malformed frame or behind one, nor a value   *)
(* beyond maxItemSize.  A key that comes back is the key the caller gave,   *)
(* base64 on the way or not (encodeKey, parseResponseFlags); a debug        *)
(* response has it as it was sent.                                          *)
InSync ==
    \A i \in DOMAIN got :
        /\ i <= Len(answers)
        /\ \A j \in 1..i : answers[j].fault \in {"none", "flag"}
        /\ got[i].code = answers[i].code /\ got[i].value = answers[i].value
        /\ got[i].key \in {NoKey, IF got[i].code = "ME" THEN encodeKey(wrote[i].key)
                                  ELSE wrote[i].key}
        /\ got[i].err <=> answers[i].fault = "flag"
        /\ MaxItem > 0 => Len(got[i].value) <= MaxItem

(* framedResponseError: a connection is given up only when it was cut, when *)
(* the server sent an error line or a frame it should not, or a value       *)
(* beyond the limit; an unreadable flag costs one response, no connection.  *)
NoSpuriousLoss ==
    conn = "failed" =>
        \/ eof
        \/ \E i \in DOMAIN answers : \/ answers[i].fault \notin {"none", "flag"}
                                     \/ MaxItem > 0 /\ Len(answers[i].value) > MaxItem

=============================================================================
