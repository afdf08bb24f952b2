--------------------------- MODULE TextAlgorithms ---------------------------
(* The algorithms of amiproc that work on a text and nothing else: the fields of *)
(* an AMI message (amiproc.cpp) and of an HTTP header (http.cpp), the query      *)
(* string (http.h), the escapes of an address and base64 (http.cpp), the length  *)
(* of a frame (websocket.cpp).  A text is a sequence of characters, given by     *)
(* their codes, without the \0 behind it.  A loop over a text is a recursive       *)
(* function of the place it has reached.                                          *)
EXTENDS Integers, SequencesExt

CONSTANTS
  Kinds,      \* what the text is, some of AllKinds
  Pieces,     \* kind -> the pieces a text is made of
  MaxLen,     \* kind -> bound: the length of a text
  MAX_PARSE,  \* the room for a name or a value in CQueryString
  MAX_EVENTS, \* the places of AMI_EVENTS.key and .value
  HTTP_MAX_HEADERS  \* those of REQUEST_INFO.http_headers

MaxInt == 2147483647
Byte == 0..255
Char == 1..255

\* What a text consists of.
Alphabet(k) ==
  CASE k \in {"fields", "records", "query"} -> Char [] k = "bytes" -> Byte [] OTHER -> 0..MaxInt

\* "fields" and "records" are both read as fields, whatever they are; they differ in
\* their pieces only.
AllKinds == {"fields", "records", "query", "bytes", "length"}

ASSUME TextConstants ==
  /\ Kinds \subseteq AllKinds
  /\ \A k \in Kinds : Pieces[k] \subseteq Seq(Alphabet(k)) /\ MaxLen[k] \in Nat
  /\ MAX_PARSE \in Nat \ 0..1
  /\ MAX_EVENTS \in Nat \ {0} /\ HTTP_MAX_HEADERS \in Nat \ {0}

VARIABLES kind, text
vars == <<kind, text>>

Tab == 9
LF == 10
CR == 13
Space == 32
Percent == 37
Ampersand == 38
Colon == 58
Equals == 61

\* strchr: the first place of c from p on, or one behind the text.
Find(t, c, p) == Min({i \in p..Len(t) : t[i] = c} \cup {Len(t) + 1})

\* What a loop over the places 1 to n puts together: at a place p where it goes on, item[p],
\* and then it is at next[p].
Collect(item, next, n) ==
  LET from[p \in 1..n] == IF p \in DOMAIN item THEN <<item[p]>> \o from[next[p]] ELSE <<>>
  IN from

----------------------------------------------------------------------------
(* parse_amievent, get_amivalue.                                                 *)

\* The \r and the \n become \0, and the loop steps over the character behind them.
AfterLine(p) == p + 3

AmiChar(t, st, p) ==
  CASE p < st.next -> st
    [] p >= st.next /\ st.isHeader ->
         IF t[p] = Colon
         THEN [st EXCEPT !.key = SubSeq(t, st.start, p - 1), !.isHeader = FALSE, !.start = 0]
         ELSE st
    [] OTHER ->
         LET start == IF st.start = 0 /\ t[p] # Space THEN p ELSE st.start
         IN IF t[p] = CR /\ p < Len(t) /\ t[p + 1] = LF
            THEN [st EXCEPT !.events = Append(@, [key |-> st.key,
                                                  value |-> SubSeq(t, start, p - 1)]),
                            !.isHeader = TRUE, !.start = p + 2, !.next = AfterLine(p)]
            ELSE [st EXCEPT !.start = start]

\* Behind the first p characters.
AmiState(t) ==
  LET st[p \in 0..Len(t)] ==
        IF p = 0 THEN [events |-> <<>>, key |-> <<>>, isHeader |-> TRUE, start |-> 1, next |-> 1]
        ELSE AmiChar(t, st[p - 1], p)
  IN st

\* How many places of key and of value are in use.
Used(st) == Len(st.events) + IF st.isHeader THEN 0 ELSE 1

\* The keys and values; whether the loop has stepped over the \0 of the text; whether
\* it has written behind key and value, whose length it does not look at.  Where it
\* has, the keys and values are not to be relied on: key[100] is value[0].
AmiParsed(t) ==
  LET st == AmiState(t)
  IN [events  |-> st[Len(t)].events,
      beyond  |-> st[Len(t)].next > Len(t) + 1,
      overrun |-> \E p \in 0..Len(t) : Used(st[p]) > MAX_EVENTS]
parse_amievent(t) == AmiParsed(t).events

get_amivalue(events, key) ==
  LET i == SelectInSeq(events, LAMBDA e : e.key = key)
  IN IF i = 0 THEN <<>> ELSE events[i].value

----------------------------------------------------------------------------
(* The header of a request behind its first line.                                *)

\* Variation: the value begins behind the colon.
HttpFieldNext(t, src, end) ==
  LET colon == Find(t, Colon, src + 1)
  IN IF colon >= end THEN [name |-> SubSeq(t, src, end - 1), value |-> <<>>]
     ELSE [name |-> SubSeq(t, src, colon - 1), value |-> SubSeq(t, colon + 1, end - 1)]

\* One line, from src to the \r at end: the value begins two characters behind the
\* name, whatever they are; without a colon there is none.
HttpField(t, src, end) ==
  LET colon == Find(t, Colon, src + 1)
  IN IF colon >= end THEN [name |-> SubSeq(t, src, end - 1), value |-> <<>>]
     ELSE [name |-> SubSeq(t, src, colon - 1), value |-> SubSeq(t, colon + 2, end - 1)]

\* The headers from HTTP_MAX_HEADERS on are written behind the record they belong to.
http_headers(t) ==
  LET end(src) == Find(t, CR, src + 1)
      lines == {src \in 1..Len(t) : end(src) <= Len(t)}
  IN Collect([src \in lines |-> HttpField(t, src, end(src))],
             [src \in lines |-> end(src) + 2], Len(t) + 2)[1]

----------------------------------------------------------------------------
(* urlDecodeRewite, CQueryString.                                                *)

Digits == [i \in (48..57) \cup (65..70) \cup (97..102) |->
             i - (IF i < 58 THEN 48 ELSE IF i < 71 THEN 55 ELSE 87)]
IsHex(c) == c \in DOMAIN Digits
Hex(c, d) == 16 * Digits[c] + Digits[d]

\* Variation: two characters are stepped over, not three.
EscapeSizeTwo == 2
EscapeSize == 3

\* In place: d counts what has been written.  An escape that is cut off ends the
\* text; behind one that is none, the character that is there already stays.
UrlChar(t, st, i) ==
  CASE i < st.next \/ st.done -> st
    [] i >= st.next /\ ~st.done /\ t[i] # Percent ->
         [st EXCEPT !.str[st.d] = t[i], !.d = @ + 1]
    [] OTHER ->
         IF i + 2 > Len(t) THEN [st EXCEPT !.done = TRUE]
         ELSE IF IsHex(t[i + 1]) /\ IsHex(t[i + 2])
              THEN [st EXCEPT !.str[st.d] = Hex(t[i + 1], t[i + 2]), !.d = @ + 1,
                              !.next = i + EscapeSize]
              ELSE [st EXCEPT !.d = @ + 1]

\* Behind the first i characters.
UrlState(t) ==
  LET st[i \in 0..Len(t)] ==
        IF i = 0 THEN [str |-> t, d |-> 1, next |-> 1, done |-> FALSE]
        ELSE UrlChar(t, st[i - 1], i)
  IN st

urlDecodeRewite(t) == LET st == UrlState(t)[Len(t)] IN SubSeq(st.str, 1, st.d - 1)

\* CheckEscape with ES_ALL: up to the first \r or \n, without spaces and tabs.
CheckEscape(s) ==
  SelectSeq(SubSeq(s, 1, Min({Find(s, CR, 1), Find(s, LF, 1)}) - 1),
            LAMBDA c : c \notin {Space, Tab})

\* szName, szValue.
Kept(s) == CheckEscape(SubSeq(s, 1, Min({Len(s), MAX_PARSE - 1})))

\* The pairs of a query string, one behind the other.
QueryPairs(t) ==
  LET sep(p) == Find(t, Equals, p)
      end(p) == Find(t, Ampersand, sep(p) + 1)
      starts == {p \in 1..Len(t) : sep(p) \notin {p, Len(t), Len(t) + 1}}
  IN Collect([p \in starts |-> [name  |-> Kept(SubSeq(t, p, sep(p) - 1)),
                                value |-> Kept(SubSeq(t, sep(p) + 1, end(p) - 1))]],
             [p \in starts |-> end(p) + 1], Len(t) + 2)[1]

\* m_mapQuery: a pair whose name came before replaces it.
QueryMap(pairs) ==
  [n \in {pairs[i].name : i \in DOMAIN pairs} |->
     pairs[Max({i \in DOMAIN pairs : pairs[i].name = n})].value]
QueryParse(t) == QueryMap(QueryPairs(t))

----------------------------------------------------------------------------
(* base64_encode, base64_decode: a letter is its place in b64; PAD is `='.       *)

PAD == 64
ByteAt(s, i) == IF i > Len(s) THEN 0 ELSE s[i]

\* The four letters of three bytes.
Group(a, b, c) ==
  <<a \div 4, ((a % 4) * 16) + (b \div 16), ((b % 16) * 4) + (c \div 64), c % 64>>

\* Variation: a third letter only if there are three bytes.
LettersShort(left) == CASE left = 0 -> 0 [] OTHER -> 2

\* How many letters there are of the bytes behind the last three that are whole.
Letters(left) == CASE left = 0 -> 0 [] left = 1 -> 2 [] OTHER -> 3

\* The letter at j is one of the group that begins with the byte i.
base64_encode(s) ==
  LET size == (4 * (Len(s) \div 3)) + Letters(Len(s) % 3)
      letter(j) == LET i == (3 * ((j - 1) \div 4)) + 1
                   IN Group(s[i], ByteAt(s, i + 1), ByteAt(s, i + 2))[((j - 1) % 4) + 1]
  IN [j \in 1 .. 4 * ((size + 3) \div 4) |-> IF j <= size THEN letter(j) ELSE PAD]

\* The bytes of four letters.
Bytes(a, b, c, d) ==
  LET one == ((a * 4) + (b \div 16)) % 256
      two == ((b * 16) + (c \div 4)) % 256
  IN CASE c = PAD -> <<one>>
       [] c # PAD /\ d = PAD -> <<one, two>>
       [] OTHER -> <<one, two, ((c * 64) + d) % 256>>

\* The bytes of what is behind k groups, `rest' those behind the next one; and whether
\* all of it was taken.
DecodeGroup(src, k, rest) ==
  LET i == (4 * k) + 1
  IN CASE k = Len(src) \div 4 -> [dst |-> <<>>, ok |-> Len(src) % 4 = 0]
       [] k < Len(src) \div 4 /\ PAD \in {src[i], src[i + 1]} -> [dst |-> <<>>, ok |-> FALSE]
       [] OTHER -> [rest EXCEPT !.dst = Bytes(src[i], src[i + 1], src[i + 2], src[i + 3]) \o @]

DecodedFrom(src) ==
  LET from[k \in 0 .. Len(src) \div 4] == DecodeGroup(src, k, from[k + 1]) IN from
base64_decode(src) == DecodedFrom(src)[0]

----------------------------------------------------------------------------
(* The length of a frame: ws_writetext, and what websocket() reads.              *)

\* The k bytes of n, an int, the most significant first.
BigEndian(n, k) ==
  LET byte == <<n % 256, (n \div 256) % 256, (n \div 65536) % 256, (n \div 16777216) % 256>>
  IN [i \in 1..k |-> IF k - i > 3 THEN 0 ELSE byte[k - i + 1]]

\* The header ws_writetext sends, behind the opcode: an int in host order is stored
\* as a 64-bit length.
ws_length(n) ==
  CASE n < 126 -> <<n>>
    [] n = 126 -> <<126>> \o BigEndian(n, 2)
    [] OTHER -> <<127>> \o Reverse(BigEndian(n, 8))

\* The size of the length and its bytes, as read.
ws_read(h) ==
  LET ext == CASE h[1] < 126 -> 0 [] h[1] = 126 -> 2 [] OTHER -> 8
  IN [size |-> 1 + ext, length |-> IF ext = 0 THEN <<h[1]>> ELSE SubSeq(h, 2, 1 + ext)]

----------------------------------------------------------------------------
Init == kind \in Kinds /\ text = <<>>

Next ==
  /\ \E p \in Pieces[kind] : text' = text \o p /\ Len(text') <= MaxLen[kind]
  /\ UNCHANGED kind

Spec == Init /\ [][Next]_vars

----------------------------------------------------------------------------
(* What the algorithms are to compute.                                           *)

\* Where a line ends, and where the lines of a text begin, the blank one included.
LineEnd(t, p) == Min({i \in p .. Len(t) - 1 : t[i] = CR /\ t[i + 1] = LF} \cup {Len(t) + 1})
LineStarts(t) ==
  Collect([p \in 1..Len(t) |-> p], [p \in 1..Len(t) |-> LineEnd(t, p) + 2], Len(t) + 3)[1]

\* The text consists of fields, each a line "name:" gap "value", and a blank line; the
\* gap is a space or there is none, and then no space follows.
IsFields(t, gaps) ==
  LET st == LineStarts(t)  n == Len(st)
  IN /\ n > 1 /\ st[n] = Len(t) - 1 /\ t[st[n]] = CR /\ t[Len(t)] = LF
     /\ \A k \in 1 .. n - 1 :
          LET c == Find(t, Colon, st[k])  end == LineEnd(t, st[k])
          IN c > st[k] /\ \E g \in gaps :
               c + g < end /\ (g = 1 => t[c + 1] = Space) /\ t[c + g + 1] # Space

Fields(t) ==
  LET st == LineStarts(t)
  IN [k \in 1 .. Len(st) - 1 |->
        LET c == Find(t, Colon, st[k])
        IN <<SubSeq(t, st[k], c - 1),
             SubSeq(t, c + (IF t[c + 1] = Space THEN 2 ELSE 1), LineEnd(t, st[k]) - 1)>>]

\* An AMI message and an HTTP header are read as the fields they consist of, if these
\* are no more than there are places for; AMI with or without a space behind the colon,
\* HTTP with one, and if there is a \r at the end of a line only (amiproc.cpp 76-93,
\* http.cpp 377-391).  parse_amievent writes behind its arrays (amiproc.h 21-22) exactly
\* if there are more; its loop, which steps over a character behind each line, passes
\* the \0 of a text only if the blank line is missing.
FieldsAreRead ==
  kind \in {"fields", "records"} =>
    LET ami == AmiParsed(text)  http == http_headers(text)  n == Len(Fields(text))
    IN /\ IsFields(text, {0, 1}) =>
            /\ ~ami.beyond
            /\ ami.overrun <=> n > MAX_EVENTS
            /\ ~ami.overrun =>
                 /\ [k \in DOMAIN ami.events |-> <<ami.events[k].key, ami.events[k].value>>]
                      = Fields(text)
                 /\ \A k \in DOMAIN ami.events :
                      \E j \in 1..k : /\ Fields(text)[j][1] = Fields(text)[k][1]
                                      /\ get_amivalue(ami.events, Fields(text)[k][1])
                                           = Fields(text)[j][2]
       /\ /\ IsFields(text, {1}) /\ n <= HTTP_MAX_HEADERS
          /\ \A i \in DOMAIN text : text[i] = CR => LineEnd(text, i) = i
          => [k \in DOMAIN http |-> <<http[k].name, http[k].value>>] = Fields(text)

\* What the characters from a to b - 1 stand for.
Decoded(t, a, b) ==
  Collect([i \in a .. b - 1 |-> IF t[i] = Percent THEN Hex(t[i + 1], t[i + 2]) ELSE t[i]],
          [i \in a .. b - 1 |-> IF t[i] = Percent THEN i + 3 ELSE i + 1], b + 2)[a]

\* Where the parts of an address begin, and where the name and the value of one end.
Parts(t) ==
  Collect([p \in 1 .. Len(t) + 1 |-> p], [p \in 1 .. Len(t) + 1 |-> Find(t, Ampersand, p) + 1],
          Len(t) + 2)[1]
NameEnd(t, p) == Find(t, Equals, p)
ValueEnd(t, p) == Find(t, Ampersand, p)

\* Each part is name=value, neither of them empty; each escape is one, is whole, and
\* does not stand for a separator nor for the end of a text.
IsQuery(t) ==
  /\ \A i \in DOMAIN t : t[i] = Percent =>
       /\ i + 2 <= Len(t) /\ IsHex(t[i + 1]) /\ IsHex(t[i + 2])
       /\ Hex(t[i + 1], t[i + 2]) \notin {0, Equals, Ampersand}
  /\ \A k \in DOMAIN Parts(t) :
       LET p == Parts(t)[k] IN NameEnd(t, p) \in p + 1 .. ValueEnd(t, p) - 2

\* A query string that is decoded as a whole and then taken apart gives the decoded
\* names and values, the last of each name, in spite of decoding in place (http.cpp
\* 124-150, 409-410, http.h 182-223).
QueryIsRead ==
  kind = "query" /\ IsQuery(text) =>
    LET part(k)  == Parts(text)[k]
        name(k)  == Kept(Decoded(text, part(k), NameEnd(text, part(k))))
        value(k) == Kept(Decoded(text, NameEnd(text, part(k)) + 1, ValueEnd(text, part(k))))
        ks == DOMAIN Parts(text)
    IN QueryParse(urlDecodeRewite(text)) =
         [n \in {name(k) : k \in ks} |-> value(Max({k \in ks : name(k) = n}))]

\* What is encoded is read back: base64, in whole groups of four letters (http.cpp
\* 56-116); and the length of a frame, up to 126 bytes (websocket.cpp 49-66, 208-220):
\* from 127 on the 64-bit form is sent with its bytes in the wrong order.
EncodedIsReadBack ==
  /\ kind = "bytes" =>
       LET out == base64_encode(text)
       IN Len(out) % 4 = 0 /\ base64_decode(out) = [dst |-> text, ok |-> TRUE]
  /\ kind = "length" /\ text # <<>> =>
       LET n == text[1]  r == ws_read(ws_length(n))
       IN /\ r.size = Len(ws_length(n))
          /\ n <= 126 <=> r.length = BigEndian(n, Len(r.length))
=============================================================================
