------------------------------ MODULE AtscText ------------------------------
(***************************************************************************)
(* The text segments of ATSC tables (atsc.rs): compressed with an order-1  *)
(* Huffman code, where the character before selects the code of the next,  *)
(* or uncompressed, a byte for a character of the block its mode selects   *)
(* or UTF-16.  The encoders are those of A/65: annex C and table 6.41.     *)
(***************************************************************************)
EXTENDS Integers, Sequences, SequencesExt

CONSTANTS
    Codes,       \* the two tables: <<symbol, length, code>> by prior
    Characters,  \* the characters of the texts that are cut short
    MaxText      \* the longest of them

VARIABLES
    text,        \* what was encoded
    scheme,      \* <<compression_type, mode>> of the segment
    segment,     \* its bits, which may be cut short
    at,          \* the decoder's bit position
    prior,       \* the character before
    acc,         \* <<length, value>> of the code read so far
    escaped,     \* whether the next character comes as a byte
    out,         \* the characters decoded
    state        \* "decode", "end", or "none": given as it is

textVars == <<text, scheme, segment, at, prior, acc, escaped, out, state>>

Terminate == 0
Escape    == 27
Utf16     == 63

IsRangeSelectMode(mode) == mode \in (0..6) \cup (9..16) \cup (32..39) \cup (48..51)
Compressed == scheme[1] \in {1, 2} /\ scheme[2] \in {0, 255}
Ranged     == scheme[1] = 0 /\ IsRangeSelectMode(scheme[2])
Units      == scheme[1] = 0 /\ scheme[2] = Utf16

NumberBits(n, v) == [i \in 1..n |-> (v \div 2^(n - i)) % 2]
Number(b)        == FoldLeft(LAMBDA v, x : 2 * v + x, 0, b)

------------------------------------------------------------------------------
(* The standard's encoders.                                                *)
CodeOf(table, p, s) ==
    {NumberBits(c[2], c[3]) : c \in {d \in Codes[table][p] : d[1] = s}}
EncodedCharacter(table, p, c) ==
    IF p >= 128 THEN NumberBits(8, c)
    ELSE IF CodeOf(table, p, c) # {} /\ c # Escape
    THEN CHOOSE b \in CodeOf(table, p, c) : TRUE
    ELSE (CHOOSE b \in CodeOf(table, p, Escape) : TRUE) \o NumberBits(8, c)
EncodedText(table, t) ==
    LET closed == Append(t, Terminate)
    IN  FlattenSeq([i \in 1..Len(closed) |->
            EncodedCharacter(table, IF i = 1 THEN Terminate ELSE closed[i - 1], closed[i])])

SurrogatePair(c) == NumberBits(16, 55296 + (c - 65536) \div 1024)
                        \o NumberBits(16, 56320 + ((c - 65536) % 1024))
EncodedUnits(t) ==
    FlattenSeq([i \in 1..Len(t) |->
        IF t[i] < 65536 THEN NumberBits(16, t[i]) ELSE SurrogatePair(t[i])])
EncodedRange(t) == FlattenSeq([i \in 1..Len(t) |-> NumberBits(8, t[i] % 256)])

Encoded(cd, t) ==
    IF cd[1] # 0 THEN EncodedText(cd[1], t)
    ELSE IF cd[2] = Utf16 THEN EncodedUnits(t) ELSE EncodedRange(t)

ShortTexts == UNION {[1..n -> Characters] : n \in 0..MaxText}

(* A text for each code: its character behind the one it follows; one that *)
(* has no code there behind the escape.                                    *)
Unlisted == 255
TextFor(p, s) ==
    (IF p = Terminate THEN << >> ELSE <<p>>)
        \o (IF s = Terminate THEN << >> ELSE IF s = Escape THEN <<Unlisted>> ELSE <<s>>)
Symbols(table, p) == {c[1] : c \in Codes[table][p]}

Given(cd, t, bits) == [scheme |-> cd, text |-> t, bits |-> bits]
Whole(cd, t)       == Given(cd, t, Encoded(cd, t))
Cut(cd, t) ==
    LET bits == Encoded(cd, t)
    IN  {Given(cd, t, SubSeq(bits, 1, n)) : n \in 0..Len(bits)}
Segments ==
    UNION {Cut(<<table, 255>>, t) : table \in {1, 2}, t \in ShortTexts}
    \cup UNION {{Whole(<<table, 0>>, TextFor(p, s)) : s \in Symbols(table, p)} :
                    table \in {1, 2}, p \in 0..127}
    \cup {Whole(<<0, mode>>, <<256 * mode + 65, 256 * mode + 255>>) :
              mode \in {m \in 0..255 : IsRangeSelectMode(m)}}
    \cup UNION {{s \in Cut(<<0, Utf16>>, t) : Len(s.bits) % 8 = 0} :
                    t \in {<<65, 8364>>, <<65, 128512, 66>>, <<1114111>>}}
    \cup {Whole(cd, <<65>>) : cd \in {<<0, 62>>, <<1, 62>>, <<2, 1>>}}

TextInit ==
    /\ \E s \in Segments : text = s.text /\ scheme = s.scheme /\ segment = s.bits
    /\ at = 0 /\ prior = Terminate /\ acc = <<0, 0>> /\ escaped = FALSE
    /\ out = << >> /\ state = "decode"

------------------------------------------------------------------------------
(* The bits behind the position, and the position behind them.             *)
Ahead(n) == at + n <= Len(segment)
Take(n)  == Number(SubSeq(segment, at + 1, at + n))
Stop(s)  == state' = s /\ UNCHANGED <<at, prior, acc, escaped>>

Character(c) ==
    IF c = Terminate
    THEN state' = "end" /\ UNCHANGED <<out, prior>>
    ELSE out' = Append(out, c) /\ prior' = c /\ UNCHANGED state

(* Behind an escape, and behind a character of 128 or more.                *)
DecodeByte ==
    /\ state = "decode" /\ Compressed /\ (escaped \/ prior >= 128)
    /\ IF Ahead(8)
       THEN Character(Take(8)) /\ at' = at + 8
       ELSE state' = "end" /\ UNCHANGED <<at, out, prior>>
    /\ escaped' = FALSE
    /\ UNCHANGED <<text, scheme, segment, acc>>

(* The codes are looked up by length and value; a pattern as long as the   *)
(* longest that is none of them makes the whole segment undecodable.       *)
DecodeBit ==
    /\ state = "decode" /\ Compressed /\ ~escaped /\ prior < 128
    /\ IF ~Ahead(1)
       THEN Stop("end") /\ UNCHANGED out
       ELSE LET context == Codes[scheme[1]][prior]
                code    == <<acc[1] + 1, 2 * acc[2] + Take(1)>>
                match   == {c[1] : c \in {d \in context : d[2] = code[1] /\ d[3] = code[2]}}
            IN  IF match = {} /\ \A c \in context : c[2] <= code[1]
                THEN Stop("none") /\ out' = << >>
                ELSE /\ at' = at + 1
                     /\ acc' = IF match = {} THEN code ELSE <<0, 0>>
                     /\ escaped' = (match = {Escape})
                     /\ IF match \in {{}, {Escape}}
                        THEN UNCHANGED <<state, out, prior>>
                        ELSE \E c \in match : Character(c)
    /\ UNCHANGED <<text, scheme, segment>>

(* The mode of the segment is the high byte of each character.             *)
DecodeRange ==
    /\ state = "decode" /\ Ranged
    /\ IF Ahead(8)
       THEN /\ out' = Append(out, 256 * scheme[2] + Take(8))
            /\ at' = at + 8
            /\ UNCHANGED <<prior, acc, escaped, state>>
       ELSE Stop("end") /\ UNCHANGED out
    /\ UNCHANGED <<text, scheme, segment>>

(* Half a unit, or half a pair, makes the whole segment undecodable.       *)
DecodeUnit ==
    LET unit == Take(16)
        pair == unit \in 55296..56319 /\ Ahead(32)
        low  == Number(SubSeq(segment, at + 17, at + 32))
    IN  /\ state = "decode" /\ Units
        /\ IF Len(segment) % 16 # 0
           THEN Stop("none") /\ out' = << >>
           ELSE IF ~Ahead(16)
           THEN Stop("end") /\ UNCHANGED out
           ELSE IF unit \notin 55296..57343
           THEN /\ out' = Append(out, unit) /\ at' = at + 16
                /\ UNCHANGED <<prior, acc, escaped, state>>
           ELSE IF pair /\ low \in 56320..57343
           THEN /\ out' = Append(out, 65536 + 1024 * (unit - 55296) + low - 56320)
                /\ at' = at + 32
                /\ UNCHANGED <<prior, acc, escaped, state>>
           ELSE Stop("none") /\ out' = << >>
        /\ UNCHANGED <<text, scheme, segment>>

(* SCSU, reserved modes, and a compression that does not go with the mode. *)
LeaveRaw ==
    /\ state = "decode" /\ ~Compressed /\ ~Ranged /\ ~Units
    /\ Stop("none")
    /\ UNCHANGED <<text, scheme, segment, out>>

TextNext == DecodeByte \/ DecodeBit \/ DecodeRange \/ DecodeUnit \/ LeaveRaw

(* A segment decodes to the text that was encoded, and one that is cut to  *)
(* a beginning of it: no code of a table is the beginning of another after *)
(* the same character, a bit is never taken twice, and the escapes and the *)
(* change of context leave encoder and decoder in step.                    *)
TextComesBack ==
    /\ IsPrefix(out, text)
    /\ state = "end" /\ segment = Encoded(scheme, text) => out = text
    /\ state = "none" => ~Compressed /\ ~Ranged /\ (Units => segment # Encoded(scheme, text))
=============================================================================
