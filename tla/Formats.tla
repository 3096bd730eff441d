------------------------------- MODULE Formats -------------------------------
(***************************************************************************)
(* The layouts of what is parsed and built (Syntax) and the conversions of *)
(* values, one at a time: each of the eight machines runs alone, the       *)
(* variables of the others idle.                                           *)
(***************************************************************************)
EXTENDS Integers, Sequences, SequencesExt

CONSTANTS
    BodyLengths, TableLengths, LongLengths, PacketLengths, MaxRecords, Runs, Lists, \* Syntax
    Starts, MaxDays, Codes, Characters, MaxText,             \* Calendar, AtscText
    Payload, MaxPayload, Sides,                              \* VideoParameters
    Wholes, Remainders, Damages, MaxStray                    \* PacketLayouts

VARIABLES
    machine,                                                 \* the one that runs
    date, second, mjd, start, days,                          \* Calendar
    coding, bit, place, back,                                \* WireBits
    text, scheme, segment, at, prior, acc, escaped, out, state, \* AtscText
    stream, codec, kind, first, frames, round,               \* StreamTypes
    header, frame,                                           \* AudioHeaders
    made, rest, read, step,                                  \* VideoParameters
    framing, whole, remainder, damage, stray, tried, layout, hits, \* PacketLayouts
    input, expected, stack, pos, taken, verdict              \* Syntax

C == INSTANCE Calendar
W == INSTANCE WireBits
T == INSTANCE AtscText
S == INSTANCE StreamTypes
A == INSTANCE AudioHeaders
V == INSTANCE VideoParameters
L == INSTANCE PacketLayouts
X == INSTANCE Syntax

calendarVars == <<date, second, mjd, start, days>>
wireVars     == <<coding, bit, place, back>>
textVars     == <<text, scheme, segment, at, prior, acc, escaped, out, state>>
streamVars   == <<stream, codec, kind, first, frames, round>>
audioVars    == <<header, frame>>
videoVars    == <<made, rest, read, step>>
layoutVars   == <<framing, whole, remainder, damage, stray, tried, layout, hits>>
syntaxVars   == <<input, expected, stack, pos, taken, verdict>>
valueVars    == <<calendarVars, wireVars, textVars, streamVars, audioVars, videoVars, layoutVars>>
vars         == <<machine, valueVars, syntaxVars>>

CalendarIdle == date = "idle" /\ second = "idle" /\ mjd = "idle" /\ start = "idle" /\ days = "idle"
WireIdle     == coding = "idle" /\ bit = "idle" /\ place = "idle" /\ back = "idle"
TextIdle     == /\ text = "idle" /\ scheme = "idle" /\ segment = "idle" /\ at = "idle"
                /\ prior = "idle" /\ acc = "idle" /\ escaped = "idle" /\ out = "idle"
                /\ state = "idle"
StreamIdle   == /\ stream = "idle" /\ codec = "idle" /\ kind = "idle" /\ first = "idle"
                /\ frames = "idle" /\ round = "idle"
AudioIdle    == header = "idle" /\ frame = "idle"
VideoIdle    == made = "idle" /\ rest = "idle" /\ read = "idle" /\ step = "idle"
LayoutIdle   == /\ framing = "idle" /\ whole = "idle" /\ remainder = "idle"
                /\ damage = "idle" /\ stray = "idle" /\ tried = "idle"
                /\ layout = "idle" /\ hits = "idle"
SyntaxIdle   == /\ input = "idle" /\ expected = "idle" /\ stack = "idle" /\ pos = "idle"
                /\ taken = "idle" /\ verdict = "idle"

Init ==
    /\ machine \in {"calendar", "wire", "text", "stream", "audio", "video", "layout", "syntax"}
    /\ IF machine = "calendar" THEN C!CalendarInit ELSE CalendarIdle
    /\ IF machine = "wire" THEN W!WireInit ELSE WireIdle
    /\ IF machine = "text" THEN T!TextInit ELSE TextIdle
    /\ IF machine = "stream" THEN S!StreamInit ELSE StreamIdle
    /\ IF machine = "audio" THEN A!HeaderInit ELSE AudioIdle
    /\ IF machine = "video" THEN V!VideoInit ELSE VideoIdle
    /\ IF machine = "layout" THEN L!LayoutInit ELSE LayoutIdle
    /\ IF machine = "syntax" THEN X!Init ELSE SyntaxIdle

Parsing == machine = "syntax" /\ X!Next /\ UNCHANGED <<machine, valueVars>>

Next ==
    \/ /\ machine = "calendar" /\ C!CalendarNext
       /\ UNCHANGED <<machine, wireVars, textVars, streamVars, audioVars, videoVars, layoutVars,
                     syntaxVars>>
    \/ /\ machine = "wire" /\ W!WireNext
       /\ UNCHANGED <<machine, calendarVars, textVars, streamVars, audioVars, videoVars,
                     layoutVars, syntaxVars>>
    \/ /\ machine = "text" /\ T!TextNext
       /\ UNCHANGED <<machine, calendarVars, wireVars, streamVars, audioVars, videoVars,
                     layoutVars, syntaxVars>>
    \/ /\ machine = "stream" /\ S!StreamNext
       /\ UNCHANGED <<machine, calendarVars, wireVars, textVars, audioVars, videoVars,
                     layoutVars, syntaxVars>>
    \/ /\ machine = "audio" /\ A!HeaderNext
       /\ UNCHANGED <<machine, calendarVars, wireVars, textVars, streamVars, videoVars,
                     layoutVars, syntaxVars>>
    \/ /\ machine = "video" /\ V!VideoNext
       /\ UNCHANGED <<machine, calendarVars, wireVars, textVars, streamVars, audioVars,
                     layoutVars, syntaxVars>>
    \/ /\ machine = "layout" /\ L!LayoutNext
       /\ UNCHANGED <<machine, calendarVars, wireVars, textVars, streamVars, audioVars,
                     videoVars, syntaxVars>>
    \/ Parsing

(* A parser that was called goes on to its end.                            *)
Spec == Init /\ [][Next]_vars /\ WF_vars(Parsing)

------------------------------------------------------------------------------
(* The properties of the eight, of the one that runs: the dates and times   *)
(* of the tables are those of the calendar,                                *)
DatesAgree == machine = "calendar" => C!DatesAgree /\ C!UtcAdvances

(* what is encoded is decoded to what it was: the bits of a header's       *)
(* fields, a text in its code, the codec of a stream, the picture of a     *)
(* video stream, the frame of an audio stream, the framing of a file,      *)
ComesBack ==
    /\ machine = "wire" => W!BitsComeBack
    /\ machine = "text" => T!TextComesBack
    /\ machine = "stream" => S!CodecKept
    /\ machine = "video" => V!PictureComesBack
    /\ machine = "audio" => A!FrameLengthTrue
    /\ machine = "layout" => L!FramingFound /\ L!ProbeAgrees

(* no parser reads outside its slice, it takes apart what was built, and   *)
(* it comes to an end.                                                     *)
NoOverrun  == machine = "syntax" => X!NoOverrun
ReadsBack  == machine = "syntax" => X!ReadsBack
Terminates == (machine = "syntax") ~> (verdict # "run")
=============================================================================
