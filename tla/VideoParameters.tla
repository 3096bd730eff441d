--------------------------- MODULE VideoParameters ---------------------------
(***************************************************************************)
(* The headers of a video stream that say what its pictures are            *)
(* (es_params.rs): the parameter set of H.264, taken from between the      *)
(* start codes and out of its emulation prevention, and the sequence       *)
(* header of MPEG-1 and 2 with its extension.  The encoder is that of the  *)
(* standards: it writes the headers for a picture.  Of a parameter set the *)
(* syntax elements are kept, of the bytes those a start code is made of.   *)
(***************************************************************************)
EXTENDS Integers, Sequences, SequencesExt

CONSTANTS
    Payload,     \* the bytes a unit is made of
    MaxPayload,  \* the most of them
    Sides        \* the widths and heights of pictures

VARIABLES
    made,        \* what was encoded: [picture], [units] or [sequence]
    rest,        \* the elements, bytes or units still to be read
    read,        \* what has been read
    step         \* what is read next: "done" and "none" at the end

videoVars == <<made, rest, read, step>>

------------------------------------------------------------------------------
(* Start codes and emulation prevention, as H.264 writes them.             *)
NalHeader == 103
UnitsOf   == {<<NalHeader>> \o p : p \in {q \in UNION {[1..n -> Payload] : n \in 1..MaxPayload} :
                                            q[Len(q)] # 0}}
Protected(p) ==                              \* annex B: 3 behind two zeros
    FoldLeft(LAMBDA out, b :
                 LET n == Len(out)
                 IN  IF n >= 2 /\ b <= 3 /\ out[n] = 0 /\ out[n - 1] = 0
                     THEN out \o <<3, b>> ELSE Append(out, b),
             << >>, p)
ByteStream(units) == FlattenSeq([i \in 1..Len(units) |-> <<0, 0, 1>> \o Protected(units[i])])

UnitsInit ==
    /\ \E a \in UnitsOf : made = [units |-> <<<<NalHeader + 1, 1>>, a, <<NalHeader, 3>>>>]
    /\ rest = ByteStream(made.units)
    /\ read = << >> /\ step = "prefix"

(* start_code_units: what is in front of the first prefix belongs to none. *)
AtPrefix == Len(rest) >= 3 /\ SubSeq(rest, 1, 3) = <<0, 0, 1>>
Scan ==
    /\ step \in {"prefix", "unit"}
    /\ IF AtPrefix
       THEN rest' = SubSeq(rest, 4, Len(rest)) /\ read' = Append(read, << >>) /\ step' = "unit"
       ELSE IF rest # << >>
       THEN /\ rest' = Tail(rest)
            /\ read' = IF step = "prefix" THEN read
                       ELSE [read EXCEPT ![Len(read)] = Append(@, Head(rest))]
            /\ UNCHANGED step
       ELSE step' = "strip" /\ UNCHANGED <<rest, read>>
    /\ UNCHANGED made

ZeroRunKept(z, b) == IF b = 0 THEN z + 1 ELSE IF b = 3 THEN z ELSE 0  \* mutant: not from 0 again
ZeroRun(z, b)     == IF b = 0 THEN z + 1 ELSE 0
NalToRbsp(nal) ==
    FoldLeft(LAMBDA acc, b :
                 IF acc.zeros >= 2 /\ b = 3
                 THEN [acc EXCEPT !.zeros = ZeroRun(@, b)]
                 ELSE [out |-> Append(acc.out, b), zeros |-> ZeroRun(acc.zeros, b)],
             [out |-> << >>, zeros |-> 0], nal).out

Strip ==
    /\ step = "strip"
    /\ read' = [i \in 1..Len(read) |-> NalToRbsp(read[i])]
    /\ step' = "done"
    /\ UNCHANGED <<made, rest>>

------------------------------------------------------------------------------
(* The parameter set the standard's encoder writes for a picture.          *)
SubWidth(chroma)  == IF chroma \in {1, 2} THEN 2 ELSE 1
SubHeight(chroma) == IF chroma = 1 THEN 2 ELSE 1
Planar(p) == p.chroma = 0 \/ p.planes

UnitX(p) == IF Planar(p) THEN 1 ELSE SubWidth(p.chroma)
UnitY(p) == (IF Planar(p) THEN 1 ELSE SubHeight(p.chroma)) * (IF p.interlaced THEN 2 ELSE 1)
Rates == {<< >>, <<25, 1>>, <<30000, 1001>>}
Pictures ==
    {p \in [width : Sides, height : Sides, chroma : 0..3, depth : {8, 10},
            planes : BOOLEAN, interlaced : BOOLEAN, rate : Rates] :
        /\ p.planes => p.chroma = 3
        /\ p.width % UnitX(p) = 0 /\ p.height % UnitY(p) = 0}

E(kind, v) == <<kind, v>>
Bit(b)     == <<E("u1", IF b THEN 1 ELSE 0)>>
Ue(v)      == <<E("ue", v)>>
Se(v)      == <<E("se", v)>>

(* A list that falls back to the default at its third entry, and one that  *)
(* runs to its end.                                                        *)
ShortList    == Bit(TRUE) \o Se(2) \o Se(-3) \o Se(-7)
FullList(n)  == Bit(TRUE) \o [i \in 1..n |-> E("se", 1)]
ScalingLists(chroma) ==
    ShortList \o FullList(16)
        \o FlattenSeq([i \in 1..(IF chroma # 3 THEN 6 ELSE 10) |->
               IF i = 5 THEN FullList(64) ELSE Bit(FALSE)])

OrderTypes == <<Ue(0) \o Ue(4),
                Ue(1) \o Bit(TRUE) \o Se(-1) \o Se(2) \o Ue(2) \o Se(3) \o Se(-4),
                Ue(2)>>
Blocks(side, unit) == (side + unit - 1) \div unit
Timing(p) ==
    IF p.rate = << >> THEN Bit(FALSE)
    ELSE Bit(TRUE) \o <<E("u32", 2 * p.rate[2]), E("u32", 4 * p.rate[1])>>
Usability(p, all) ==
    IF all
    THEN Bit(TRUE) \o <<E("u8", 255), E("u16", 4), E("u16", 3)>>
             \o Bit(TRUE) \o Bit(TRUE)
             \o Bit(TRUE) \o <<E("u3", 5)>> \o Bit(FALSE) \o Bit(TRUE) \o <<E("u24", 1)>>
             \o Bit(TRUE) \o Ue(1) \o Ue(1) \o Timing(p)
    ELSE Bit(FALSE) \o Bit(FALSE) \o Bit(FALSE) \o Bit(FALSE) \o Timing(p)

(* The profiles without the chroma block are 4:2:0 and of 8 bits.          *)
Written(p, order, extras) ==
    LET plain == p.chroma = 1 /\ p.depth = 8 /\ ~extras
        high  == Ue(p.chroma) \o (IF p.chroma = 3 THEN Bit(p.planes) ELSE << >>)
                     \o Ue(p.depth - 8) \o Ue(0) \o Bit(FALSE)
                     \o Bit(extras) \o (IF extras THEN ScalingLists(p.chroma) ELSE << >>)
        line  == IF p.interlaced THEN 32 ELSE 16
        cropX == (16 * Blocks(p.width, 16) - p.width) \div UnitX(p)
        cropY == (line * Blocks(p.height, line) - p.height) \div UnitY(p)
    IN  <<E("u8", IF plain THEN 77 ELSE 100), E("u8", 0), E("u8", 30)>> \o Ue(0)
            \o (IF plain THEN << >> ELSE high)
            \o Ue(0) \o OrderTypes[order] \o Ue(1) \o Bit(FALSE)
            \o Ue(Blocks(p.width, 16) - 1) \o Ue(Blocks(p.height, line) - 1)
            \o Bit(~p.interlaced) \o (IF p.interlaced THEN Bit(TRUE) ELSE << >>)
            \o Bit(TRUE)
            \o (IF cropX = 0 /\ cropY = 0 THEN Bit(FALSE)
                ELSE Bit(TRUE) \o Ue(0) \o Ue(cropX) \o Ue(cropY) \o Ue(0))
            \o (IF p.rate = << >> /\ ~extras THEN Bit(FALSE)
                ELSE Bit(TRUE) \o Usability(p, extras))

Unread == [chroma |-> 1, planes |-> 0, depth |-> 8, lists |-> 0, left |-> 0, last |-> 8,
           next |-> 8, mbs |-> 0, units |-> 0, frames |-> 1, crop |-> <<0, 0, 0, 0>>,
           rate |-> << >>]
SpsInit ==
    /\ \E p \in Pictures, order \in 1..3, extras \in BOOLEAN :
           /\ made = [picture |-> p]
           /\ rest = Written(p, order, extras)
    /\ read = Unread /\ step = "profile"

(* The elements must be of the kinds the parser takes them for; v is the   *)
(* value of the i-th.                                                      *)
Next(here, kinds) ==
    /\ step = here
    /\ Len(rest) >= Len(kinds) /\ \A i \in 1..Len(kinds) : rest[i][1] = kinds[i]
    /\ rest' = SubSeq(rest, Len(kinds) + 1, Len(rest))
    /\ UNCHANGED made
v(i)        == rest[i][2]
To(s)       == step' = s
Skip(s)     == To(s) /\ UNCHANGED read
Branch(i, yes, no) == Skip(IF v(i) = 1 THEN yes ELSE no)

HighProfiles == {100, 110, 122, 244, 44, 83, 86, 118, 128, 138, 139, 134, 135}

Profile == /\ Next("profile", <<"u8", "u8", "u8", "ue">>)
           /\ Skip(IF v(1) \in HighProfiles THEN "chroma" ELSE "order")
Chroma  == /\ Next("chroma", <<"ue">>)
           /\ read' = [read EXCEPT !.chroma = v(1)]
           /\ To(IF v(1) > 3 THEN "none" ELSE IF v(1) = 3 THEN "planes" ELSE "depth")
Planes  == /\ Next("planes", <<"u1">>)
           /\ read' = [read EXCEPT !.planes = v(1)] /\ To("depth")
Depth   == /\ Next("depth", <<"ue", "ue", "u1", "u1">>)
           /\ read' = [read EXCEPT !.depth = 8 + v(1)]
           /\ To(IF v(4) = 1 THEN "list" ELSE "order")

(* skip_scaling_list: a next of 0 ends the deltas of a list.               *)
ListsCoded == IF read.chroma # 3 THEN 8 ELSE 12
ListRead   == IF read.lists + 1 = ListsCoded THEN "order" ELSE "list"
ListSize   == IF read.lists < 6 THEN 16 ELSE 64
List ==
    /\ Next("list", <<"u1">>)
    /\ read' = IF v(1) = 1 THEN [read EXCEPT !.left = ListSize, !.last = 8, !.next = 8]
               ELSE [read EXCEPT !.lists = @ + 1]
    /\ To(IF v(1) = 1 THEN "delta" ELSE ListRead)
DeltaToTheEnd ==                      \* mutant: a list always has all its deltas
    /\ Next("delta", <<"se">>)
    /\ LET next == (read.last + v(1) + 256) % 256
           over == read.left = 1
       IN  /\ read' = [read EXCEPT !.left = @ - 1, !.next = next,
                                   !.last = next, !.lists = IF over THEN @ + 1 ELSE @]
           /\ To(IF over THEN ListRead ELSE "delta")
Delta ==
    /\ Next("delta", <<"se">>)
    /\ LET next == (read.last + v(1) + 256) % 256
           over == next = 0 \/ read.left = 1
       IN  /\ read' = [read EXCEPT !.left = @ - 1, !.next = next,
                                   !.last = IF next = 0 THEN @ ELSE next,
                                   !.lists = IF over THEN @ + 1 ELSE @]
           /\ To(IF over THEN ListRead ELSE "delta")

Order  == /\ Next("order", <<"ue", "ue">>)
          /\ Skip(IF v(2) = 0 THEN "order0" ELSE IF v(2) = 1 THEN "order1" ELSE "size")
Order0 == Next("order0", <<"ue">>) /\ Skip("size")
Order1 == /\ Next("order1", <<"u1", "se", "se", "ue">>)
          /\ read' = [read EXCEPT !.left = v(4)]
          /\ To(IF v(4) > 255 THEN "none" ELSE IF v(4) = 0 THEN "size" ELSE "offset")
Offset == /\ Next("offset", <<"se">>)
          /\ read' = [read EXCEPT !.left = @ - 1]
          /\ To(IF read.left = 1 THEN "size" ELSE "offset")

Size  == /\ Next("size", <<"ue", "u1", "ue", "ue", "u1">>)
         /\ read' = [read EXCEPT !.mbs = v(3) + 1, !.units = v(4) + 1, !.frames = v(5)]
         /\ To(IF v(5) = 0 THEN "field" ELSE "cropping")
Field == Next("field", <<"u1">>) /\ Skip("cropping")
Cropping == Next("cropping", <<"u1", "u1">>) /\ Branch(2, "crop", "vui")
Crop  == /\ Next("crop", <<"ue", "ue", "ue", "ue">>)
         /\ read' = [read EXCEPT !.crop = <<v(1), v(2), v(3), v(4)>>] /\ To("vui")

(* parse_vui_timing.                                                       *)
Vui      == Next("vui", <<"u1">>) /\ Branch(1, "aspect", "done")
Aspect   == Next("aspect", <<"u1">>) /\ Branch(1, "ratio", "overscan")
Ratio    == Next("ratio", <<"u8">>) /\ Skip(IF v(1) = 255 THEN "sar" ELSE "overscan")
Sar      == Next("sar", <<"u16", "u16">>) /\ Skip("overscan")
Overscan == \/ Next("overscan", <<"u1">>) /\ Branch(1, "appropriate", "signal")
            \/ Next("appropriate", <<"u1">>) /\ Skip("signal")
Signal   == \/ Next("signal", <<"u1">>) /\ Branch(1, "format", "location")
            \/ Next("format", <<"u3", "u1", "u1">>) /\ Branch(3, "colour", "location")
            \/ Next("colour", <<"u24">>) /\ Skip("location")
Location == \/ Next("location", <<"u1">>) /\ Branch(1, "samples", "timing")
            \/ Next("samples", <<"ue", "ue">>) /\ Skip("timing")

Gcd(a, b) ==
    LET gcd[x \in Nat, y \in Nat] == IF y = 0 THEN x ELSE gcd[y, x % y] IN gcd[a, b]
Reduced(n, d) == <<n \div Gcd(n, d), d \div Gcd(n, d)>>
TimingInfo ==
    \/ Next("timing", <<"u1">>) /\ Branch(1, "clock", "done")
    \/ /\ Next("clock", <<"u32", "u32">>)
       /\ read' = [read EXCEPT !.rate = IF v(1) = 0 \/ v(2) = 0 THEN << >>
                                        ELSE Reduced(v(2), 2 * v(1))]
       /\ To("done")

SpsNext ==
    \/ Profile \/ Chroma \/ Planes \/ Depth \/ List \/ Delta
    \/ Order \/ Order0 \/ Order1 \/ Offset \/ Size \/ Field \/ Cropping \/ Crop
    \/ Vui \/ Aspect \/ Ratio \/ Sar \/ Overscan \/ Signal \/ Location \/ TimingInfo

(* The size in macroblocks less what is cropped, in units of the chroma    *)
(* samples of a frame or of a field.                                       *)
CropX(r) == IF r.planes = 1 \/ r.chroma \notin {1, 2} THEN 1 ELSE 2
CropY(r) == (IF r.planes = 1 \/ r.chroma # 1 THEN 1 ELSE 2) * (2 - r.frames)
Decoded(r) ==
    [width      |-> 16 * r.mbs - CropX(r) * (r.crop[1] + r.crop[2]),
     height     |-> 16 * (2 - r.frames) * r.units - CropY(r) * (r.crop[3] + r.crop[4]),
     chroma     |-> r.chroma, depth |-> r.depth,
     planes     |-> r.planes = 1, interlaced |-> r.frames = 0, rate |-> r.rate]

------------------------------------------------------------------------------
(* The sequence header of MPEG: the units in front of it and behind it.    *)
FrameRates == <<<<24000, 1001>>, <<24, 1>>, <<25, 1>>, <<30000, 1001>>, <<30, 1>>,
                <<50, 1>>, <<60000, 1001>>, <<60, 1>>>>
Units ==
    [kind : {"header"}, code : {0, 2, 7, 9}, fault : {"", "short", "no size"}]
    \cup [kind : {"extension"}, n : {0, 3}, d : {0, 1}]
    \cup [kind : {"other"}]
SequenceInit ==
    /\ \E k \in 1..3 : \E units \in [1..k -> Units] : made = [sequence |-> units]
    /\ rest = made.sequence
    /\ read = [rate |-> << >>, mpeg2 |-> FALSE, sized |-> TRUE] /\ step = "header"

(* Only what directly follows the header extends it.                       *)
ReadHeader ==
    /\ step = "header"
    /\ IF rest = << >> THEN To("none") /\ UNCHANGED <<rest, read>>
       ELSE /\ rest' = Tail(rest)
            /\ IF Head(rest).kind # "header" THEN Skip("header")
               ELSE /\ read' = [read EXCEPT !.rate = IF Head(rest).code \in DOMAIN FrameRates
                                                     THEN FrameRates[Head(rest).code] ELSE << >>,
                                            !.sized = Head(rest).fault # "no size"]
                    /\ To(IF Head(rest).fault = "short" THEN "none" ELSE "extension")
    /\ UNCHANGED made
ReadExtension ==
    /\ step = "extension"
    /\ IF rest # << >> /\ Head(rest).kind = "extension"
       THEN read' = [read EXCEPT !.mpeg2 = TRUE,
                                 !.rate  = IF @ = << >> THEN << >>
                                           ELSE Reduced(@[1] * (Head(rest).n + 1),
                                                        @[2] * (Head(rest).d + 1))]
       ELSE UNCHANGED read
    /\ To(IF read.sized THEN "done" ELSE "none")
    /\ UNCHANGED <<made, rest>>

VideoInit == UnitsInit \/ SpsInit \/ SequenceInit
VideoNext == Scan \/ Strip \/ SpsNext \/ ReadHeader \/ ReadExtension

------------------------------------------------------------------------------
(* The units of a byte stream come apart as they were written, but for the *)
(* bytes that keep start codes out of them; the picture of a parameter set *)
(* is the one it was written for, whatever optional elements come before;  *)
(* and the parser never takes an element for one of another kind.          *)
PictureComesBack ==
    /\ step \notin {"done", "none"} => ENABLED VideoNext
    /\ step = "done" /\ "units" \in DOMAIN made => read = made.units
    /\ step = "done" /\ "picture" \in DOMAIN made => Decoded(read) = made.picture
    /\ step = "none" => "sequence" \in DOMAIN made
    /\ "sequence" \in DOMAIN made /\ step \in {"done", "none"} =>
           LET s      == made.sequence
               header == {i \in DOMAIN s : s[i].kind = "header"}
               first  == CHOOSE i \in header : \A j \in header : i <= j
               ext    == first < Len(s) /\ s[first + 1].kind = "extension"
           IN  /\ step = "none" <=> header = {} \/ s[first].fault # ""
               /\ step = "done" =>
                      /\ read.mpeg2 <=> ext
                      /\ read.rate # << >> <=> s[first].code \in DOMAIN FrameRates
                      /\ read.rate # << >> /\ ext =>
                             read.rate[1] * FrameRates[s[first].code][2] * (s[first + 1].d + 1)
                                 = read.rate[2] * FrameRates[s[first].code][1] * (s[first + 1].n + 1)
=============================================================================
