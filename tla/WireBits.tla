------------------------------ MODULE WireBits ------------------------------
(***************************************************************************)
(* The fields that cross byte boundaries: where the encoder puts each bit  *)
(* of a value, and which bit the decoder takes it for.  The machine        *)
(* follows one bit at a time from the value to the wire and back; as every *)
(* coding only moves bits, that is all there is to know of it.             *)
(***************************************************************************)
EXTENDS Integers, Sequences, SequencesExt

VARIABLES
    coding,      \* the field
    bit,         \* <<part, index>>: the bit followed
    place,       \* <<byte, bit>> on the wire, or Nowhere
    back         \* the bit the decoder takes it for, or NoBit

wireVars == <<coding, bit, place, back>>

Nowhere == <<-1, -1>>
NoBit   == <<"none", 0>>

(* Bits from..from+width-1 of a part, at bit `at` of a byte and upwards.   *)
F(part, from, width, byte, at) ==
    [part |-> part, from |-> from, width |-> width, byte |-> byte, at |-> at]

EncodeTs33 == {F("ts", 30, 3, 0, 1), F("ts", 22, 8, 1, 0), F("ts", 15, 7, 2, 1),
               F("ts", 7, 8, 3, 0), F("ts", 0, 7, 4, 1)}
DecodeTimestamp == {F("ts", 30, 3, 0, 1), F("ts", 22, 8, 1, 0), F("ts", 15, 7, 2, 1),
                    F("ts", 7, 8, 3, 0), F("ts", 0, 7, 4, 1)}

EncodeEscr == {F("base", 30, 3, 0, 3), F("base", 28, 2, 0, 0), F("base", 20, 8, 1, 0),
               F("base", 15, 5, 2, 3), F("base", 13, 2, 2, 0), F("base", 5, 8, 3, 0),
               F("base", 0, 5, 4, 3), F("ext", 7, 2, 4, 0), F("ext", 0, 7, 5, 1)}
(* The decoder assembles the base from three parts of 3, 15 and 15 bits.   *)
DecodeEscrShifted ==              \* mutant: the second part put a bit too high
    {F("base", 30, 3, 0, 3), F("base", 29, 2, 0, 0), F("base", 21, 8, 1, 0),
     F("base", 15, 5, 2, 3), F("base", 13, 2, 2, 0), F("base", 5, 8, 3, 0),
     F("base", 0, 5, 4, 3), F("ext", 7, 2, 4, 0), F("ext", 0, 7, 5, 1)}
DecodeEscr == {F("base", 30, 3, 0, 3), F("base", 15 + 13, 2, 0, 0), F("base", 15 + 5, 8, 1, 0),
               F("base", 15, 5, 2, 3), F("base", 13, 2, 2, 0), F("base", 5, 8, 3, 0),
               F("base", 0, 5, 4, 3), F("ext", 7, 2, 4, 0), F("ext", 0, 7, 5, 1)}
FindScr    == {F("base", 30, 3, 0, 3), F("base", 28, 2, 0, 0), F("base", 20, 8, 1, 0),
               F("base", 15, 5, 2, 3), F("base", 13, 2, 2, 0), F("base", 5, 8, 3, 0),
               F("base", 0, 5, 4, 3), F("ext", 7, 2, 4, 0), F("ext", 0, 7, 5, 1)}

EncodeClockReference == {F("base", 25, 8, 0, 0), F("base", 17, 8, 1, 0), F("base", 9, 8, 2, 0),
                         F("base", 1, 8, 3, 0), F("base", 0, 1, 4, 7), F("ext", 8, 1, 4, 0),
                         F("ext", 0, 8, 5, 0)}
ParseClockReference == {F("base", 25, 8, 0, 0), F("base", 17, 8, 1, 0), F("base", 9, 8, 2, 0),
                        F("base", 1, 8, 3, 0), F("base", 0, 1, 4, 7), F("ext", 8, 1, 4, 0),
                        F("ext", 0, 8, 5, 0)}

EncodeEsRate == {F("rate", 15, 7, 0, 0), F("rate", 7, 8, 1, 0), F("rate", 0, 7, 2, 1)}
ParseEsRate  == {F("rate", 15, 7, 0, 0), F("rate", 7, 8, 1, 0), F("rate", 0, 7, 2, 1)}

(* The extension of the adaptation field.                                  *)
EncodeExtensionFields ==
    {F("valid", 0, 1, 0, 7), F("offset", 8, 7, 0, 0), F("offset", 0, 8, 1, 0),
     F("piecewise", 16, 6, 2, 0), F("piecewise", 8, 8, 3, 0), F("piecewise", 0, 8, 4, 0),
     F("type", 0, 4, 5, 4), F("dts", 30, 3, 5, 1), F("dts", 22, 8, 6, 0),
     F("dts", 15, 7, 7, 1), F("dts", 7, 8, 8, 0), F("dts", 0, 7, 9, 1)}
ParseExtensionFields ==
    {F("valid", 0, 1, 0, 7), F("offset", 8, 7, 0, 0), F("offset", 0, 8, 1, 0),
     F("piecewise", 16, 6, 2, 0), F("piecewise", 8, 8, 3, 0), F("piecewise", 0, 8, 4, 0),
     F("type", 0, 4, 5, 4), F("dts", 30, 3, 5, 1), F("dts", 22, 8, 6, 0),
     F("dts", 15, 7, 7, 1), F("dts", 7, 8, 8, 0), F("dts", 0, 7, 9, 1)}

EncodePStd == {F("scale", 0, 1, 0, 5), F("size", 8, 5, 0, 0), F("size", 0, 8, 1, 0)}
ParsePStd  == {F("scale", 0, 1, 0, 5), F("size", 8, 5, 0, 0), F("size", 0, 8, 1, 0)}

(* The headers of audio frames and of a video sequence.  The standards     *)
(* give the fields in a row: a part, the lowest of its bits that are here, *)
(* and how many, from the first bit of the first byte on.                  *)
LaidOut(fields) ==
    LET start(i) == FoldLeft(LAMBDA n, f : n + f[3], 0, SubSeq(fields, 1, i - 1))
        bits(i)  == {<<fields[i][2] + b, start(i) + fields[i][3] - 1 - b>> :
                         b \in 0..(fields[i][3] - 1)}
    IN  UNION {{F(fields[i][1], p[1], 1, p[2] \div 8, 7 - (p[2] % 8)) : p \in bits(i)} :
                   i \in 1..Len(fields)}

Ac3Head(acmod) ==
    <<<<"", 0, 32>>, <<"fscod", 0, 2>>, <<"frmsizecod", 0, 6>>, <<"bsid", 0, 5>>, <<"", 0, 3>>,
      <<"acmod", 0, 3>>, <<"", 0, IF acmod \in {3, 5, 7} THEN 2 ELSE 0>>,
      <<"", 0, IF acmod \in {4, 5, 6, 7} THEN 2 ELSE 0>>, <<"", 0, IF acmod = 2 THEN 2 ELSE 0>>,
      <<"lfeon", 0, 1>>>>
LfeAt(acmod) ==
    51 + (IF acmod % 2 = 1 /\ acmod # 1 THEN 2 ELSE 0)
       + (IF acmod \in 4..7 THEN 2 ELSE 0) + (IF acmod = 2 THEN 2 ELSE 0)
ParseAc3(acmod) ==
    {F("bsid", 0, 5, 5, 3), F("fscod", 0, 2, 4, 6), F("frmsizecod", 0, 6, 4, 0),
     F("acmod", 0, 3, 6, 5), F("lfeon", 0, 1, LfeAt(acmod) \div 8, 7 - (LfeAt(acmod) % 8))}

Eac3Head ==
    <<<<"", 0, 21>>, <<"frmsiz", 0, 11>>, <<"fscod", 0, 2>>, <<"code2", 0, 2>>, <<"acmod", 0, 3>>,
      <<"lfeon", 0, 1>>, <<"bsid", 0, 5>>>>
ParseEac3 ==
    {F("bsid", 0, 5, 5, 3), F("frmsiz", 8, 3, 2, 0), F("frmsiz", 0, 8, 3, 0),
     F("fscod", 0, 2, 4, 6), F("code2", 0, 2, 4, 4), F("acmod", 0, 3, 4, 1),
     F("lfeon", 0, 1, 4, 0)}

MpegAudioHead ==
    <<<<"", 0, 12>>, <<"id", 0, 1>>, <<"layer", 0, 2>>, <<"", 0, 1>>, <<"bitrate_index", 0, 4>>,
      <<"sf_index", 0, 2>>, <<"padding", 0, 1>>, <<"", 0, 1>>, <<"mode", 0, 2>>>>
ParseMpegAudio ==
    {F("id", 0, 1, 1, 3), F("layer", 0, 2, 1, 1), F("bitrate_index", 0, 4, 2, 4),
     F("sf_index", 0, 2, 2, 2), F("padding", 0, 1, 2, 1), F("mode", 0, 2, 3, 6)}

AdtsHead ==
    <<<<"", 0, 13>>, <<"layer", 0, 2>>, <<"protection_absent", 0, 1>>, <<"", 0, 2>>,
      <<"sf_index", 0, 4>>, <<"", 0, 1>>, <<"channels", 0, 3>>, <<"", 0, 4>>,
      <<"frame_length", 0, 13>>, <<"", 0, 11>>, <<"raw_blocks", 0, 2>>>>
ParseAdts ==
    {F("layer", 0, 2, 1, 1), F("protection_absent", 0, 1, 1, 0), F("sf_index", 0, 4, 2, 2),
     F("channels", 2, 1, 2, 0), F("channels", 0, 2, 3, 6), F("frame_length", 11, 2, 3, 0),
     F("frame_length", 3, 8, 4, 0), F("frame_length", 0, 3, 5, 5), F("raw_blocks", 0, 2, 6, 0)}

(* The sizes of a sequence header go on in its extension, here behind it.  *)
SequenceHead ==
    <<<<"width", 0, 12>>, <<"height", 0, 12>>, <<"", 0, 4>>, <<"frame_rate_code", 0, 4>>,
      <<"", 0, 32>>, <<"", 0, 4 + 8 + 1>>, <<"chroma_format", 0, 2>>, <<"width", 12, 2>>,
      <<"height", 12, 2>>, <<"", 0, 12 + 1 + 8 + 1>>, <<"n", 0, 2>>, <<"d", 0, 5>>>>
ParseSequence ==
    LaidOut(<<<<"width", 0, 12>>, <<"height", 0, 12>>, <<"", 0, 4>>, <<"frame_rate_code", 0, 4>>,
              <<"", 0, 32>>, <<"", 0, 4>>, <<"", 0, 8>>, <<"", 0, 1>>, <<"chroma_format", 0, 2>>,
              <<"width", 12, 2>>, <<"height", 12, 2>>, <<"", 0, 12>>, <<"", 0, 1>>, <<"", 0, 8>>,
              <<"", 0, 1>>, <<"n", 0, 2>>, <<"d", 0, 5>>>>)

Coding(written, read) == [written |-> written, read |-> read]
Codings ==
    {Coding(EncodeTs33, DecodeTimestamp), Coding(EncodeEscr, DecodeEscr),
     Coding(EncodeEscr, FindScr), Coding(EncodeClockReference, ParseClockReference),
     Coding(EncodeEsRate, ParseEsRate), Coding(EncodeExtensionFields, ParseExtensionFields),
     Coding(EncodePStd, ParsePStd), Coding(LaidOut(Eac3Head), ParseEac3),
     Coding(LaidOut(MpegAudioHead), ParseMpegAudio), Coding(LaidOut(AdtsHead), ParseAdts),
     Coding(LaidOut(SequenceHead), ParseSequence)}
    \cup {Coding(LaidOut(Ac3Head(acmod)), ParseAc3(acmod)) : acmod \in 0..7}

(* The bits written of the parts the decoder reads.                        *)
Values(c) ==
    LET parts == {f.part : f \in c.read} \ {""}
    IN  UNION {{<<f.part, f.from + i>> : i \in 0..(f.width - 1)} :
                   f \in {g \in c.written : g.part \in parts}}

WireInit ==
    /\ coding \in Codings
    /\ bit \in Values(coding)
    /\ place = Nowhere
    /\ back = NoBit

Write ==
    /\ place = Nowhere
    /\ \E f \in coding.written :
           /\ f.part = bit[1]
           /\ bit[2] \in f.from..(f.from + f.width - 1)
           /\ place' = <<f.byte, f.at + bit[2] - f.from>>
    /\ UNCHANGED <<coding, bit, back>>

Read ==
    /\ place # Nowhere /\ back = NoBit
    /\ \E f \in coding.read :
           /\ f.byte = place[1]
           /\ place[2] \in f.at..(f.at + f.width - 1)
           /\ back' = <<f.part, f.from + place[2] - f.at>>
    /\ UNCHANGED <<coding, bit, place>>

WireNext == Write \/ Read

(* Every bit of every value has a place on the wire, within its byte, and  *)
(* the decoder takes it for the bit it was.                                *)
BitsComeBack ==
    /\ place = Nowhere => ENABLED Write
    /\ place # Nowhere => place[2] \in 0..7
    /\ place # Nowhere /\ back = NoBit => ENABLED Read
    /\ back # NoBit => back = bit
=============================================================================
