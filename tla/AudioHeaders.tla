---------------------------- MODULE AudioHeaders ----------------------------
(***************************************************************************)
(* The headers of audio frames (audio_frame.rs): what the fields of one    *)
(* say of its frame, for AC-3 and E-AC-3, the layers of MPEG audio and AAC *)
(* in ADTS.  The splitter takes the length on trust and the demuxer the    *)
(* duration.  Where the fields lie is module WireBits'.                    *)
(***************************************************************************)
EXTENDS Integers, Sequences

VARIABLES
    header,    \* [syntax, have] and the fields
    frame      \* what parse says of it: NoFrame when it refuses

NoFrame == [kind |-> "none", len |-> 0, samples |-> 0, rate |-> 0, channels |-> 0, bits |-> 0]
Unparsed == [NoFrame EXCEPT !.kind = "unparsed"]
Frame(kind, len, samples, rate, channels, bits) ==
    [kind |-> kind, len |-> len, samples |-> samples, rate |-> rate, channels |-> channels,
     bits |-> bits]

------------------------------------------------------------------------------
(* AC-3: the words of a frame by the code of its size, at 48, 44.1 and     *)
(* 32 kHz.                                                                 *)
Words48 == <<64, 80, 96, 112, 128, 160, 192, 224, 256, 320, 384, 448, 512, 640, 768, 896,
             1024, 1152, 1280>>
Words44 == <<69, 87, 104, 121, 139, 174, 208, 243, 278, 348, 417, 487, 557, 696, 835, 975,
             1114, 1253, 1393>>
Words32 == <<96, 120, 144, 168, 192, 240, 288, 336, 384, 480, 576, 672, 768, 960, 1152, 1344,
             1536, 1728, 1920>>
Ac3Words(fscod, code) ==
    CASE fscod = 0 -> Words48[code \div 2 + 1]
      [] fscod = 1 -> Words44[code \div 2 + 1] + (code % 2)
      [] fscod = 2 -> Words32[code \div 2 + 1]
Ac3BitRate   == <<32, 40, 48, 56, 64, 80, 96, 112, 128, 160, 192, 224, 256, 320, 384, 448,
                  512, 576, 640>>
Ac3Channels  == <<2, 1, 2, 3, 3, 4, 4, 5>>
Ac3Rate      == <<48000, 44100, 32000>>
Eac3Rate2    == <<24000, 22050, 16000>>
Eac3Blocks   == <<1, 2, 3, 6>>

(* The LFE flag is behind fields some channel modes have; a head of seven  *)
(* bytes may end before it, and then there is none.                        *)
LfeAt(acmod) ==
    51 + (IF acmod % 2 = 1 /\ acmod # 1 THEN 2 ELSE 0)
       + (IF acmod \in 4..7 THEN 2 ELSE 0) + (IF acmod = 2 THEN 2 ELSE 0)
LfeOf(h) == IF LfeAt(h.acmod) \div 8 < h.have THEN h.lfe ELSE 0

Ac3Frame(h) ==
    IF h.have < 7 \/ h.fscod > 2 \/ h.code >= 38 THEN NoFrame
    ELSE Frame("ac3", 2 * Ac3Words(h.fscod, h.code), 1536, Ac3Rate[h.fscod + 1],
               Ac3Channels[h.acmod + 1] + LfeOf(h), 1000 * Ac3BitRate[h.code \div 2 + 1])

Eac3Frame(h) ==
    IF h.fscod = 3 /\ h.blocks > 2 THEN NoFrame
    ELSE Frame("eac3", 2 * (h.frmsiz + 1),
               256 * IF h.fscod = 3 THEN 6 ELSE Eac3Blocks[h.blocks + 1],
               IF h.fscod = 3 THEN Eac3Rate2[h.blocks + 1] ELSE Ac3Rate[h.fscod + 1],
               Ac3Channels[h.acmod + 1] + h.lfe, 0)

ParseAc3Frame(h) ==
    IF h.have < 6 THEN NoFrame
    ELSE IF h.bsid <= 8 THEN Ac3Frame(h)
    ELSE IF h.bsid \in 11..16 THEN Eac3Frame(h) ELSE NoFrame

------------------------------------------------------------------------------
(* MPEG audio.  Layers count from I; in MPEG-2 II and III share a table.   *)
Mpeg1BitRate ==
    <<<<0, 32, 64, 96, 128, 160, 192, 224, 256, 288, 320, 352, 384, 416, 448, 0>>,
      <<0, 32, 48, 56, 64, 80, 96, 112, 128, 160, 192, 224, 256, 320, 384, 0>>,
      <<0, 32, 40, 48, 56, 64, 80, 96, 112, 128, 160, 192, 224, 256, 320, 0>>>>
Mpeg2BitRate ==
    <<<<0, 32, 48, 56, 64, 80, 96, 112, 128, 144, 160, 176, 192, 224, 256, 0>>,
      <<0, 8, 16, 24, 32, 40, 48, 56, 64, 80, 96, 112, 128, 144, 160, 0>>>>
MpegRate(id) == IF id = 1 THEN <<44100, 48000, 32000>> ELSE <<22050, 24000, 16000>>

MpegBitRate(h, layer) ==
    1000 * IF h.id = 1 THEN Mpeg1BitRate[layer][h.index + 1]
           ELSE Mpeg2BitRate[IF layer = 1 THEN 1 ELSE 2][h.index + 1]
SamplesOfLayerIII(id) == 1152         \* mutant: as if there were no lower rates
SamplesOfIII(id) == IF id = 1 THEN 1152 ELSE 576
MpegSamples(layer, id) ==
    CASE layer = 1 -> 384 [] layer = 2 -> 1152 [] layer = 3 -> SamplesOfIII(id)

(* Layer I counts slots of four bytes.                                     *)
MpegLength(h, layer, bits, rate) ==
    IF layer = 1 THEN 4 * ((12 * bits) \div rate) + 4 * h.padding
    ELSE (((IF layer = 3 /\ h.id = 0 THEN 72 ELSE 144) * bits) \div rate) + h.padding

ParseMpegAudioHeader(h) ==
    IF h.have < 4 \/ h.layer = 0 \/ h.index \in {0, 15} \/ h.sf = 3 THEN NoFrame
    ELSE LET layer == 4 - h.layer
             bits  == MpegBitRate(h, layer)
             rate  == MpegRate(h.id)[h.sf + 1]
         IN  Frame(<<"mp1", "mp2", "mp3">>[layer], MpegLength(h, layer, bits, rate),
                   MpegSamples(layer, h.id), rate, IF h.mode = 3 THEN 1 ELSE 2, bits)

------------------------------------------------------------------------------
(* ADTS.                                                                   *)
AdtsRate     == <<96000, 88200, 64000, 48000, 44100, 32000, 24000, 22050, 16000, 12000,
                  11025, 8000>>
AdtsChannels == <<0, 1, 2, 3, 4, 5, 6, 8>>
AdtsHeader(h) == IF h.absent = 1 THEN 7 ELSE 9
ParseAdtsHeader(h) ==
    IF h.have < 7 \/ h.layer # 0 \/ h.sf >= 12 \/ h.length < AdtsHeader(h) THEN NoFrame
    ELSE Frame("aac", h.length, 1024 * (h.blocks + 1), AdtsRate[h.sf + 1],
               AdtsChannels[h.channels + 1], 0)

Parse(h) ==
    CASE h.syntax = "ac3"  -> ParseAc3Frame(h)
      [] h.syntax = "mpeg" -> ParseMpegAudioHeader(h)
      [] h.syntax = "adts" -> ParseAdtsHeader(h)

(* To the nearest tick of 90 kHz.                                          *)
Duration90k(f) == IF f.rate = 0 THEN 0 ELSE (f.samples * 90000 + f.rate \div 2) \div f.rate

------------------------------------------------------------------------------
(* Every header, with the bytes at hand from one too few on.               *)
Headers ==
    [syntax : {"ac3"}, have : {8}, bsid : {0, 8, 9}, fscod : 0..3, code : 0..63, acmod : {2, 7},
     lfe : {0, 1}]
    \cup [syntax : {"ac3"}, have : 5..7, bsid : {8}, fscod : {0}, code : {0, 37},
          acmod : 0..7, lfe : {0, 1}]
    \cup [syntax : {"ac3"}, have : {5, 6}, bsid : {10, 11, 16, 17}, fscod : 0..3, blocks : 0..3,
          frmsiz : {0, 2047}, acmod : {0, 7}, lfe : {0, 1}]
    \cup [syntax : {"mpeg"}, have : {3, 4}, id : {0, 1}, layer : 0..3, index : 0..15, sf : 0..3,
          padding : {0, 1}, mode : {0, 3}]
    \cup [syntax : {"adts"}, have : {6, 7}, layer : {0, 1}, absent : {0, 1}, sf : 0..15,
          channels : {0, 7}, length : {0, 6, 7, 8, 9, 8191}, blocks : {0, 3}]

HeaderInit == header \in Headers /\ frame = Unparsed
HeaderNext == frame = Unparsed /\ frame' = Parse(header) /\ UNCHANGED header

------------------------------------------------------------------------------
Parsed == frame # Unparsed /\ frame # NoFrame
Slot   == IF frame.kind = "mp1" THEN 4 ELSE IF frame.kind = "ac3" THEN 2 ELSE 1
Within(a, b, d) == a - b \in (-d)..d

(* A frame is as long as its bit rate fills in the time of its samples, to *)
(* a slot: the tables of sizes, rates and samples agree, for a wrong one   *)
(* would have the splitter look for the next frame in the midst of this.   *)
(* It is never empty, so the splitter always moves on, nor shorter than    *)
(* its own ADTS header; and it has a duration, the nearest there is.       *)
FrameLengthTrue ==
    Parsed =>
        /\ frame.len > 0
        /\ frame.bits > 0 =>
               Within(8 * frame.len * frame.rate, frame.samples * frame.bits,
                      8 * Slot * frame.rate)
        /\ frame.kind = "aac" => frame.len >= AdtsHeader(header)
        /\ frame.rate > 0
        /\ Within(2 * frame.rate * Duration90k(frame), 2 * 90000 * frame.samples, frame.rate)
=============================================================================
