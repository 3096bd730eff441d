----------------------------- MODULE StreamTypes -----------------------------
(***************************************************************************)
(* What the stream_type byte of a program map says of a stream, and the    *)
(* codecs it stands for in the demuxer and in the muxer.  The machine      *)
(* carries a codec round the two: a stream is announced, demuxed, muxed    *)
(* again from the parameters the demuxer gave it, and so on.               *)
(***************************************************************************)
EXTENDS Integers, Sequences

VARIABLES
    stream,    \* the stream_type byte announced
    codec,     \* the codec it was taken for, or NoCodec
    kind,      \* the class of the track: "video", "audio", "subtitle" or "none"
    first,     \* the codec the track came in with
    frames,    \* what the frames of the stream are: an audio codec, or "other"
    round      \* the times it went through the muxer

streamVars == <<stream, codec, kind, first, frames, round>>

NoCodec   == "none"
MaxRounds == 2

(* The bytes the crate has a name for; any other keeps its number.         *)
FromRaw == [b \in 0..255 |->
    IF b \in (1..38) \cup {66, 234} \cup (128..134) \cup (144..146) \cup {161, 162}
    THEN <<"named", b>> ELSE <<"other", b>>]
AsRaw(t) == t[2]

IsVideo(t) ==
    /\ t[1] = "named"
    /\ t[2] \in {1, 2, 16, 27} \cup (30..38) \cup {66, 234}
IsAudio(t) ==
    /\ t[1] = "named"
    /\ t[2] \in {3, 4, 15, 17, 28} \cup (128..134) \cup {161, 162}
IsSubtitle(t) == t[1] = "named" /\ t[2] \in {144, 145, 146, 29}
IsMetadata(t) == t[1] = "named" /\ t[2] \in 21..25
IsPrivate(t)  == t[1] = "named" /\ t[2] \in {5, 6}

DemuxedCodecs ==
    {<<"mpeg1video", {1}>>, <<"mpeg2video", {2, 34}>>, <<"mpeg4", {16}>>,
     <<"h264", {27, 35}>>, <<"hevc", {36, 37}>>, <<"jpeg2000", {33}>>, <<"vc1", {234}>>,
     <<"mp2", {3, 4}>>, <<"aac", {15, 17, 28}>>, <<"pcm_s16be", {128}>>,
     <<"ac3", {129, 161}>>, <<"eac3", {132}>>, <<"truehd", {131}>>,
     <<"dts", {130, 133, 134, 162}>>, <<"hdmv_pgs_subtitle", {144}>>,
     <<"hdmv_textst_subtitle", {146}>>, <<"mov_text", {29}>>}
VideoCodecs    == {"mpeg1video", "mpeg2video", "mpeg4", "h264", "hevc", "jpeg2000", "vc1"}
SubtitleCodecs == {"hdmv_pgs_subtitle", "hdmv_textst_subtitle", "mov_text"}

CodecParamsForStreamType(b) == {c[1] : c \in {d \in DemuxedCodecs : b \in d[2]}}
KindOf(c) ==
    IF c \in VideoCodecs THEN "video" ELSE IF c \in SubtitleCodecs THEN "subtitle" ELSE "audio"

(* apply_audio: the header of the first frame tells apart the codecs that  *)
(* share a stream_type.                                                    *)
Families == {{"mp1", "mp2", "mp3"}, {"ac3", "eac3"}}
RefinedMpeg(c, f) == IF {c, f} \subseteq {"mp1", "mp2", "mp3"} THEN f ELSE c  \* mutant: not AC-3
Refined(c, f)     == IF \E family \in Families : {c, f} \subseteq family THEN f ELSE c

(* <<codec, stream_type, PES stream_id, video?>>                           *)
MuxedCodecs ==
    {<<"mpeg1video", 1, 224, TRUE>>, <<"mpeg2video", 2, 224, TRUE>>, <<"mpeg4", 16, 224, TRUE>>,
     <<"jpeg2000", 33, 224, TRUE>>, <<"h264", 27, 224, TRUE>>, <<"hevc", 36, 224, TRUE>>,
     <<"vc1", 234, 224, TRUE>>, <<"mp1", 3, 192, FALSE>>, <<"mp2", 3, 192, FALSE>>,
     <<"mp3", 3, 192, FALSE>>, <<"aac", 15, 192, FALSE>>, <<"pcm_s16be", 128, 189, FALSE>>,
     <<"ac3", 129, 189, FALSE>>, <<"dts", 130, 189, FALSE>>, <<"truehd", 131, 189, FALSE>>,
     <<"eac3", 132, 189, FALSE>>, <<"hdmv_pgs_subtitle", 144, 189, FALSE>>,
     <<"hdmv_textst_subtitle", 146, 189, FALSE>>}
StreamTypeForCodec(c) == {m \in MuxedCodecs : m[1] = c}

StreamInit ==
    /\ stream \in 0..255
    /\ frames \in UNION Families \cup {"other"}
    /\ codec = NoCodec /\ kind = "none" /\ first = NoCodec
    /\ round = 0

(* A stream without a codec is dropped.                                    *)
Demux ==
    /\ codec = NoCodec
    /\ \E c \in CodecParamsForStreamType(AsRaw(FromRaw[stream])) :
           /\ codec' = Refined(c, frames)
           /\ kind' = KindOf(c)
           /\ first' = IF first = NoCodec THEN codec' ELSE first
    /\ UNCHANGED <<stream, frames, round>>

(* A codec without a stream_type is refused.                               *)
Remux ==
    /\ codec # NoCodec /\ round < MaxRounds
    /\ \E m \in StreamTypeForCodec(codec) : stream' = m[2]
    /\ codec' = NoCodec
    /\ round' = round + 1
    /\ UNCHANGED <<kind, first, frames>>

StreamNext == Demux \/ Remux

(* A stream that is demuxed and muxed again keeps its codec, the one of    *)
(* its frames where its stream_type leaves a choice, and the track has the *)
(* class that the byte itself is classed by: what the demuxer drops aside, *)
(* the three tables of the crate say the same of every byte.               *)
CodecKept ==
    codec # NoCodec =>
        /\ codec = first
        /\ \A family \in Families : {codec, frames} \subseteq family => codec = frames
        /\ kind = "video" <=> IsVideo(FromRaw[stream])
        /\ kind = "audio" <=> IsAudio(FromRaw[stream])
        /\ kind = "subtitle" <=> IsSubtitle(FromRaw[stream])
        /\ \A m \in StreamTypeForCodec(codec) : m[4] <=> kind = "video"
        /\ ~IsPrivate(FromRaw[stream]) /\ ~IsMetadata(FromRaw[stream])
=============================================================================
