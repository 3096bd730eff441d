------------------------------ MODULE MCReceiving ------------------------------
(* An instance of Receiving for TLC: what the muxer of Discovery is asked  *)
(* for, and what other multiplexers write.  `params' is what is declared   *)
(* of a stream.                                                            *)
EXTENDS Receiving

MCMaxPes == [p \in Pids |-> IF p = 1 THEN 2 ELSE 1]
MCOnePid == [p \in Pids |-> 3]
MCLeads == {-4, 0, 9}      \* a timestamp may be overdue

Params(codec, language, frameRate, sampleRate) ==
    [codec |-> codec, language |-> language, frameRate |-> frameRate, sampleRate |-> sampleRate]
Muxed(codec, language, extra, frames, params) ==
    [foreign |-> FALSE, type |-> 0, codec |-> codec, language |-> language, extra |-> extra,
     frames |-> frames, params |-> params]
Other(type, info, frames, params) ==
    [foreign |-> TRUE, type |-> type, codec |-> "", language |-> {}, extra |-> info,
     frames |-> frames, params |-> params]
Program(number, pmt, clock, tracks, service, events) ==
    [number |-> number, pmt |-> pmt, pcr |-> clock, tracks |-> tracks, service |-> service,
     events |-> events]
Config(streams, programs, all) ==
    [streams |-> streams, programs |-> programs, ca |-> all, network |-> all, time |-> TRUE,
     offsets |-> all]

Es(tag, value)    == [tag |-> tag, value |-> value]
Shows(codec, rate) == <<[codec |-> codec, rate |-> rate]>>
Mute            == << << >>, << >>, << >> >>
English           == {<<"e", "n">>}
Unknown           == Params("unknown", {}, {}, {})

(* Two programs with every table; the map of the first takes two packets.  *)
Whole ==
    Config(<<Muxed("h264", English, << >>, << << >>, Shows("", {3}), << >> >>,
                   Params("h264", {}, {}, {})),
             Muxed("ac3", {<<"e", "n", "g", "l">>}, << >>,
                   <<Shows("eac3", {0}), Shows("eac3", {0}), Shows("eac3", {0})>>,
                   Params("ac3", {<<"e", "n", "g">>}, {}, {})),
             Muxed("mp3", English, << >>, <<Shows("mp3", {1}), Shows("mp3", {1}), << >> >>,
                   Params("mp2", English, {}, {}))>>,
           <<Program(1, 256, 0, <<1, 2>>, TRUE, TRUE), Program(2, 257, 0, <<3>>, FALSE, TRUE)>>,
           TRUE)

(* Descriptors of the caller's own, a language that is blank, a PCR PID.   *)
Extra ==
    Config(<<Muxed("ac3", {<< >>}, <<Es(129, <<7>>), Es(129, <<1>>)>>,
                   <<Shows("ac3", {0}), Shows("ac3", {0}), Shows("ac3", {0})>>,
                   Params("ac3", {}, {}, {1})),
             Muxed("hevc", {}, <<Es(2, << >>), Es(2, <<3>>)>>, Mute,
                   Params("hevc", {}, {3}, {})),
             Muxed("mpeg2video", {}, << >>, << << >>, << >>, Shows("", {4}) >>,
                   Params("mpeg2video", {}, {}, {}))>>,
           <<Program(7, 300, 8190, <<3, 1>>, FALSE, FALSE),
             Program(5, 301, 0, <<2>>, TRUE, FALSE)>>,
           FALSE)

(* The network's entry in the PAT, audio as private data, streams that     *)
(* are not known.                                                          *)
Foreign ==
    Config(<<Other(6, <<Es(10, << <<" ", " ", " ">> >>), Es(122, << >>),
                        Es(10, << <<"f", "r", "e">>, <<"e", "n", "g">> >>)>>,
                   <<Shows("ac3", {2}), Shows("ac3", {2}), Shows("ac3", {2})>>,
                   Params("eac3", {<<"f", "r", "e">>}, {}, {})),
             Other(5, << >>, Mute, Unknown),
             Other(6, <<Es(5, "HDMV")>>, Mute, Unknown),
             Other(6, <<Es(5, "AC-3")>>, << << >>, Shows("ac3", {0}), << >> >>,
                   Params("ac3", {}, {}, {}))>>,
           <<Program(0, 16, 0, << >>, FALSE, FALSE),
             Program(3, 256, 4113, <<1, 2>>, FALSE, FALSE),
             Program(4, 257, 8191, <<3, 4>>, FALSE, FALSE)>>,
           FALSE)
Bare ==
    Config(<<Other(5, << >>, Mute, Unknown)>>,
           <<Program(3, 256, 4113, <<1>>, FALSE, FALSE)>>, FALSE)

(* What is refused: program 0, a track of two programs, one that is not    *)
(* there, none, a codec without a stream_type.                             *)
Plain(codec) == Muxed(codec, {}, << >>, Mute, Params(codec, {}, {}, {}))
Wrong ==
    {Config(<<Plain("ac3")>>, <<Program(0, 256, 0, <<1>>, FALSE, FALSE)>>, FALSE),
     Config(<<Plain("ac3")>>, <<Program(1, 256, 0, <<1>>, FALSE, FALSE),
                                Program(2, 257, 0, <<1>>, FALSE, FALSE)>>, FALSE),
     Config(<<Plain("ac3")>>, <<Program(1, 256, 0, <<2>>, FALSE, FALSE)>>, FALSE),
     Config(<<Plain("ac3")>>, <<Program(1, 256, 0, << >>, FALSE, FALSE)>>, FALSE),
     Config(<<Plain("mov_text")>>, <<Program(1, 256, 0, <<1>>, FALSE, FALSE)>>, FALSE)}

MCConfigs == {Whole, Extra, Foreign, Bare} \cup Wrong

(* Two programs whose maps share a PID, as 2.4.4 allows.                   *)
MCShared ==
    {Config(<<Plain("ac3"), Plain("dts")>>,
            <<Program(1, 256, 0, <<1>>, FALSE, FALSE), Program(2, 256, 0, <<2>>, FALSE, FALSE)>>,
            FALSE)}
==============================================================================
