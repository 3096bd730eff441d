------------------------------ MODULE Discovery ------------------------------
(***************************************************************************)
(* From the programs a muxer is configured with to the streams a demuxer   *)
(* opens.  The muxer gives out PIDs and writes rounds of tables and frames *)
(* (with_config, write_header, maybe_repeat_psi); a receiver that tunes in *)
(* anywhere, and loses packets, collects the programs, waits for the map   *)
(* of the one it wants, makes streams of it, reads ahead for what the map  *)
(* does not say of them and returns (with_selector).                       *)
(*                                                                         *)
(* A table is one section of one or two packets, a frame a PES packet of   *)
(* one.  Of a descriptor its tag and what is read of it are kept.          *)
(***************************************************************************)
EXTENDS Integers, Sequences, SequencesExt, FiniteSetsExt, Functions

CONSTANTS
    Configs,     \* what the muxer may be asked for
    Rounds,      \* the rounds of tables and frames on the wire
    TableRoom,   \* the entries a PAT or a program map of one packet has room for
    ProbeLimit,  \* PARAM_PROBE_BYTES, in packets
    VideoLimit,  \* PARAM_PROBE_VIDEO_BYTES, in frames
    Drops,       \* the most packets lost
    CounterValues \* the values of the continuity counter

TableAssumption   == {Rounds, TableRoom} \subseteq Nat \ {0}
ChannelAssumption == {Drops, ProbeLimit, VideoLimit} \subseteq Nat /\ CounterValues > Drops

VARIABLES
    config,      \* [streams, programs, ca, network, time, offsets]
    counters,    \* for each table and track, its continuity counter
    written,     \* the writes done: tables, then a frame of each track
    wire,        \* the packets written
    stage,       \* "mux", "refused"; "pat", "pmt", "probe"; or how open() ended
    want,        \* the program asked for, or First
    from,        \* where the receiver tuned in
    upcoming,    \* the packet it reads next
    dropped,     \* those that were lost
    partial,     \* the section assembler: parts in flight, last counter
    listed,      \* TsDemuxer::programs
    pcrPid, opened,  \* the PCR PID and the streams: [pid, params]
    resume,      \* where streaming is to begin
    need, units, seen  \* the look-ahead: PIDs, their unit in flight, units seen

T == INSTANCE StreamTypes WITH
         stream <- 0, codec <- "", kind <- "", first <- "", frames <- "", round <- 0

PatPid     == 0
FirstEsPid == 4113
First      == 0           \* no program in particular
NoPid      == 0           \* no explicit PCR PID
NoCount    == -1
Nothing    == << >>       \* a frame without a header to read

------------------------------------------------------------------------------
(* with_config.  The sets are empty where there is no stream type.         *)
Placed(c)   == FlattenSeq([p \in DOMAIN c.programs |-> c.programs[p].tracks])
Types(s)    == T!StreamTypeForCodec(s.codec)
Announced(s) == IF s.foreign THEN s.type ELSE (CHOOSE m \in Types(s) : TRUE)[2]
IsVideo(s)  == ~s.foreign /\ \E m \in Types(s) : m[4]

Refused(c) ==
    \/ c.streams = << >> \/ c.programs = << >>
    \/ \E p \in Range(c.programs) :
           \/ p.number = 0 /\ \A s \in Range(c.streams) : ~s.foreign
           \/ p.number # 0 /\ p.tracks = << >>
           \/ \E s \in Range(p.tracks) :
                  s \notin DOMAIN c.streams \/ (~c.streams[s].foreign /\ Types(c.streams[s]) = {})
    \/ ~IsInjective(Placed(c))

Pid(c, s) == FirstEsPid - 1 + (CHOOSE i \in DOMAIN Placed(c) : Placed(c)[i] = s)
PcrPidOf(c, p) ==
    LET video == SelectSeq(p.tracks, LAMBDA s : IsVideo(c.streams[s]))
    IN  IF p.pcr # NoPid THEN p.pcr
        ELSE Pid(c, IF video # << >> THEN Head(video) ELSE Head(p.tracks))

(* build_es_descriptors.                                                   *)
Descriptor(tag, value) == [tag |-> tag, value |-> value]
Iso639Code(tag) == [i \in 1..3 |-> IF i <= Len(tag) THEN tag[i] ELSE " "]
BuildEsDescriptors(s, component) ==
    <<Descriptor(82, component)>>
        \o (IF IsVideo(s) \/ s.language = {} THEN << >>
            ELSE <<Descriptor(10, <<Iso639Code(CHOOSE l \in s.language : TRUE)>>)>>)
        \o s.extra

(* The tables, in the order of write_header.                               *)
Section(table, key, pid, parts, body) ==
    [key |-> <<table, key>>, pid |-> pid, parts |-> parts, body |-> body]
PartsOf(entries) == IF Len(entries) > TableRoom THEN 2 ELSE 1
WritePat(c) ==
    Section("pat", 0, PatPid, PartsOf(c.programs),
            [table    |-> "pat",
             programs |-> [p \in DOMAIN c.programs |->
                               <<c.programs[p].number, c.programs[p].pmt>>]])
WritePmt(c, n) ==
    LET p == c.programs[n]
        entries == [i \in DOMAIN p.tracks |->
                        LET s == p.tracks[i]
                        IN  [type |-> Announced(c.streams[s]), pid |-> Pid(c, s),
                             info |-> IF c.streams[s].foreign THEN c.streams[s].extra
                                      ELSE BuildEsDescriptors(c.streams[s], i)]]
    IN  Section("pmt", n, p.pmt, PartsOf(p.tracks),
                [table |-> "pmt", program |-> p.number, pcr |-> PcrPidOf(c, p),
                 streams |-> entries])
Other(table, pid) == Section(table, 0, pid, 1, [table |-> table])

WriteTimeTablesApart(c) ==           \* mutant: the TOT begins a count of its own
    IF ~c.time THEN << >>
    ELSE <<Other("tdt", 20)>> \o (IF c.offsets THEN <<Other("tot", 20)>> ELSE << >>)
WriteTimeTables(c) ==
    IF ~c.time THEN << >>
    ELSE <<Other("tdt", 20)>> \o (IF c.offsets THEN <<Other("tdt", 20)>> ELSE << >>)

When(b, sections) == IF b THEN sections ELSE << >>
WriteHeader(c) ==
    LET programs == [p \in DOMAIN c.programs |-> p]
        Mapped(p)  == c.programs[p].number # 0
        Eventful(p) == c.programs[p].events
        pmts == SelectSeq(programs, Mapped)
        eits == SelectSeq(programs, Eventful)
    IN  <<WritePat(c)>> \o When(c.ca, <<Other("cat", 1)>>)
            \o [i \in DOMAIN pmts |-> WritePmt(c, pmts[i])]
            \o When(\E p \in Range(c.programs) : p.service, <<Other("sdt", 17)>>)
            \o When(c.network, <<Other("nit", 16)>>)
            \o [i \in DOMAIN eits |-> Other("eit", 18)]
            \o WriteTimeTables(c)

(* write_psi_packet and write_pes_bytes_as_ts: the packets of a section or *)
(* a PES packet, each with the next value of the counter it is kept under. *)
Packets(s, cc) ==
    [i \in 1..s.parts |-> [pid |-> s.pid, cc |-> (cc + i - 1) % CounterValues, start |-> i = 1,
                           parts |-> s.parts, body |-> s.body]]
WriteAll(sections) ==
    LET Write(w, s) == [wire     |-> w.wire \o Packets(s, w.counters[s.key]),
                        counters |-> [w.counters EXCEPT ![s.key] = (@ + s.parts) % CounterValues]]
        done == FoldLeft(Write, [wire |-> wire, counters |-> counters], sections)
    IN  wire' = done.wire /\ counters' = done.counters

MuxInit ==
    /\ config \in Configs
    /\ stage = IF Refused(config) THEN "refused" ELSE "mux"
    /\ counters = [k \in {"pat", "cat", "sdt", "nit", "eit", "tdt", "tot"} \X {0}
                         \cup {"pmt", "es"} \X DOMAIN (config.programs \o config.streams) |-> 0]
    /\ written = 0 /\ wire = << >>

Turn == written % (Len(Placed(config)) + 1)
Write == stage = "mux" /\ Rounds * (Len(Placed(config)) + 1) > written

WriteTables ==
    /\ Write /\ Turn = 0
    /\ WriteAll(WriteHeader(config))
    /\ written' = written + 1

WriteFrame ==
    /\ Write /\ Turn # 0
    /\ LET s     == Placed(config)[Turn]
           round == written \div (Len(Placed(config)) + 1) + 1
       IN  WriteAll(<<[key |-> <<"es", s>>, pid |-> Pid(config, s), parts |-> 1,
                       body |-> [table |-> "none", shows |-> config.streams[s].frames[round]]]>>)
    /\ written' = written + 1

------------------------------------------------------------------------------
(* The receiver begins at any packet of the first round.                   *)
NoSection == [have |-> 0, last |-> NoCount]

TuneIn ==
    /\ stage = "mux" /\ ~Write
    /\ from' \in 1..(Len(wire) \div Rounds)
    /\ want' \in {First, 99} \cup {p.number : p \in Range(config.programs)}
    /\ upcoming' = from'
    /\ stage' = "pat"
    /\ UNCHANGED <<config, counters, written, wire, dropped, partial, listed, pcrPid, opened,
                   resume, need, units, seen>>

Lose ==
    /\ stage \in {"pat", "pmt", "probe"} /\ upcoming <= Len(wire)
    /\ Cardinality(dropped) < Drops
    /\ dropped' = dropped \cup {upcoming}
    /\ upcoming' = upcoming + 1
    /\ UNCHANGED <<config, counters, written, wire, stage, want, from, partial, listed, pcrPid,
                   opened, resume, need, units, seen>>

(* PsiSectionAssembler::feed.                                              *)
Fed(flight, p) ==
    LET kept == IF p.cc = (flight.last + 1) % CounterValues THEN flight.have ELSE 0
    IN  [have |-> IF p.start THEN 1 ELSE IF kept > 0 THEN kept + 1 ELSE 0, last |-> p.cc]
Whole(flight, p) == Fed(flight, p).have = p.parts
After(flight, p) ==
    IF Whole(flight, p) THEN [Fed(flight, p) EXCEPT !.have = 0] ELSE Fed(flight, p)

Reading(in) == stage = in /\ upcoming <= Len(wire) /\ upcoming' = upcoming + 1
P           == wire[upcoming]

(* Step 1: the programs of the first PAT that names one, each once.        *)
Programs(pat) ==
    FoldLeft(LAMBDA ps, e : IF e[1] = 0 \/ \E p \in Range(ps) : p[1] = e[1] THEN ps
                            ELSE Append(ps, e),
             << >>, pat.programs)
SelectedFirst(ps) == {Head(ps)}              \* mutant: whatever is asked for
Selected(ps)      == IF want = First THEN {Head(ps)} ELSE {p \in Range(ps) : p[1] = want}

ScanPat ==
    /\ Reading("pat")
    /\ IF P.pid # PatPid THEN UNCHANGED <<stage, partial, listed>>
       ELSE IF ~Whole(partial, P) \/ Programs(P.body) = << >>
       THEN partial' = After(partial, P) /\ UNCHANGED <<stage, listed>>
       ELSE /\ listed' = Programs(P.body)
            /\ stage' = IF Selected(listed') = {} THEN "unknown" ELSE "pmt"
            /\ partial' = NoSection
    /\ UNCHANGED <<config, counters, written, wire, want, from, dropped, pcrPid, opened, resume,
                   need, units, seen>>

------------------------------------------------------------------------------
(* Step 3: the streams of a program map.                                   *)
Private(e) ==
    LET Codec(d) == CASE d.tag = 106 -> {"ac3"} [] d.tag = 122 -> {"eac3"}
                      [] d.tag = 5 /\ d.value = "AC-3" -> {"ac3"} [] OTHER -> {}
        named == SelectSeq(e.info, LAMBDA d : Codec(d) # {})
    IN  IF e.type = 6 /\ named # << >> THEN Codec(Head(named)) ELSE {}
CodecOf(e) ==
    LET byType == T!CodecParamsForStreamType(e.type)
    IN  IF byType # {} THEN byType ELSE Private(e)

(* The first entry of a language descriptor, without its padding; a        *)
(* descriptor whose first entry is blank is passed over.                   *)
Trimmed(code) == SubSeq(code, 1, Max({0} \cup {i \in DOMAIN code : code[i] # " "}))
Language(d)   == IF d.tag = 10 /\ d.value # << >> THEN Trimmed(Head(d.value)) ELSE << >>
FirstIso639Language(e) ==
    LET spoken == SelectSeq(e.info, LAMBDA d : Language(d) # << >>)
    IN  IF spoken = << >> THEN {} ELSE {Language(Head(spoken))}

(* apply_descriptor_params: a single frame rate, an exact sample rate.     *)
FirstOf(rates) ==
    LET coded == SelectSeq(rates, LAMBDA r : r # {})
    IN  IF coded = << >> THEN {} ELSE Head(coded)
FrameRate(d)  == IF d.tag = 2 THEN Range(d.value) \cap (1..8) ELSE {}
SampleRate(d) == IF d.tag = 129 THEN Range(d.value) \cap (0..2) ELSE {}

Params(e) ==
    LET codec == CHOOSE c \in CodecOf(e) : TRUE
    IN  [codec      |-> codec,
         language   |-> FirstIso639Language(e),
         frameRate  |-> FirstOf([i \in DOMAIN e.info |-> FrameRate(e.info[i])]),
         sampleRate |-> IF codec \in {"ac3", "eac3"}
                        THEN FirstOf([i \in DOMAIN e.info |-> SampleRate(e.info[i])]) ELSE {}]
Streams(map) ==
    LET known == SelectSeq(map.streams, LAMBDA e : CodecOf(e) # {})
    IN  [i \in DOMAIN known |-> [pid |-> known[i].pid, params |-> Params(known[i])]]

(* The audio whose frames are cut, and the video whose headers are read.   *)
Framed(o) == o.params.codec \in {"mp1", "mp2", "mp3", "ac3", "eac3", "aac"}
Probed(o) == Framed(o) \/ o.params.codec \in {"h264", "mpeg1video", "mpeg2video"}

(* Step 2: the first map on the PID of the program.                        *)
PmtPid == (CHOOSE p \in Selected(listed) : TRUE)[2]

ScanPmt ==
    /\ Reading("pmt")
    /\ IF P.pid # PmtPid
       THEN UNCHANGED <<stage, partial, pcrPid, opened, resume, need, units, seen>>
       ELSE IF ~Whole(partial, P) \/ P.body.table # "pmt"
       THEN partial' = After(partial, P) /\ UNCHANGED <<stage, pcrPid, opened, resume, need, units, seen>>
       ELSE /\ opened' = Streams(P.body)
            /\ stage' = IF opened' = << >> THEN "nothing" ELSE "probe"
            /\ pcrPid' = P.body.pcr
            /\ resume' = upcoming'
            /\ need' = {o.pid : o \in {q \in Range(opened') : Probed(q)}}
            /\ units' = [pid \in need' |-> {}]
            /\ seen' = [pid \in need' |-> 0]
            /\ partial' = NoSection
    /\ UNCHANGED <<config, counters, written, wire, want, from, dropped, listed>>

------------------------------------------------------------------------------
(* probe_stream_params.  A unit is whole when the next one starts.         *)
Empty(field, value) == IF field = {} THEN value ELSE field
ApplyAudio(params, header) ==
    [params EXCEPT !.codec = T!Refined(@, header.codec),
                   !.sampleRate = Empty(@, header.rate)]
ApplyVideo(params, header) == [params EXCEPT !.frameRate = Empty(@, header.rate)]

IndexOf(pid) == CHOOSE i \in DOMAIN opened : opened[i].pid = pid
Probing      == need # {} /\ upcoming - resume < ProbeLimit /\ upcoming <= Len(wire)

(* What the units of a stream show is taken once, from the first that does;*)
(* of video so much is read and no more.                                   *)
Learn(pid, shown) ==
    LET o == opened[IndexOf(pid)]
        found == shown # Nothing
        over  == ~Framed(o) /\ seen[pid] + 1 > VideoLimit
    IN  /\ seen' = [seen EXCEPT ![pid] = @ + 1]
        /\ opened' = IF ~found THEN opened
                     ELSE [opened EXCEPT ![IndexOf(pid)].params =
                               IF Framed(o) THEN ApplyAudio(@, Head(shown))
                               ELSE ApplyVideo(@, Head(shown))]
        /\ need' = IF found \/ over THEN need \ {pid} ELSE need

Probe ==
    /\ Probing /\ Reading("probe")
    /\ IF P.pid \notin need THEN UNCHANGED <<opened, need, units, seen>>
       ELSE /\ units' = [units EXCEPT ![P.pid] = {P.body.shows}]
            /\ IF units[P.pid] = {} THEN UNCHANGED <<opened, need, seen>>
               ELSE Learn(P.pid, CHOOSE u \in units[P.pid] : TRUE)
    /\ UNCHANGED <<config, counters, written, wire, stage, want, from, dropped, partial, listed,
                   pcrPid, resume>>

(* The cursor goes back to the packet behind the map.                      *)
Opened ==
    /\ stage = "probe" /\ ~Probing
    /\ stage' = "open"
    /\ upcoming' = resume
    /\ UNCHANGED <<config, counters, written, wire, want, from, dropped, partial, listed, pcrPid,
                   opened, resume, need, units, seen>>

Ends ==
    /\ stage \in {"pat", "pmt"} /\ upcoming > Len(wire)
    /\ stage' = "ended"
    /\ UNCHANGED <<config, counters, written, wire, want, from, upcoming, dropped, partial,
                   listed, pcrPid, opened, resume, need, units, seen>>

------------------------------------------------------------------------------
(* validate_ts, its first pass over the packets that came: every PAT and,  *)
(* on the PIDs they name, every program map is collected, for the PIDs     *)
(* with a PCR and those of audio.                                          *)
NullPid == 8191
Came    == SelectSeq([i \in DOMAIN wire |-> i], LAMBDA i : i >= from /\ i \notin dropped)

NoSurvey ==
    [flights |-> [pid \in {p.pid : p \in Range(wire)} |-> NoSection], at |-> 0,
     programs |-> {}, maps |-> {}, clocks |-> {}, audio |-> {}, bad |-> 0,
     patAt |-> NoCount, gap |-> 0]

SurveyPatFirst(s, p) ==              \* mutant: only the first program's map is followed
    IF p.body.table # "pat" THEN [s EXCEPT !.bad = @ + 1]
    ELSE LET named == {Head(Programs(p.body))}
         IN  [s EXCEPT !.programs = @ \cup named, !.maps = @ \cup {e[2] : e \in named}]
SurveyPat(s, p) ==
    IF p.body.table # "pat" THEN [s EXCEPT !.bad = @ + 1]
    ELSE LET named == {e \in Range(p.body.programs) : e[1] # 0}
         IN  [s EXCEPT !.programs = @ \cup {e \in Range(Programs(p.body)) :
                                                   \A f \in s.programs : f[1] # e[1]},
                       !.maps = @ \cup {e[2] : e \in named}]
SurveyPmt(s, p) ==
    IF p.body.table # "pmt" THEN [s EXCEPT !.bad = @ + 1]
    ELSE [s EXCEPT !.clocks = @ \cup ({p.body.pcr} \ {NullPid}),
                   !.audio = @ \cup {e.pid : e \in {f \in Range(p.body.streams) :
                                                        T!IsAudio(T!FromRaw[f.type])}}]

SurveyPacket(s, p) ==
    LET isPat == p.pid = PatPid
        fed   == [s EXCEPT !.at = @ + 1,
                           !.flights[p.pid] = IF isPat \/ p.pid \in s.maps THEN After(@, p) ELSE @,
                           !.gap = IF isPat /\ p.start /\ s.patAt # NoCount
                                   THEN Max({@, s.at - s.patAt}) ELSE @,
                           !.patAt = IF isPat /\ p.start THEN s.at ELSE @]
    IN  IF ~(isPat \/ p.pid \in s.maps) \/ ~Whole(s.flights[p.pid], p) THEN fed
        ELSE IF isPat THEN SurveyPat(fed, p) ELSE SurveyPmt(fed, p)

Survey == FoldLeft(LAMBDA s, i : SurveyPacket(s, wire[i]), NoSurvey, Came)

------------------------------------------------------------------------------
DiscoveryInit ==
    /\ MuxInit
    /\ want = First /\ from = 1 /\ upcoming = 1 /\ dropped = {}
    /\ partial = NoSection /\ listed = << >> /\ pcrPid = NoPid /\ opened = << >> /\ resume = 1
    /\ need = {} /\ units = << >> /\ seen = << >>

Muxing ==
    /\ WriteTables \/ WriteFrame
    /\ UNCHANGED <<config, stage, want, from, upcoming, dropped, partial, listed, pcrPid, opened,
                   resume, need, units, seen>>
Opening == ScanPat \/ ScanPmt \/ Probe \/ Opened \/ Ends

DiscoveryNext == Muxing \/ TuneIn \/ Lose \/ Opening

------------------------------------------------------------------------------
(* The packets of a PID count on, whatever tables share it and however     *)
(* often they are written.                                                 *)
CountersRun ==
    stage = "mux" =>
        \A i, j \in DOMAIN wire :
            i < j /\ wire[i].pid = wire[j].pid
                  /\ (\A k \in (i + 1)..(j - 1) : wire[k].pid # wire[j].pid)
            => wire[j].cc = (wire[i].cc + 1) % CounterValues

(* What the demuxer is to make of the program asked for: the tracks it was *)
(* configured with that are in a codec the demuxer knows, each as its      *)
(* parameters went in.                                                     *)
True    == SelectSeq(config.programs, LAMBDA p : p.number # 0)
Meant   == {p \in Range(True) : IF want = First THEN p = Head(True) ELSE p.number = want}
Tracks  == SelectSeq((CHOOSE p \in Meant : TRUE).tracks,
                     LAMBDA s : config.streams[s].params.codec # "unknown")

Arrived(i)    == i \in from..(upcoming - 1) \ dropped
SectionAt(i, table) ==                       \* a whole table that arrived at i
    /\ wire[i].start /\ wire[i].body.table = table
    /\ \A k \in i..(i + wire[i].parts - 1) : Arrived(k)

(* The frames of a track the look-ahead could see: all that arrived behind *)
(* the map and that another one followed.                                  *)
Looked(pid) ==
    {i \in resume..(upcoming - 1) :
        /\ Arrived(i) /\ wire[i].pid = pid
        /\ \E j \in (i + 1)..(upcoming - 1) : Arrived(j) /\ wire[j].pid = pid}
Shown(s, pid) ==
    LET Near(i) == IsVideo(s) => Cardinality({j \in Looked(pid) : j < i}) <= VideoLimit
        showing == {i \in Looked(pid) : Near(i) /\ wire[i].body.shows # Nothing}
    IN  IF showing = {} THEN {} ELSE {Head(wire[Min(showing)].body.shows)}

(* The streams opened are those tracks, in order, and what is said of each *)
(* was declared for it or read from its own first header.                  *)
TracksOpened ==
    /\ Len(opened) = Len(Tracks)
    /\ \A i \in DOMAIN Tracks :
           LET s == config.streams[Tracks[i]]
               o == opened[i]
               shown == IF Probed(o) THEN Shown(s, o.pid) ELSE {}
           IN  /\ o.pid = Pid(config, Tracks[i])
               /\ shown = {} => o.params = s.params
               /\ \A h \in shown : o.params = IF IsVideo(s) THEN ApplyVideo(s.params, h)
                                              ELSE ApplyAudio(s.params, h)

(* Whoever tunes in finds the program asked for, wherever in a round and   *)
(* whichever packets are lost; open() fails only for a program that is not *)
(* there, one without known streams, or when no PAT with its map behind it *)
(* came through whole.                                                     *)
ProgramFound ==
    /\ stage = "unknown" => Meant = {}
    /\ stage = "nothing" => Tracks = << >>
    /\ stage \in {"pmt", "probe", "open"} =>
           /\ Meant # {}
           /\ listed = [p \in DOMAIN True |-> <<True[p].number, True[p].pmt>>]
    /\ stage = "probe" => TracksOpened
    /\ stage = "open" => Len(opened) = Len(Tracks)
    /\ stage = "ended" /\ Meant # {} =>
           \A i, j \in from..Len(wire) :
               SectionAt(i, "pat") /\ i < j /\ SectionAt(j, "pmt")
                   => wire[j].body.program # (CHOOSE p \in Meant : TRUE).number

(* Of the stream the receiver saw, lost packets and all, the validator     *)
(* knows the programs of the PAT, and the PCR PIDs and audio PIDs of just  *)
(* those programs whose map came whole behind it; audio that is declared   *)
(* as private data it does not know.  No section is charged, and of a      *)
(* stream without losses the gap between two PATs is a round.              *)
WholeAt(i, table) ==
    /\ wire[i].start /\ wire[i].body.table = table
    /\ \A k \in i..(i + wire[i].parts - 1) : k >= from /\ k \notin dropped
MapCame(p) ==
    \E i, j \in from..Len(wire) :
        /\ i < j /\ WholeAt(i, "pat") /\ WholeAt(j, "pmt")
        /\ wire[j].body.program = p.number
IsAudioTrack(t) ==
    LET track == config.streams[t]
    IN  /\ track.params.codec # "unknown" /\ T!KindOf(track.params.codec) = "audio"
        /\ track.foreign => track.type # 6

SurveyIsTrue ==
    stage \in {"open", "ended", "unknown", "nothing"} =>
        LET s == Survey
            mapped == {p \in Range(True) : MapCame(p)}
        IN  /\ s.programs \in {{}, {<<p.number, p.pmt>> : p \in Range(True)}}
            /\ mapped # {} => s.programs # {}
            /\ s.clocks = {PcrPidOf(config, p) : p \in mapped} \ {NullPid}
            /\ s.audio = {Pid(config, t) : t \in {u \in UNION {Range(p.tracks) : p \in mapped} :
                                                     IsAudioTrack(u)}}
            /\ s.bad = 0
            /\ dropped = {} => s.gap = Len(wire) \div Rounds
==============================================================================
