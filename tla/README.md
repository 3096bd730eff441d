# A TLA+ model of oxideav-mpegts

oxideav-mpegts multiplexes and demultiplexes MPEG transport streams (ISO/IEC
13818-1). It is sequential Rust: there are no threads, no locks and nothing is
persisted. What makes it hard is state that outlives a call: counters and
clocks that wrap (4, 33 and 42 bits), units cut over packet boundaries, packets
that are lost, repeated or damaged on the way, seeks that drop the history
all of this rests on, and a hundred wire formats whose lengths come from the
input. The order in which packets, errors, seeks and the end of the input
arrive is what the models explore.

## 1. Inventory

| Part | State | Operations | Talks to |
|---|---|---|---|
| `packet.rs` TS packet, adaptation field, framing (188/192/204) | none | parse, encode, `detect_packet_layout` | everyone |
| `psi.rs` `PsiSectionAssembler` | bytes in flight, target length, last counter | `feed`, `reset` | fed by `open()`, the validator |
| `psi.rs`, `build.rs`, `descriptor.rs`, `atsc*.rs` tables and descriptors | none | parse, build | demuxer (PAT, PMT), muxer |
| `pes.rs` `PesReassembler` | bytes of the PES in flight, started, two random-access flags | `feed`, `flush` | one per PID in the demuxer |
| `pes.rs` PES header | none | `parse`, `encode` | reassembler, muxer |
| `clock.rs` `ContinuityTracker` | last payload counter, duplicate flag | `observe`, `reset` | validator, callers |
| `clock.rs` `PtsTracker`, `extend_near` | wrap count, last raw value, hint | `observe`, `seed`, `reset` | two per PID in the demuxer |
| `clock.rs` `PcrTracker` | last PCR and offset, jitter | `observe`, `reset` | demuxer, callers |
| `demuxer.rs` opening | programs seen, streams, what is missing of their parameters | `open*`, `with_selector` | reader, assembler, `es_params.rs` |
| `demuxer.rs` reader | input position, putback, bytes read | `read_one_packet`, `resync` | everything above |
| `demuxer.rs` duration and seek | first and last PCR | `compute_duration_micros`, `locate_pcr_at_or_before`, `seek_by_pcr` | reader's file |
| `demuxer.rs` access points | cached index | `scan_random_access_points`, `scan_access_points_window`, `seek_*` | PCR seek, `reposition` |
| `demuxer.rs` streaming | pending queue, end of input | `next_packet`, `flush_reassemblers`, `reposition` | all of the above |
| `audio_frame.rs` `AudioFrameSplitter` | residual bytes, anchors, lock | `push`, `flush`, `reset` | both demuxers, after the reassembler |
| `es_params.rs` | none | parameter sets, sequence headers | opening |
| `muxer.rs` | counters, PCR/PSI times, splice and discontinuity flags, CBR byte clock and held frames | `write_*`, `signal_*`, `set_*` | output |
| `validate.rs` | per-PID counters, clocks, splice runs | `validate_ts` | trackers, assembler |
| `tstd.rs` | arrival clock, buffer accounts | `analyze_tstd` | PES scanner |
| `ps.rs` program stream | buffer, access-unit splitter | `next_packet` | `pes.rs`, audio splitter |

Data flow: muxer -> channel or file -> reader -> (PSI assembler at open) ->
PES reassembler per PID -> (audio splitter) -> timestamps -> caller. A seek
goes from the PCR bisection or the access-point index to `reposition`, which
resets or seeds every per-PID state on that path. The program stream goes
file -> unit walk -> video or audio splitter -> caller. The validator and the
T-STD analyzer read the bytes of a finished stream.

What makes each part correct, and what is hard about it:

- Continuity: a repeat, a loss and a packet without payload must be told
  apart by 4 bits. Hard: what was lost cannot be seen.
- Timeline: four unwrapping methods must give one axis. Hard: which of them saw
  which wrap depends on seeks and on when a field is first coded.
- PSI assembly and PES reassembly: a fault must stay local. Hard: the unit
  that is in flight when a packet goes missing is not the only one at risk.
- Opening: the program asked for, with the streams and the parameters the muxer
  was given. Hard: a receiver tunes in anywhere, tables are lost and straddle
  packets, and what the tables do not say comes from frames read ahead.
- Reader: all sound packets, in order, on the grid. Hard: bytes read ahead.
- Seek: the bisection must end, never overshoot, and find the last PCR; PCRs
  are sparse and wrap.
- Access points: a window scan and an index must choose the same landing.
- Splitters: every unit whole, once, with the stamp written for it. Hard: start
  codes and headers straddle payloads, payloads are lost, and bytes inside a
  frame look like a header.
- Muxer: PCR cadence, splice countdown and discontinuity flags share packets.
  With a mux rate: held frames of several tracks, PCRs and tables compete for
  one byte clock, and no transport buffer may overflow.
- Validator and T-STD: each fault charged once, to what caused it, and nothing
  else charged. Hard: the verdicts depend on what is still in flight.
- Formats: no length read from the input leads past the bytes there are, and
  what is built reads back.

The hazards, at their lines, are in `PROJECT.json`.

## 2. Modules

A component is a module with its own `Init`, `Next` and properties. Those that
are checked together are put together by a composite, whose variable `machine`
is drawn once and selects which of them runs: the crate's parts share data, not
time, so they are run apart, and where one hands results to
another, the model of the other states which results it takes. The
names in parentheses are the composites, each with its `.cfg` (and an `MC` module
where constants are not plain numbers).

| Module | Models |
|---|---|
| **(Receiving)** `Receiving`, `MCReceiving` | what takes in a stream |
| `ContinuityCounter` | muxer counter, channel, `ContinuityTracker` |
| `Validator` | `validate_ts`, its walk over one PCR PID; extends `ContinuityCounter` |
| `DecoderBuffers` | `analyze_tstd`: transport, system, main, multiplexing and elementary buffers, the rules of one second |
| `ArrivalClock` | `analyze_tstd`: arrival times and decode times out of PCRs |
| `PcrRecovery` | `PcrTracker` |
| `Discovery` | `Muxer::with_config`, the tables on the wire, `with_selector`, the first pass of `validate_ts` |
| `PesReassembler` | `PesReassembler` per PID, read/flush/reposition, channel |
| **(Demuxing)** `Demuxing` | the machines of the demuxer |
| `PacketReader` | `read_one_packet`, `resync`, hand-over of `open()` |
| `PsiAssembler` | `PsiSectionAssembler`, channel, any 2.4.4 sender |
| `Timeline` | `PtsTracker`, `finish_pes`, `reposition`, PCR axis, index times |
| `PcrSeek` | duration probe, `locate_pcr_at_or_before` |
| `AccessPoints` | access-point index, window scan, `seek_to_access_point`, `seek_to_random_access`, `seek_to` |
| **(Muxing)** `Muxing`, `MCMuxing` | the muxer with and without a mux rate |
| `Muxer` | `write_packet` without a mux rate, `signal_*` |
| `Pacer` | `CbrPacer`: byte clock, held frames, several programs, trailer |
| **(Reframing)** `Reframing`, `MCReframing` | program stream and splitters |
| `ProgramStream` | `MpegPsDemuxer`: discovery, unit walk, delivery, flush |
| `VideoUnits` | `VideoAuSplitter` |
| `AudioFrames` | `AudioFrameSplitter` |
| **(Formats)** `Formats`, `MCFormats` | layouts and conversions |
| `Layouts` | the language of layouts (read, need, loop, sub-slice), and every parser of `descriptor.rs`, `psi.rs`, `atsc.rs`, `packet.rs` and `pes.rs` as one |
| `Builders` | `build.rs`, the encoders of `packet.rs` and `pes.rs` |
| `Syntax` | the interpreter of layouts, over any bytes and over what is built |
| `Calendar` | MJD and BCD, the muxer's TDT and TOT clock |
| `WireBits` | fields that cross byte boundaries |
| `AtscText`, `HuffmanTables` | the multiple-string text of ATSC and its two code tables |
| `PacketLayouts` | `detect_packet_layout`, `probe`: packets of 188, 192 and 204 bytes |
| `StreamTypes` | stream types, classes, codecs, round trip through the muxer |
| `VideoParameters`, `AudioHeaders` | parameter sets and sequence headers, audio frame headers |
| `Delivery` | abstract: what is owed is delivered once, in order, all of it |
| `Timeline_proofs`, `PacketReader_proofs`, `PsiAssembler_proofs`, `AccessPoints_proofs` | theorems about the module of that name |
| `Muxing_proofs` | the theorems about `Muxer` and `Pacer`, stated of `Muxing` |
| `Receiving_proofs` | the theorems about `ContinuityCounter` and `Validator`, and those about `ArrivalClock`, `PcrRecovery` and `PesReassembler`, stated of `Receiving` |
| `Reframing_proofs` | the theorems about `ProgramStream` and `VideoUnits`, stated of `Reframing` |
| `Demuxing_proofs` | the theorems about `PcrSeek`, and those about the demuxer's machines, stated of `Demuxing` |

How state and actions correspond to the code:

**ContinuityCounter.** `cc` and `pendingDiscontinuity` are the muxer's
`track.cc` and `pending_discontinuity`; `lastPayloadCC` and
`duplicateAlreadySeen` the tracker's fields. A step is one TS packet written
and delivered, lost or repeated. The history variables `missing`, `held`,
`copies` and `truth` say what happened; `event` is what `observe` returned.

**Validator.** Its sender is that of `ContinuityCounter` with countdowns,
seamless splices and PCRs as the muxer writes them. One step is one packet
through the second pass; the counters of `PidReport` it changes are compared
with the history of the channel.

**DecoderBuffers, ArrivalClock.** The first takes packets at an even pace and
runs the two chains of the analyzer (audio: transport buffer to main buffer;
video: transport buffer, leak, elementary buffer; the tables: transport buffer
to `Bsys`) over integers chosen so that both rates are whole. A packet with an
adaptation field alone goes whole through the transport buffer. The history knows of
every byte which unit it is of, when it arrived and when it left the transport buffer,
and `BuffersAreTrue` compares the charges with it: a transport buffer that
overflows or is busy for more than a second, a main buffer that misses bytes or holds
too many, `Bsys` to a byte, a unit that stays too long, in both
directions; of the video chain, a unit charged only if it left the transport buffer late, and
always if the next one begins in time. The second rebuilds the byte clock from PCRs
over wraps and signalled new time bases.

**Discovery.** One configuration out of nine is muxed and read. The stages `pat`,
`pmt`, `probe` follow `with_selector`: the programs, the map of the one asked
for, the frames read ahead until every parameter is known or a limit is met.
`Survey` is the first pass of `validate_ts`, a fold over the packets that came:
`SurveyIsTrue` says that it knows the clocks and the audio of just the programs
whose map came whole behind a PAT, and charges no section of the muxer's.

**Timeline.** A stream is a list of access units with true times; the program
sees them modulo `M`. `FinishPes` is the timestamp half of `finish_pes`;
`SeekByPcr` and `SeekToAccessPoint` are the two kinds of landing and both end
in `Reposition`. `IndexPts` is the scan of `scan_random_access_points`.

**PsiAssembler.** A cell carries the byte and, for the properties only, its
section and place. `FeedStart`, `StartSections`, `FeedContinuation`,
`ExtendInFlight` and `AfterCount` are the branches of `feed` in its order.
The sender may cut sections wherever 2.4.4 allows.

**PesReassembler.** `buf`, `started`, `currentRai` and `pendingRai` are the
fields of the reassembler of each PID. A TS packet goes through `ReadPackets`
zero, one or two times (lost, delivered, repeated); `EndOfInput` is the flush,
`Reposition` the seek. `expected` is what a receiver that sees everything would
emit.

**PacketReader.** The file is a row of bytes of which only "is it 0x47" counts,
and any byte may be one by coincidence, that in the sync place of a corrupted packet
included. A candidate that the probe does not confirm takes the reader off the packet grid
(demuxer.rs:1684); in a `Clear` file there is none: no corrupted packet has a 0x47 in that
place, and no sound packet stands alone between two corrupted ones.
One turn of the loop of `resync` is one step, so the limit and the read-ahead
are explicit. `FinishOpen` is `with_selector` putting the input back at
`bytes_read`.

**PcrSeek, AccessPoints.** Offsets in packets, time in 90 kHz ticks. The loop of
`locate_pcr_at_or_before` is one step a turn, split by its three outcomes; the
back-off of `seek_to_access_point` is one round a step, over two elementary
streams of which one or any may be asked for; `LandOnPcr` is what `seek_to` falls
back to where there are no access points; `astray` is where the scan of a window
leaves the input until `reposition`. The bisection inside a round is `Located`,
which allows exactly the landings `LandingCorrect` of `Demuxing_proofs` allows.

**Muxer.** `lastPcr`, `pendingDiscontinuity`, `lastPsi`, `pendingSplice` and
`postSplice` are the fields of the same names; `phase`, `job` and `inline` are what
`write_pes_packet` holds on its stack while it emits packets, one step each.
Sizes are in parts of a packet, so that capacities differ between a packet with
a PCR, with flags, with a countdown and with none, and the count
`packets_needed` predicts can be wrong. `pcrs`, `countdown`, `after` and `psiAt`
record what went out. A frame on a track of `Unbounded` (a stream_id of video) is one
PES, on any other as many as its length takes.

**Pacer.** The byte clock, the frames held per track, the earliest-deadline
choice among them, the smoothing bound of every transport buffer, PCRs and
tables that are due, null packets and the drain of `write_trailer`; one packet
on the wire is one step. `announced` is history: the number of the last new time base each
program announced, against which the mark of every PCR is held.

**ProgramStream, VideoUnits, AudioFrames.** Buffers hold positions of the file or
of the elementary stream, so compaction shows as a changed `base` only.
`next_unit` and `fill`, the start-code scan and the loop of `push` are one step a
turn. What a frame header means is `AudioHeaders`' matter: here a header reads
as one where a frame begins and at the given lookalikes, one of which gives a frame shorter
than its own header (audio_frame.rs:601-605). A video unit is a row of start codes
with what they mean, and holds one picture (`ShapeAssumption`): pairs of fields and the
prefix units of scalable streams, where what ends a unit depends on more than the start
code, are left out.

**Formats.** A parser is a sequence of items ("at least n bytes, else give
up", "read n", "a slice as long as the length just read", "while n are left");
`Syntax` runs it against a slice in which every flag, count and length may have
any value, and against what `Builders` says the encoder writes. The conversions
of values, which layouts leave out, are machines of their own. `PacketLayouts`
tries the layouts of a file in the code's order, over a file of which only "is it
0x47" counts.

**Delivery.** An abstract specification: items owed are handed on in order, once,
and in the end all of them. `Demuxing` instantiates it over the reader's log
(`ReaderDelivers`), of clear files, where corrupted packets are not owed, and `Reframing` over
the video splitter's units (`UnitsDelivered`). Both check initial states, steps
and fairness of `Delivery`'s specification.

## 3. Runs

| Run | Shows |
|---|---|
| `receiving` | `ExactClassification`, `SoundIsClean`, `ChargedOnce`, `RateIsTrue` (validator); `BuffersAreTrue`, `ArrivalIsTrue`, `DecodeIsTrue` (T-STD and PCR recovery); `ProgramsReach` (opening, the validator's first pass); `FaultsAreLocal` (PES) |
| `demuxing` | `ReaderDelivers`, `LongCorruptionIsReported` (reader); `SectionsSurvive` (sections); `PtsExact`, `AxesAgree` (timeline); `DurationIsExact`, `LandingIsExact`, `SeekReturns` (seek) |
| `access_points` | `SameAsIndex`, `DeliversTheLanding`, `SeekReturns` |
| `muxing` | `PcrCadence`, `FirstOfBaseMarked`, `TablesRepeated`, `CountdownKept` without a mux rate; `TransportBuffers`, `PacedCadence`, `FramesOnTime`, `ClockLinear`, `CallsReturn` with one |
| `reframing` | `PacketsInOrder`, `StreamsFound` (unit walk); `FramesWhole`, `StampsBelong` (splitters); `UnitsDelivered`, `Ends` |
| `formats` | `NoOverrun`, `ReadsBack`, `Terminates` (layouts); `DatesAgree`, `ComesBack` (conversions, framing) |
| `pes_malformed` | a PES header that does not parse: `FaultsAreLocal` is violated |
| `shared_pmt` | two programs whose maps share a PID: `ProgramFound` is violated |
| `shared_clock` | a program announces a new time base and another one's clock shifts: `RateReconstructs` is violated |
| `tstd_late` | a video unit whose last byte is late: `LateIsCharged` is violated |
| `muxer_reorder` | a frame shown 2 units before the one written before: `PcrCadence` is violated |
| `ps_stuffing` | stuffing cut by the end of the file: `PosWithinBuffer` is violated |

Each invariant of a composite names one that its module states, and says
nothing while another machine runs.

Bounds and why they are enough:

- *Validator*: counter modulo 4, bursts of 1 and 2 copies are the smallest at
  which a loss, a repeat and both are told apart; six packets hold a run down
  to its splicing point, the packets behind it and a second run; a clock of 40
  ticks wraps once, PCRs lie up to 3 packets apart. The real modulus 16 with bursts up to
  14 is covered by the theorem `Exactness`, the validator's by `RateReported`,
  `SoundStreamIsClean` and `FaultsChargedOnce`.
- *T-STD*: four packets of two units, with stuffing or not, decode delays before,
  at and after the moment the last byte has leaked, elementary buffers that
  overflow and that do not; a transport buffer that four packets in a row overflow and
  three just fill, `Bsys` of a size that the tables reach; a "second" of
  30 ticks, which stretches of two packets pass. *Arrival clock*: a modulus of 32 and five PCRs wrap
  the ring and open two time bases; *PCR recovery*: ring 64, six PCRs, with
  jumps below and above half a ring.
- *Opening*: nine configurations (every table and descriptor the muxer writes; the
  caller's own descriptors; streams and PAT entries of another sender; one unknown
  stream; five that are refused), three rounds of tables, tables of one and two
  packets, two packets lost anywhere and any packet to tune in at.
- *PES*: two PIDs with two and one PES of up to two packets show a fault's effect
  on its own and on the neighbour; one fault, one seek.
- *Sections*: a payload of 6 with sections of 4, 7 and 12 gives sections that fit a
  packet, share one, straddle two and fill three.
- *Reader*: a resync limit of 2 with 6 packets passes the limit on both sides;
  packets of 4 bytes with one coincidental 0x47 anywhere lock a wrong grid and leave the
  right one, whichever packets are corrupted. Any number of coincidences is covered by
  the theorem `CorruptionIsReported`.
- *Timeline*: 6 units of 3 or 4 ticks pass the modulus of 16 once, and seeks go to
  either side of it. *Seek*: every file of 6 packets over a ring of 5, every
  target; six packets give the bisection three turns.
- *Access points*: four packets give the keyframe seek an indicator apart from its
  PES start, a key picture shown after the one that follows it, a window that
  begins between the two, and two rounds of back-off; up to three carry a PCR and one
  may belong to a second stream, whose points lie between those of the first; the
  targets lie between pictures and past the last.
- *Muxer*: the larger PES does not fit the countdown (3 packets in place of 128),
  so annotation starts within it, and is split into three PES on the bounded
  stream; three frames are a splicing point, its negative countdown and a second
  point into it; steps of 0, 3 and 6 units lie on both sides of the PCR interval of 4
  and reach the PSI interval of 6.
- *Pacer*: two programs, three tracks with 3, 3 and 1 frames of 1 or 4 packets, of which
  the first has frames without times; tables, one new time base; the leads are such
  that frames wait, overtake and meet in one slot. The larger frame takes as long as
  the PCR interval, so that PCRs come late by it: up to 18 slots apart, where the
  interval is 6 and `PcrBound` is 25, which adds up all that may fall between two looks.
- *Program stream*: a pack and three units of every kind, the file whole or 6
  bytes short, reads of 7 or 32 bytes, discovery of 30 bytes, so that discovery
  ends within, between and behind the units. *Video units*: three pictures in PES
  payloads of 1, 4 and 9 bytes cut a start code at each of its bytes. *Audio
  frames*: six frames of three lengths, payloads shorter than a frame and as long
  as one, so that headers are torn, one lost, two lookalike headers, the second of a frame
  shorter than it.
- *Formats*: the lengths around which a guard of some layout turns, up to two
  records per count; files of one to nine packets in each framing with a part of
  one behind, up to two coincidental sync bytes and one damaged, in the first
  packet, among or behind the eight that are looked at; truncation at every byte of what is built for ATSC text;
  every day from March 1900 to 2040 (35 leap cycles of 1461 days).

`CHECK_DEADLOCK FALSE` stands where a stream, a file or a budget may run out.

Fairness. Everything is one thread, so the only fairness assumed is that a call
that runs goes on to its end. `Demuxing`: weak fairness of the reading steps (a
caller keeps calling `next_packet`; `open()` and seeks are not assumed), of `Probe`
and of `Bisect`. `AccessPoints`: of the step of a running
seek (`SeekByIndicator`, `SeekByIndex` or `Round`).
`Muxing`: of the steps within a call (`Working`), not of making one. `Reframing`: of
the unit walk and of the video splitter. `Formats`: of the next item of a parse.
`Receiving` has no liveness property and assumes none.

Assumptions on the input, each a constant that can be switched:

- `Reorder = FALSE` in `Timeline`: PTS do not step back. With TRUE, `SameAxis`
  fails: a B-picture's step back over the wrap undoes `wrap_count` (clock.rs:636).
- `Straddle = FALSE` in `Timeline`: the clock does not wrap between the first
  PCR and the first PTS. With TRUE a PTS past the first wrap starts at epoch 0
  while the PCR axis counts the wrap (demuxer.rs:1280).
- `CutHeaders = FALSE` in `PsiAssembler`: a section header is not cut by the end of
  a packet. With TRUE a section is lost without a fault: psi.rs:1940 waits for
  the continuation, and psi.rs:1918 skips it because `target_len` is not known.
- `Late = 0` in `Muxer` (finding `muxer_reorder`); `StepBack = FALSE`: with TRUE a new
  base below the old one delays the tables (muxer.rs:1077).
- `Malformed = 0` in `PesReassembler` (finding `pes_malformed`).
- `R!Clear` in `PacketReader`, for what is delivered only: no sound packet stands alone between two
  corrupted ones, and no corrupted one has a 0x47 in the sync place. Otherwise the
  probe bytes `resync` drops belong to the next chunk, and the reader leaves the
  packet grid (demuxer.rs:1684): sound packets may be missed and bytes of two packets
  handed on as one. `LongCorruptionIsReported` bounds what is passed over in those files,
  too, with the probes counted in.
- `CorruptHeader = FALSE`: no corruption before `open()` returns. With TRUE
  `bytes_read`, which does not count what a resync skipped, puts the input
  back into the past.
- `ZeroBelongs = TRUE` in `VideoUnits`: the zero byte in front of a start code
  belongs to the unit that follows. With FALSE an anchor may lie in a torn zero
  byte (ps.rs:45-46) and stamps the unit before. Only the stamps need it: the theorem
  `UnitsInOrder` has both conventions.
- `FirstStamped = TRUE` in `AudioFrames`: the sender stamps from the first frame
  on. With FALSE an anchor out of a torn header has rate 0, and frames get the
  same PTS.
- `AccessPoints` has no PES header that does not parse or is cut by the end of
  its packet: there the index takes it for the PES an indicator announced, with
  no PTS, while the window scan waits for the next one, and the two differ.
  `GraceCoversReordering`: pictures are reordered by less than the grace second.
- `Direct = {FALSE}` in `AccessPoints`: `seek_to` is called. With TRUE,
  `seek_to_access_point` is, and one that finds nothing to land on leaves the input
  where the scan of a window stopped (see below).
- The `PCR_PID` is one of the program's tracks in `Muxer` and `Pacer`. A PCR on any
  other PID is never written (muxer.rs:1455-1457), and the attempt takes the announcement
  of a new time base with it (muxer.rs:1453).
- `Starts` of the validator's sender has no run that starts at 0: a splice point of one
  packet directly behind another is charged as a broken countdown (validate.rs:402).
- The tables of `Pacer` are repeated at most once between two looks at the PCRs:
  `PcrBound` counts them once. Their interval is above the time from one frame to the next.
- `MaxCopies = 2` in `ContinuityCounter`: with 3, the fourth copy of a packet is
  reported as a duplicate again, since a reported drop clears
  `duplicate_already_seen`.

## 4. Findings

Six runs expect a violation; each finding in `PROJECT.json` quotes the line it
contradicts. What else was met while reading and modelling, without a run:

Demuxer
- `locate_pcr_at_or_before` ends its loop at `hi - lo <= psize` (demuxer.rs:649), so
  a PCR in the packet right after the landing is not found although its doc promises
  the last one at or before the target; `LandingIsExact` states what does hold.
- The documentation of `TimestampEvent::Backward` (clock.rs:566) speaks of steps of
  more than half the modulus; the code returns it for the small ones.
- clock.rs:18-27 presents the trackers as the demuxer's front door, while the
  demuxer keeps no `ContinuityTracker`: a repeated TS packet is appended to the
  PES twice and a lost one leaves a hole, which is why `hit` in `PesReassembler`
  counts the PES of a repeated packet.
- Only the sections of the first packet that completes any are collected as the
  PAT, though the comment says every program; a PAT of several sections whose
  ends lie in several packets is known in part.
- `PcrTracker` reports an unannounced jump between the first two PCRs not there
  but at the one after.
- A reposition resets the audio splitters but keeps `locked`.
- `scan_access_points_window` leaves the input where it stopped; "callers
  reposition afterwards" (demuxer.rs:985-986) holds for all that land, not for a
  seek that ends in Unsupported (demuxer.rs:1088).
- A file of 192 or 204 bytes a packet with one damaged sync byte among the first
  eight is read as one of 188. The comment has "the streaming resync path" take
  over (demuxer.rs:256-258), which looks for sync bytes 188 apart and does not find
  them; `probe`, which looks at four packets, may give such a file 100.

Program stream, splitters
- Discovery may read past `DISCOVERY_BYTES` by what one unit takes.
- Streams are listed in four classes: subpictures come behind the other private
  streams, which the comment "then the rest" leaves open (ps.rs:361).
- E-AC-3 with `frmsiz` 0 gives a frame of 2 bytes, shorter than its header; an MPEG
  sequence header is accepted from 8 bytes although it has 9.

Muxer
- Untimed audio overtakes held timed frames (muxer.rs:1876); the order in which
  `write_trailer` drains held frames is not that of its comment (muxer.rs:1889).
- With a mux rate the muxer looks which PCRs are due before every frame with a time and
  every null packet (muxer.rs:690-691, 881-883, 903-909 say that this keeps PCRs within the
  0.1 s of the standard), but never while it writes a frame or the tables
  (`write_pes_bytes_as_ts`, 1711-1824; `write_psi_packet`). What goes out between two looks must
  fit what the interval of 40 ms leaves of the 100: a frame that takes the wire
  longer keeps the PCRs of every program waiting. `PacedCadence` states the
  bound that does hold, `PcrBound`: the interval, the longest frame, a PCR of each program,
  the frames without times and the tables, each at the pace of its transport buffer.
- The check that a frame is not late comes before the PCRs and the frames that
  are due, which may take slots after it.
- That a new time base of one program drops the byte-clock anchor of all of them
  (muxer.rs:1058) is the finding `shared_clock`: the PCRs of the others step without
  a mark. `ClockLinear` therefore promises a clock in a straight line from one announcement to the
  next, of whichever program, and a mark exactly where the program itself announced.
- Neither duplicate program numbers and map PIDs nor a map PID that is an
  elementary one are refused; two programs on one map PID get two counters.

Builders
- The content, teletext, subtitling and local-time-offset descriptors built from
  an empty list are refused by their parsers; a service descriptor with two
  names of 200 bytes, and a short event, exceed the 255 bytes of the length
  field (build.rs:51-57); `long_section` does not bound the section's length.

Validator
- A repeat of a packet with a countdown that a discontinuity flag announces is
  counted twice and charged; the loss of one packet with countdown zero can
  charge every packet of the next seamless run.
- `pmt_pids` grows over all PAT versions, so a PID that once carried a map and then
  a stream has its packets fed to the assembler, and may be charged with
  `bad_psi_sections`, though the stream is sound (validate.rs:262-270).
- An error of the assembler, an overrunning `section_length` among them, is dropped by
  `if let Ok` (validate.rs:248, 271), though validate.rs:82-85 says it is counted.
- Audio in private PES (AC-3 as stream type 6) is no audio to the validator.
- validate.rs:148 says there is no rate estimate across a discontinuity; one is
  given, from the PCR that re-anchors.

T-STD
- Packets that follow each other without a gap below the rate of the transport
  buffer make one busy stretch though the buffer is empty between them
  (tstd.rs:527).
- The leak's comment "arrival rate ≤ Rbx" (tstd.rs:885) does not hold: the
  transport buffer drains at 1.2 times `Rbx`. While `EBn` has room, the leak takes all
  that comes at that pace, so `Rbx` counts for nothing: `VideoVerdict` has it that such a unit is
  charged only for bytes late out of the transport buffer, and `MBn` never. Charges of
  `MBn` come of a full `EBn` alone; when just they come has no property.
- `Bsys` drains the gap in front of a packet at the rate that applies to the packet.
- A first PES without a timestamp fills the buffer and is never required to
  leave it; the bytes of a PES header split over packets are booked on the unit
  before; the last unit is never checked when its decode time lies more than 2
  seconds behind the end.
- After a discontinuity on the last PCR the decode times stay on the old base; a
  base that starts right after a wrap, with time stamps from before it, reads
  them as future; a second PCR that opens a new base is an error.

## 5. Proofs

Each theorem holds for every value of the constants that satisfies the named
assumptions of its module (and the hypotheses given here), and for streams of
any length; the bounds of section 3 play no part.

| Theorem | States | Hypotheses |
|---|---|---|
| `Receiving_proofs!TypeCorrect`, `Exactness` | the verdict on every packet is what happened to it | at most two copies, bursts up to `CCMod - 2` |
| `Receiving_proofs!ArrivalsAreTrue` | `ArrivalIsTrue`, with `RecoveryIsTrue` | `PcrAssumption` |
| `Receiving_proofs!DecodeTimesAreTrue` | `DecodeIsTrue` | `PcrAssumption` |
| `Receiving_proofs!FaultsStayLocal`, `WellFormedStaysLocal` | `FaultsAreLocal` | until a PES header is broken (`malformed = {}`); `Malformed = 0` |
| `Receiving_proofs!RateReported` | `RateIsTrue` | |
| `Receiving_proofs!SoundStreamIsClean`, `FaultsChargedOnce` | `SoundIsClean`, `ChargedOnce` | no run starts at 0 |
| `Muxing_proofs!Types`, `NewBaseMarked`, `CountdownsKept` | `TypeOK`, `FirstOfBaseMarked`, `CountdownKept` | |
| `Muxing_proofs!CadenceKept` | `PcrCadence` | `Late = 0` |
| `Muxing_proofs!TablesInTime` | `TablesRepeated` | `StepBack = FALSE` |
| `Muxing_proofs!PacedBuffers` | `TransportBuffers` | |
| `Muxing_proofs!PcrsAreAClock` | `ClockLinear` | |
| `Muxing_proofs!FramesInTime` | `FramesOnTime` | `Untimed \subseteq Video` |
| `Demuxing_proofs!SeekCorrect`, `LandingCorrect`, `LoopNarrows` | `DurationIsExact`, `LandingIsExact`, the loop narrows | |
| `Timeline_proofs!TimesAreTrue`, `Demuxing_proofs!DemuxerTimesAreTrue`, `DemuxerAxesAgree` | `PtsExact`, `AxesAgree` | no B-pictures, no wrap between first PCR and first PTS |
| `PacketReader_proofs!CorruptionIsReported`, `Demuxing_proofs!DemuxerReportsCorruption` | `LongCorruptionIsReported` | the first packet sound (`CorruptHeader = FALSE`) |
| `PacketReader_proofs!SoundPacketsInOrder`, `Demuxing_proofs!DemuxerDeliversInOrder` | the safety half of `ReaderDelivers` | the same; of clear files |
| `PsiAssembler_proofs!SectionsAreTrue`, `Demuxing_proofs!DemuxerSectionsSurvive` | `LossIsLocal`, `NoMisassembly` (`SectionsSurvive`) | no header cut by the end of a packet; `Losses + 1 < CCMod` in all |
| `AccessPoints_proofs!SeeksLikeTheIndex` | `SameAsIndex` | |
| `AccessPoints_proofs!SeeksDeliver` | `DeliversTheLanding` | `Direct \subseteq {FALSE}` |
| `Reframing_proofs!WalkDelivers` | `PacketsInOrder` | `WalkAssumption` |
| `Reframing_proofs!WalkDiscovers` | `StreamsFound` | `WalkAssumption` |
| `Reframing_proofs!UnstuffedStaysWithin` | `PosWithinBuffer` | `WalkAssumption`, no pack with stuffing |
| `Reframing_proofs!UnitsInOrder` | the safety half of `UnitsDelivered` | `ShapeAssumption` |
| `Reframing_proofs!StampsStayTrue` | `StampsBelong` of the video splitter | `ShapeAssumption`, `ZeroBelongs` |
| `Demuxing_proofs!DemuxerSeeksExactly` | `DurationIsExact`, `LandingIsExact` of the demuxer | |

`PcrAssumption` puts what the standard allows into numbers: PCRs come before the
clock has wrapped since the last, a decode time is less than half a turn of the
90 kHz clock from its byte, and the jitter window of `PcrTracker` is wide against the
wobble of PCRs and narrow against a jump. `WalkAssumption` says that a unit is as
long as its header at least. Each other hypothesis is one of the
assumptions on the input of section 3 or is explained below, and without it the statement is false:
`Late = 0` is the finding `muxer_reorder`.

**The counter.** `ExactClassification` alone is not inductive: the verdict on a
repeat depends on whether the packet arrived before (`held`) and on the
tracker's flag. `SentAndAnchor` says what anchor and flag are while the last
packet may still be repeated, and `InductiveInvariant` adds it. The lemmas
`AheadSteps` and `FreshPacket` hold the modular arithmetic, one step of the
proof stands for each action.

**The validator.** It sees annotations and PCRs only of packets that arrive, and
what it charges depends on what it saw last. The invariant therefore relates
its state to the sender's, as long as no fault is left to account for:
`CountKnown` has the run at the sender's count one packet ago (or past its
splicing point), `SeamlessKnown` the pair of the run, `OnBase` both PCR anchors on
the sender's time base, `Spaced` the last one as far back as the cadence says.
`Anchored` carries the counter's part over any number of repeats, more than the
two of `Exactness`. `Settled` in the model, which fault is accounted for by which packet,
is what makes them inductive. `Accounted` is proved of each step and
is, with the invariant, the action property. `RateReported` needs the clock's half only
(`ClockInvariant`), and holds whatever the splices do.

**The arrival clock.** `build` folds over the PCRs what it unwraps. `Known` says what
that fold has at each of them: the time it came at, the clock whole turns short of
the sender's (the turns from before the time base began, `Extended`), and the pace of
the bytes before it (`PaceKnown`), which over a new time base is all there is to go by.
`FoldIsTrue` shows it from one PCR to the next, again by the least one
at which it would fail. A byte then lies between two PCRs (`IntervalFound`), at the
pace of the second. A decode time named on the clock of its time base is extended near the
PCR before its byte; both are the same turns short, and less than half a turn apart
(`NearIsExact`).

**PCR recovery.** Two facts are kept while nothing was lost: the clock is known from
the last PCR but for its wobble (`KnownInterval`), and the rate of the last
two is off by a wobble (`KnownRate`). What is extrapolated from it is off by the wobble
times the packets of the interval (`ExtrapolationIsNear`), less than the jitter window
and, on the ring, less than any jump (`JumpIsTold`). The proof showed that the longest interval
has to be less than half the ring, not half of it: at exactly half, the signed
difference of two PCRs has the wrong sign.

**The PES reassembler.** What comes out and what is owed are two sequences, filtered by
a set of PES packets that grows as faults come. Filtering is a recursive function,
so its laws (`Kept` of an appended, a concatenated and a flattened sequence) are
proved once, by the least length at which they would fail. `PidHeld` says of each PID
what makes both sequences grow by the same PES: the one in progress is held from its
start (`InFlight`) and, if no fault touched it, as far as it was sent and with its
flag (`Followed`); an indicator that waits is the one that was sent (`Foretold`); and no
fault reaches further than the PES behind it (`Untouched`). The
theorem stops at the first broken header, which leaves the reassembler stuck on the PES
before it: the finding `pes_malformed`. The proof showed that two lost starts
in a row pass a pending indicator on twice, which `AffectedByStart` left
out; with more than one fault TLC finds it, too.

**The muxer.** A PCR is decided in one call (`lastPcr`) and on the wire later
(`inline`), with a PES, a splicing point or a new time base in between.
`MarkInvariant` adds `ArmedUntilSent`: the flag is set exactly while the last PCR
on the wire is of an earlier time base. `CadenceInvariant` adds that the PCR
chain is never ahead of the latest frame and that the wire holds its last
value, or, while a PES holds its own PCR, one at most an interval behind.
`RingDistance` takes the distance from the line to the ring; `SendInCadence` is
the step all three kinds of PCR share. For the tables, `TablesBehind` says that
the PTS the count began at is not above that of the frame the tables went out
with, on the base of now. For the countdowns, `RunFits` says that a run that has
begun is exactly the number of packets its envelope still takes (the lemma
`PacketsCounted`: the prediction goes down by one with each packet, whatever room
the first one has), `RunSent` that a positive countdown on the wire is that run,
and `PostIsAfter` that the negative one is at the packets behind the point. The
proof showed that a longest run of 1 would break the countdown: two packets would be
predicted for an end that, not annotated, fits one. The code has 128, so `MaxRun > 1` is the
assumption.

**The pacer.** Three invariants, over one shape of the stack (`PacerTypes`: which track,
payload and PCR a packet in the making has). For the transport buffers it says of each
chain what is booked and how far it is drained. The account of the tables' buffer may fall
behind the clock: a packet is booked when its buffer has room and may then wait for
the pool all buffers share. The proof had to show this harmless: what the pool holds back drains
at its own rate, and `SystemAssumption` has twice that rate below the rate of the first
buffer, which holds at every mux rate of up to 250 Mbit/s (1 Mbit/s against the
larger of 80 kbit/s and a 500th of the mux rate). `PacerClock` says that the
last PCR is on the byte clock, that all frames looked at are anchored to it, and that a
program waits to mark a PCR just while it has announced a base since its last one.
`PacerOrder` says who may hold frames (`HoldsAlone`), that a held frame is later than what its
track has sent (`HeldLater`), and that none is counted twice (`Counted`). `FramesInTime` takes
only video frames to be without a time: such a frame is never held, and of a track that
also holds frames it overtakes them. The instance TLC checks has such a video track.

**The seek.** The inductive `SeekInvariant` adds to the properties that the
anchors are the first and the last PCR (`Anchored`) and what the reported span
is (`SpanKnown`). That the loop ends follows from `LoopNarrows`; that a seek
returns is checked by TLC only.

**The access points.** The scan of a window is a recursive function over the packets;
`Knows` compares what it has kept after each with what there was to see so far, and the
entry it chooses with the one the index would give, again by the least packet at which
they would differ. Once a unit is past the target by more than the grace, all
behind it are, so where the scan stops it has missed nothing (`PastGrace`). A
round of the back-off that finds nothing has therefore shown that there is nothing from
the start of its window on, and the first that finds a landing finds the index's.
`SeeksDeliver` is about `seek_to` and `seek_to_random_access`: `seek_to_access_point`
called directly leaves the input where the scan stopped when it ends in
`Unsupported`, and what is delivered then follows neither landing.

**The program stream.** The walk passes over a file twice, and both passes are one proof.
The units of a file do not overlap (`FileOK`), and no step leaves a start code behind that it did
not take for a unit (`SteppedOver`, for the hunt as well as for lengths that lead
on). So what a pass owes can be said of the packets that begin before `pos`:
in the first their streams are in `order` (`Searching`), in the second they
are with the application, in the queue or with the splitter of their stream, in
that order (`Sound`, `Delivering`). Between them lies the list (`Listing`): the
four classes are rows behind one another (`RowBehindRow`), whatever `order` was. What the first
pass counts as read never exceeds `pos`, so it meets its limit only behind
every packet that begins in front of it. That the
position stays within the buffer needs that no pack carries stuffing: every other
step waits for what it passes, or stops at the end. Stuffing is thus all there is to
the finding of `ps_stuffing`, and the two theorems above hold with it as well.

**The video splitter.** The stream is fixed before its first byte: `Behind`, `Coded` and `Placed` lay
the units out in a row, and their laws (each unit begins where the one before ends, codes do not
overlap) are proved by the least place at which they would fail. The splitter is then
at one of three places: `Unbegun`, behind code `n` and gathering its unit
(`Gathering`), or `Finished`. The lemmas of a turn show that the scan from one code finds the next one
wherever payloads cut it, and that what the splitter remembers (a picture seen, one of them
intra) is what the codes of the unit so far say; so the next code that begins a unit cuts exactly
there. For the stamps, `Kept` says of the anchors that each lies behind the units cut, in front of
its own unit and behind the one before, and that no stamped unit to come is
without one. A unit takes the anchors up to its start, of which only its own is left.

**The timeline.** One fact of modular arithmetic carries everything: a time within
half a turn of a known one is told by its residue. The invariant says what each
tracker knows before the next unit: the true time of the unit before
(`PtsKnown`, `DtsKnown`), a hint less than half a turn from it, or that the file
begins. The axes of index and PCR are recursive functions over the stream;
what they compute is shown by induction in the form of the least
element at which they would differ (`LeastElement`).

**The reader.** A buffer is known by the positions its bytes have in the file, so
every step is a fact about segments of the file. One invariant holds of every file
(`AnyFileInvariant`): what was handed on lies in the file in order and apart, what is put back is what the
probe read, and the bytes passed since the last of them are at most a packet and, for each chunk a
running resync has rejected, a chunk and its probe. Of clear files the second has the reader at a packet
boundary (`Passed`) and the
packets handed on sound and in their order (`LogOK`), with the count of what a
resync has passed. There a coincidental 0x47 does no harm: the probe then fails, or both probe and
packet are where the grid says. `DeliveredOK` adds that what was handed on are the first
sound packets; each step is then a step of `Delivery`, or leaves its variables alone.

**The section assembler.** The sections lie one after the other in the stream, and
`Layout(e)` says where each ends; all else speaks of positions. Two things must
be right before a packet is fed: whether anything is missing (`CountOK`: the counter
is behind by what was lost, which is less than its period) and, if nothing is,
what is in flight (`FlightOK`: nothing, or one section up to the cell before the
packet). A good packet then returns the sections that end in it and keeps the
one it ends within; `LoopGood` shows it of the loop over the sections that start
in a payload, from the last section backwards. A damaged one, whose pointer or
length leads too far, leaves nothing (`FeedDamaged`, `FeedSpoilt`), and no
continuation is taken up behind it. `WholeOK` and `OrderOK` are what was promised;
`OrderOK` needs `KeptOK`, that while nothing is repeated the section in flight is kept
if and only if no loss touched it. `RepeatOK` says that a packet that may come twice
is the last one fed, so that its copy is taken for a gap and starts over.

**The demuxer.** `Demuxing` draws which machine runs; `Demuxing_proofs` shows that its
steps are steps of that machine and carries the theorems over, under
the assumptions of `Demuxing` alone.

Only model-checked: the buffers of the T-STD analyzer (`BuffersAreTrue`),
opening a program (`ProgramsReach`), the cadence of the pacer's PCRs (`PacedCadence`), the audio
splitter (`FramesWhole`) and the formats. Out of the prover's reach are the liveness properties (`SeekReturns`,
`CallsReturn`, `UnitsDelivered`, `Ends`, `Terminates` and the fairness half of
`ReaderDelivers`: no ENABLED), and what the recursive data conversions of
`Formats` compute for every input (no induction over data).

## 6. Not modelled

- The queue of `next_packet` between reassembly and caller; its producers and
  `reposition` are there.
- The rules of the validator about one packet alone.
- Errors, registration and codec glue (`error.rs`, `registry.rs`, `lib.rs`): no
  behaviour. Test modules and the fuzz harness: read, not modelled.
- Values a layout reads and only hands on.
- Of the T-STD report, the statistics (peaks, counts, the longest delay).

`PROJECT.json` lists every part with its status.

## 7. Plan

In the order of importance:

1. Theorems: `PacedCadence`; `BuffersAreTrue`; `FramesWhole` of the audio splitter.
2. `AccessPoints` composed with `PcrSeek` in place of `Located`.
3. The validator's one-packet rules; its first pass over tables that change version.
4. The queue of `next_packet` between the reassemblers, the splitters and the caller.
5. The small enumerations of `descriptor.rs` as value conversions.
