---------------------------- MODULE PacketLayouts ----------------------------
(***************************************************************************)
(* How the bytes of a file are framed into packets: the detection open()   *)
(* makes of the head of a file (packet.rs detect_packet_layout, demuxer.rs *)
(* with_selector) and the score by which a file is taken for a transport   *)
(* stream at all (demuxer.rs probe).  Of the bytes only matters which are  *)
(* 0x47: the sync bytes of the packets, save the damaged ones, and some    *)
(* coincidental ones where another framing would have its own.             *)
(***************************************************************************)
EXTENDS Integers, FiniteSets, FiniteSetsExt

CONSTANTS
    Wholes,         \* whole packets of the file
    Remainders,     \* bytes of the packet cut off behind them
    Damages,        \* the packet, counted from 0, with a damaged sync byte
    MaxStray        \* most coincidental sync bytes

VARIABLES
    framing,        \* the layout of the file
    whole, remainder, damage, stray,
    tried,          \* the layouts tried
    layout,         \* detect_packet_layout's, or NoLayout
    hits            \* probe's best

layoutVars == <<framing, whole, remainder, damage, stray, tried, layout, hits>>

Layout(size, sync) == [packet_size |-> size, sync_offset |-> sync]
Layouts  == <<Layout(188, 0), Layout(192, 4), Layout(204, 0)>>
NoLayout == Layout(0, 0)

HeadSize == 204 * 8
MaxCheck == 8

------------------------------------------------------------------------------
Grid(l)      == {k * l.packet_size + l.sync_offset : k \in 0 .. MaxCheck - 1}
Others(l)    == UNION {Grid(Layouts[i]) : i \in {j \in 1..3 : Layouts[j] # l}} \ Grid(l)

Head     == Min({HeadSize, whole * framing.packet_size + remainder})
IsSync(off) == \/ off \in stray
               \/ /\ off \in Grid(framing) /\ off < whole * framing.packet_size
                  /\ off \div framing.packet_size # damage

(* The packets of the head that are looked at, and the layout that fits.   *)
Checked(l) == Min({Head \div l.packet_size, MaxCheck})
Fits(l) ==
    /\ Checked(l) >= 2
    /\ \A k \in 0 .. Checked(l) - 1 : IsSync(k * l.packet_size + l.sync_offset)

(* The sync bytes probe() counts on a grid, from its first on; four at     *)
(* most.                                                                   *)
Hits(l) ==
    LET sync(k) == k * l.packet_size + l.sync_offset < Head
                       /\ IsSync(k * l.packet_size + l.sync_offset)
    IN  Max({n \in 0..4 : \A k \in 0 .. n - 1 : sync(k)})

Score == CASE hits = 4 -> 100 [] hits = 3 -> 80 [] hits = 2 -> 60 [] OTHER -> 0

------------------------------------------------------------------------------
LayoutInit ==
    /\ framing \in {Layouts[i] : i \in 1..3}
    /\ whole \in Wholes /\ remainder \in Remainders /\ damage \in Damages
    /\ stray \in UNION {kSubset(n, Others(framing)) : n \in 0 .. MaxStray}
    /\ tried = 0 /\ layout = NoLayout /\ hits = 0

(* The candidates are tried in order; the first that fits is taken.        *)
TryLayout ==
    /\ tried < 3
    /\ tried' = tried + 1
    /\ layout' = IF layout = NoLayout /\ Fits(Layouts[tried']) THEN Layouts[tried'] ELSE layout
    /\ hits' = IF Hits(Layouts[tried']) > hits THEN Hits(Layouts[tried']) ELSE hits
    /\ UNCHANGED <<framing, whole, remainder, damage, stray>>

LayoutNext == TryLayout

------------------------------------------------------------------------------
(* A file with two whole packets and no damage in its head is framed as it *)
(* was, unless all the sync bytes of another framing but the first are     *)
(* there by coincidence: no grid meets another behind its first packet.    *)
FramingFound ==
    tried = 3 /\ damage \notin 0 .. MaxCheck - 1 /\ whole >= 2 =>
        /\ layout # NoLayout
        /\ layout # framing => Cardinality(stray) >= Checked(layout) - 1

(* What open() recognises, probe() does not turn away, and a full score    *)
(* without three coincidences is of the true framing.                      *)
ProbeAgrees ==
    tried = 3 =>
        /\ layout # NoLayout => Score >= 60
        /\ Score = 100 /\ Cardinality(stray) < 3 => Hits(framing) = 4
==============================================================================
