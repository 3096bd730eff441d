---------------------------- MODULE ProgramStream ----------------------------
(***************************************************************************)
(* The program stream demuxer (ps.rs MpegPsDemuxer).  A file is a sequence *)
(* of units - packs, system headers, PES packets, and what does not belong *)
(* there - and may be cut off anywhere.  Reads give what they like of it;  *)
(* the walk asks for bytes in stages, first to find the streams and then,  *)
(* from the start again, to deliver their packets.                         *)
(* Positions count from the start of the file: `base` is where the buffer  *)
(* begins, and the code's pos and buf.len() are pos - base, have - base.   *)
(***************************************************************************)
EXTENDS Integers, Sequences, FiniteSets, SequencesExt, FiniteSetsExt

CONSTANTS
    Kinds,            \* the units: [kind, stream, size]
    Units,            \* how many follow the first pack
    Cuts,             \* how many bytes the file may lack at its end
    Reads,            \* what a read may give; the largest is READ_CHUNK
    DiscoveryBytes,
    Class,            \* the streams' classes: video, audio, private, subpictures
    Reframed,         \* the streams a splitter cuts
    Unlisted          \* the streams classify has no codec for

VARIABLES
    file, length,
    pos, base, have, eof,       \* pos, buf, eof
    stage,                      \* what next_unit is waiting for
    phase,
    before, consumed, order,    \* of discover
    streams,                    \* the streams found; packets carry their index
    held,                       \* what their splitters hold back
    pending, flushed,
    delivered                   \* what the application got

bufVars  == <<pos, base, have, eof>>
findVars == <<before, consumed, order>>
outVars  == <<held, pending, flushed, delivered>>

(* A unit has at least its header, and a stream its class.                 *)
Least == [pack |-> 14, mpeg1 |-> 4, system |-> 6, map |-> 6, unbounded |-> 6, end |-> 4,
          stray |-> 3, garbage |-> 0, pes |-> 9]
UnitAssumption ==
    /\ Units \in Nat /\ Cuts \subseteq Nat /\ Reads \subseteq Nat /\ DiscoveryBytes \in Nat
    /\ \A u \in Kinds : /\ u.kind \in DOMAIN Least
                        /\ u.size \in Nat /\ u.size >= Least[u.kind]
                        /\ u.kind = "pes" => u.stream \in DOMAIN Class
    /\ Class \in [DOMAIN Class -> 1..4]

NoUnit    == 0
NoStream  == "none"
FirstPack == [kind |-> "pack", stream |-> NoStream, size |-> 14]

Offsets(units) ==
    LET f[n \in 0..Len(units)] == IF n = 0 THEN 0 ELSE f[n - 1] + units[n].size
    IN  f
Placed(units) ==
    [n \in DOMAIN units |-> [kind |-> units[n].kind, stream |-> units[n].stream,
                            size |-> units[n].size, at |-> Offsets(units)[n - 1]]]

PsInit ==
    /\ \E rest \in [1..Units -> Kinds] :
           LET units == <<FirstPack>> \o rest
               whole == Offsets(units)[Len(units)]
           IN  file = Placed(units) /\ \E cut \in Cuts : cut <= whole /\ length = whole - cut
    /\ pos = 0 /\ base = 0 /\ have = 0 /\ eof = FALSE
    /\ stage = "open" /\ phase = "discover"
    /\ before = 0 /\ consumed = 0 /\ order = << >>
    /\ streams = << >>
    /\ held = [k \in DOMAIN Class |-> NoUnit]
    /\ pending = << >> /\ flushed = FALSE /\ delivered = << >>

------------------------------------------------------------------------------
(* The unit whose start code is at pos, and what a stage waits for.  The   *)
(* size of a pack includes its stuffing, which the wait for it does not.   *)
Marked  == {u \in DOMAIN file : file[u].kind # "garbage"}
Here    == CHOOSE u \in Marked : file[u].at = pos
AtCode  == \E u \in Marked : file[u].at = pos
Want    == CASE stage = "open" -> 14
             [] stage = "find" -> 4
             [] stage = "pack" -> 14
             [] stage = "header" -> 6
             [] stage = "body" -> file[Here].size
             [] OTHER -> 0
Ready   == have - pos >= Want \/ eof
Fill ==
    /\ ~Ready
    /\ base' = IF pos > base /\ pos - base >= (have - base) \div 2 THEN pos ELSE base
    /\ \E n \in Reads : have' = Min({have + n, length})
    /\ eof' = (have = length)
    /\ UNCHANGED <<file, length, pos, stage, phase, findVars, streams, outVars>>

Open ==
    /\ stage = "open" /\ Ready
    /\ IF have >= 5 THEN stage' = "find" /\ UNCHANGED phase
                    ELSE phase' = "refused" /\ stage' = "none"
    /\ UNCHANGED <<file, length, bufVars, findVars, streams, outVars>>

------------------------------------------------------------------------------
(* What becomes of a unit, the reader being at p after it.                 *)
Those(seq, S) ==                      \* the elements of seq that are in S, in its order
    LET f[n \in 0..Len(seq)] == IF n = 0 THEN << >>
                                ELSE IF seq[n] \in S THEN Append(f[n - 1], seq[n]) ELSE f[n - 1]
    IN  f[Len(seq)]
OfClass(c) == {k \in DOMAIN Class \ Unlisted : Class[k] = c}
ListedAsFound(seq) == Those(seq, DOMAIN Class \ Unlisted)            \* mutant: not sorted
Listed(seq) == Those(seq, OfClass(1)) \o Those(seq, OfClass(2)) \o Those(seq, OfClass(3))
                                      \o Those(seq, OfClass(4))
RewindAtEnd(found) ==                 \* mutant: the end of the input is remembered
    /\ streams' = Listed(found)
    /\ phase' = IF streams' = << >> THEN "empty" ELSE "stream"
    /\ stage' = IF streams' = << >> THEN "none" ELSE "next"
    /\ pos' = 0 /\ base' = 0 /\ have' = 0 /\ UNCHANGED eof
Rewind(found) ==
    /\ streams' = Listed(found)
    /\ phase' = IF streams' = << >> THEN "empty" ELSE "stream"
    /\ stage' = IF streams' = << >> THEN "none" ELSE "next"
    /\ pos' = 0 /\ base' = 0 /\ have' = 0 /\ eof' = FALSE

Discovered(p, found) ==
    LET passed == (p - base) - before
    IN  /\ consumed' = consumed + IF passed > 0 THEN passed ELSE 0
        /\ order' = found
        /\ before' = p - base
        /\ IF consumed' >= DiscoveryBytes
           THEN Rewind(found)
           ELSE pos' = p /\ stage' = "find" /\ UNCHANGED <<base, have, eof, phase, streams>>

Nothing(p) ==
    \/ /\ phase = "discover" /\ Discovered(p, order)
       /\ UNCHANGED outVars
    \/ /\ phase = "stream"
       /\ pos' = p /\ stage' = "next"
       /\ UNCHANGED <<base, have, eof, phase, findVars, streams, outVars>>

Packet(k, u) == <<CHOOSE i \in DOMAIN streams : streams[i] = k, u>>
HandlePes(k, u) ==
    IF k \notin Range(streams) THEN UNCHANGED <<held, pending>>
    ELSE IF k \notin Reframed
    THEN pending' = Append(pending, Packet(k, u)) /\ UNCHANGED held
    ELSE /\ held' = [held EXCEPT ![k] = u]
         /\ pending' = IF held[k] = NoUnit THEN pending ELSE Append(pending, Packet(k, held[k]))

Pes(u, p) ==
    \/ /\ phase = "discover"
       /\ Discovered(p, IF file[u].stream \in Range(order) THEN order
                        ELSE Append(order, file[u].stream))
       /\ UNCHANGED outVars
    \/ /\ phase = "stream"
       /\ HandlePes(file[u].stream, u)
       /\ pos' = p /\ stage' = "next"
       /\ UNCHANGED <<base, have, eof, phase, findVars, streams, flushed, delivered>>

Full == Those([i \in DOMAIN streams |-> i], {i \in DOMAIN streams : held[streams[i]] # NoUnit})
FlushAll ==
    /\ flushed' = TRUE
    /\ pending' = pending \o [j \in DOMAIN Full |-> <<Full[j], held[streams[Full[j]]]>>]
    /\ held' = [k \in DOMAIN held |-> NoUnit]

NoMore ==
    \/ /\ phase = "discover" /\ Rewind(order)
       /\ UNCHANGED <<findVars, outVars>>
    \/ /\ phase = "stream" /\ FlushAll
       /\ pos' = have /\ stage' = "next"
       /\ UNCHANGED <<base, have, eof, phase, findVars, streams, delivered>>

------------------------------------------------------------------------------
(* next_unit.                                                              *)
HuntInPlace ==                        \* mutant: without a start code in sight the reader stays
    /\ stage = "find" /\ Ready /\ have - pos >= 4 /\ ~AtCode
    /\ LET next == {file[u].at : u \in {v \in Marked : file[v].at > pos /\ file[v].at + 3 <= have}}
       IN  pos' = IF next = {} THEN pos ELSE Min(next)
    /\ UNCHANGED <<file, length, base, have, eof, stage, phase, findVars, streams, outVars>>
Hunt ==
    /\ stage = "find" /\ Ready /\ have - pos >= 4 /\ ~AtCode
    /\ LET next == {file[u].at : u \in {v \in Marked : file[v].at > pos /\ file[v].at + 3 <= have}}
       IN  pos' = IF next = {} THEN have - 2 ELSE Min(next)
    /\ UNCHANGED <<file, length, base, have, eof, stage, phase, findVars, streams, outVars>>

OutOfBytes ==
    /\ Ready
    /\ \/ stage = "find" /\ have - pos < 4
       \/ stage = "header" /\ have - pos < 6
    /\ NoMore
    /\ UNCHANGED <<file, length>>

Found ==
    /\ stage = "find" /\ Ready /\ have - pos >= 4 /\ AtCode
    /\ \/ /\ file[Here].kind \in {"pack", "mpeg1"}
          /\ stage' = "pack"
          /\ UNCHANGED <<bufVars, phase, findVars, streams, outVars>>
       \/ /\ file[Here].kind \in {"system", "map", "pes", "unbounded"}
          /\ stage' = "header"
          /\ UNCHANGED <<bufVars, phase, findVars, streams, outVars>>
       \/ file[Here].kind = "end" /\ Nothing(pos + 4)
       \/ file[Here].kind = "stray" /\ Nothing(pos + 3)
    /\ UNCHANGED <<file, length>>

Pack ==
    /\ stage = "pack" /\ Ready
    /\ Nothing(IF have - pos < 14 \/ file[Here].kind = "mpeg1" THEN pos + 4
                                                               ELSE pos + file[Here].size)
    /\ UNCHANGED <<file, length>>

Header ==
    /\ stage = "header" /\ Ready /\ have - pos >= 6
    /\ IF file[Here].kind = "unbounded" THEN Nothing(pos + 4)
       ELSE /\ stage' = "body"
            /\ UNCHANGED <<bufVars, phase, findVars, streams, outVars>>
    /\ UNCHANGED <<file, length>>

(* A PES packet that the end of the file cut within its header is none.    *)
Body ==
    /\ stage = "body" /\ Ready
    /\ LET p == Min({pos + Want, have})
       IN  IF file[Here].kind = "pes" /\ p - pos >= 9 THEN Pes(Here, p) ELSE Nothing(p)
    /\ UNCHANGED <<file, length>>

(* The loop of next_packet, called again and again.                        *)
NextPacket ==
    /\ stage = "next"
    /\ IF pending # << >>
       THEN /\ delivered' = Append(delivered, Head(pending))
            /\ pending' = Tail(pending)
            /\ UNCHANGED <<stage, phase, held, flushed>>
       ELSE /\ stage' = IF flushed THEN "none" ELSE "find"
            /\ phase' = IF flushed THEN "ended" ELSE phase
            /\ UNCHANGED outVars
    /\ UNCHANGED <<file, length, bufVars, findVars, streams>>

PsNext == Fill \/ Open \/ Hunt \/ OutOfBytes \/ Found \/ Pack \/ Header \/ Body \/ NextPacket

------------------------------------------------------------------------------
UnitsOf(k) == {u \in DOMAIN file : file[u].kind = "pes" /\ file[u].stream = k
                                     /\ file[u].at + 9 <= length}
Packets   == delivered \o pending
Mine(i)   == {q \in DOMAIN Packets : Packets[q][1] = i}
Waits(i)  == {held[streams[i]]} \ {NoUnit}
Got(i)    == {Packets[q][2] : q \in Mine(i)} \cup Waits(i)

(* Wherever the reads break it, and whatever does not belong in it, each   *)
(* listed stream's PES packets of the file come out under its index, once  *)
(* each, in order and none before one that is owed, what a splitter holds  *)
(* back last; and at the end they have all come.                           *)
PacketsInOrder ==
    \A i \in DOMAIN streams :
        /\ \A q, r \in Mine(i) : q < r => Packets[q][2] < Packets[r][2]
        /\ \A q \in Mine(i), u \in Waits(i) : Packets[q][2] < u
        /\ Got(i) \subseteq UnitsOf(streams[i])
        /\ \A u \in Got(i), v \in UnitsOf(streams[i]) : v < u => v \in Got(i)
        /\ phase = "ended" => Waits(i) = {} /\ Got(i) = UnitsOf(streams[i])

(* A stream that shows within the bytes the first pass is to read is       *)
(* listed, and video precedes audio precedes the rest.                     *)
StreamsFound ==
    phase \in {"stream", "ended", "empty"} =>
        /\ \A u \in DOMAIN file :
               (/\ file[u].kind = "pes" /\ file[u].stream \notin Unlisted
                /\ file[u].at + 9 <= length /\ file[u].at < DiscoveryBytes)
                   => file[u].stream \in Range(streams)
        /\ \A i, j \in DOMAIN streams : i < j => Class[streams[i]] <= Class[streams[j]]

(* "Make sure at least n bytes are buffered past pos (fewer at end of      *)
(* input)": the position never leaves the buffer, whose rest is sliced.    *)
PosWithinBuffer == pos <= have

(* The walk gets to the end of every file.                                 *)
Walked == phase \in {"ended", "refused", "empty"}
=============================================================================
