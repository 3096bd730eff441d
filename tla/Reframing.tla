------------------------------ MODULE Reframing ------------------------------
(***************************************************************************)
(* The program stream demuxer and its two splitters, one at a time: the    *)
(* walk hands a splitter payloads and takes units from it, and ProgramStream *)
(* knows of them that they hold one back.  The variables of the parts that *)
(* do not run are idle.                                                    *)
(***************************************************************************)
EXTENDS Integers, Sequences, SequencesExt

CONSTANTS
    Kinds, Units, Cuts, Reads, DiscoveryBytes, Class, Reframed, Unlisted,
    Shapes, Pictures, PesSizes, ZeroBelongs,
    Lengths, HeaderLen, Lookalikes, PayloadSizes, MaxLost, Recovery, FirstStamped

VARIABLES
    machine,
    file, length, pos, base, have, eof, stage, phase, before, consumed, order, streams, held,
    pending, flushed, delivered,                             \* ProgramStream
    codes, esLength, end, esBase, scanned, auStart, hasPicture, key, anchors, stamped, cut,
                                                             \* VideoUnits
    sent, lost, residual, residualPts, anchor, locked, buf, at, carried, due, busy, emitted,
    passed, sound, counted, ended                            \* AudioFrames

P == INSTANCE ProgramStream
V == INSTANCE VideoUnits WITH Units <- Pictures, length <- esLength, base <- esBase
A == INSTANCE AudioFrames WITH pending <- due, stamped <- counted

ASSUME WalkAssumption  == P!UnitAssumption
ASSUME VideoAssumption == V!ShapeAssumption

walkVars  == <<file, length, pos, base, have, eof, stage, phase, before, consumed, order,
               streams, held, pending, flushed, delivered>>
videoVars == <<codes, esLength, end, esBase, scanned, auStart, hasPicture, key, anchors,
               stamped, cut>>
audioVars == <<sent, lost, residual, residualPts, anchor, locked, buf, at, carried, due, busy,
               emitted, passed, sound, counted, ended>>
vars      == <<machine, walkVars, videoVars, audioVars>>

WalkIdle ==
    /\ file = "idle" /\ length = "idle" /\ pos = "idle" /\ base = "idle" /\ have = "idle"
    /\ eof = "idle" /\ stage = "idle" /\ phase = "idle" /\ before = "idle"
    /\ consumed = "idle" /\ order = "idle" /\ streams = "idle" /\ held = "idle"
    /\ pending = "idle" /\ flushed = "idle" /\ delivered = "idle"
VideoIdle ==
    /\ codes = "idle" /\ esLength = "idle" /\ end = "idle" /\ esBase = "idle"
    /\ scanned = "idle" /\ auStart = "idle" /\ hasPicture = "idle" /\ key = "idle"
    /\ anchors = "idle" /\ stamped = "idle" /\ cut = "idle"
AudioIdle ==
    /\ sent = "idle" /\ lost = "idle" /\ residual = "idle" /\ residualPts = "idle"
    /\ anchor = "idle" /\ locked = "idle" /\ buf = "idle" /\ at = "idle" /\ carried = "idle"
    /\ due = "idle" /\ busy = "idle" /\ emitted = "idle" /\ passed = "idle"
    /\ sound = "idle" /\ counted = "idle" /\ ended = "idle"

Init ==
    \/ machine = "walk"  /\ P!PsInit /\ VideoIdle /\ AudioIdle
    \/ machine = "video" /\ V!VideoInit /\ WalkIdle /\ AudioIdle
    \/ machine = "audio" /\ A!AudioInit /\ WalkIdle /\ VideoIdle

Walk  == machine = "walk" /\ P!PsNext /\ UNCHANGED <<machine, videoVars, audioVars>>
Video == machine = "video" /\ V!VideoNext /\ UNCHANGED <<machine, walkVars, audioVars>>
Audio == machine = "audio" /\ A!AudioNext /\ UNCHANGED <<machine, walkVars, videoVars>>
Next  == Walk \/ Video \/ Audio

(* An application that asks for packets until there are no more, and reads *)
(* that return.                                                            *)
Spec == Init /\ [][Next]_vars /\ WF_vars(Walk) /\ WF_vars(Video)

------------------------------------------------------------------------------
(* The splitter of a video stream implements Delivery: however the         *)
(* payloads cut the stream - within a start code, between the zero byte    *)
(* and the prefix - the units come out whole, once each and in order, the  *)
(* intra ones marked; and none is kept back at the end.                    *)
Expected == IF machine = "video" THEN 1..Pictures ELSE {}
CutOut   == IF machine = "video" THEN V!Numbers ELSE << >>
D == INSTANCE Delivery WITH owed <- Expected, delivered <- CutOut

UnitsDelivered == D!Spec

(* The other properties of the three, of the one that runs.                *)
PacketsInOrder  == machine = "walk" => P!PacketsInOrder
StreamsFound    == machine = "walk" => P!StreamsFound
PosWithinBuffer == machine = "walk" => P!PosWithinBuffer
Ends            == machine = "walk" ~> P!Walked

(* A frame of audio comes out whole, and every frame with the time that is *)
(* its own.                                                                *)
FramesWhole == machine = "audio" => A!FramesWhole /\ A!StampsTrue

(* A unit of video has the PTS written for it, and no other unit has it.   *)
StampsBelong == machine = "video" => V!StampsBelong
=============================================================================
