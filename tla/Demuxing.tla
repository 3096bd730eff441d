------------------------------ MODULE Demuxing ------------------------------
(***************************************************************************)
(* Machines the demuxer is made of, one at a time: reading packets and     *)
(* finding the grid again (PacketReader), putting sections together        *)
(* (PsiAssembler), turning timestamps into times (Timeline), the duration  *)
(* probe and the bisection of a seek (PcrSeek).  The variables of the      *)
(* machines that do not run are idle, those of the seek as they begin.     *)
(***************************************************************************)
EXTENDS PcrSeek, Sequences

CONSTANTS
    PSize, SyncOffset, FilePackets, ResyncLimit, Coincidences, CorruptHeader,
                                                             \* PacketReader
    Lengths, Sections, Payload, MaxLen, CCMod, Losses, Repeats, CutHeaders,
                                                             \* PsiAssembler
    Turn, Units, Steps, Delays, PcrLead, Reorder, Straddle   \* Timeline

VARIABLES
    machine,
    file, sound, cursor, putback, bytesRead, reading, tries, log, opened, eof,
                                                             \* PacketReader
    sections, at, cc, losses, repeats, hit, inFlight, targetLen, lastCC, delivered, errors,
    packet,                                                  \* PsiAssembler
    stream, pos, next, pts, dts, outPts, outDts              \* Timeline

R == INSTANCE PacketReader WITH Packets <- FilePackets, pc <- reading
S == INSTANCE PsiAssembler WITH Straddle <- CutHeaders, stream <- sections
T == INSTANCE Timeline WITH M <- Turn

ASSUME ReaderAssumption   == R!LayoutAssumption /\ R!FileAssumption
ASSUME SectionAssumption  == S!SizeAssumption
ASSUME TimelineAssumption == T!ModulusAssumption /\ T!StepAssumption /\ T!SwitchAssumption

readerVars == <<file, sound, cursor, putback, bytesRead, reading, tries, log, opened, eof>>
psiVars    == <<sections, at, cc, losses, repeats, hit, inFlight, targetLen, lastCC, delivered,
                errors, packet>>
timeVars   == <<stream, pos, next, pts, dts, outPts, outDts>>
seekVars   == vars
allVars    == <<machine, readerVars, psiVars, timeVars, seekVars>>

ReaderIdle ==
    /\ file = "idle" /\ sound = "idle" /\ cursor = "idle" /\ putback = "idle"
    /\ bytesRead = "idle" /\ reading = "idle" /\ tries = "idle" /\ log = "idle"
    /\ opened = "idle" /\ eof = "idle"
PsiIdle ==
    /\ sections = "idle" /\ at = "idle" /\ cc = "idle" /\ losses = "idle"
    /\ repeats = "idle" /\ hit = "idle" /\ inFlight = "idle" /\ targetLen = "idle"
    /\ lastCC = "idle" /\ delivered = "idle" /\ errors = "idle" /\ packet = "idle"
TimeIdle ==
    /\ stream = "idle" /\ pos = "idle" /\ next = "idle" /\ pts = "idle" /\ dts = "idle"
    /\ outPts = "idle" /\ outDts = "idle"
SeekIdle == pcr = [k \in Packet |-> NoPcr] /\ Init

AllInit ==
    /\ machine \in {"reader", "sections", "timeline", "seek"}
    /\ IF machine = "reader" THEN R!Init ELSE ReaderIdle
    /\ IF machine = "sections" THEN S!Init ELSE PsiIdle
    /\ IF machine = "timeline" THEN T!Init ELSE TimeIdle
    /\ IF machine = "seek" THEN Init ELSE SeekIdle

ReaderAlone ==
    machine = "reader" /\ UNCHANGED <<machine, psiVars, timeVars, seekVars>>
PsiAlone ==
    machine = "sections" /\ UNCHANGED <<machine, readerVars, timeVars, seekVars>>
TimeAlone ==
    machine = "timeline" /\ UNCHANGED <<machine, readerVars, psiVars, seekVars>>
SeekAlone ==
    machine = "seek" /\ UNCHANGED <<machine, readerVars, psiVars, timeVars>>

Reading == ReaderAlone /\ (R!ReadOnePacket \/ R!ResyncChunk \/ R!ResyncFails)

AllNext ==
    \/ ReaderAlone /\ R!Next
    \/ PsiAlone /\ S!Next
    \/ TimeAlone /\ T!Next
    \/ SeekAlone /\ Next

(* A caller that goes on asking for packets, and calls that return.        *)
AllSpec ==
    /\ AllInit /\ [][AllNext]_allVars
    /\ WF_allVars(Reading)
    /\ WF_allVars(SeekAlone /\ Probe) /\ WF_allVars(SeekAlone /\ Bisect)

------------------------------------------------------------------------------
(* The packet reader implements Delivery: the sound packets of a clear     *)
(* file come out, all of them, once, in order and on the packet grid,      *)
(* wherever a resync recovered and wherever open() resumed.                *)
ClearFile == machine = "reader" /\ R!Clear

D == INSTANCE Delivery WITH
         owed      <- IF ClearFile THEN sound ELSE {},
         delivered <- IF ClearFile THEN R!Numbers ELSE << >>

ReaderDelivers == D!Spec

(* The properties of the other machines, of the one that runs: no long     *)
(* corruption is passed over;                                              *)
LongCorruptionIsReported == machine = "reader" => R!LongCorruptionIsReported

(* a loss costs the sections it touched, and none is glued from two;       *)
SectionsSurvive == machine = "sections" => S!LossIsLocal /\ S!NoMisassembly

(* the extended PTS are the true presentation times;                       *)
PtsExact == machine = "timeline" => T!PtsExact

(* DTS, the access-point index and the PCRs are read on the axis of the    *)
(* PTS, before a seek and behind it;                                       *)
AxesAgree ==
    machine = "timeline" => T!SameAxis /\ T!IndexAxis /\ T!PcrAxis

(* the file opens, and every seek returns.                                 *)
SeekReturns ==
    /\ (machine = "seek" /\ pc = "open") ~> (pc \in {"ready", "unseekable"})
    /\ (machine = "seek" /\ pc = "search") ~> (pc = "landed")
==============================================================================
