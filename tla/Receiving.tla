----------------------------- MODULE Receiving ------------------------------
(***************************************************************************)
(* What takes in the stream a multiplexer sends, one machine at a time.    *)
(* The analyzers: the continuity, splice and PCR walk of validate_ts       *)
(* (Validator), the buffers of analyze_tstd (DecoderBuffers), the schedule *)
(* the bytes are put through them on (ArrivalClock) and PCR recovery       *)
(* (PcrRecovery).  And a receiver: opening a program from its tables       *)
(* (Discovery), its PES packets from TS packets (PesReassembler).  The     *)
(* variables of the machines that do not run are idle, those of the        *)
(* validator as they begin.                                                *)
(***************************************************************************)
EXTENDS Validator

CONSTANTS
    Machines,                                                \* those that may run
    Branches, ByteTicks, TbTicks, LeakTicks, TbSize, MainSize, MbSize, EbSizes, BsysSize,
    SysDrain, Second, TsHeader, Payloads,
    PesHeader, Stuffings, Tail2s, Delays, TsPackets,                    \* DecoderBuffers
    M, Ratio, Phases, Gaps, Paces, Leads, MaxSamples,        \* ArrivalClock
    RingSize, BytePace, Wobble, MaxGap, MaxJitter, Jumps, Origins, MaxSent, \* PcrRecovery
    Configs, Rounds, TableRoom, ProbeLimit, VideoLimit, Drops, CounterValues, \* Discovery
    Pids, MaxPes, MaxFrags, Fates, Faults, Malformed, Seeks  \* PesReassembler

VARIABLES
    machine,
    branch, ebSize, packets, now, stage, coming, tb, scanner, openAu, inflow, pending, buffer,
    found, trail,                                            \* DecoderBuffers
    samples, flagged, phase, arrived,                        \* ArrivalClock
    ticks, transmitted, distance, received, newest, older, announced, since,
    outcome,                                                 \* PcrRecovery
    config, counters, written, wire, state, want, from, upcoming, dropped, partial, listed,
    pcrPid, opened, resume, need, units, seen,               \* Discovery
    buf, started, currentRai, pendingRai, emitted, failures, eofReached, pes, malformed,
    mishaps, sought, indicated, attached, rai, expected, touched  \* PesReassembler

B == INSTANCE DecoderBuffers WITH MaxPackets <- TsPackets, charges <- found
C == INSTANCE ArrivalClock WITH truth <- arrived
R == INSTANCE PcrRecovery WITH
         clock <- ticks, sent <- transmitted, spacing <- distance, offset <- received,
         last <- newest, prev <- older, MaxSpacing <- MaxGap, event <- outcome
O == INSTANCE Discovery WITH stage <- state
P == INSTANCE PesReassembler WITH
         errors <- failures, announced <- indicated, hit <- touched, faults <- mishaps

ASSUME PcrAssumption  == C!PaceAssumption /\ R!JitterAssumption
ASSUME OpenAssumption == O!TableAssumption /\ O!ChannelAssumption
ASSUME PesAssumption  == P!PidAssumption /\ P!FateAssumption /\ P!BoundAssumption

bufferVars == <<branch, ebSize, packets, now, stage, coming, tb, scanner, openAu, inflow,
                pending, buffer, found, trail>>
clockVars  == <<samples, flagged, phase, arrived>>
pcrVars    == <<ticks, transmitted, distance, received, newest, older, announced, since, outcome>>
openVars   == <<config, counters, written, wire, state, want, from, upcoming, dropped, partial,
                listed, pcrPid, opened, resume, need, units, seen>>
pesVars    == <<buf, started, currentRai, pendingRai, emitted, failures, eofReached, pes,
                malformed, mishaps, sought, indicated, attached, rai, expected, touched>>
allVars    == <<machine, valVars, bufferVars, clockVars, pcrVars, openVars, pesVars>>

WalkIdle == ValInit /\ base = CHOOSE b \in Bases : TRUE
BuffersIdle ==
    /\ branch = "idle" /\ ebSize = "idle" /\ packets = "idle" /\ now = "idle"
    /\ stage = "idle" /\ coming = "idle" /\ tb = "idle" /\ scanner = "idle"
    /\ openAu = "idle" /\ inflow = "idle" /\ pending = "idle" /\ buffer = "idle"
    /\ found = "idle" /\ trail = "idle"
ClockIdle ==
    samples = "idle" /\ flagged = "idle" /\ phase = "idle" /\ arrived = "idle"
PcrIdle ==
    /\ ticks = "idle" /\ transmitted = "idle" /\ distance = "idle" /\ received = "idle"
    /\ newest = "idle" /\ older = "idle" /\ announced = "idle" /\ since = "idle"
    /\ outcome = "idle"
OpenIdle ==
    /\ config = "idle" /\ counters = "idle" /\ written = "idle" /\ wire = "idle"
    /\ state = "idle" /\ want = "idle" /\ from = "idle" /\ upcoming = "idle"
    /\ dropped = "idle" /\ partial = "idle" /\ listed = "idle" /\ pcrPid = "idle"
    /\ opened = "idle" /\ resume = "idle" /\ need = "idle" /\ units = "idle" /\ seen = "idle"
PesIdle ==
    /\ buf = "idle" /\ started = "idle" /\ currentRai = "idle" /\ pendingRai = "idle"
    /\ emitted = "idle" /\ failures = "idle" /\ eofReached = "idle" /\ pes = "idle"
    /\ malformed = "idle" /\ mishaps = "idle" /\ sought = "idle" /\ indicated = "idle"
    /\ attached = "idle" /\ rai = "idle" /\ expected = "idle" /\ touched = "idle"

AllInit ==
    /\ machine \in Machines
    /\ IF machine = "walk" THEN ValInit ELSE WalkIdle
    /\ IF machine = "buffers" THEN B!BufInit ELSE BuffersIdle
    /\ IF machine = "clock" THEN C!ClockInit ELSE ClockIdle
    /\ IF machine = "pcr" THEN R!RecoveryInit ELSE PcrIdle
    /\ IF machine = "open" THEN O!DiscoveryInit ELSE OpenIdle
    /\ IF machine = "pes" THEN P!Init ELSE PesIdle

Walk ==
    /\ machine = "walk" /\ ValNext
    /\ UNCHANGED <<machine, bufferVars, clockVars, pcrVars, openVars, pesVars>>
Replay ==
    /\ machine = "buffers" /\ B!BufNext
    /\ UNCHANGED <<machine, valVars, clockVars, pcrVars, openVars, pesVars>>
Collect ==
    /\ machine = "clock" /\ C!ClockNext
    /\ UNCHANGED <<machine, valVars, bufferVars, pcrVars, openVars, pesVars>>
Recover ==
    /\ machine = "pcr" /\ R!RecoveryNext
    /\ UNCHANGED <<machine, valVars, bufferVars, clockVars, openVars, pesVars>>
Open ==
    /\ machine = "open" /\ O!DiscoveryNext
    /\ UNCHANGED <<machine, valVars, bufferVars, clockVars, pcrVars, pesVars>>
Reassemble ==
    /\ machine = "pes" /\ P!Next
    /\ UNCHANGED <<machine, valVars, bufferVars, clockVars, pcrVars, openVars>>

AllNext == Walk \/ Replay \/ Collect \/ Recover \/ Open \/ Reassemble
AllSpec == AllInit /\ [][AllNext]_allVars

------------------------------------------------------------------------------
(* The properties of the validator are stated in Validator; those of the   *)
(* others are asked while they run: of the buffers,                        *)
BuffersAreTrue ==
    machine = "buffers" => /\ B!TransportVerdict /\ B!BusyVerdict /\ B!SystemVerdict
                           /\ B!MainVerdict /\ B!RoomVerdict /\ B!DelayVerdict
                           /\ B!VideoVerdict /\ B!EbWithinBounds

(* of the schedule and of what is recovered from PCRs as they come.        *)
ArrivalIsTrue ==
    /\ machine = "clock" => C!ArrivalIsTrue
    /\ machine = "pcr" => R!RecoveryIsTrue
DecodeIsTrue  == machine = "clock" => C!DecodeIsTrue

(* A receiver that tunes in opens the program it asked for as the muxer    *)
(* was configured with it;                                                 *)
ProgramFound == machine = "open" => O!ProgramFound

(* and the tables it is opened from count on, and tell the validator what  *)
(* it needs to know of each PID;                                           *)
ProgramsReach == machine = "open" => O!CountersRun /\ O!ProgramFound /\ O!SurveyIsTrue

(* the PES packets no fault touched come out whole, once and in order.     *)
FaultsAreLocal == machine = "pes" => P!FaultsAreLocal
==============================================================================
