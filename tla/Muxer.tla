------------------------------- MODULE Muxer -------------------------------
(***************************************************************************)
(* The write path of the muxer without a mux rate (muxer.rs): repetition   *)
(* of the program tables, the PCRs inserted ahead of a PES, the PES cut    *)
(* into TS packets with its inline PCR, and the two things a caller may    *)
(* announce between frames, a splicing point and a new time base.  One     *)
(* program; one step is one TS packet, or the entry into a call.           *)
(*                                                                         *)
(* The unit of time is the 900 ticks a PCR stays behind its PTS; the unit  *)
(* of size is a part of a TS packet.  Continuity counters are those of     *)
(* module ContinuityCounter and left out.                                  *)
(***************************************************************************)
EXTENDS Integers, Sequences, FiniteSets, FiniteSetsExt

CONSTANTS
    Tracks,         \* elementary streams of the program
    PcrTrack,       \* the one on the PCR_PID
    M,              \* modulus of a coded time (2^33)
    PcrInterval,    \* PCR_MAX_INTERVAL_90K
    PsiInterval,    \* psi_repetition_90k
    Sizes,          \* sizes of the PES of a frame
    Unbounded,      \* the tracks with a stream_id of video
    MaxBounded,     \* PES_packet_length bounds the PES of the others
    MaxRun,         \* longest run a splice_countdown can count (128)
    Posts,          \* post_splice_packets
    Steps,          \* stream time from one frame to the next
    Late,           \* how far before the latest frame a frame may be shown
    Bases,          \* offsets of the time base
    StepBack,       \* a new time base may be below the old one
    MaxTime, MaxFrames, MaxSplices, MaxRebases      \* bounds

ASSUME TrackAssumption == PcrTrack \in Tracks /\ Unbounded \subseteq Tracks
ASSUME ClockAssumption ==
    /\ PcrInterval \in Nat \ {0, 1} /\ M \in Nat /\ M > 2 * PcrInterval
    /\ PsiInterval \in Nat \ {0} /\ Steps \subseteq Nat /\ Late \in Nat /\ Bases \subseteq Nat
ASSUME SizeAssumption ==
    /\ Sizes \subseteq Nat \ {0} /\ MaxBounded \in Nat \ {0}
    /\ MaxRun \in Nat \ {0, 1}
    /\ Posts \subseteq Nat /\ \E most \in Posts : \A post \in Posts : post <= most
ASSUME BoundAssumption ==
    MaxTime \in Nat /\ MaxFrames \in Nat /\ MaxSplices \in Nat /\ MaxRebases \in Nat

VARIABLES
    lastPcr,        \* last_pcr_pts
    pendingDiscontinuity,
    lastPsi,        \* last_psi_pts
    pendingSplice,  \* by track: post_splice_packets of the armed point
    postSplice,     \* by track: <<next, total>>
    phase,          \* "idle", or "pcr" and "pes" within write_pes_packet
    job,            \* the frame in hand
    inline,         \* the PCR its next packet carries
    now, base,      \* history: the latest frame's stream time; PTS = time + base
    psiAt,          \* history: stream time of the last tables
    pcrs,           \* history: the last two PCRs on the wire
    epoch,          \* history: time bases announced
    countdown,      \* history: by track, splice_countdown of its last payload packet
    after,          \* history: by track, payload packets since its splicing point
                    \* and how many of them were to be annotated
    frames, splices \* bounds

state  == <<lastPcr, pendingDiscontinuity, lastPsi, pendingSplice, postSplice, phase, job, inline>>
vars   == <<state, now, base, psiAt, pcrs, epoch, countdown, after, frames, splices>>

None  == -1
NoRun == <<0, 0>>           \* no negative countdown
NoCountdown == MaxRun       \* a packet without splicing_point_flag
NoJob == << >>
Guard == 1          \* 900 ticks

Lowered(p) == IF p > Guard THEN p - Guard ELSE 0

------------------------------------------------------------------------------
(* AdaptationFieldSpec::encode, in units: an empty one takes no room.      *)
Room == 8
AfSize(flags, pcr, splice) ==
    IF flags \/ pcr # None \/ splice THEN 1 + (IF pcr # None THEN 2 ELSE 0) + (IF splice THEN 1 ELSE 0)
    ELSE 0

PacketsNeeded(remaining, first, cont) ==
    IF remaining <= first THEN 1 ELSE 1 + (remaining - first + cont - 1) \div cont

(* build_pes: one PES, or several when the length field cannot hold it.    *)
Envelopes(t, size) ==
    LET full == (size - 1) \div MaxBounded      \* PES filled to the last byte
    IN  IF t \in Unbounded THEN <<size>>
        ELSE Append([i \in 1..full |-> MaxBounded], size - full * MaxBounded)

------------------------------------------------------------------------------
Init ==
    /\ lastPcr = None /\ pendingDiscontinuity = FALSE /\ lastPsi = None
    /\ pendingSplice = [t \in Tracks |-> None]
    /\ postSplice = [t \in Tracks |-> NoRun]
    /\ phase = "idle" /\ job = NoJob /\ inline = None
    /\ now = 0 /\ base \in Bases /\ psiAt = 0 /\ epoch = 0
    /\ pcrs = [prev |-> None, last |-> None, marked |-> FALSE, prevEpoch |-> 0, epoch |-> 0]
    /\ countdown = [t \in Tracks |-> NoCountdown]
    /\ after = [t \in Tracks |-> NoRun]
    /\ frames = 0 /\ splices = 0

(* signal_splice_after *)
SignalSplice(t, post) ==
    /\ phase = "idle" /\ splices < MaxSplices
    /\ pendingSplice' = [pendingSplice EXCEPT ![t] = post]
    /\ splices' = splices + 1
    /\ UNCHANGED <<lastPcr, pendingDiscontinuity, lastPsi, postSplice, phase, job, inline>>
    /\ UNCHANGED <<now, base, psiAt, pcrs, epoch, countdown, after, frames>>

(* signal_time_base_discontinuity *)
SignalDiscontinuity(b) ==
    /\ phase = "idle" /\ epoch < MaxRebases
    /\ StepBack \/ b >= base
    /\ pendingDiscontinuity' = TRUE
    /\ lastPcr' = None
    /\ base' = b /\ epoch' = epoch + 1
    /\ UNCHANGED <<lastPsi, pendingSplice, postSplice, phase, job, inline>>
    /\ UNCHANGED <<now, psiAt, pcrs, countdown, after, frames, splices>>

(* maybe_repeat_psi: the first frame only starts the count, the tables     *)
(* having been written by write_header.                                    *)
RepeatPsiReanchored(pts, time) ==       \* mutant: every frame restarts the count
    /\ lastPsi' = pts
    /\ psiAt' = IF lastPsi = None \/ pts - lastPsi >= PsiInterval THEN time ELSE psiAt

RepeatPsi(pts, time) ==
    IF lastPsi = None \/ pts - lastPsi >= PsiInterval
    THEN lastPsi' = pts /\ psiAt' = time
    ELSE UNCHANGED <<lastPsi, psiAt>>

(* write_packet up to the PCRs of write_pes_packet. *)
WriteFrame(t, size, key, timed, time) ==
    /\ phase = "idle" /\ frames < MaxFrames /\ time \in 0 .. MaxTime
    /\ frames' = frames + 1
    /\ now' = IF time > now THEN time ELSE now
    /\ phase' = "pcr"
    /\ job' = [track |-> t, time |-> time, key |-> key, pes |-> Envelopes(t, size),
               pts |-> IF timed THEN time + base ELSE None,
               first |-> TRUE, splice |-> None, run |-> None]
    /\ IF timed THEN RepeatPsi(time + base, time) ELSE UNCHANGED <<lastPsi, psiAt>>
    /\ UNCHANGED <<lastPcr, pendingDiscontinuity, pendingSplice, postSplice, inline>>
    /\ UNCHANGED <<base, pcrs, epoch, countdown, after, splices>>

------------------------------------------------------------------------------
(* A PCR goes out: the wire has its value on the ring, and the indicator   *)
(* that was armed.                                                         *)
SendPcr(value) ==
    /\ pcrs' = [prev |-> pcrs.last, last |-> value % M, marked |-> pendingDiscontinuity,
                prevEpoch |-> pcrs.epoch, epoch |-> epoch]
    /\ pendingDiscontinuity' = FALSE

AtPcr  == phase = "pcr" /\ job.pts # None
Target == Lowered(job.pts)

StandalonePcrUnmarked ==        \* mutant: the indicator waits for an inline PCR
    /\ AtPcr /\ job.track # PcrTrack /\ lastPcr = None
    /\ pcrs' = [prev |-> pcrs.last, last |-> Target % M, marked |-> FALSE,
                prevEpoch |-> pcrs.epoch, epoch |-> epoch]
    /\ lastPcr' = Target
    /\ UNCHANGED <<pendingDiscontinuity, lastPsi, pendingSplice, postSplice, phase, job,
                   inline>>
    /\ UNCHANGED <<now, base, psiAt, epoch, countdown, after, frames, splices>>

StandalonePcrUnguarded ==       \* mutant: stamped with the PTS itself
    /\ AtPcr /\ job.track # PcrTrack /\ lastPcr = None
    /\ SendPcr(job.pts)
    /\ lastPcr' = job.pts
    /\ UNCHANGED <<lastPsi, pendingSplice, postSplice, phase, job, inline>>
    /\ UNCHANGED <<now, base, psiAt, epoch, countdown, after, frames, splices>>

(* write_pcr_only_packet: the program's first PCR, a sibling being first.  *)
StandalonePcr ==
    /\ AtPcr /\ job.track # PcrTrack /\ lastPcr = None
    /\ SendPcr(Target)
    /\ lastPcr' = Target
    /\ UNCHANGED <<lastPsi, pendingSplice, postSplice, phase, job, inline>>
    /\ UNCHANGED <<now, base, psiAt, epoch, countdown, after, frames, splices>>

Lags == lastPcr # None /\ Target - lastPcr > PcrInterval

(* backfill_pcr_chain, one turn. *)
Backfill ==
    /\ AtPcr /\ Lags
    /\ LET next == lastPcr + PcrInterval - Guard IN
       /\ lastPcr' = next
       /\ SendPcr(next)
    /\ UNCHANGED <<lastPsi, pendingSplice, postSplice, phase, job, inline>>
    /\ UNCHANGED <<now, base, psiAt, epoch, countdown, after, frames, splices>>

(* The rest of write_pes_packet before its first TS packet.                *)
BeginPes ==
    /\ phase = "pcr"
    /\ job.pts # None => IF lastPcr = None THEN job.track = PcrTrack ELSE ~Lags
    /\ LET t == job.track IN
       /\ phase' = "pes"
       /\ inline' = IF t = PcrTrack /\ job.pts # None THEN Target ELSE None
       /\ job' = [job EXCEPT !.key = @ /\ (t # PcrTrack \/ job.pts # None),
                             !.splice = pendingSplice[t]]
       /\ lastPcr' = IF inline' = None THEN lastPcr ELSE inline'
       /\ pendingSplice' = [pendingSplice EXCEPT ![t] = None]
    /\ UNCHANGED <<pendingDiscontinuity, lastPsi, postSplice>>
    /\ UNCHANGED <<now, base, psiAt, pcrs, epoch, countdown, after, frames, splices>>

------------------------------------------------------------------------------
(* write_pes_bytes_as_ts.  The splice point is that of the last envelope.  *)
Spliced    == job.splice # None /\ Len(job.pes) = 1
Remaining  == Head(job.pes)
HasFlags   == job.first /\ job.key

(* Packets still to count down, once they fit the field. *)
Run ==
    LET fits == PacketsNeeded(Remaining, Room - AfSize(HasFlags, inline, TRUE),
                                         Room - AfSize(FALSE, None, TRUE))
    IN  IF job.run # None THEN job.run
        ELSE IF fits <= MaxRun THEN fits ELSE None

SpliceCountdown ==
    LET post == postSplice[job.track] IN
    IF Spliced THEN IF Run = None THEN NoCountdown ELSE Run - 1
    ELSE IF post # NoRun THEN -post[1]
    ELSE NoCountdown

(* The negative countdown after this packet: superseded, counted, or armed *)
(* by the splicing point behind it.                                        *)
PostAfterKept(ends) ==          \* mutant: an armed point leaves the old run
    LET post == postSplice[job.track] IN
    IF Spliced THEN IF ends /\ job.splice > 0 THEN <<1, job.splice>> ELSE post
    ELSE IF post[1] < post[2] THEN <<post[1] + 1, post[2]>> ELSE NoRun

PostAfter(ends) ==
    LET post == postSplice[job.track] IN
    IF Spliced THEN IF ends /\ job.splice > 0 THEN <<1, job.splice>> ELSE NoRun
    ELSE IF post[1] < post[2] THEN <<post[1] + 1, post[2]>> ELSE NoRun

PayloadPacket ==
    /\ phase = "pes"
    /\ LET t    == job.track
           cd   == SpliceCountdown
           take == Min({Remaining, Room - AfSize(HasFlags, inline, cd # NoCountdown)})
           ends == take = Remaining
           done == ends /\ Len(job.pes) = 1
       IN  /\ phase' = IF done THEN "idle" ELSE phase
           /\ job' = IF done THEN NoJob
                     ELSE [job EXCEPT !.pes = IF ends THEN Tail(@) ELSE <<Remaining - take>> \o Tail(@),
                                      !.first = FALSE,
                                      !.run = IF Spliced /\ Run # None THEN Run - 1 ELSE None]
           /\ postSplice' = [postSplice EXCEPT ![t] = PostAfter(ends)]
           /\ IF inline = None THEN UNCHANGED <<pcrs,
                                                pendingDiscontinuity>> ELSE SendPcr(inline)
           /\ inline' = None
           /\ countdown' = [countdown EXCEPT ![t] = cd]
           /\ after' = [after EXCEPT ![t] = IF Spliced /\ ends THEN <<0, job.splice>>
                                             ELSE <<Min({@[1] + 1, @[2]}), @[2]>>]
    /\ UNCHANGED <<lastPcr, lastPsi, pendingSplice, now, base, psiAt, epoch, frames, splices>>

------------------------------------------------------------------------------
Next ==
    \/ \E t \in Tracks, post \in Posts : SignalSplice(t, post)
    \/ \E b \in Bases : SignalDiscontinuity(b)
    \/ \E t \in Tracks, size \in Sizes, key, timed \in BOOLEAN, d \in Steps :
          \E time \in {now + d, now - Late} : WriteFrame(t, size, key, timed, time)
    \/ StandalonePcr \/ Backfill \/ BeginPes \/ PayloadPacket

Spec == Init /\ [][Next]_vars

------------------------------------------------------------------------------
Maybe(S) == S \cup {None}

TypeOK ==
    /\ lastPcr \in Maybe(Nat) /\ lastPsi \in Maybe(Nat)
    /\ pendingDiscontinuity \in BOOLEAN
    /\ \A t \in Tracks :
          /\ pendingSplice[t] \in Maybe(Posts)
          /\ postSplice[t] # NoRun => postSplice[t][1] \in 1 .. postSplice[t][2]
          /\ countdown[t] \in -Max(Posts) .. MaxRun
    /\ phase \in {"idle", "pcr", "pes"} /\ inline \in Maybe(Nat)
    /\ phase # "idle" =>
          /\ job.track \in Tracks
          /\ \A i \in 1 .. Len(job.pes) : job.pes[i] > 0
          /\ job.run \in Maybe(1 .. MaxRun)

(* Whatever is interleaved on the PCR_PID, standalone PCRs, backfilled     *)
(* ones and those of a PES, one PCR follows another within the interval    *)
(* and never before it, unless it announces a new time base.               *)
PcrCadence ==
    pcrs.prev # None /\ ~pcrs.marked => (pcrs.last - pcrs.prev) % M <= PcrInterval

(* The first PCR of a new time base has the discontinuity_indicator, and   *)
(* no other PCR has.                                                       *)
FirstOfBaseMarked == pcrs.last # None => (pcrs.marked <=> pcrs.epoch # pcrs.prevEpoch)

(* A frame with a PTS goes out less than the repetition interval of stream *)
(* time after the tables.                                                  *)
TablesRepeated ==
    phase # "idle" => (job.pts # None => job.time - psiAt < PsiInterval)

(* A positive splice_countdown goes on to zero packet by packet, is zero   *)
(* on the packet with the last byte of the frame the point was armed for   *)
(* and on no other; outside of that envelope just the packets asked for    *)
(* after a point carry a negative one, their number since that point.      *)
CountdownKept ==
    [][phase = "pes" =>
         LET t == job.track
             was == countdown[t]
             is  == countdown'[t]
         IN  /\ was \in 1 .. MaxRun - 1 => is = was - 1
             /\ is = 0 <=> job.splice # None /\ phase' = "idle"
             /\ ~Spliced => is = IF after[t][1] < after[t][2] THEN -(after[t][1] + 1) ELSE NoCountdown]_vars
=============================================================================
