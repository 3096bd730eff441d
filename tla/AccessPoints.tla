---------------------------- MODULE AccessPoints ----------------------------
(***************************************************************************)
(* Keyframe seeking in the demuxer (demuxer.rs): the index a full scan of  *)
(* the file builds, the scan of a window before the target that spares the *)
(* full scan, and the choice seek_to_access_point makes between the two,   *)
(* one round of its back-off at a time; the seek by indicators alone       *)
(* (seek_to_random_access), and the fall back to the PCR (seek_to).        *)
(*                                                                         *)
(* The packets of the elementary streams are numbered in file order; a     *)
(* packet may also carry a PCR, or be there for the PCR alone.  The PCR    *)
(* bisection is represented by what Demuxing_proofs proves of it: the      *)
(* landing does not pass the target and misses at most a PCR in the packet *)
(* after it.  Times are those on the extended axis, which module Timeline  *)
(* shows to be one for PTS, PCR and index.                                 *)
(***************************************************************************)
EXTENDS Integers, FiniteSets, FiniteSetsExt

CONSTANTS
    Packets,    \* packets in the file
    MaxPcrs,    \* most packets that carry a PCR
    MaxAudio,   \* most packets of the second stream
    Targets,    \* times the caller asks for
    Grace,      \* REORDER_GRACE_90K
    Back,       \* the first step back, one second in the code
    Direct      \* FALSE: seek_to is called; TRUE: seek_to_access_point itself

ASSUME BoundAssumption ==
    Packets \in Nat \ {0} /\ MaxPcrs \in Nat /\ MaxAudio \in Nat /\ Targets \subseteq Nat
ASSUME StepAssumption == Grace \in Nat /\ Back \in Nat \ {0}

VARIABLES
    file,       \* the shape of each packet
    pcrs,       \* the packets that carry a PCR
    index,      \* rap_index, as a scan of the file builds it
    cached,     \* rap_index is there
    pc,         \* "idle", "window" within seek_to_access_point, "indicated"
                \* within seek_to_random_access
    wanted,     \* the stream asked for, or AnyStream
    target,     \* the time asked for
    probe,      \* probe_target of the running round
    back,       \* the next step back
    direct,     \* which of the two is called
    astray,     \* the input is where the scan of a window stopped
    landing     \* what the last seek returned

vars == <<file, pcrs, index, cached, pc, wanted, target, probe, back, direct, astray, landing>>

None   == -1
Packet == 1 .. Packets
Streams   == {"video", "audio"}
AnyStream == "any"

(* What a packet holds of its stream: the random_access_indicator, a PES   *)
(* start, its data_alignment_indicator, and how far its PTS is past the    *)
(* clock (None without PTS).  A key picture is shown after pictures that   *)
(* follow it in the file.                                                  *)
Shape(stream, rai, start, dai, delay) ==
    [stream |-> stream, rai |-> rai, start |-> start, dai |-> dai, delay |-> delay]

Shapes == {Shape("video", FALSE, FALSE, FALSE, None),    \* nothing, or a continuation
           Shape("video", TRUE,  FALSE, FALSE, None),    \* the indicator alone
           Shape("video", FALSE, TRUE,  FALSE, None),    \* a PES without PTS
           Shape("video", FALSE, TRUE,  FALSE, 1),
           Shape("video", FALSE, TRUE,  TRUE,  2),
           Shape("video", TRUE,  TRUE,  FALSE, 4),
           Shape("audio", TRUE,  TRUE,  FALSE, 3)}

ASSUME GraceCoversReordering == \A s \in Shapes : s.delay - 3 <= Grace

Clock(k) == 2 * k
Pts(k)   == IF file[k].delay = None THEN None ELSE Clock(k) + file[k].delay

Of(wish)  == {k \in Packet : wish \in {file[k].stream, AnyStream}}
Starts(a) == {k \in a .. Packets : file[k].start}

Point(off, pts, kind) == [off |-> off, pts |-> pts, kind |-> kind]
NoPoint == Point(0, None, "none")

------------------------------------------------------------------------------
(* scan_random_access_points: a flagged packet is a point with the PTS of  *)
(* the next PES to start (if it has one); a data-aligned PES nothing       *)
(* announced is one of the weak kind.                                      *)
Announces(k)   == {s \in Starts(k) \cap Of(file[k].stream) :
                      \A j \in k .. s - 1 : j \in Of(file[k].stream) => ~file[j].start}
Announced(s)   == \E k \in 1 .. s : file[k].rai /\ s \in Announces(k)
Indicated      == {k \in Packet : file[k].rai}

IndexAnchoredAtStart ==         \* mutant: the point is where the PES starts
    {Point(s, Pts(s), "rai") : s \in {j \in Starts(1) : Announced(j) /\ Pts(j) # None}}
        \cup {Point(s, Pts(s), "dai") :
                 s \in {j \in Starts(1) : ~Announced(j) /\ file[j].dai /\ Pts(j) # None}}

ScannedIndex ==
    {Point(e[1], Pts(e[2]), "rai") : e \in
        {a \in Indicated \X Starts(1) : a[2] \in Announces(a[1]) /\ Pts(a[2]) # None}}
    \cup {Point(s, Pts(s), "dai") :
             s \in {j \in Starts(1) : ~Announced(j) /\ file[j].dai /\ Pts(j) # None}}

LastOf(points)  == CHOOSE p \in points : \A q \in points : q.off <= p.off
FirstOf(points) == CHOOSE p \in points : \A q \in points : p.off <= q.off

(* The choice of seek_via_index, *)
ViaIndex ==
    LET Kind(kind)   == {p \in index : p.kind = kind /\ p.off \in Of(wanted)}
        Before(kind) == {p \in Kind(kind) : p.pts <= target}
    IN  IF Before("rai") # {} THEN LastOf(Before("rai"))
        ELSE IF Before("dai") # {} THEN LastOf(Before("dai"))
        ELSE IF Kind("rai") # {} THEN FirstOf(Kind("rai"))
        ELSE IF Kind("dai") # {} THEN FirstOf(Kind("dai"))
        ELSE NoPoint

(* and that of seek_to_random_access. *)
ViaIndicator ==
    LET points == {p \in index : p.kind = "rai" /\ p.off \in Of(wanted)}
        before == {p \in points : p.pts <= target}
    IN  IF before # {} THEN LastOf(before)
        ELSE IF points # {} THEN FirstOf(points)
        ELSE NoPoint

------------------------------------------------------------------------------
(* The PCR anchors, and the packets a bisection for t may land on.  A      *)
(* single PCR is no anchor, and as good as none.                           *)
FirstPcr == Min(pcrs)
LastPcr  == Max(pcrs)
Anchored == Cardinality(pcrs) >= 2

Located(t) ==
    IF t <= Clock(FirstPcr) THEN {FirstPcr}
    ELSE IF t >= Clock(LastPcr) THEN {LastPcr}
    ELSE {k \in pcrs : Clock(k) <= t /\ \A j \in pcrs : j >= k + 2 => Clock(j) > t}

(* scan_access_points_window: one packet, and the scan from a packet on.   *)
Scan(pending, rai, dai, done) == [pending |-> pending, rai |-> rai, dai |-> dai, done |-> done]

ScanStart(s, k, pending) ==
    LET hit == Pts(k) <= target IN
    Scan(None,
         IF pending # None /\ hit THEN Point(pending, Pts(k), "rai") ELSE s.rai,
         IF pending = None /\ hit /\ file[k].dai THEN Point(k, Pts(k), "dai") ELSE s.dai,
         Pts(k) > target + Grace)

ScanPacket(s, k) ==
    LET pending == IF file[k].rai /\ s.pending = None THEN k ELSE s.pending IN
    IF s.done \/ k \notin Of(wanted) THEN s
    ELSE IF ~file[k].start THEN [s EXCEPT !.pending = pending]
    ELSE IF Pts(k) = None THEN [s EXCEPT !.pending = None]
    ELSE ScanStart(s, k, pending)

Window(from) ==
    LET scan[k \in from - 1 .. Packets] ==
            IF k = from - 1 THEN Scan(None, NoPoint, NoPoint, FALSE)
            ELSE ScanPacket(scan[k - 1], k)
    IN  scan[Packets]

------------------------------------------------------------------------------
Init ==
    /\ file \in {f \in [Packet -> Shapes] :
                    Cardinality({k \in Packet : f[k].stream = "audio"}) <= MaxAudio}
    /\ pcrs \in {s \in SUBSET Packet : Cardinality(s) \in {0} \cup 2 .. MaxPcrs}
    /\ index = ScannedIndex
    /\ cached = FALSE
    /\ pc = "idle" /\ wanted = AnyStream /\ target = 0 /\ probe = 0 /\ back = Back
    /\ direct = FALSE /\ astray = FALSE
    /\ landing = NoPoint

(* random_access_points: the input is put back where it was. *)
CacheIndex ==
    /\ pc = "idle"
    /\ cached' = TRUE
    /\ landing' = NoPoint
    /\ UNCHANGED <<file, pcrs, index, pc, wanted, target, probe, back, direct, astray>>

Land(point) ==
    /\ pc' = "idle"
    /\ landing' = point
    /\ probe' = target /\ back' = Back

(* seek_to, and seek_to_access_point up to its loop; or                    *)
(* seek_to_random_access, of one stream or of all.  Nothing of the seek    *)
(* before is kept but the index.                                           *)
Seek ==
    /\ pc = "idle"
    /\ \/ pc' = "window" /\ wanted' \in Streams /\ direct' \in Direct
       \/ pc' = "indicated" /\ wanted' \in Streams \cup {AnyStream} /\ direct' = FALSE
    /\ Of(wanted') # {}
    /\ target' \in Targets
    /\ probe' = target' /\ back' = Back
    /\ landing' = NoPoint
    /\ UNCHANGED <<file, pcrs, index, cached, astray>>

(* reposition ends every seek but one with nothing to land on.             *)
Reposition == astray' = (astray /\ landing' = NoPoint)

SeekByIndicator ==
    /\ pc = "indicated"
    /\ Land(ViaIndicator) /\ Reposition
    /\ cached' = TRUE
    /\ UNCHANGED <<file, pcrs, index, wanted, target, direct>>

(* A stream without access points: seek_to goes on with seek_by_pcr, where *)
(* there are PCRs.                                                         *)
LandOnPcr ==
    IF direct \/ ~Anchored THEN Land(NoPoint)
    ELSE \E k \in Located(target) : Land(Point(k, Clock(k), "pcr"))
LandViaIndex ==
    /\ cached' = TRUE
    /\ LET point == ViaIndex IN IF point = NoPoint THEN LandOnPcr ELSE Land(point)

SeekByIndex ==
    /\ pc = "window"
    /\ cached \/ ~Anchored
    /\ LandViaIndex /\ Reposition
    /\ UNCHANGED <<file, pcrs, index, wanted, target, direct>>

(* A round that finds an announced point. *)
RoundAnnounced(scan) ==
    /\ scan.rai # NoPoint
    /\ Land(scan.rai)
    /\ UNCHANGED cached

(* A round that finds only aligned ones: whether they count depends on     *)
(* whether the stream uses the indicator anywhere.                         *)
RoundAlignedTrusting(scan) ==   \* mutant: the index is not asked
    /\ scan.rai = NoPoint /\ scan.dai # NoPoint
    /\ Land(scan.dai)
    /\ UNCHANGED cached

RoundAligned(scan) ==
    /\ scan.rai = NoPoint /\ scan.dai # NoPoint
    /\ IF Indicated \cap Of(wanted) # {} THEN LandViaIndex
       ELSE cached' = TRUE /\ Land(scan.dai)

RoundStuck(from, scan) ==       \* mutant: the next round does not step back
    /\ scan.rai = NoPoint /\ scan.dai = NoPoint
    /\ IF from <= FirstPcr
       THEN LandViaIndex
       ELSE /\ probe' = Clock(from) /\ back' = back
            /\ UNCHANGED <<cached, pc, landing>>

(* A round that finds nothing steps further back, or ends at the head.     *)
RoundEmpty(from, scan) ==
    /\ scan.rai = NoPoint /\ scan.dai = NoPoint
    /\ IF from <= FirstPcr
       THEN LandViaIndex
       ELSE /\ probe' = Clock(from) - back
            /\ back' = 2 * back
            /\ UNCHANGED <<cached, pc, landing>>

Round ==
    /\ pc = "window"
    /\ ~cached /\ Anchored
    /\ \E from \in Located(probe) :
          LET scan == Window(from)
          IN  RoundAnnounced(scan) \/ RoundAligned(scan) \/ RoundEmpty(from, scan)
    /\ astray' = (landing' = NoPoint)              \* the scan moves the input
    /\ UNCHANGED <<file, pcrs, index, wanted, target, direct>>

Next == CacheIndex \/ Seek \/ SeekByIndicator \/ SeekByIndex \/ Round

SeekStep == SeekByIndicator \/ SeekByIndex \/ Round
Spec == Init /\ [][Next]_vars /\ WF_vars(SeekStep)

------------------------------------------------------------------------------
TypeOK ==
    /\ file \in [Packet -> Shapes] /\ pcrs \subseteq Packet
    /\ cached \in BOOLEAN /\ pc \in {"idle", "window", "indicated"}
    /\ wanted \in Streams \cup {AnyStream}
    /\ target \in Targets \cup {0}
    /\ landing # NoPoint => landing.off \in Packet /\ landing.pts \in Nat
    /\ direct \in Direct \cup {FALSE} /\ astray \in BOOLEAN
    \* no round looks past the target
    /\ pc = "window" => probe <= target /\ back >= Back

Landed == pc = "idle" /\ landing # NoPoint

(* seek_to_access_point returns the time, and a point of the kind, that    *)
(* the full index would have chosen, whichever window it looked at: a seek *)
(* gives the same answer before and after the index is cached, and the one *)
(* seek_to_random_access gives, unless that has to clamp.  Only a stream   *)
(* without access points is sought by its clock.                           *)
SameAsIndex ==
    Landed =>
        LET chosen == ViaIndex
        IN  IF landing.kind = "pcr" THEN chosen = NoPoint
            ELSE \/ landing.pts = chosen.pts /\ landing.kind = chosen.kind
                 \/ landing.pts > target /\ landing = ViaIndicator

(* The first PES of its stream to start at or after the landing is the one *)
(* whose PTS was returned, and it comes out as a keyframe if the point was *)
(* an announced one: the indicator is not before the landing.  A seek that *)
(* fails leaves the input where it was.                                    *)
DeliversTheLanding ==
    /\ pc = "idle" => ~astray
    /\ Landed /\ landing.kind # "pcr" =>
           \E s \in Announces(landing.off) \cap Of(wanted) :
               /\ Pts(s) = landing.pts
               /\ landing.kind = "rai" =>
                      \E k \in landing.off .. s : k \in Of(file[s].stream) /\ file[k].rai

(* Every seek returns. *)
SeekReturns == pc # "idle" ~> pc = "idle"
=============================================================================
