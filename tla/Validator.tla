------------------------------ MODULE Validator ------------------------------
(***************************************************************************)
(* validate_ts (validate.rs) on one PCR PID of the stream ContinuityCounter *)
(* sends through its channel: the second pass, which walks the continuity  *)
(* counter, the splice countdown, the seamless splice and the PCRs of the  *)
(* PID at once.  The sender is the muxer: a run of packets counts down to  *)
(* a splicing point and then from it (write_pes_bytes_as_ts), PCRs come    *)
(* at least every MaxSpacing packets, and a new time base is signalled.    *)
(* Time runs at Rate ticks a packet.  The rules that look at one packet    *)
(* alone (its lengths, flags and reserved values) are left out.            *)
(***************************************************************************)
EXTENDS ContinuityCounter, Sequences

CONSTANTS
    MaxRun,       \* the longest countdown
    Starts,       \* the countdowns a run starts with: the packets of its PES packet, less 1
    Posts,        \* post_splice_packets
    Stale,        \* the lowest countdown the field can hold is -Stale, -128
    Pairs,        \* the seamless pairs (splice_type, DTS_next_AU)
    Rate,         \* ticks a packet
    Modulus,      \* PCR_MODULUS_27MHZ
    MaxSpacing,   \* packets between two PCRs the rules allow
    MaxPackets,   \* bound: packets sent
    Bases         \* the first tick of a time base

ASSUME SpliceAssumption == MaxRun \in Nat /\ Starts \subseteq 0 .. MaxRun /\ Posts \subseteq Nat
ASSUME ClockAssumption ==
    /\ Rate \in Nat /\ Modulus \in Nat \ {0} /\ MaxSpacing \in Nat \ {0}
    /\ Bases \subseteq Nat

VARIABLES
    countdown,    \* muxer: splice_countdown of the next payload packet, or NoCount
    post,         \* muxer: packets to annotate behind the splicing point
    pair,         \* muxer: the seamless pair of the splice, or NoPair
    sentSplice,   \* what the packet just sent says of splicing
    sentPcr,      \* whether it has a PCR
    base,         \* the time base: the tick of packet 0
    offset,       \* packets sent
    spacing,      \* packets since the sender's last PCR
    run,          \* validator: SpliceRun
    pcr,          \* validator: PcrState
    charges,      \* the rules the last packet was charged with
    faults,       \* history: what ever went wrong on the way
    recent        \* history: what went wrong since the last annotated packet, the last PCR
                  \* and the last signalled time base arrived

sender    == <<countdown, post, pair, sentSplice, sentPcr, base, offset, spacing>>
validator == <<run, pcr, charges>>
record    == <<faults, recent>>
valVars   == <<vars, sender, validator, record>>

NoCount == MaxRun + 1
NoPair  == "none"
Silent  == [count |-> NoCount, pair |-> NoPair]
NoRun   == [count |-> NoCount, since |-> 0, seamless |-> NoPair]
NoPcr   == [tick |-> -1, at |-> 0]

------------------------------------------------------------------------------
(* The countdown a packet should carry by the last annotated one.          *)
Expected(since) == run.count - since

(* The countdown is wrong, unless a new run starts behind the last point.  *)
CountCharged(splice, since) ==
    /\ run.count # NoCount
    /\ splice.count # Expected(since)
    /\ ~(Expected(since) < 0 /\ splice.count > 0)

SeamlessCharged(splice) == run.seamless # NoPair /\ splice.pair # run.seamless

SeamlessAfter(splice) ==
    IF splice.count <= 0 THEN NoPair
    ELSE IF run.seamless = NoPair THEN splice.pair ELSE run.seamless

(* A packet that counts, without an annotation where the countdown is 0.   *)
MissedZero(since, counts) ==
    counts /\ run.count # NoCount /\ Expected(since) = 0 /\ run.seamless # NoPair

CountsAll(p) == p.payload                \* mutant: a repeated packet is counted
Counts(p) == p.payload /\ Classify(p).kind # "Duplicate"

WalkSpliceOn(p, splice) ==       \* mutant: a wrong countdown does not restart the count
    LET since == IF Counts(p) /\ run.count # NoCount THEN run.since + 1 ELSE run.since
    IN  run' = IF splice # Silent /\ ~CountCharged(splice, since)
               THEN [count |-> splice.count, since |-> 0, seamless |-> SeamlessAfter(splice)]
               ELSE [run EXCEPT !.since = since]

WalkSplice(p, splice) ==
    LET counts == Counts(p)
        since  == IF counts /\ run.count # NoCount THEN run.since + 1 ELSE run.since
    IN  run' = IF splice # Silent
               THEN [count |-> splice.count, since |-> 0, seamless |-> SeamlessAfter(splice)]
               ELSE IF run.count # NoCount /\ Expected(since) < -Stale THEN NoRun
               ELSE [run EXCEPT !.since = since,
                                !.seamless = IF MissedZero(since, counts) THEN NoPair ELSE @]

SpliceCharges(p, splice) ==
    LET since == IF Counts(p) /\ run.count # NoCount THEN run.since + 1 ELSE run.since
    IN  IF splice # Silent
        THEN {c \in {"countdown"} : CountCharged(splice, since)}
                 \cup {c \in {"seamless"} : SeamlessCharged(splice)}
        ELSE {c \in {"seamless"} : MissedZero(since, Counts(p))}

------------------------------------------------------------------------------
(* The PCR of the packet being sent.                                       *)
Tick == (base + offset * Rate) % Modulus

Delta(now, then) == (now + Modulus - then) % Modulus

Anchors(p) == pcr.pending \/ p.di \/ pcr.last = NoPcr

WalkPcrByFirst(p, hasPcr) ==     \* mutant: the anchor stays with the first sample
    LET here == [tick |-> Tick, at |-> offset]
    IN  pcr' = IF hasPcr
               THEN [last |-> here, pending |-> FALSE,
                     anchor |-> IF pcr.anchor = NoPcr THEN here ELSE pcr.anchor]
               ELSE [pcr EXCEPT !.pending = @ \/ p.di]

WalkPcr(p, hasPcr) ==
    LET here == [tick |-> Tick, at |-> offset]
    IN  pcr' = IF hasPcr
               THEN [last |-> here, pending |-> FALSE,
                     anchor |-> IF Anchors(p) THEN here ELSE pcr.anchor]
               ELSE [pcr EXCEPT !.pending = @ \/ p.di]

PcrCharges(p, hasPcr) ==
    {c \in {"interval"} :
        hasPcr /\ ~Anchors(p) /\ Delta(Tick, pcr.last.tick) > Rate * MaxSpacing}

(* The transport rate the report gives, as ticks and packets.              *)
EstimatedRate ==
    [ticks |-> Delta(pcr.last.tick, pcr.anchor.tick), packets |-> pcr.last.at - pcr.anchor.at]

Inspect(p, splice, hasPcr) ==
    /\ WalkSplice(p, splice)
    /\ WalkPcr(p, hasPcr)
    /\ charges' = {c \in {"continuity"} : Classify(p).kind = "Dropped"}
                      \cup SpliceCharges(p, splice) \cup PcrCharges(p, hasPcr)

------------------------------------------------------------------------------
ValInit ==
    /\ Init
    /\ countdown = NoCount /\ post = 0 /\ pair = NoPair
    /\ sentSplice = Silent /\ sentPcr = FALSE
    /\ base \in Bases /\ offset = 0 /\ spacing = 0
    /\ run = NoRun
    /\ pcr = [last |-> NoPcr, anchor |-> NoPcr, pending |-> FALSE]
    /\ charges = {} /\ faults = {} /\ recent = [splice |-> FALSE, pcr |-> FALSE, base |-> FALSE]

(* signal_splice_after, and the PES packet that ends at the point.         *)
ArmSplice ==
    /\ countdown < 0 \/ countdown = NoCount
    /\ \E n \in Starts, behind \in Posts, with \in Pairs \cup {NoPair} :
           countdown' = n /\ post' = behind /\ pair' = with
    /\ UNCHANGED <<vars, sentSplice, sentPcr, base, offset, spacing, validator, record>>

(* signal_time_base_discontinuity: what is stamped from here on belongs to *)
(* a new time base.                                                        *)
NewTimeBase ==
    /\ SignalDiscontinuity
    /\ ~pendingDiscontinuity
    /\ base' \in Bases \ {base}
    /\ spacing' = MaxSpacing
    /\ UNCHANGED <<countdown, post, pair, sentSplice, sentPcr, offset, validator, record>>

Annotation ==
    IF countdown = NoCount THEN Silent
    ELSE [count |-> countdown, pair |-> IF countdown >= 0 THEN pair ELSE NoPair]

CountDown ==
    /\ countdown' = IF countdown = NoCount \/ (countdown <= 0 /\ -countdown = post)
                    THEN NoCount ELSE countdown - 1
    /\ sentSplice' = Annotation
    /\ UNCHANGED <<post, pair>>

(* A packet of the PID goes out: the PCR cadence is the sender's duty.     *)
Sent(hasPcr) ==
    /\ offset < MaxPackets
    /\ hasPcr \/ spacing < MaxSpacing
    /\ offset' = offset + 1
    /\ spacing' = IF hasPcr THEN 1 ELSE spacing + 1
    /\ sentPcr' = hasPcr
    /\ UNCHANGED base

(* Once a packet with an annotation, a PCR, or the start of a time base    *)
(* arrives, the faults before it are accounted for.                        *)
Settled(r, splice, hasPcr, di) ==
    [splice |-> r.splice /\ splice = Silent, pcr |-> r.pcr /\ ~hasPcr, base |-> r.base /\ ~di]

Lost(hasPcr, di) ==
    /\ faults' = faults \cup {"loss"}
    /\ recent' = [splice |-> TRUE, pcr |-> recent.pcr \/ hasPcr, base |-> recent.base \/ di]
    /\ charges' = {}
    /\ UNCHANGED <<run, pcr>>

PayloadArrives(hasPcr) ==
    /\ PayloadDelivered(hasPcr)
    /\ Sent(hasPcr) /\ CountDown
    /\ Inspect(PayloadPacket(hasPcr), Annotation, hasPcr)
    /\ recent' = Settled(recent, Annotation, hasPcr, PayloadPacket(hasPcr).di)
    /\ UNCHANGED faults

PayloadVanishes(hasPcr) ==
    /\ PayloadLost(hasPcr)
    /\ Sent(hasPcr) /\ CountDown
    /\ Lost(hasPcr, PayloadPacket(hasPcr).di)

PcrArrives ==
    /\ PcrOnlyDelivered
    /\ Sent(TRUE)
    /\ sentSplice' = Silent /\ UNCHANGED <<countdown, post, pair>>
    /\ Inspect(PcrOnlyPacket, Silent, TRUE)
    /\ recent' = Settled(recent, Silent, TRUE, PcrOnlyPacket.di)
    /\ UNCHANGED faults

PcrVanishes ==
    /\ PcrOnlyLost
    /\ Sent(TRUE)
    /\ sentSplice' = Silent /\ UNCHANGED <<countdown, post, pair>>
    /\ Lost(TRUE, PcrOnlyPacket.di)

(* A repeated packet has a PCR of its own (section 2.4.3.3).  One repeat   *)
(* of a packet that arrived is no fault; one of a packet that signals a    *)
(* discontinuity is told apart, and one too many is a fault.               *)
RepeatFault ==
    IF ~held THEN {} ELSE IF sent.di THEN {"signal"} ELSE IF copies > 0 THEN {"repeat"} ELSE {}

RepeatArrives ==
    /\ Repeat
    /\ offset < MaxPackets
    /\ spacing < MaxSpacing \/ sentPcr
    /\ pendingDiscontinuity => ~sentPcr       \* before the time base changes
    /\ offset' = offset + 1
    /\ spacing' = IF sentPcr THEN 1 ELSE spacing + 1
    /\ Inspect(sent, sentSplice, sentPcr)
    /\ faults' = faults \cup RepeatFault
    /\ recent' = Settled([recent EXCEPT !.splice = @ \/ RepeatFault # {}],
                         sentSplice, sentPcr, sent.di)
    /\ UNCHANGED <<countdown, post, pair, sentSplice, sentPcr, base>>

ValNext ==
    \/ ArmSplice
    \/ NewTimeBase
    \/ \E hasPcr \in BOOLEAN : PayloadArrives(hasPcr) \/ PayloadVanishes(hasPcr)
    \/ PcrArrives
    \/ PcrVanishes
    \/ RepeatArrives

ValSpec == ValInit /\ [][ValNext]_valVars

------------------------------------------------------------------------------
(* A stream nothing happened to is charged with nothing, whatever the      *)
(* splices, time bases and repeats in it.                                  *)
SoundIsClean == faults = {} => charges = {}

(* A fault is charged once: a countdown is only called wrong when a packet *)
(* was lost or repeated since the last annotated one, or is a repeat too   *)
(* many itself; and an interval too long when a PCR was lost since the     *)
(* last, or the signal of a time base.                                     *)
ChargedOnce ==
    [][offset' # offset =>
          /\ "countdown" \in charges' => recent.splice \/ (RepeatArrives /\ RepeatFault # {})
          /\ "interval" \in charges' => recent.pcr \/ recent.base]_valVars

(* Unless the signal of a time base was lost, the rate the report gives is *)
(* the rate of the stream.                                                 *)
RateIsTrue ==
    pcr.last # NoPcr /\ ~recent.base =>
        EstimatedRate.ticks = (EstimatedRate.packets * Rate) % Modulus
==============================================================================
